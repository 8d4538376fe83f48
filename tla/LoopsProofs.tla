----------------------------- MODULE LoopsProofs -----------------------------
(***************************************************************************)
(* Proofs about Loops, for every set of chats and clocks, every page size, *)
(* threshold and bound: the long poll hands nothing over twice and loses   *)
(* nothing silently, and the monitor's watermark passes no unjudged run.   *)
(***************************************************************************)
EXTENDS Loops, FiniteSetTheorems, TLAPS

(* What an offset that may be absent acknowledges. *)
Mark(o) == IF o = NoOffset THEN 1 ELSE o

(* The ids the server may forget, or will after the next request, exist.   *)
Marks == 1 .. Len(sent) + 1

OffsetsAreMarks ==
  /\ forgotten \in Marks
  /\ offset \in Marks \cup {NoOffset}
  /\ offsetFile \in Marks \cup {NoOffset}

(* What has been handed over at or above id: it is handed over again.      *)
Repeats(id) == \E i \in DOMAIN yielded : yielded[i] >= id

(* Whatever the next request may fetch again was not saved, and a process  *)
(* that stopped had fetched it; and so it is for a request that finds only *)
(* the file.                                                               *)
RefetchedIsUnsaved ==
  /\ \A id \in Nat : id >= Acknowledged /\ Repeats(id) => stops > 0 /\ id \in unsaved
  /\ \A id \in Nat : id >= Greater(forgotten, Mark(offsetFile)) /\ Repeats(id) => id \in unsaved

(* The rest of a page: consecutive ids up to the offset, saved or noted as *)
(* unsaved, and above everything handed over unless it is fetched again.   *)
PageIsNext ==
  page # <<>> =>
    /\ running
    /\ offset \in Nat
    /\ \A k \in DOMAIN page : page[k] = (offset - Len(page)) + k - 1
    /\ forgotten <= page[1]
    /\ offsetFile = offset \/ forgotten .. offset - 1 \subseteq unsaved
    /\ \A k \in DOMAIN page : Repeats(page[k]) => stops > 0 /\ page[k] \in unsaved

(* A stopped process holds nothing. *)
StoppedIsEmpty == ~running => offset = NoOffset /\ page = <<>>

(* What is acknowledged was accounted for. *)
Settled(id) == ~IsEvent(id) \/ Handed(id) \/ id \in ToSet(page) \cup cutOff

AcknowledgedIsSettled ==
  \A id \in 1 .. Len(sent) :
    \/ id < forgotten
    \/ offset # NoOffset /\ id < offset
    \/ offsetFile # NoOffset /\ id < offsetFile
    => Settled(id)

HandedInOrder ==
  \A i, j \in DOMAIN yielded :
    i < j /\ yielded[i] >= yielded[j] => stops > 0 /\ yielded[j] \in unsaved

PollInv ==
  /\ PollTypeOK
  /\ OffsetsAreMarks
  /\ RefetchedIsUnsaved
  /\ PageIsNext
  /\ StoppedIsEmpty
  /\ AcknowledgedIsSettled
  /\ HandedInOrder

-----------------------------------------------------------------------------
LEMMA PollStart == PollInit => PollInv
  <1> SUFFICES ASSUME PollInit PROVE PollInv
    OBVIOUS
  <1> USE PollAssumption DEF PollInit
  <1>1. Len(sent) = 0 /\ DOMAIN yielded = {}
    OBVIOUS
  <1>2. PollTypeOK
    BY <1>1 DEF PollTypeOK, Offsets
  <1>3. OffsetsAreMarks /\ PageIsNext /\ StoppedIsEmpty /\ HandedInOrder
    BY <1>1 DEF OffsetsAreMarks, Marks, PageIsNext, StoppedIsEmpty, HandedInOrder
  <1>4. RefetchedIsUnsaved
    BY <1>1 DEF RefetchedIsUnsaved, Repeats
  <1>5. AcknowledgedIsSettled
    BY <1>1 DEF AcknowledgedIsSettled
  <1>6. QED
    BY <1>2, <1>3, <1>4, <1>5 DEF PollInv

(* The server's answer: the ids from the first it still has. *)
LEMMA ReplyShape ==
  ASSUME PollInv
  PROVE  /\ Acknowledged \in Marks /\ Acknowledged >= forgotten
         /\ LoadOffset \in Marks \cup {NoOffset}
         /\ Acknowledged >= Mark(LoadOffset)
         /\ Acknowledged = Greater(forgotten, Mark(LoadOffset))
         /\ Reply \in Seq(1 .. Len(sent))
         /\ Reply # <<>> =>
              /\ NextOffset(Reply) = Acknowledged + Len(Reply)
              /\ NextOffset(Reply) \in Marks
              /\ ToSet(Reply) = Acknowledged .. NextOffset(Reply) - 1
         /\ \A k \in DOMAIN Reply : Reply[k] = Acknowledged + k - 1
  <1> USE PollAssumption
  <1>1. /\ Len(sent) \in Nat /\ forgotten \in 1 .. Len(sent) + 1
        /\ offset \in (1 .. Len(sent) + 1) \cup {NoOffset}
        /\ offsetFile \in (1 .. Len(sent) + 1) \cup {NoOffset}
    BY DEF PollInv, OffsetsAreMarks, Marks, PollTypeOK
  <1>2. LoadOffset \in (1 .. Len(sent) + 1) \cup {NoOffset}
    BY <1>1 DEF LoadOffset
  <1>3. /\ Acknowledged \in 1 .. Len(sent) + 1 /\ Acknowledged >= forgotten
        /\ Acknowledged >= Mark(LoadOffset)
        /\ Acknowledged = Greater(forgotten, Mark(LoadOffset))
    BY <1>1, <1>2 DEF Acknowledged, Greater, Mark
  <1> DEFINE a == Acknowledged
             n == Lesser(PageSize, (Len(sent) + 1) - a)
  <1>4. n \in Nat /\ a + n <= Len(sent) + 1
    BY <1>1, <1>3 DEF Lesser
  <1>5. Reply = [i \in 1 .. n |-> a + i - 1]
    BY DEF Reply
  <1> HIDE DEF a
  <1>6. /\ Reply \in Seq(1 .. Len(sent)) /\ Len(Reply) = n /\ DOMAIN Reply = 1 .. n
        /\ \A k \in 1 .. n : Reply[k] = a + k - 1
    <2> HIDE DEF n
    <2>1. \A i \in 1 .. n : a + i - 1 \in 1 .. Len(sent)
      BY <1>1, <1>3, <1>4 DEF a
    <2>2. QED
      BY <1>4, <1>5, <2>1
  <1>7. ASSUME Reply # <<>>
        PROVE  /\ NextOffset(Reply) = a + n /\ a + n \in 1 .. Len(sent) + 1
               /\ ToSet(Reply) = a .. (a + n) - 1
    <2> HIDE DEF n
    <2>0. a \in Nat /\ a >= 1
      BY <1>1, <1>3 DEF a
    <2>1. n >= 1
      BY <1>4, <1>6, <1>7
    <2>2. ToSet(Reply) = a .. (a + n) - 1
      <3>1. ToSet(Reply) = {Reply[i] : i \in 1 .. n}
        BY <1>6 DEF ToSet
      <3>2. ASSUME NEW x \in a .. (a + n) - 1 PROVE x \in {Reply[i] : i \in 1 .. n}
        <4>1. (x - a) + 1 \in 1 .. n /\ Reply[(x - a) + 1] = x
          BY <1>4, <1>6, <2>0
        <4>2. QED
          BY <4>1
      <3>3. \A i \in 1 .. n : Reply[i] \in a .. (a + n) - 1
        BY <1>4, <1>6, <2>0
      <3>4. QED
        BY <3>1, <3>2, <3>3
    <2>3. Max(a .. (a + n) - 1) = (a + n) - 1
      BY <1>4, <2>0, <2>1 DEF Max
    <2>4. QED
      BY <1>4, <2>0, <2>1, <2>2, <2>3 DEF NextOffset
  <1>8. QED
    BY <1>2, <1>3, <1>6, <1>7 DEF Marks, a

LEMMA WiderSeq ==
  ASSUME NEW S, NEW T, S \subseteq T, NEW s \in Seq(S)
  PROVE  s \in Seq(T)
  OBVIOUS

(* Appending keeps what is handed over, and adds what is appended. *)
LEMMA AppendedIds ==
  ASSUME NEW S, NEW s \in Seq(S), NEW e \in S
  PROVE  /\ Append(s, e) \in Seq(S)
         /\ ToSet(Append(s, e)) = ToSet(s) \cup {e}
         /\ DOMAIN s = 1 .. Len(s) /\ DOMAIN Append(s, e) = 1 .. Len(s) + 1
         /\ \A i \in DOMAIN s : Append(s, e)[i] = s[i]
         /\ Append(s, e)[Len(s) + 1] = e
  <1>1. /\ Append(s, e) \in Seq(S) /\ Len(s) \in Nat
        /\ DOMAIN s = 1 .. Len(s) /\ DOMAIN Append(s, e) = 1 .. Len(s) + 1
        /\ \A i \in DOMAIN s : Append(s, e)[i] = s[i]
        /\ Append(s, e)[Len(s) + 1] = e
    OBVIOUS
  <1>2. \A i \in 1 .. Len(s) + 1 : i \in 1 .. Len(s) \/ i = Len(s) + 1
    BY <1>1
  <1>3. ToSet(Append(s, e)) = ToSet(s) \cup {e}
    BY <1>1, <1>2 DEF ToSet
  <1>4. QED
    BY <1>1, <1>3

LEMMA SendInv ==
  ASSUME PollInv, NEW update \in Updates, Send(update)
  PROVE  PollInv'
  <1>1. /\ sent' = Append(sent, update)
        /\ UNCHANGED <<forgotten, offset, offsetFile, page, backoff, running, yielded, unsaved,
                       cutOff, stops>>
    BY DEF Send
  <1>2. /\ sent \in Seq(Update) /\ sent' \in Seq(Update) /\ Len(sent) \in Nat
        /\ Len(sent') = Len(sent) + 1
        /\ \A i \in 1 .. Len(sent) : sent'[i] = sent[i]
    <2>1. update \in Update /\ sent \in Seq(Update)
      BY PollAssumption DEF PollInv, PollTypeOK
    <2>2. QED
      BY <1>1, <2>1
  <1>3. page \in Seq(1 .. Len(sent')) /\ yielded \in Seq(1 .. Len(sent'))
    <2>1. 1 .. Len(sent) \subseteq 1 .. Len(sent')
      BY <1>2
    <2>2. page \in Seq(1 .. Len(sent)) /\ yielded \in Seq(1 .. Len(sent))
      BY DEF PollInv, PollTypeOK
    <2>3. QED
      BY <2>1, <2>2, WiderSeq
  <1>4. PollTypeOK'
    BY <1>1, <1>2, <1>3 DEF PollInv, PollTypeOK
  <1>5. OffsetsAreMarks'
    BY <1>1, <1>2 DEF PollInv, OffsetsAreMarks, Marks
  <1>6. RefetchedIsUnsaved' /\ PageIsNext' /\ StoppedIsEmpty' /\ HandedInOrder'
    BY <1>1 DEF PollInv, RefetchedIsUnsaved, PageIsNext, StoppedIsEmpty, HandedInOrder,
                Repeats, Acknowledged, LoadOffset, Greater, Mark
  <1>7. AcknowledgedIsSettled'
    <2> SUFFICES ASSUME NEW id \in 1 .. Len(sent'),
                        \/ id < forgotten
                        \/ offset # NoOffset /\ id < offset
                        \/ offsetFile # NoOffset /\ id < offsetFile
                 PROVE  Settled(id)'
      BY <1>1 DEF AcknowledgedIsSettled
    <2>1. id \in 1 .. Len(sent)
      BY <1>2 DEF PollInv, OffsetsAreMarks, Marks
    <2>2. Settled(id)
      BY <2>1 DEF PollInv, AcknowledgedIsSettled
    <2>3. QED
      BY <1>1, <1>2, <2>1, <2>2 DEF Settled, IsEvent, Handed
  <1>8. QED
    BY <1>4, <1>5, <1>6, <1>7 DEF PollInv

(* What a request is answered, in the terms of the invariant. *)
LEMMA GetUpdatesShape ==
  ASSUME PollInv, GetUpdates
  PROVE  /\ UNCHANGED <<sent, running, yielded, cutOff, stops>>
         /\ running /\ page = <<>> /\ backoff' = 1
         /\ forgotten' = Acknowledged /\ page' = Reply
         /\ unsaved \subseteq unsaved' /\ unsaved' \subseteq unsaved \cup ToSet(Reply)
         /\ \/ /\ Reply = <<>> /\ offset' = LoadOffset
               /\ UNCHANGED <<offsetFile, unsaved>>
            \/ /\ Reply # <<>> /\ offset' = NextOffset(Reply)
               /\ offsetFile' \in {NextOffset(Reply), offsetFile, NoOffset}
               /\ offsetFile' = NextOffset(Reply) \/ ToSet(Reply) \subseteq unsaved'
  BY DEF GetUpdates, Waiting, FileAfterSave

(* The answer becomes the page, and its offset goes to memory and perhaps  *)
(* to the file.                                                            *)
LEMMA GetUpdatesInv ==
  ASSUME PollInv, GetUpdates
  PROVE  PollInv'
  <1> DEFINE a == Acknowledged
             n == Len(Reply)
  <1>1. /\ UNCHANGED <<sent, running, yielded, cutOff, stops>>
        /\ running /\ page = <<>> /\ backoff' = 1
        /\ forgotten' = a /\ page' = Reply
        /\ unsaved \subseteq unsaved' /\ unsaved' \subseteq unsaved \cup ToSet(Reply)
    BY GetUpdatesShape
  <1>2. /\ a \in Marks /\ a \in Nat /\ n \in Nat
        /\ a = Greater(forgotten, Mark(LoadOffset))
        /\ Reply \in Seq(1 .. Len(sent)) /\ DOMAIN Reply = 1 .. n
        /\ \A k \in 1 .. n : Reply[k] = a + k - 1
        /\ forgotten \in Marks /\ offset \in Marks \cup {NoOffset}
        /\ offsetFile \in Marks \cup {NoOffset} /\ LoadOffset \in Marks \cup {NoOffset}
        /\ Marks \subseteq Nat /\ NoOffset \notin Nat /\ NoOffset \notin Marks
        /\ Len(sent) \in Nat
    <2>1. Marks \subseteq Nat /\ NoOffset \notin Nat /\ Len(sent) \in Nat
      BY PollAssumption DEF Marks, PollInv, PollTypeOK
    <2>2. n \in Nat /\ DOMAIN Reply = 1 .. n
      <3>1. Reply \in Seq(1 .. Len(sent))
        BY ReplyShape
      <3>2. QED
        BY <3>1
    <2>3. QED
      BY <2>1, <2>2, ReplyShape DEF PollInv, OffsetsAreMarks
  <1>3. \/ /\ Reply = <<>> /\ n = 0 /\ offset' = LoadOffset
           /\ UNCHANGED <<offsetFile, unsaved>>
        \/ /\ Reply # <<>> /\ n >= 1 /\ offset' = a + n /\ a + n \in Marks
           /\ offsetFile' \in {a + n, offsetFile, NoOffset}
           /\ ToSet(Reply) = a .. (a + n) - 1
           /\ offsetFile' = a + n \/ a .. (a + n) - 1 \subseteq unsaved'
    BY <1>2, GetUpdatesShape, ReplyShape
  <1>4. ToSet(Reply) \subseteq 1 .. Len(sent)
    BY <1>2 DEF ToSet
  <1> HIDE DEF a, n
  <1>5. OffsetsAreMarks'
    BY <1>1, <1>2, <1>3 DEF OffsetsAreMarks, Marks
  <1>6. PollTypeOK'
    <2>1. 1 \in 1 .. BackoffMax
      BY PollAssumption
    <2>2. offset' \in Offsets /\ offsetFile' \in Offsets
      BY <1>2, <1>3 DEF Offsets
    <2>3. unsaved' \subseteq 1 .. Len(sent)
      BY <1>1, <1>4 DEF PollInv, PollTypeOK
    <2>4. QED
      BY <1>1, <1>2, <2>1, <2>2, <2>3 DEF PollInv, PollTypeOK
  <1>7. Acknowledged' \in Nat /\ Acknowledged' >= a
    <2>1. offset' \in Marks \cup {NoOffset} /\ offsetFile' \in Marks \cup {NoOffset}
      BY <1>2, <1>3
    <2>2. LoadOffset' \in Nat \cup {NoOffset}
      BY <1>2, <2>1 DEF LoadOffset
    <2>3. QED
      BY <1>1, <1>2, <2>2 DEF Acknowledged, Greater
  <1>8. \A id \in Nat : id >= a /\ Repeats(id) => stops > 0 /\ id \in unsaved
    BY DEF PollInv, RefetchedIsUnsaved, a
  <1>9. \A id \in Nat : Repeats(id)' <=> Repeats(id)
    BY <1>1 DEF Repeats
  <1>10. RefetchedIsUnsaved'
    <2> DEFINE g == Greater(forgotten', Mark(offsetFile'))
    <2>1. g \in Nat /\ g >= a
      <3>1. Mark(offsetFile') \in Nat
        BY <1>2, <1>3 DEF Mark
      <3>2. QED
        BY <1>1, <1>2, <3>1 DEF Greater
    <2> HIDE DEF g
    <2>2. \A id \in Nat : id >= g => id >= a
      BY <1>2, <2>1
    <2>3. \A id \in Nat : id >= Acknowledged' => id >= a
      BY <1>2, <1>7
    <2>4. \A id \in Nat : id >= g /\ Repeats(id)' => id \in unsaved'
      BY <1>1, <1>8, <1>9, <2>2
    <2>5. \A id \in Nat : id >= Acknowledged' /\ Repeats(id)' => stops' > 0 /\ id \in unsaved'
      BY <1>1, <1>8, <1>9, <2>3
    <2>6. QED
      BY <2>4, <2>5 DEF RefetchedIsUnsaved, Mark, Greater, g
  <1>11. PageIsNext'
    <2> SUFFICES ASSUME Reply # <<>> PROVE PageIsNext'
      BY <1>1 DEF PageIsNext
    <2>1. /\ offset' = a + n /\ offset' \in Nat /\ Len(page') = n
          /\ \A k \in DOMAIN page' : page'[k] = (offset' - Len(page')) + k - 1
      BY <1>1, <1>2, <1>3 DEF n
    <2>2. forgotten' <= page'[1]
      BY <1>1, <1>2, <1>3
    <2>3. offsetFile' = offset' \/ forgotten' .. offset' - 1 \subseteq unsaved'
      BY <1>1, <1>3
    <2>4. (\A k \in DOMAIN page : Repeats(page[k]) => stops > 0 /\ page[k] \in unsaved)'
      <3>1. \A k \in 1 .. n : page'[k] \in Nat /\ page'[k] >= a
        BY <1>1, <1>2
      <3>2. DOMAIN page' = 1 .. n
        BY <1>1, <1>2
      <3>3. QED
        BY <1>1, <1>8, <3>1, <3>2 DEF Repeats
    <2>5. running' /\ page' # <<>>
      BY <1>1
    <2>6. QED
      BY <2>1, <2>2, <2>3, <2>4, <2>5 DEF PageIsNext
  <1>12. StoppedIsEmpty' /\ HandedInOrder'
    BY <1>1 DEF PollInv, StoppedIsEmpty, HandedInOrder
  <1>13. AcknowledgedIsSettled'
    <2> SUFFICES ASSUME NEW id \in 1 .. Len(sent),
                        \/ id < forgotten'
                        \/ offset' # NoOffset /\ id < offset'
                        \/ offsetFile' # NoOffset /\ id < offsetFile'
                 PROVE  Settled(id)'
      BY <1>1 DEF AcknowledgedIsSettled
    <2>1. CASE id \in ToSet(Reply)
      BY <1>1, <2>1 DEF Settled
    <2>2. CASE id \notin ToSet(Reply)
      <3>1. id < a \/ (offsetFile # NoOffset /\ id < offsetFile)
        BY <1>1, <1>2, <1>3, <2>2 DEF Greater, Mark
      <3>2. \/ id < forgotten
            \/ offset # NoOffset /\ id < offset
            \/ offsetFile # NoOffset /\ id < offsetFile
        BY <1>2, <3>1 DEF LoadOffset, Greater, Mark
      <3>3. Settled(id)
        BY <3>2 DEF PollInv, AcknowledgedIsSettled
      <3>4. ToSet(page) = {}
        BY <1>1 DEF ToSet
      <3>5. QED
        BY <1>1, <3>3, <3>4 DEF Settled, IsEvent, Handed
    <2>3. QED
      BY <2>1, <2>2
  <1>14. QED
    BY <1>5, <1>6, <1>10, <1>11, <1>12, <1>13 DEF PollInv

(* The ranges that the arithmetic of the poll needs. *)
LEMMA PollRanges ==
  ASSUME PollInv
  PROVE  /\ Len(sent) \in Nat /\ NoOffset \notin Nat /\ NoOffset \notin Marks /\ Marks \subseteq Nat
         /\ forgotten \in Marks /\ forgotten \in Nat
         /\ offset \in Marks \cup {NoOffset} /\ offsetFile \in Marks \cup {NoOffset}
         /\ Mark(offsetFile) \in Nat
         /\ Acknowledged \in Nat /\ Acknowledged >= forgotten
         /\ yielded \in Seq(1 .. Len(sent)) /\ page \in Seq(1 .. Len(sent))
         /\ \A i \in DOMAIN yielded : yielded[i] \in Nat
         /\ 1 .. Len(sent) \subseteq Nat
  <1>1. /\ Len(sent) \in Nat /\ NoOffset \notin Nat /\ NoOffset \notin Marks /\ Marks \subseteq Nat
        /\ forgotten \in Marks
        /\ offset \in Marks \cup {NoOffset} /\ offsetFile \in Marks \cup {NoOffset}
        /\ yielded \in Seq(1 .. Len(sent)) /\ page \in Seq(1 .. Len(sent))
    BY PollAssumption DEF PollInv, PollTypeOK, OffsetsAreMarks, Marks
  <1>2. Mark(offsetFile) \in Nat
    BY <1>1 DEF Mark, Marks
  <1>3. Acknowledged \in Nat /\ Acknowledged >= forgotten
    BY <1>1, ReplyShape
  <1>4. \A i \in DOMAIN yielded : yielded[i] \in Nat
    BY <1>1
  <1>5. QED
    BY <1>1, <1>2, <1>3, <1>4

(* A failed request loads the offset and may have moved the server's.      *)
LEMMA TransportErrorInv ==
  ASSUME PollInv, TransportError
  PROVE  PollInv'
  <1> DEFINE a == Acknowledged
  <1>1. /\ running /\ page = <<>>
        /\ forgotten' \in {forgotten, a} /\ offset' = LoadOffset
        /\ backoff' = Lesser(2 * backoff, BackoffMax)
        /\ UNCHANGED <<sent, offsetFile, page, running, yielded, unsaved, cutOff, stops>>
    BY DEF TransportError, Waiting
  <1>2. /\ a \in Marks /\ a = Greater(forgotten, Mark(LoadOffset))
        /\ LoadOffset \in Marks \cup {NoOffset}
    BY ReplyShape
  <1>3. Acknowledged' = a
    BY <1>1, <1>2, PollRanges DEF Acknowledged, LoadOffset, Greater, Mark
  <1>4. PollTypeOK'
    <2>1. backoff' \in 1 .. BackoffMax
      BY <1>1, PollAssumption DEF PollInv, PollTypeOK, Lesser
    <2>2. QED
      BY <1>1, <1>2, <2>1, PollRanges DEF PollInv, PollTypeOK, Offsets, a
  <1>5. OffsetsAreMarks'
    BY <1>1, <1>2, PollRanges DEF OffsetsAreMarks, Marks
  <1>6. PageIsNext' /\ StoppedIsEmpty' /\ HandedInOrder'
    BY <1>1 DEF PollInv, PageIsNext, StoppedIsEmpty, HandedInOrder
  <1>7. RefetchedIsUnsaved'
    <2>1. \A id \in Nat : Repeats(id)' <=> Repeats(id)
      BY <1>1 DEF Repeats
    <2>2. \A id \in Nat : id >= Greater(forgotten', Mark(offsetFile))
                            => id >= Greater(forgotten, Mark(offsetFile))
      BY <1>1, PollRanges DEF Greater
    <2>3. Greater(forgotten, Mark(offsetFile))' = Greater(forgotten', Mark(offsetFile))
      BY <1>1 DEF Greater, Mark
    <2>4. QED
      BY <1>1, <1>3, <2>1, <2>2, <2>3 DEF PollInv, RefetchedIsUnsaved
  <1>8. AcknowledgedIsSettled'
    <2> SUFFICES ASSUME NEW id \in 1 .. Len(sent),
                        \/ id < forgotten'
                        \/ offset' # NoOffset /\ id < offset'
                        \/ offsetFile # NoOffset /\ id < offsetFile
                 PROVE  Settled(id)'
      BY <1>1 DEF AcknowledgedIsSettled
    <2>1. \/ id < forgotten
          \/ offset # NoOffset /\ id < offset
          \/ offsetFile # NoOffset /\ id < offsetFile
      BY <1>1, <1>2, PollRanges DEF LoadOffset, Greater, Mark
    <2>2. Settled(id)
      BY <2>1 DEF PollInv, AcknowledgedIsSettled
    <2>3. QED
      BY <1>1, <2>2 DEF Settled, IsEvent, Handed
  <1>9. QED
    BY <1>4, <1>5, <1>6, <1>7, <1>8 DEF PollInv

(* The first id of the page is handed over, or is nothing to hand over.    *)
LEMMA YieldInv ==
  ASSUME PollInv, Yield
  PROVE  PollInv'
  <1> DEFINE id == Head(page)
             n == Len(page)
  <1>1. /\ running /\ page # <<>> /\ page' = Tail(page)
        /\ yielded' = IF IsEvent(id) THEN Append(yielded, id) ELSE yielded
        /\ UNCHANGED <<sent, forgotten, offset, offsetFile, backoff, running, unsaved, cutOff,
                       stops>>
    BY DEF Yield
  <1>2. /\ n \in Nat /\ n >= 1 /\ DOMAIN page = 1 .. n /\ id = page[1] /\ id \in 1 .. Len(sent)
        /\ page' \in Seq(1 .. Len(sent)) /\ Len(page') = n - 1 /\ DOMAIN page' = 1 .. n - 1
        /\ \A k \in 1 .. n - 1 : page'[k] = page[k + 1] /\ k + 1 \in 1 .. n
    BY <1>1, PollRanges
  <1>3. /\ offset \in Nat /\ \A k \in 1 .. n : page[k] = (offset - n) + k - 1
        /\ forgotten <= id
        /\ offsetFile = offset \/ forgotten .. offset - 1 \subseteq unsaved
        /\ \A k \in 1 .. n : Repeats(page[k]) => stops > 0 /\ page[k] \in unsaved
    BY <1>1, <1>2 DEF PollInv, PageIsNext
  <1> HIDE DEF id, n
  <1>4. id \in Nat /\ id = offset - n
    BY <1>2, <1>3
  <1>5. ToSet(page) = ToSet(page') \cup {id}
    <2>1. \A k \in 1 .. n : k = 1 \/ (k - 1 \in 1 .. n - 1 /\ page[k] = page'[k - 1])
      BY <1>2
    <2>2. 1 \in 1 .. n
      BY <1>2
    <2>3. ToSet(page) = {page[k] : k \in 1 .. n} /\ ToSet(page') = {page'[k] : k \in 1 .. n - 1}
      BY <1>2 DEF ToSet
    <2>4. \A k \in 1 .. n : page[k] \in ToSet(page') \cup {id}
      BY <1>2, <2>1, <2>3
    <2>5. \A k \in 1 .. n - 1 : page'[k] \in ToSet(page)
      BY <1>2, <2>3
    <2>6. id \in ToSet(page)
      BY <1>2, <2>2, <2>3
    <2>7. QED
      BY <2>3, <2>4, <2>5, <2>6
  <1>6. /\ yielded' \in Seq(1 .. Len(sent))
        /\ ToSet(yielded) \subseteq ToSet(yielded')
        /\ IsEvent(id) => id \in ToSet(yielded')
        /\ \A i \in DOMAIN yielded' :
             \/ i \in DOMAIN yielded /\ yielded'[i] = yielded[i]
             \/ yielded'[i] = id /\ i \notin DOMAIN yielded
        /\ \A i \in DOMAIN yielded' : yielded'[i] \in Nat
        /\ \A i, j \in DOMAIN yielded' : i < j /\ j \in DOMAIN yielded => i \in DOMAIN yielded
        /\ \A i, j \in DOMAIN yielded' : i < j /\ j \notin DOMAIN yielded => i \in DOMAIN yielded
    <2>1. yielded \in Seq(1 .. Len(sent)) /\ DOMAIN yielded = 1 .. Len(yielded)
          /\ Len(yielded) \in Nat
      BY PollRanges
    <2>2. CASE ~IsEvent(id)
      BY <1>1, <2>1, <2>2, PollRanges
    <2>3. CASE IsEvent(id)
      <3>1. yielded' = Append(yielded, id)
        BY <1>1, <2>3
      <3>2. /\ yielded' \in Seq(1 .. Len(sent))
            /\ ToSet(yielded') = ToSet(yielded) \cup {id}
            /\ DOMAIN yielded' = 1 .. Len(yielded) + 1
            /\ \A i \in DOMAIN yielded : yielded'[i] = yielded[i]
            /\ yielded'[Len(yielded) + 1] = id
        <4> DEFINE ids == 1 .. Len(sent)
        <4>1. yielded \in Seq(ids) /\ id \in ids
          BY <1>2, <2>1
        <4> HIDE DEF ids
        <4>2. /\ Append(yielded, id) \in Seq(ids)
              /\ ToSet(Append(yielded, id)) = ToSet(yielded) \cup {id}
              /\ DOMAIN Append(yielded, id) = 1 .. Len(yielded) + 1
              /\ \A i \in DOMAIN yielded : Append(yielded, id)[i] = yielded[i]
              /\ Append(yielded, id)[Len(yielded) + 1] = id
          BY <4>1, AppendedIds
        <4>3. QED
          BY <3>1, <4>2 DEF ids
      <3>3. \A i \in 1 .. Len(yielded) + 1 : i \in 1 .. Len(yielded) \/ i = Len(yielded) + 1
        BY <2>1
      <3>4. Len(yielded) + 1 \notin 1 .. Len(yielded)
        BY <2>1
      <3>5. \A i \in DOMAIN yielded' :
              \/ i \in DOMAIN yielded /\ yielded'[i] = yielded[i]
              \/ yielded'[i] = id /\ i \notin DOMAIN yielded
        BY <2>1, <3>2, <3>3, <3>4
      <3>6. \A i \in DOMAIN yielded' : yielded'[i] \in Nat
        BY <1>4, <3>5, PollRanges
      <3>7. /\ \A i, j \in DOMAIN yielded' : i < j /\ j \in DOMAIN yielded => i \in DOMAIN yielded
            /\ \A i, j \in DOMAIN yielded' : i < j /\ j \notin DOMAIN yielded => i \in DOMAIN yielded
        BY <2>1, <3>2, <3>3
      <3>8. QED
        BY <3>2, <3>5, <3>6, <3>7
    <2>4. QED
      BY <2>2, <2>3
  <1>7. \A x \in Nat : Repeats(x)' => Repeats(x) \/ x <= id
    BY <1>6 DEF Repeats
  <1>8. PollTypeOK' /\ OffsetsAreMarks' /\ StoppedIsEmpty'
    BY <1>1, <1>2, <1>6, PollRanges
    DEF PollInv, PollTypeOK, OffsetsAreMarks, Marks, StoppedIsEmpty
  <1>9. RefetchedIsUnsaved'
    <2>1. Acknowledged' = Acknowledged /\ Acknowledged > id
      <3>1. Acknowledged >= offset
        BY <1>3, PollRanges DEF Acknowledged, LoadOffset, Greater
      <3>2. QED
        BY <1>1, <1>2, <1>3, <1>4, <3>1, PollRanges DEF Acknowledged, LoadOffset, Greater
    <2>2. ASSUME NEW x \in Nat, x >= Acknowledged, Repeats(x)'
          PROVE  stops > 0 /\ x \in unsaved
      BY <1>4, <1>7, <2>1, <2>2, PollRanges DEF PollInv, RefetchedIsUnsaved
    <2> DEFINE g == Greater(forgotten, Mark(offsetFile))
    <2>3. g' = g
      BY <1>1 DEF Greater, Mark
    <2>4. ASSUME NEW x \in Nat, x >= g, Repeats(x)'
          PROVE  x \in unsaved
      <3>1. CASE Repeats(x)
        BY <2>4, <3>1 DEF PollInv, RefetchedIsUnsaved
      <3>2. CASE ~Repeats(x)
        <4>1. x <= id /\ x < offset
          BY <1>2, <1>3, <1>4, <1>7, <2>4, <3>2
        <4>2. x >= forgotten /\ (offsetFile # NoOffset => x >= offsetFile)
          BY <2>4, PollRanges DEF Greater, Mark
        <4>3. offsetFile # offset
          BY <1>3, <4>1, <4>2, PollRanges
        <4>4. x \in forgotten .. offset - 1
          BY <1>3, <4>1, <4>2, PollRanges
        <4>5. QED
          BY <1>3, <4>3, <4>4
      <3>3. QED
        BY <3>1, <3>2
    <2> HIDE DEF g
    <2>5. QED
      BY <1>1, <2>1, <2>2, <2>3, <2>4 DEF RefetchedIsUnsaved, g
  <1>10. PageIsNext'
    <2> SUFFICES ASSUME page' # <<>> PROVE PageIsNext'
      BY DEF PageIsNext
    <2>1. n >= 2 /\ page'[1] = page[2]
      BY <1>2
    <2>2. \A k \in 1 .. n - 1 : page'[k] = (offset - (n - 1)) + k - 1
      BY <1>2, <1>3
    <2>3. forgotten <= page'[1]
      BY <1>2, <1>3, <1>4, <2>1, PollRanges
    <2>4. (\A k \in DOMAIN page : Repeats(page[k]) => stops > 0 /\ page[k] \in unsaved)'
      <3> SUFFICES ASSUME NEW k \in 1 .. n - 1, NEW i \in DOMAIN yielded', yielded'[i] >= page'[k]
                   PROVE  stops > 0 /\ page'[k] \in unsaved
        BY <1>1, <1>2 DEF Repeats
      <3>1. page'[k] = page[k + 1] /\ k + 1 \in 1 .. n /\ page[k + 1] > id /\ page[k + 1] \in Nat
        BY <1>2, <1>3, <1>4
      <3>2. i \in DOMAIN yielded /\ yielded[i] >= page[k + 1]
        BY <1>4, <1>6, <3>1
      <3>3. QED
        BY <1>3, <3>1, <3>2 DEF Repeats
    <2>5. QED
      BY <1>1, <1>2, <1>3, <2>2, <2>3, <2>4 DEF PageIsNext
  <1>11. HandedInOrder'
    <2> SUFFICES ASSUME NEW i \in DOMAIN yielded', NEW j \in DOMAIN yielded',
                        i < j, yielded'[i] >= yielded'[j]
                 PROVE  stops > 0 /\ yielded'[j] \in unsaved
      BY <1>1 DEF HandedInOrder
    <2>1. CASE j \in DOMAIN yielded
      BY <1>6, <2>1 DEF PollInv, HandedInOrder
    <2>2. CASE j \notin DOMAIN yielded
      <3>1. yielded'[j] = id /\ i \in DOMAIN yielded /\ yielded[i] >= id
        BY <1>6, <2>2
      <3>2. 1 \in 1 .. n /\ id = page[1]
        BY <1>2
      <3>3. QED
        BY <1>3, <3>1, <3>2 DEF Repeats
    <2>3. QED
      BY <2>1, <2>2
  <1>12. AcknowledgedIsSettled'
    <2> SUFFICES ASSUME NEW x \in 1 .. Len(sent), Settled(x) PROVE Settled(x)'
      BY <1>1 DEF PollInv, AcknowledgedIsSettled
    <2>1. IsEvent(x)' <=> IsEvent(x)
      BY <1>1 DEF IsEvent
    <2>2. CASE x = id
      BY <1>6, <2>1, <2>2 DEF Settled, Handed
    <2>3. CASE x # id
      BY <1>1, <1>5, <1>6, <2>1, <2>3 DEF Settled, Handed
    <2>4. QED
      BY <2>2, <2>3
  <1>13. QED
    BY <1>8, <1>9, <1>10, <1>11, <1>12 DEF PollInv

(* The process stops, between two steps or in the middle of a save: it     *)
(* keeps only the file, and that may be torn.                              *)
LEMMA StopInv ==
  ASSUME PollInv, Stop
  PROVE  PollInv'
  <1> DEFINE a == Acknowledged
  <1>1. /\ running /\ stops < MaxStops /\ stops' = stops + 1 /\ ~running' /\ running' \in BOOLEAN
        /\ offset' = NoOffset /\ page' = <<>> /\ backoff' = 1
        /\ cutOff' = cutOff \cup ToSet(page)
        /\ UNCHANGED <<sent, yielded>>
    BY DEF Stop
  <1>2. \/ UNCHANGED <<forgotten, offsetFile, unsaved>>
        \/ /\ page = <<>> /\ forgotten' = a /\ offsetFile' = NoOffset
           /\ unsaved' = unsaved \cup ToSet(Reply)
    BY DEF Stop
  <1>3. /\ a \in Marks /\ a \in Nat /\ a >= 1
        /\ ToSet(Reply) \subseteq 1 .. Len(sent)
        /\ a = Greater(forgotten, Mark(LoadOffset))
        /\ LoadOffset \in Marks \cup {NoOffset}
    <2>1. Reply \in Seq(1 .. Len(sent))
      BY ReplyShape
    <2>2. ToSet(Reply) \subseteq 1 .. Len(sent)
      BY <2>1 DEF ToSet
    <2>3. QED
      BY <2>2, ReplyShape, PollRanges DEF Marks
  <1> HIDE DEF a
  <1>4. PollTypeOK'
    <2>1. stops' \in 0 .. MaxStops /\ 1 \in 1 .. BackoffMax
      BY <1>1, PollAssumption DEF PollInv, PollTypeOK
    <2>2. ToSet(page) \subseteq 1 .. Len(sent)
      BY PollRanges DEF ToSet
    <2>3. forgotten' \in Nat /\ offset' \in Offsets /\ offsetFile' \in Offsets
      BY <1>1, <1>2, <1>3 DEF PollInv, PollTypeOK, Offsets
    <2>4. unsaved' \subseteq 1 .. Len(sent) /\ cutOff' \subseteq 1 .. Len(sent)
      BY <1>1, <1>2, <1>3, <2>2 DEF PollInv, PollTypeOK
    <2>5. page' \in Seq(1 .. Len(sent))
      BY <1>1
    <2>6. QED
      BY <1>1, <2>1, <2>3, <2>4, <2>5 DEF PollInv, PollTypeOK
  <1>5. OffsetsAreMarks'
    BY <1>1, <1>2, <1>3, PollRanges DEF OffsetsAreMarks, Marks
  <1>6. PageIsNext' /\ StoppedIsEmpty'
    BY <1>1 DEF PageIsNext, StoppedIsEmpty
  <1>7. stops \in Nat /\ unsaved \subseteq unsaved'
    BY <1>2 DEF PollInv, PollTypeOK
  <1>8. HandedInOrder'
    BY <1>1, <1>7 DEF PollInv, HandedInOrder
  <1>9. RefetchedIsUnsaved'
    <2> DEFINE g == Greater(forgotten', Mark(offsetFile'))
    <2>1. Acknowledged' = g /\ g \in Nat
      <3>1. forgotten' \in Nat /\ forgotten' >= 1
        BY <1>2, <1>3, PollRanges DEF Marks
      <3>2. offsetFile' \in Marks \cup {NoOffset}
        BY <1>2, PollRanges
      <3>3. LoadOffset' = offsetFile'
        BY <1>1 DEF LoadOffset
      <3>4. CASE offsetFile' = NoOffset
        BY <3>1, <3>3, <3>4 DEF Acknowledged, Greater, Mark
      <3>5. CASE offsetFile' \in Nat
        BY <3>1, <3>3, <3>5, PollRanges DEF Acknowledged, Greater, Mark
      <3>6. QED
        BY <3>2, <3>4, <3>5, PollRanges
    <2>2. ASSUME NEW id \in Nat, id >= g, Repeats(id)
          PROVE  id \in unsaved'
      <3>1. CASE UNCHANGED <<forgotten, offsetFile, unsaved>>
        BY <2>2, <3>1 DEF PollInv, RefetchedIsUnsaved
      <3>2. CASE forgotten' = a /\ offsetFile' = NoOffset
        <4>1. g = a
          BY <1>3, <3>2 DEF Greater, Mark
        <4>2. id \in unsaved
          BY <2>2, <4>1 DEF PollInv, RefetchedIsUnsaved, a
        <4>3. QED
          BY <1>7, <4>2
      <3>3. QED
        BY <1>2, <3>1, <3>2
    <2>3. \A id \in Nat : Repeats(id)' <=> Repeats(id)
      BY <1>1 DEF Repeats
    <2>4. stops' > 0
      BY <1>1, <1>7
    <2>5. Greater(forgotten, Mark(offsetFile))' = g
      BY DEF Greater, Mark
    <2> HIDE DEF g
    <2>6. QED
      BY <2>1, <2>2, <2>3, <2>4, <2>5 DEF RefetchedIsUnsaved
  <1>10. AcknowledgedIsSettled'
    <2> SUFFICES ASSUME NEW id \in 1 .. Len(sent),
                        id < forgotten' \/ (offsetFile' # NoOffset /\ id < offsetFile')
                 PROVE  Settled(id)'
      BY <1>1 DEF AcknowledgedIsSettled
    <2>1. \/ id < forgotten
          \/ offset # NoOffset /\ id < offset
          \/ offsetFile # NoOffset /\ id < offsetFile
      BY <1>2, <1>3, PollRanges DEF LoadOffset, Greater, Mark
    <2>2. Settled(id)
      BY <2>1 DEF PollInv, AcknowledgedIsSettled
    <2>3. QED
      BY <1>1, <2>2 DEF Settled, IsEvent, Handed
  <1>11. QED
    BY <1>4, <1>5, <1>6, <1>8, <1>9, <1>10 DEF PollInv

(* A step that changes nothing but whether the process runs.               *)
LEMMA PollStill ==
  ASSUME PollInv,
         UNCHANGED <<sent, forgotten, offset, offsetFile, page, backoff, yielded, unsaved,
                     cutOff, stops>>,
         running' = running \/ running' = TRUE
  PROVE  PollInv'
  <1>1. PollTypeOK' /\ OffsetsAreMarks' /\ StoppedIsEmpty' /\ PageIsNext' /\ HandedInOrder'
    BY DEF PollInv, PollTypeOK, OffsetsAreMarks, Marks, StoppedIsEmpty, PageIsNext,
           HandedInOrder, Repeats
  <1>2. RefetchedIsUnsaved'
    BY DEF PollInv, RefetchedIsUnsaved, Acknowledged, LoadOffset, Repeats, Greater, Mark
  <1>3. AcknowledgedIsSettled'
    BY DEF PollInv, AcknowledgedIsSettled, Settled, IsEvent, Handed
  <1>4. QED
    BY <1>1, <1>2, <1>3 DEF PollInv

LEMMA PollStep == PollInv /\ [PollNext]_pollVars => PollInv'
  <1> SUFFICES ASSUME PollInv, [PollNext]_pollVars PROVE PollInv'
    OBVIOUS
  <1>1. CASE \E update \in Updates : Send(update)
    BY <1>1, SendInv
  <1>2. CASE GetUpdates
    BY <1>2, GetUpdatesInv
  <1>3. CASE TransportError
    BY <1>3, TransportErrorInv
  <1>4. CASE Yield
    BY <1>4, YieldInv
  <1>5. CASE Stop
    BY <1>5, StopInv
  <1>6. CASE Restart \/ UNCHANGED pollVars
    BY <1>6, PollStill DEF Restart, pollVars
  <1>7. QED
    BY <1>1, <1>2, <1>3, <1>4, <1>5, <1>6 DEF PollNext

LEMMA PollIsFaithfulByInv == PollInv => PollIsFaithful
  <1> SUFFICES ASSUME PollInv PROVE PollIsFaithful
    OBVIOUS
  <1>1. HandedInOrder
    BY DEF PollInv
  <1>2. \A id \in 1 .. Len(sent) :
          id < forgotten \/ (offset # NoOffset /\ id < offset) => Settled(id)
    BY DEF PollInv, AcknowledgedIsSettled
  <1>3. QED
    BY <1>1, <1>2 DEF PollIsFaithful, HandedInOrder, Settled

-----------------------------------------------------------------------------
(* The monitor. *)

(* What a pass read is in the log, with every older record of the log.     *)
ReadsThePast ==
  \A b \in Beats : pass[b] # "idle" =>
    /\ runs[b] \subseteq ReadRuns
    /\ \A r \in ReadRuns, q \in runs[b] : r <= q => r \in runs[b]

(* What it did not take up was graded before, what it took up is graded by *)
(* the time it moves the watermark, and it takes up something.             *)
TakesUpTheRest ==
  \A b \in Beats :
    /\ pass[b] \in {"grading", "graded", "reporting"} =>
         /\ pending[b] \subseteq runs[b] /\ runs[b] # {}
         /\ runs[b] \ pending[b] \subseteq Graded
    /\ pass[b] \in {"graded", "reporting"} => pending[b] \subseteq Graded

(* A pass has findings only once it has graded.                            *)
FoundByGrading == \A b \in Beats : pass[b] \in {"idle", "read", "grading"} => found[b] = {}

(* Only problems are reported. *)
FindingsAreProblems == \A f \in told \cup InHand : f \in Finding /\ IsProblem(Verdict(f[2]))

BeatInv ==
  /\ BeatTypeOK
  /\ watermark <= Len(runLog) /\ Len(runLog) <= MaxRuns
  /\ ReadsThePast
  /\ TakesUpTheRest
  /\ FoundByGrading
  /\ FindingsAreProblems
  /\ NothingSlipsPast

-----------------------------------------------------------------------------
(* A nonempty set of run ids has a newest member. *)
LEMMA NewestExists ==
  ASSUME NEW N \in Nat, NEW R, R \subseteq 1 .. N, R # {}
  PROVE  Max(R) \in R /\ \A r \in R : r <= Max(R)
  <1> DEFINE lt == {p \in Nat \X Nat : p[1] < p[2]}
             T == {k \in Nat : k <= N /\ N - k \in R}
  <1>1. IsWellFoundedOn(lt, Nat)
    BY NatLessThanWellFounded DEF OpToRel
  <1>2. PICK r \in R : TRUE
    OBVIOUS
  <1>3. N - r \in T /\ T \subseteq Nat
    <2>1. r \in Nat /\ N - r \in Nat /\ N - r <= N /\ N - (N - r) = r
      BY <1>2
    <2>2. QED
      BY <2>1
  <1>4. \E k \in T : \A j \in T : <<j, k>> \notin lt
    <2> HIDE DEF lt, T
    <2>1. QED
      BY <1>1, <1>3, WFMin
  <1>5. PICK k \in T : \A j \in T : <<j, k>> \notin lt
    BY <1>4
  <1>6. \A j \in T : k <= j
    <2> SUFFICES ASSUME NEW j \in T PROVE ~(j < k)
      OBVIOUS
    <2>1. <<j, k>> \in Nat \X Nat /\ <<j, k>>[1] = j /\ <<j, k>>[2] = k
      OBVIOUS
    <2>2. QED
      BY <1>5, <2>1
  <1>7. ASSUME NEW q \in R PROVE N - k >= q
    <2>1. q \in Nat /\ q <= N /\ N - q \in T
      <3>1. q \in Nat /\ q <= N /\ N - q \in Nat /\ N - q <= N /\ N - (N - q) = q
        OBVIOUS
      <3>2. QED
        BY <3>1
    <2>2. QED
      BY <1>6, <2>1
  <1>8. N - k \in R
    OBVIOUS
  <1> HIDE DEF lt, T
  <1>9. \A q \in R : q \in Nat
    OBVIOUS
  <1>10. QED
    BY <1>7, <1>8, <1>9 DEF Max

(* A problem verdict rests on a rationale.                                 *)
LEMMA ProblemsAreBacked ==
  ASSUME NEW raw \in Proposal, IsProblem(Verdict(raw))
  PROVE  /\ raw.parsed
         /\ \/ \E v \in raw.violations : v.rationale
            \/ raw.grounding = "ungrounded" /\ raw.groundingRationale
  BY DEF Proposal, IsProblem, Verdict, Kept, AssemblerGaps, Backed, Adherence, Grounding

(* Appending to the log only adds a newest record.                         *)
LEMMA LogGrows ==
  ASSUME NEW log \in Seq({"record", "half"}), NEW line \in {"record", "half"}
  PROVE  /\ Append(log, line) \in Seq({"record", "half"})
         /\ Len(Append(log, line)) = Len(log) + 1
         /\ {r \in DOMAIN Append(log, line) : Append(log, line)[r] = "record"} =
              {r \in DOMAIN log : log[r] = "record"}
                \cup (IF line = "record" THEN {Len(log) + 1} ELSE {})
  <1>1. /\ Append(log, line) \in Seq({"record", "half"}) /\ Len(log) \in Nat
        /\ Len(Append(log, line)) = Len(log) + 1
        /\ DOMAIN log = 1 .. Len(log) /\ DOMAIN Append(log, line) = 1 .. Len(log) + 1
        /\ \A i \in DOMAIN log : Append(log, line)[i] = log[i]
        /\ Append(log, line)[Len(log) + 1] = line
    OBVIOUS
  <1>2. \A i \in 1 .. Len(log) + 1 : i \in 1 .. Len(log) \/ i = Len(log) + 1
    BY <1>1
  <1>3. Len(log) + 1 \in 1 .. Len(log) + 1 /\ \A i \in 1 .. Len(log) : i \in 1 .. Len(log) + 1
    BY <1>1
  <1>4. QED
    BY <1>1, <1>2, <1>3

LEMMA BeatStart == BeatInit => BeatInv
  <1> SUFFICES ASSUME BeatInit PROVE BeatInv
    OBVIOUS
  <1>1. /\ runLog = <<>> /\ halfLine = FALSE /\ watermark = 0
        /\ pass = [b \in Beats |-> "idle"]
        /\ runs = [b \in Beats |-> {}] /\ pending = [b \in Beats |-> {}]
        /\ found = [b \in Beats |-> {}]
        /\ judged = {} /\ told = {} /\ lost = {} /\ stopped = 0
    BY DEF BeatInit
  <1>2. Len(runLog) = 0 /\ DOMAIN runLog = {} /\ runLog \in Seq({"record", "half"})
    BY <1>1
  <1>3. InHand = {}
    BY <1>1 DEF InHand
  <1>4. BeatTypeOK
    <2>1. watermark \in 0 .. MaxRuns /\ stopped \in 0 .. MaxStopped
      BY <1>1, BeatAssumption
    <2>2. pass \in [Beats -> {"idle", "read", "grading", "graded", "reporting"}]
      BY <1>1
    <2>3. /\ runs \in [Beats -> SUBSET RunIds] /\ pending \in [Beats -> SUBSET RunIds]
          /\ found \in [Beats -> SUBSET Finding]
      BY <1>1
    <2>4. QED
      BY <1>1, <1>2, <2>1, <2>2, <2>3 DEF BeatTypeOK
  <1>5. ReadsThePast /\ TakesUpTheRest /\ FoundByGrading
    BY <1>1 DEF ReadsThePast, TakesUpTheRest, FoundByGrading
  <1>6. FindingsAreProblems /\ NothingSlipsPast
    BY <1>1, <1>2, <1>3 DEF FindingsAreProblems, NothingSlipsPast, ReadRuns
  <1>7. QED
    BY <1>1, <1>2, <1>4, <1>5, <1>6, BeatAssumption DEF BeatInv

LEMMA BeatRanges ==
  ASSUME BeatInv
  PROVE  /\ runLog \in Seq({"record", "half"}) /\ Len(runLog) \in Nat
         /\ MaxRuns \in Nat /\ watermark \in Nat
         /\ ReadRuns \subseteq 1 .. Len(runLog) /\ ReadRuns \subseteq RunIds
         /\ RunIds \subseteq Nat
         /\ Graded \subseteq RunIds
  <1>1. /\ runLog \in Seq({"record", "half"}) /\ Len(runLog) \in Nat
        /\ MaxRuns \in Nat /\ watermark \in Nat /\ Len(runLog) <= MaxRuns
    BY BeatAssumption DEF BeatInv, BeatTypeOK
  <1>2. ReadRuns \subseteq 1 .. Len(runLog)
    BY <1>1 DEF ReadRuns
  <1>3. Graded \subseteq RunIds
    BY DEF BeatInv, BeatTypeOK, Graded, Finding
  <1>4. QED
    BY <1>1, <1>2, <1>3 DEF RunIds

(* The log grows by a record, by half a line, or not at all.               *)
LEMMA LogInv ==
  ASSUME BeatInv, Flush \/ HalfFlush
  PROVE  BeatInv'
  <1>1. /\ UNCHANGED beatBooks /\ halfLine' \in BOOLEAN
        /\ \/ UNCHANGED runLog
           \/ /\ Len(runLog) < MaxRuns
              /\ \E line \in {"record", "half"} : runLog' = Append(runLog, line)
    BY DEF Flush, HalfFlush
  <1> USE DEF beatBooks
  <1>2. /\ runLog' \in Seq({"record", "half"})
        /\ Len(runLog') \in Nat /\ Len(runLog) <= Len(runLog') /\ Len(runLog') <= MaxRuns
        /\ ReadRuns \subseteq ReadRuns'
        /\ ReadRuns' \subseteq ReadRuns \cup {Len(runLog) + 1}
    BY <1>1, LogGrows, BeatRanges DEF ReadRuns, BeatInv
  <1>3. BeatTypeOK'
    BY <1>1, <1>2 DEF BeatInv, BeatTypeOK
  <1>4. watermark' <= Len(runLog') /\ Len(runLog') <= MaxRuns
    BY <1>1, <1>2, BeatRanges DEF BeatInv
  <1>5. ReadsThePast'
    <2> SUFFICES ASSUME NEW b \in Beats, pass[b] # "idle"
                 PROVE  /\ runs[b] \subseteq ReadRuns'
                        /\ \A r \in ReadRuns', q \in runs[b] : r <= q => r \in runs[b]
      BY <1>1 DEF ReadsThePast
    <2>1. /\ runs[b] \subseteq ReadRuns
          /\ \A r \in ReadRuns, q \in runs[b] : r <= q => r \in runs[b]
      BY DEF BeatInv, ReadsThePast
    <2>2. \A q \in runs[b] : ~(Len(runLog) + 1 <= q)
      BY <2>1, BeatRanges
    <2>3. QED
      BY <1>2, <2>1, <2>2
  <1>6. TakesUpTheRest' /\ FoundByGrading' /\ FindingsAreProblems'
    BY <1>1 DEF BeatInv, TakesUpTheRest, FoundByGrading, FindingsAreProblems, InHand, Graded
  <1>7. NothingSlipsPast'
    <2>1. UNCHANGED <<Graded, InHand>>
      BY <1>1 DEF Graded, InHand
    <2>2. ASSUME NEW r \in ReadRuns', r <= watermark PROVE r \in Graded
      BY <1>2, <2>2, BeatRanges DEF BeatInv, NothingSlipsPast
    <2>3. QED
      BY <1>1, <2>1, <2>2 DEF BeatInv, NothingSlipsPast
  <1>8. QED
    BY <1>3, <1>4, <1>5, <1>6, <1>7 DEF BeatInv

(* A pass reads the log: that is the whole past. *)
LEMMA ReadInv ==
  ASSUME BeatInv, NEW b \in Beats, Read(b)
  PROVE  BeatInv'
  <1>1. /\ pass[b] = "idle" /\ runs' = [runs EXCEPT ![b] = ReadRuns]
        /\ pass' = [pass EXCEPT ![b] = "read"]
        /\ UNCHANGED <<watermark, pending, found, judged, told, lost, stopped, runLog, halfLine>>
    BY DEF Read, logVars
  <1>2. ReadRuns' = ReadRuns /\ InHand' = InHand /\ Graded' = Graded
    BY <1>1 DEF ReadRuns, InHand, Graded
  <1>3. BeatTypeOK'
    BY <1>1, BeatRanges DEF BeatInv, BeatTypeOK
  <1>4. /\ pass'[b] = "read" /\ runs'[b] = ReadRuns
        /\ \A c \in Beats : c # b => pass'[c] = pass[c] /\ runs'[c] = runs[c]
    BY <1>1 DEF BeatInv, BeatTypeOK
  <1>5. ReadsThePast'
    BY <1>2, <1>4 DEF BeatInv, ReadsThePast
  <1>6. TakesUpTheRest' /\ FoundByGrading'
    BY <1>1, <1>2, <1>4 DEF BeatInv, TakesUpTheRest, FoundByGrading
  <1>7. FindingsAreProblems' /\ NothingSlipsPast'
    BY <1>1, <1>2 DEF BeatInv, FindingsAreProblems, NothingSlipsPast
  <1>8. QED
    BY <1>1, <1>3, <1>5, <1>6, <1>7 DEF BeatInv

(* A pass takes up what is unjudged; what it leaves was graded.            *)
LEMMA ConsiderInv ==
  ASSUME BeatInv, NEW b \in Beats, Consider(b)
  PROVE  BeatInv'
  <1> DEFINE new == Unjudged(runs[b], watermark)
  <1>1. /\ pass[b] = "read"
        /\ \/ pass' = [pass EXCEPT ![b] = "idle"] /\ pending' = pending
           \/ /\ ~BelowThreshold(new) /\ pass' = [pass EXCEPT ![b] = "grading"]
              /\ pending' = [pending EXCEPT ![b] = new]
        /\ UNCHANGED <<watermark, runs, found, judged, told, lost, stopped, runLog, halfLine>>
    BY DEF Consider, logVars
  <1>2. ReadRuns' = ReadRuns /\ InHand' = InHand /\ Graded' = Graded
    BY <1>1 DEF ReadRuns, InHand, Graded
  <1>3. /\ runs[b] \subseteq ReadRuns /\ new \subseteq runs[b]
        /\ runs[b] \ new \subseteq Graded
    <2>1. runs[b] \subseteq ReadRuns
      BY <1>1 DEF BeatInv, ReadsThePast
    <2>2. \A r \in runs[b] : r \in Nat
      BY <2>1, BeatRanges
    <2>3. QED
      BY <2>1, <2>2, BeatRanges DEF Unjudged, BeatInv, NothingSlipsPast
  <1>4. ~BelowThreshold(new) => new # {}
    BY FS_EmptySet, BeatAssumption DEF BelowThreshold
  <1> HIDE DEF new
  <1>5. BeatTypeOK'
    <2>1. new \in SUBSET RunIds
      BY <1>3, BeatRanges
    <2>2. QED
      BY <1>1, <2>1 DEF BeatInv, BeatTypeOK
  <1>6. /\ pass'[b] \in {"idle", "grading"}
        /\ pass'[b] = "grading" => pending'[b] = new /\ ~BelowThreshold(new)
        /\ \A c \in Beats : c # b => pass'[c] = pass[c] /\ pending'[c] = pending[c]
    BY <1>1 DEF BeatInv, BeatTypeOK
  <1>7. ReadsThePast'
    BY <1>1, <1>2, <1>6 DEF BeatInv, ReadsThePast
  <1>8. TakesUpTheRest' /\ FoundByGrading'
    BY <1>1, <1>2, <1>3, <1>4, <1>6 DEF BeatInv, TakesUpTheRest, FoundByGrading
  <1>9. FindingsAreProblems' /\ NothingSlipsPast'
    BY <1>1, <1>2 DEF BeatInv, FindingsAreProblems, NothingSlipsPast
  <1>10. QED
    BY <1>1, <1>5, <1>7, <1>8, <1>9 DEF BeatInv

(* A pass grades what it took up: every run gets a verdict, and the        *)
(* problems are in its hands.                                              *)
LEMMA GradeInv ==
  ASSUME BeatInv, NEW b \in Beats, Grade(b)
  PROVE  BeatInv'
  <1>1. PICK says \in [pending[b] -> Proposals] :
          /\ found' = [found EXCEPT ![b] = {f \in Verdicts(says) : IsProblem(Verdict(f[2]))}]
          /\ judged' = judged \cup Verdicts(says)
    BY DEF Grade
  <1>2. /\ pass[b] = "grading" /\ pass' = [pass EXCEPT ![b] = "graded"]
        /\ UNCHANGED <<watermark, runs, pending, told, lost, stopped, runLog, halfLine>>
    BY DEF Grade, logVars
  <1> DEFINE new == Verdicts(says)
             bad == {f \in new : IsProblem(Verdict(f[2]))}
  <1>3. ReadRuns' = ReadRuns
    BY <1>2 DEF ReadRuns
  <1>4. /\ pending[b] \subseteq RunIds
        /\ new \subseteq Finding
        /\ \A r \in pending[b] : \E f \in new : f[1] = r
    <2>1. pending[b] \subseteq RunIds /\ DOMAIN says = pending[b]
      BY DEF BeatInv, BeatTypeOK
    <2>2. \A r \in pending[b] : <<r, says[r]>> \in Finding /\ <<r, says[r]>>[1] = r
      BY <2>1 DEF Finding
    <2>3. QED
      BY <2>1, <2>2 DEF Verdicts
  <1> HIDE DEF new
  <1>5. Graded \subseteq Graded' /\ pending[b] \subseteq Graded'
    BY <1>1, <1>4 DEF Graded, new
  <1>6. /\ found[b] = {} /\ found'[b] = bad /\ pass'[b] = "graded"
        /\ \A c \in Beats : c # b => pass'[c] = pass[c] /\ found'[c] = found[c]
    BY <1>1, <1>2 DEF BeatInv, BeatTypeOK, FoundByGrading, new
  <1> HIDE DEF bad
  <1>7. InHand' = InHand \cup bad
    BY <1>6 DEF InHand
  <1>8. BeatTypeOK'
    <2>1. found' \in [Beats -> SUBSET Finding]
      BY <1>1, <1>4 DEF BeatInv, BeatTypeOK, new
    <2>2. judged' \subseteq Finding
      BY <1>1, <1>4 DEF BeatInv, BeatTypeOK, new
    <2>3. QED
      BY <1>2, <2>1, <2>2 DEF BeatInv, BeatTypeOK
  <1>9. ReadsThePast'
    BY <1>2, <1>3, <1>6 DEF BeatInv, ReadsThePast
  <1>10. TakesUpTheRest' /\ FoundByGrading'
    BY <1>2, <1>5, <1>6 DEF BeatInv, TakesUpTheRest, FoundByGrading
  <1>11. FindingsAreProblems'
    BY <1>2, <1>4, <1>7 DEF BeatInv, FindingsAreProblems, bad
  <1>12. NothingSlipsPast'
    <2>1. \A f \in new : IsProblem(Verdict(f[2])) => f \in bad
      BY DEF bad
    <2>2. QED
      BY <1>1, <1>2, <1>3, <1>5, <1>7, <2>1 DEF BeatInv, NothingSlipsPast, new
  <1>13. QED
    BY <1>2, <1>8, <1>9, <1>10, <1>11, <1>12 DEF BeatInv

(* The watermark moves to the newest run the pass read: everything up to   *)
(* it has been graded, by this pass or before.                             *)
LEMMA AdvanceInv ==
  ASSUME BeatInv, NEW b \in Beats, Advance(b)
  PROVE  BeatInv'
  <1>1. /\ pass[b] = "graded" /\ pass' = [pass EXCEPT ![b] = "reporting"]
        /\ watermark' = Max(runs[b])
        /\ UNCHANGED <<runs, pending, found, judged, told, lost, stopped, runLog, halfLine>>
    BY DEF Advance, Newest, logVars
  <1>2. ReadRuns' = ReadRuns /\ InHand' = InHand /\ Graded' = Graded
    BY <1>1 DEF ReadRuns, InHand, Graded
  <1>3. /\ runs[b] \subseteq ReadRuns /\ runs[b] # {} /\ runs[b] \subseteq Graded
        /\ \A r \in ReadRuns, q \in runs[b] : r <= q => r \in runs[b]
    BY <1>1 DEF BeatInv, ReadsThePast, TakesUpTheRest
  <1>4. watermark' \in runs[b]
    <2>1. runs[b] \subseteq 1 .. MaxRuns
      BY <1>3, BeatRanges DEF RunIds
    <2>2. QED
      BY <1>1, <1>3, <2>1, NewestExists, BeatRanges
  <1>5. watermark' \in 0 .. MaxRuns /\ watermark' <= Len(runLog)
    <2>1. watermark' \in 1 .. Len(runLog)
      BY <1>3, <1>4, BeatRanges
    <2>2. QED
      BY <2>1, BeatRanges DEF BeatInv
  <1>6. /\ pass'[b] = "reporting"
        /\ \A c \in Beats : c # b => pass'[c] = pass[c]
    BY <1>1 DEF BeatInv, BeatTypeOK
  <1>7. BeatTypeOK'
    BY <1>1, <1>5 DEF BeatInv, BeatTypeOK
  <1>8. ReadsThePast' /\ TakesUpTheRest' /\ FoundByGrading'
    BY <1>1, <1>2, <1>6 DEF BeatInv, ReadsThePast, TakesUpTheRest, FoundByGrading
  <1>9. FindingsAreProblems'
    BY <1>1, <1>2 DEF BeatInv, FindingsAreProblems
  <1>10. NothingSlipsPast'
    BY <1>1, <1>2, <1>3, <1>4 DEF BeatInv, NothingSlipsPast
  <1>11. QED
    BY <1>1, <1>5, <1>7, <1>8, <1>9, <1>10 DEF BeatInv

(* A pass ends: what it had found is told, or is lost with it.             *)
LEMMA EndOfPassInv ==
  ASSUME BeatInv, NEW b \in Beats, Report(b) \/ StopPass(b)
  PROVE  BeatInv'
  <1>1. /\ pass' = [pass EXCEPT ![b] = "idle"]
        /\ runs' = [runs EXCEPT ![b] = {}]
        /\ pending' = [pending EXCEPT ![b] = {}]
        /\ found' = [found EXCEPT ![b] = {}]
        /\ UNCHANGED <<judged, runLog, halfLine>>
        /\ \/ told' = told \cup found[b] /\ lost' = lost
           \/ told' = told /\ lost' = lost \cup found[b]
        /\ watermark' \in {watermark, 0}
        /\ stopped' = stopped \/ (stopped < MaxStopped /\ stopped' = stopped + 1)
    BY DEF Report, StopPass, Idle, logVars
  <1>2. ReadRuns' = ReadRuns /\ Graded' = Graded
    BY <1>1 DEF ReadRuns, Graded
  <1>3. /\ pass'[b] = "idle" /\ found'[b] = {} /\ found[b] \subseteq Finding
        /\ \A c \in Beats : c # b => /\ pass'[c] = pass[c] /\ runs'[c] = runs[c]
                                     /\ pending'[c] = pending[c] /\ found'[c] = found[c]
    BY <1>1 DEF BeatInv, BeatTypeOK
  <1>4. InHand' \subseteq InHand /\ InHand \subseteq InHand' \cup found[b] /\ found[b] \subseteq InHand
    BY <1>3 DEF InHand
  <1>5. watermark' \in 0 .. MaxRuns /\ watermark' <= Len(runLog) /\ watermark' <= watermark
    BY <1>1, BeatRanges DEF BeatInv, BeatTypeOK
  <1>6. BeatTypeOK'
    <2>1. stopped' \in 0 .. MaxStopped
      BY <1>1, BeatAssumption DEF BeatInv, BeatTypeOK
    <2>2. /\ pass' \in [Beats -> {"idle", "read", "grading", "graded", "reporting"}]
          /\ runs' \in [Beats -> SUBSET RunIds] /\ pending' \in [Beats -> SUBSET RunIds]
          /\ found' \in [Beats -> SUBSET Finding]
      BY <1>1 DEF BeatInv, BeatTypeOK
    <2>3. judged' \cup told' \cup lost' \subseteq Finding
      BY <1>1, <1>3 DEF BeatInv, BeatTypeOK
    <2>4. QED
      BY <1>1, <1>5, <2>1, <2>2, <2>3 DEF BeatInv, BeatTypeOK
  <1>7. ReadsThePast' /\ TakesUpTheRest' /\ FoundByGrading'
    BY <1>2, <1>3 DEF BeatInv, ReadsThePast, TakesUpTheRest, FoundByGrading
  <1>8. FindingsAreProblems'
    BY <1>1, <1>4 DEF BeatInv, FindingsAreProblems
  <1>9. NothingSlipsPast'
    <2>1. ASSUME NEW r \in ReadRuns, r <= watermark' PROVE r \in Graded
      BY <1>5, <2>1, BeatRanges DEF BeatInv, NothingSlipsPast
    <2>2. QED
      BY <1>1, <1>2, <1>4, <2>1 DEF BeatInv, NothingSlipsPast
  <1>10. QED
    BY <1>1, <1>5, <1>6, <1>7, <1>8, <1>9 DEF BeatInv

LEMMA BeatStill ==
  ASSUME BeatInv, UNCHANGED beatVars
  PROVE  BeatInv'
  BY DEF BeatInv, beatVars, BeatTypeOK, ReadsThePast, TakesUpTheRest, FoundByGrading,
         FindingsAreProblems, NothingSlipsPast, ReadRuns, Graded, InHand

LEMMA BeatStep == BeatInv /\ [BeatNext]_beatVars => BeatInv'
  BY LogInv, ReadInv, ConsiderInv, GradeInv, AdvanceInv, EndOfPassInv, BeatStill
  DEF BeatNext, Pass

LEMMA MonitorIsFaithfulByInv == BeatInv => MonitorIsFaithful
  <1> SUFFICES ASSUME BeatInv PROVE MonitorIsFaithful
    OBVIOUS
  <1>1. ASSUME NEW f \in told \cup InHand
        PROVE  /\ f[2].parsed
               /\ \/ \E v \in f[2].violations : v.rationale
                  \/ f[2].grounding = "ungrounded" /\ f[2].groundingRationale
    <2>1. f[2] \in Proposal /\ IsProblem(Verdict(f[2]))
      BY BeatAssumption DEF BeatInv, FindingsAreProblems, Finding
    <2>2. QED
      BY <2>1, ProblemsAreBacked
  <1>2. QED
    BY <1>1 DEF BeatInv, MonitorIsFaithful, EveryReportIsBacked

-----------------------------------------------------------------------------
(* Both inductive invariants hold in every reachable state of the loops.   *)
THEOREM LoopsInvariant == Spec => [](PollInv /\ BeatInv)
  <1>1. Init => PollInv /\ BeatInv
    BY PollStart, BeatStart DEF Init
  <1>2. PollInv /\ BeatInv /\ [Next]_vars => PollInv' /\ BeatInv'
    <2>1. [Next]_vars => [PollNext]_pollVars /\ [BeatNext]_beatVars
      BY DEF Next, vars
    <2>2. QED
      BY <2>1, PollStep, BeatStep
  <1>3. QED
    BY <1>1, <1>2, PTL DEF Spec

(* The poll's and the monitor's state keeps its type.                      *)
THEOREM LoopsTypes == Spec => []TypeOK
  <1>1. PollInv /\ BeatInv => TypeOK
    BY DEF PollInv, BeatInv, TypeOK
  <1>2. QED
    BY LoopsInvariant, <1>1, PTL

(* No question is answered twice and none is passed over in silence: an    *)
(* update is handed over again only if its offset never reached the file   *)
(* and the process stopped, and what the server may forget was handed over,*)
(* was no question, is in hand, or went with a process that stopped.       *)
THEOREM PollHandsOverOnce == Spec => []PollIsFaithful
  <1>1. QED
    BY LoopsInvariant, PollIsFaithfulByInv, PTL

(* With any number of clocks, torn watermarks and stopped passes, no       *)
(* unjudged run is below the watermark, every problem is told, in hand or  *)
(* lost with a pass that stopped, and what is told rests on a rationale.   *)
THEOREM MonitorMissesNothing == Spec => []MonitorIsFaithful
  <1>1. QED
    BY LoopsInvariant, MonitorIsFaithfulByInv, PTL
=============================================================================
