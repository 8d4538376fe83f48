---------------------------- MODULE ServiceProofs ----------------------------
(***************************************************************************)
(* Proofs about Service, for every set of people, threads and words, every *)
(* queue capacity and any number of messages: its types, that only an      *)
(* allowlisted user's own request and own "yes" let a gated call run, that *)
(* no message is used twice, nor lost on its way, that the turns follow    *)
(* the queue, and that the gate and the queue in it keep what they promise *)
(* alone.                                                                  *)
(***************************************************************************)
EXTENDS Service, ChannelProofs, FiniteSetTheorems

(* The reader holds a message exactly while it submits one, and every      *)
(* message offered to the queue was polled.                                *)
ReaderHoldsOne ==
  /\ reader \in {"submitting", "admitting"} => inbound \in Message /\ offered < polled
  /\ offered <= polled

(* What was offered was said, and only what was offered is queued.         *)
OfferedWasSaid ==
  /\ \A i \in 1 .. offered : said[i] \in Message
  /\ \A i \in DOMAIN items : items[i].id <= offered

(* The worker has an event in hand exactly during its turn.                *)
TurnHasItsEvent ==
  /\ worker = "turn" => current \in 1 .. offered
  /\ worker # "turn" => current = 0

(* Message i is a change request of an allowlisted user, who is `from`.    *)
Requested(i, from) ==
  /\ said[i] \in Message
  /\ said[i].word \in ChangeWords
  /\ said[i].user \in Writers
  /\ from = [user |-> said[i].user, thread |-> said[i].thread]

(* Every gate was opened for the author of such a message.                 *)
AskedByWriters ==
  \A n \in 1 .. asks : \E i \in 1 .. offered : Requested(i, asked[n])

ServiceInv ==
  /\ TypeOK
  /\ GateInv
  /\ ReaderHoldsOne
  /\ OfferedWasSaid
  /\ TurnHasItsEvent
  /\ AskedByWriters
  /\ EveryTakenEventHasItsTurn

-----------------------------------------------------------------------------
(* The steps of the worker inside _ask leave its requests as they were. *)
InsideGate == PromptSent \/ PromptRaises \/ Wake \/ TimeOut \/ Report \/ ReportRaises

(* What a step of the gate leaves alone, and the invariant it keeps. *)
LEMMA GateSteps ==
  ASSUME GateInv
  PROVE  /\ UNCHANGED gateVars => GateInv' /\ UNCHANGED <<asks, asked>>
         /\ InsideGate => GateInv' /\ UNCHANGED <<asks, asked>>
         /\ Cancel => GateInv' /\ UNCHANGED <<asks, asked>>
         /\ \A m \in Message : SubmitAnswer(m) => GateInv' /\ UNCHANGED <<asks, asked>>
         /\ \A from \in Address : Ask(from) =>
              /\ GateInv'
              /\ asks' = asks + 1 /\ asks + 1 \in Asks
              /\ asked' = [asked EXCEPT ![asks + 1] = from]
  <1>1. UNCHANGED gateVars => GateInv' /\ UNCHANGED <<asks, asked>>
    BY GateNextInv DEF gateVars, gateState, gateLog
  <1>2. InsideGate => UNCHANGED <<asks, asked>>
    BY DEF InsideGate, PromptSent, PromptRaises, Wake, TimeOut, Clear, Report, ReportRaises,
           gateLog
  <1>3. InsideGate => GateInv'
    BY PromptSentInv, PromptRaisesInv, ClearInv, ReportInv DEF InsideGate, Wake, TimeOut
  <1>4. Cancel => GateInv' /\ UNCHANGED <<asks, asked>>
    BY CancelInv DEF Cancel
  <1>5. \A m \in Message : SubmitAnswer(m) => GateInv' /\ UNCHANGED <<asks, asked>>
    BY SubmitAnswerInv DEF SubmitAnswer
  <1>6. ASSUME NEW from \in Address, Ask(from)
        PROVE  /\ GateInv'
               /\ asks' = asks + 1 /\ asks + 1 \in Asks
               /\ asked' = [asked EXCEPT ![asks + 1] = from]
    <2>1. asks \in 0 .. MaxAsks /\ asks < MaxAsks
      BY <1>6 DEF GateInv, GateTypeOK, Ask
    <2>2. asks + 1 \in Asks
      BY <2>1, GateAssumption DEF Asks
    <2>3. QED
      BY <1>6, <2>2, AskInv DEF Ask
  <1>7. QED
    BY <1>1, <1>2, <1>3, <1>4, <1>5, <1>6

LEMMA ServiceInit == Init => ServiceInv
  <1> SUFFICES ASSUME Init PROVE ServiceInv
    OBVIOUS
  <1>1. GateInv /\ asks = 0
    BY GateInitInv DEF Init, GateInit
  <1>2. MaxPolled \in Nat /\ MaxEvents \in Nat
    BY ServiceAssumption, QueueAssumption
  <1>3. QueueTypeOK
    <2>1. <<>> \in Seq(Events)
      OBVIOUS
    <2>2. items = <<>> /\ taken = <<>> /\ closed = FALSE /\ offered = 0 /\ admitted = {} /\ refused = {}
      BY DEF Init, QueueInit
    <2>3. offered \in 0 .. MaxEvents
      BY <1>2, <2>2
    <2>4. QED
      BY <2>1, <2>2, <2>3 DEF QueueTypeOK
  <1>4. TypeOK
    <2>1. said \in [Ids -> Message \cup {NoMessage}]
      BY DEF Init
    <2>2. turns \in [Ids -> {"none", "handled", "failed"}]
      BY DEF Init
    <2>3. GateTypeOK
      BY <1>1 DEF GateInv
    <2>4. polled \in 0 .. MaxPolled
      BY <1>2 DEF Init
    <2>5. /\ reader = "polling" /\ inbound = NoMessage /\ gateBusy = FALSE
          /\ worker = "checking" /\ current = 0 /\ stop = FALSE /\ main = "running"
      BY DEF Init
    <2>6. QED
      BY <1>3, <2>1, <2>2, <2>3, <2>4, <2>5 DEF TypeOK
  <1>5. EveryTakenEventHasItsTurn
    BY DEF Init, QueueInit, EveryTakenEventHasItsTurn, Taken, Ids
  <1>6. ReaderHoldsOne /\ OfferedWasSaid /\ TurnHasItsEvent /\ AskedByWriters
    BY <1>1 DEF Init, QueueInit, ReaderHoldsOne, OfferedWasSaid, TurnHasItsEvent,
                AskedByWriters
  <1>7. QED
    BY <1>1, <1>4, <1>5, <1>6 DEF ServiceInv

-----------------------------------------------------------------------------
(* The variables outside the gate, of which GateTypeOK speaks. *)
Rest == <<queueVars, readerVars, workerVars, mainVars>>

(* A step of the gate alone. *)
LEMMA GateOnly ==
  ASSUME ServiceInv, UNCHANGED Rest, GateInv', UNCHANGED <<asks, asked>>
  PROVE  ServiceInv'
  <1> USE DEF Rest, queueVars, readerVars, workerVars, mainVars
  <1>1. TypeOK'
    <2>1. GateTypeOK'
      BY DEF GateInv
    <2>2. QED
      BY <2>1 DEF ServiceInv, TypeOK, QueueTypeOK
  <1>2. ReaderHoldsOne' /\ OfferedWasSaid' /\ TurnHasItsEvent' /\ AskedByWriters'
    BY DEF ServiceInv, ReaderHoldsOne, OfferedWasSaid, TurnHasItsEvent, AskedByWriters, Requested
  <1>3. EveryTakenEventHasItsTurn'
    BY DEF ServiceInv, EveryTakenEventHasItsTurn, Taken
  <1>4. QED
    BY <1>1, <1>2, <1>3 DEF ServiceInv

(* The reader polls: one more message, and if the gate does not take it    *)
(* the reader holds it.                                                    *)
LEMMA PollInv ==
  ASSUME ServiceInv, NEW m \in Message,
         PollAnswer(m) \/ PollRequest(m)
  PROVE  ServiceInv'
  <1> USE DEF queueVars, workerVars, mainVars
  <1>1. GateInv' /\ UNCHANGED <<asks, asked>>
    BY GateSteps DEF ServiceInv, PollAnswer, PollRequest
  <1>2. /\ UNCHANGED <<queueVars, said, workerVars, mainVars, gateBusy>>
        /\ polled < MaxPolled /\ polled' = polled + 1
        /\ reader = "polling"
        /\ \/ UNCHANGED <<reader, inbound>>
           \/ reader' = "submitting" /\ inbound' = m
    BY DEF PollAnswer, PollRequest
  <1>3. /\ polled \in Nat /\ MaxPolled \in Nat /\ polled' \in 0 .. MaxPolled
        /\ offered \in Nat
    BY <1>2, ServiceAssumption DEF ServiceInv, TypeOK, QueueTypeOK
  <1>4. TypeOK'
    <2>1. GateTypeOK'
      BY <1>1 DEF GateInv
    <2>2. QED
      BY <1>2, <1>3, <2>1 DEF ServiceInv, TypeOK, QueueTypeOK
  <1>5. ReaderHoldsOne'
    BY <1>2, <1>3 DEF ServiceInv, ReaderHoldsOne
  <1>6. OfferedWasSaid' /\ TurnHasItsEvent' /\ AskedByWriters'
    BY <1>1, <1>2 DEF ServiceInv, OfferedWasSaid, TurnHasItsEvent, AskedByWriters, Requested
  <1>7. EveryTakenEventHasItsTurn'
    BY <1>2 DEF ServiceInv, EveryTakenEventHasItsTurn, Taken
  <1>8. QED
    BY <1>1, <1>4, <1>5, <1>6, <1>7 DEF ServiceInv

(* The reader's other steps outside the queue. *)
LEMMA ReaderInv ==
  ASSUME ServiceInv, ReadGate \/ TellRefusal \/ ReaderRaises
  PROVE  ServiceInv'
  <1> USE DEF queueVars, workerVars, mainVars
  <1>1. GateInv' /\ UNCHANGED <<asks, asked>>
    BY GateSteps DEF ServiceInv, ReadGate, TellRefusal, ReaderRaises
  <1>2. /\ UNCHANGED <<queueVars, said, workerVars, mainVars, inbound, polled>>
        /\ gateBusy' \in BOOLEAN
        /\ \/ reader = "submitting" /\ reader' = "admitting"
           \/ reader' \in {"polling", "dead"}
    BY DEF ReadGate, TellRefusal, ReaderRaises, ServiceInv, TypeOK
  <1>3. TypeOK'
    <2>1. GateTypeOK'
      BY <1>1 DEF GateInv
    <2>2. QED
      BY <1>2, <2>1 DEF ServiceInv, TypeOK, QueueTypeOK
  <1>4. ReaderHoldsOne' /\ OfferedWasSaid' /\ TurnHasItsEvent' /\ AskedByWriters'
    BY <1>1, <1>2 DEF ServiceInv, ReaderHoldsOne, OfferedWasSaid, TurnHasItsEvent,
                      AskedByWriters, Requested
  <1>5. EveryTakenEventHasItsTurn'
    BY <1>2 DEF ServiceInv, EveryTakenEventHasItsTurn, Taken
  <1>6. QED
    BY <1>1, <1>3, <1>4, <1>5 DEF ServiceInv

(* submit files the message the reader holds as event offered + 1, which   *)
(* is queued at the back or refused.                                       *)
LEMMA AdmitShape ==
  ASSUME ServiceInv, Admit
  PROVE  /\ InboundEvent \in Events
         /\ offered' = offered + 1
         /\ UNCHANGED <<taken, closed>>
         /\ \/ UNCHANGED <<items, admitted>> /\ refused' \subseteq Events \X Reasons
            \/ /\ items' = Append(items, InboundEvent)
               /\ admitted' = admitted \cup {InboundEvent}
               /\ UNCHANGED refused
  <1> DEFINE e == InboundEvent
  <1>1. offered \in Nat /\ offered + 1 \in Ids
    BY ServiceAssumption, QueueAssumption
    DEF Admit, ServiceInv, ReaderHoldsOne, TypeOK, QueueTypeOK, Ids
  <1>2. e \in Events /\ e.source = "telegram" /\ e.key = NoKey
    BY <1>1 DEF InboundEvent, Events
  <1>3. Submit(e, gateBusy)
    BY DEF Admit
  <1> HIDE DEF e
  <1>4. ~Mergeable(e)
    BY <1>2 DEF Mergeable
  <1>5. offered' = offered + 1 /\ UNCHANGED <<taken, closed>>
    BY <1>3 DEF Submit, Reject, Drop, Coalesce, Enqueue
  <1>6. CASE Reject(e, gateBusy)
    <2>1. <<e, FirstReason(Refusals(e, gateBusy))>>
            \in Events \X Reasons
      BY <1>2 DEF FirstReason, Reasons
    <2>2. refused' \subseteq Events \X Reasons
      BY <1>6, <2>1 DEF Reject, ServiceInv, TypeOK, QueueTypeOK
    <2>3. QED
      BY <1>2, <1>5, <1>6, <2>2 DEF Reject, e
  <1>7. CASE Drop(e, gateBusy)
    BY <1>2, <1>7 DEF Drop, Redundant
  <1>8. CASE Enqueue(e, gateBusy)
    BY <1>2, <1>5, <1>8 DEF Enqueue, e
  <1>9. QED
    BY <1>3, <1>4, <1>6, <1>7, <1>8 DEF Submit, Coalesce

LEMMA AdmitInv ==
  ASSUME ServiceInv, Admit
  PROVE  ServiceInv'
  <1> DEFINE e == InboundEvent
  <1>1. /\ e \in Events /\ e.id = offered + 1
        /\ offered' = offered + 1
        /\ UNCHANGED <<taken, closed>>
        /\ \/ UNCHANGED <<items, admitted>> /\ refused' \subseteq Events \X Reasons
           \/ /\ items' = Append(items, e)
              /\ admitted' = admitted \cup {e}
              /\ UNCHANGED refused
    BY AdmitShape DEF InboundEvent
  <1> HIDE DEF e
  <1>2. /\ UNCHANGED <<gateVars, polled, worker, current, turns, stop, main>>
        /\ reader = "admitting" /\ reader' \in {"refusing", "polling"}
        /\ inbound' = NoMessage /\ gateBusy' = FALSE
        /\ said' = [said EXCEPT ![offered + 1] = inbound]
    BY DEF Admit, workerVars, mainVars
  <1>3. /\ offered \in Nat /\ polled \in Nat /\ offered < polled /\ inbound \in Message
        /\ MaxPolled \in Nat /\ MaxEvents \in Nat /\ polled <= MaxPolled /\ MaxPolled <= MaxEvents
    BY <1>2, ServiceAssumption, QueueAssumption
    DEF ServiceInv, ReaderHoldsOne, TypeOK, QueueTypeOK
  <1>4. GateInv' /\ UNCHANGED <<asks, asked>>
    BY <1>2, GateSteps DEF ServiceInv
  <1>5. /\ said' \in [Ids -> Message \cup {NoMessage}]
        /\ said'[offered + 1] = inbound
        /\ \A i \in 1 .. offered : said'[i] = said[i]
    BY <1>2, <1>3 DEF ServiceInv, TypeOK, Ids
  <1>6. /\ items' \in Seq(Events)
        /\ \A i \in DOMAIN items' :
             items'[i].id = offered + 1 \/ (i \in DOMAIN items /\ items'[i] = items[i])
    <2>1. items \in Seq(Events)
      BY DEF ServiceInv, TypeOK, QueueTypeOK
    <2>2. CASE items' = items
      BY <2>1, <2>2
    <2>3. CASE items' = Append(items, e)
      BY <1>1, <2>1, <2>3, AppendElement
    <2>4. QED
      BY <1>1, <2>2, <2>3
  <1>7. QueueTypeOK'
    <2>1. offered' \in 0 .. MaxEvents
      BY <1>1, <1>3
    <2>2. admitted' \subseteq Events /\ refused' \subseteq Events \X Reasons
      BY <1>1 DEF ServiceInv, TypeOK, QueueTypeOK
    <2>3. QED
      BY <1>1, <1>6, <2>1, <2>2 DEF ServiceInv, TypeOK, QueueTypeOK
  <1>8. TypeOK'
    <2>1. GateTypeOK'
      BY <1>4 DEF GateInv
    <2>2. QED
      BY <1>2, <1>5, <1>7, <2>1 DEF ServiceInv, TypeOK
  <1>9. ReaderHoldsOne'
    BY <1>1, <1>2, <1>3 DEF ReaderHoldsOne
  <1>10. OfferedWasSaid'
    <2>1. \A i \in 1 .. offered' : said'[i] \in Message
      BY <1>1, <1>3, <1>5 DEF ServiceInv, OfferedWasSaid
    <2>2. \A i \in DOMAIN items : items[i].id \in Nat
      BY DEF ServiceInv, TypeOK, QueueTypeOK, Events, Ids
    <2>3. \A i \in DOMAIN items' : items'[i].id <= offered'
      BY <1>1, <1>3, <1>6, <2>2 DEF ServiceInv, OfferedWasSaid
    <2>4. QED
      BY <2>1, <2>3 DEF OfferedWasSaid
  <1>11. TurnHasItsEvent'
    BY <1>1, <1>2, <1>3 DEF ServiceInv, TurnHasItsEvent
  <1>12. AskedByWriters'
    <2> SUFFICES ASSUME NEW n \in 1 .. asks PROVE \E i \in 1 .. offered' : Requested(i, asked[n])'
      BY <1>4 DEF AskedByWriters
    <2>1. PICK i \in 1 .. offered : Requested(i, asked[n])
      BY DEF ServiceInv, AskedByWriters
    <2>2. i \in 1 .. offered' /\ Requested(i, asked[n])'
      BY <1>1, <1>3, <1>4, <1>5, <2>1 DEF Requested
    <2>3. QED
      BY <2>2
  <1>13. EveryTakenEventHasItsTurn'
    BY <1>1, <1>2 DEF ServiceInv, EveryTakenEventHasItsTurn, Taken
  <1>14. QED
    BY <1>4, <1>8, <1>9, <1>10, <1>11, <1>12, <1>13 DEF ServiceInv

-----------------------------------------------------------------------------
(* The worker looks at its stop flag, or waits for nothing. *)
LEMMA IdleWorkerInv ==
  ASSUME ServiceInv, CheckStop \/ TakeNothing
  PROVE  ServiceInv'
  <1> USE DEF queueVars, readerVars, mainVars
  <1>1. GateInv' /\ UNCHANGED <<asks, asked>>
    BY GateSteps DEF ServiceInv, CheckStop, TakeNothing
  <1>2. /\ UNCHANGED <<queueVars, readerVars, mainVars, current, turns>>
        /\ worker # "turn" /\ worker' \in {"dead", "taking", "checking"}
    BY DEF CheckStop, TakeNothing
  <1>3. TypeOK'
    <2>1. GateTypeOK'
      BY <1>1 DEF GateInv
    <2>2. QED
      BY <1>2, <2>1 DEF ServiceInv, TypeOK, QueueTypeOK
  <1>4. ReaderHoldsOne' /\ OfferedWasSaid' /\ TurnHasItsEvent' /\ AskedByWriters'
    BY <1>1, <1>2 DEF ServiceInv, ReaderHoldsOne, OfferedWasSaid, TurnHasItsEvent,
                      AskedByWriters, Requested
  <1>5. EveryTakenEventHasItsTurn'
    BY <1>2 DEF ServiceInv, EveryTakenEventHasItsTurn, Taken
  <1>6. QED
    BY <1>1, <1>3, <1>4, <1>5 DEF ServiceInv

(* The oldest event leaves the queue and becomes the turn in progress. *)
LEMMA TakeEventInv ==
  ASSUME ServiceInv, TakeEvent
  PROVE  ServiceInv'
  <1> USE DEF readerVars, mainVars
  <1> DEFINE h == Head(items)
  <1>1. GateInv' /\ UNCHANGED <<asks, asked>>
    BY GateSteps DEF ServiceInv, TakeEvent
  <1>2. /\ items # <<>> /\ items' = Tail(items) /\ taken' = Append(taken, h)
        /\ UNCHANGED <<closed, offered, admitted, refused, readerVars, turns, mainVars>>
        /\ worker = "taking" /\ worker' = "turn" /\ current' = h.id
    BY DEF TakeEvent, Take
  <1>3. /\ items \in Seq(Events) /\ taken \in Seq(Events)
        /\ offered \in Nat
    BY DEF ServiceInv, TypeOK, QueueTypeOK
  <1>4. /\ h \in Events /\ h = items[1] /\ 1 \in DOMAIN items
        /\ items' \in Seq(Events) /\ taken' \in Seq(Events)
        /\ \A i \in DOMAIN items' : i + 1 \in DOMAIN items /\ items'[i] = items[i + 1]
    BY <1>2, <1>3
  <1>5. Taken' = Taken \cup {h}
    <2>1. /\ DOMAIN taken' = 1 .. Len(taken) + 1 /\ taken'[Len(taken) + 1] = h
          /\ \A i \in DOMAIN taken : i \in DOMAIN taken' /\ taken'[i] = taken[i]
          /\ \A i \in DOMAIN taken' : i \in DOMAIN taken \/ i = Len(taken) + 1
          /\ Len(taken) + 1 \in DOMAIN taken'
      BY <1>2, <1>3, <1>4, AppendElement
    <2>2. QED
      BY <2>1 DEF Taken
  <1> HIDE DEF h
  <1>6. h.id \in Ids /\ h.id \in 1 .. offered
    <2>1. h.id <= offered
      BY <1>4 DEF ServiceInv, OfferedWasSaid
    <2>2. h.id \in Ids
      BY <1>4 DEF Events
    <2>3. QED
      BY <1>3, <2>1, <2>2 DEF Ids
  <1>7. TypeOK'
    <2>1. GateTypeOK'
      BY <1>1 DEF GateInv
    <2>2. QueueTypeOK'
      BY <1>2, <1>4 DEF ServiceInv, TypeOK, QueueTypeOK
    <2>3. QED
      BY <1>2, <1>6, <2>1, <2>2 DEF ServiceInv, TypeOK
  <1>8. ReaderHoldsOne' /\ TurnHasItsEvent' /\ AskedByWriters'
    BY <1>1, <1>2, <1>6 DEF ServiceInv, ReaderHoldsOne, TurnHasItsEvent, AskedByWriters,
                            Requested
  <1>9. OfferedWasSaid'
    BY <1>2, <1>4 DEF ServiceInv, OfferedWasSaid
  <1>10. EveryTakenEventHasItsTurn'
    <2> SUFFICES ASSUME NEW i \in Ids
                 PROVE  (\E t \in Taken' : t.id = i) <=> (turns'[i] # "none" \/ current' = i)
      BY DEF EveryTakenEventHasItsTurn
    <2>1. current # i
      BY <1>2 DEF ServiceInv, TurnHasItsEvent, Ids
    <2>2. (\E t \in Taken : t.id = i) <=> turns[i] # "none"
      BY <2>1 DEF ServiceInv, EveryTakenEventHasItsTurn
    <2>3. QED
      BY <1>2, <1>5, <2>2
  <1>11. QED
    BY <1>1, <1>7, <1>8, <1>9, <1>10 DEF ServiceInv

(* A gate opens only in the turn of an allowlisted user's change request.  *)
LEMMA OpenGateInv ==
  ASSUME ServiceInv, OpenGate
  PROVE  ServiceInv'
  <1> USE DEF queueVars, readerVars, workerVars, mainVars
  <1> DEFINE from == Requester
  <1>1. /\ worker = "turn" /\ said[current].word \in ChangeWords
        /\ said[current].user \in Writers /\ Ask(from)
        /\ UNCHANGED <<queueVars, readerVars, workerVars, mainVars>>
    BY DEF OpenGate
  <1>2. current \in 1 .. offered /\ said[current] \in Message
    BY <1>1 DEF ServiceInv, TurnHasItsEvent, OfferedWasSaid
  <1>3. from \in Address /\ Requested(current, from)
    BY <1>1, <1>2 DEF Requester, Address, Message, Requested
  <1> HIDE DEF from
  <1>4. /\ GateInv'
        /\ asks' = asks + 1 /\ asks + 1 \in Asks
        /\ asked' = [asked EXCEPT ![asks + 1] = from]
    BY <1>1, <1>3, GateSteps DEF ServiceInv
  <1>5. TypeOK'
    <2>1. GateTypeOK'
      BY <1>4 DEF GateInv
    <2>2. QED
      BY <1>1, <2>1 DEF ServiceInv, TypeOK, QueueTypeOK
  <1>6. ReaderHoldsOne' /\ OfferedWasSaid' /\ TurnHasItsEvent'
    BY <1>1 DEF ServiceInv, ReaderHoldsOne, OfferedWasSaid, TurnHasItsEvent
  <1>7. AskedByWriters'
    <2>1. /\ asks \in Nat
          /\ asked'[asks + 1] = from
          /\ \A n \in 1 .. asks : asked'[n] = asked[n]
      BY <1>4 DEF ServiceInv, GateInv, GateTypeOK, Asks
    <2>2. \A n \in 1 .. asks' : n \in 1 .. asks \/ n = asks + 1
      BY <1>4, <2>1
    <2>3. QED
      BY <1>1, <1>2, <1>3, <2>1, <2>2 DEF ServiceInv, AskedByWriters, Requested
  <1>8. EveryTakenEventHasItsTurn'
    BY <1>1 DEF ServiceInv, EveryTakenEventHasItsTurn, Taken
  <1>9. QED
    BY <1>4, <1>5, <1>6, <1>7, <1>8 DEF ServiceInv

(* The turn ends: its event is the one that had the worker. *)
LEMMA EndTurnInv ==
  ASSUME ServiceInv, GateRaises \/ FinishTurn
  PROVE  ServiceInv'
  <1> USE DEF queueVars, readerVars, mainVars
  <1>1. GateInv' /\ UNCHANGED <<asks, asked>>
    BY GateSteps DEF ServiceInv, GateRaises, FinishTurn, InsideGate
  <1>2. PICK how \in {"handled", "failed"} :
          /\ worker = "turn" /\ worker' = "checking" /\ current' = 0
          /\ turns' = [turns EXCEPT ![current] = how]
          /\ UNCHANGED <<queueVars, readerVars, mainVars>>
    BY DEF GateRaises, FinishTurn, EndTurn
  <1>3. current \in Ids
    BY <1>2 DEF ServiceInv, TurnHasItsEvent, TypeOK
  <1>4. TypeOK'
    <2>1. GateTypeOK'
      BY <1>1 DEF GateInv
    <2>2. turns' \in [Ids -> {"none", "handled", "failed"}]
      BY <1>2 DEF ServiceInv, TypeOK
    <2>3. QED
      BY <1>2, <2>1, <2>2 DEF ServiceInv, TypeOK, QueueTypeOK
  <1>5. ReaderHoldsOne' /\ OfferedWasSaid' /\ TurnHasItsEvent' /\ AskedByWriters'
    BY <1>1, <1>2 DEF ServiceInv, ReaderHoldsOne, OfferedWasSaid, TurnHasItsEvent,
                      AskedByWriters, Requested
  <1>6. EveryTakenEventHasItsTurn'
    <2> SUFFICES ASSUME NEW i \in Ids
                 PROVE  (\E t \in Taken' : t.id = i) <=> (turns'[i] # "none" \/ current' = i)
      BY DEF EveryTakenEventHasItsTurn
    <2>1. Taken' = Taken
      BY <1>2 DEF Taken
    <2>2. turns'[i] # "none" <=> (turns[i] # "none" \/ current = i)
      BY <1>2, <1>3 DEF ServiceInv, TypeOK
    <2>3. current' # i
      BY <1>2 DEF Ids
    <2>4. QED
      BY <2>1, <2>2, <2>3 DEF ServiceInv, EveryTakenEventHasItsTurn
  <1>7. QED
    BY <1>1, <1>4, <1>5, <1>6 DEF ServiceInv

(* The main thread's steps, of which only cancel touches the gate. *)
LEMMA MainInv ==
  ASSUME ServiceInv, Interrupt \/ Shutdown
  PROVE  ServiceInv'
  <1> USE DEF Interrupt, Shutdown, ReaderGone, CancelGate, SetStop, CloseQueue,
              Join, Step, Close, queueVars, readerVars, workerVars
  <1>1. GateInv' /\ UNCHANGED <<asks, asked>>
    <2>1. UNCHANGED gateVars \/ Cancel
      OBVIOUS
    <2>2. QED
      BY <2>1, GateSteps DEF ServiceInv
  <1>2. /\ UNCHANGED <<items, offered, admitted, refused, taken, readerVars, workerVars>>
        /\ closed' \in BOOLEAN /\ stop' \in BOOLEAN
        /\ main' \in {"cancelling", "stopping", "closing", "joining", "exited"}
    BY DEF ServiceInv, TypeOK, QueueTypeOK
  <1>3. TypeOK'
    <2>1. GateTypeOK'
      BY <1>1 DEF GateInv
    <2>2. QED
      BY <1>2, <2>1 DEF ServiceInv, TypeOK, QueueTypeOK
  <1>4. ReaderHoldsOne' /\ OfferedWasSaid' /\ TurnHasItsEvent' /\ AskedByWriters'
    BY <1>1, <1>2 DEF ServiceInv, ReaderHoldsOne, OfferedWasSaid, TurnHasItsEvent,
                      AskedByWriters, Requested
  <1>5. EveryTakenEventHasItsTurn'
    BY <1>2 DEF ServiceInv, EveryTakenEventHasItsTurn, Taken
  <1>6. QED
    BY <1>1, <1>3, <1>4, <1>5 DEF ServiceInv

LEMMA ServiceNext ==
  ASSUME ServiceInv, [Next]_vars
  PROVE  ServiceInv'
  <1>1. CASE \E m \in Message : PollAnswer(m) \/ PollRequest(m)
    BY <1>1, PollInv
  <1>2. CASE ReadGate \/ TellRefusal \/ ReaderRaises
    BY <1>2, ReaderInv
  <1>3. CASE Admit
    BY <1>3, AdmitInv
  <1>4. CASE CheckStop \/ TakeNothing
    BY <1>4, IdleWorkerInv
  <1>5. CASE TakeEvent
    BY <1>5, TakeEventInv
  <1>6. CASE OpenGate
    BY <1>6, OpenGateInv
  <1>7. CASE InGate
    <2>1. InsideGate /\ UNCHANGED Rest
      BY <1>7 DEF InGate, InsideGate, Rest
    <2>2. QED
      BY <2>1, GateSteps, GateOnly DEF ServiceInv
  <1>8. CASE GateRaises \/ FinishTurn
    BY <1>8, EndTurnInv
  <1>9. CASE Interrupt \/ Shutdown
    BY <1>9, MainInv
  <1>10. CASE Exited \/ UNCHANGED vars
    <2>1. UNCHANGED gateVars /\ UNCHANGED Rest
      BY <1>10 DEF Exited, vars, Rest
    <2>2. QED
      BY <2>1, GateSteps, GateOnly DEF ServiceInv
  <1>11. QED
    BY <1>1, <1>2, <1>3, <1>4, <1>5, <1>6, <1>7, <1>8, <1>9, <1>10
    DEF Next, ReaderStep, WorkerStep

-----------------------------------------------------------------------------
(* The inductive invariant holds in every reachable state. *)
THEOREM ServiceInvariant == Spec => []ServiceInv
  <1>1. Init => ServiceInv
    BY ServiceInit
  <1>2. ServiceInv /\ [Next]_vars => ServiceInv'
    BY ServiceNext
  <1>3. QED
    BY <1>1, <1>2, PTL DEF Spec

(* Every variable of the service, its gate and its queue keeps its type.   *)
THEOREM ServiceTypes == Spec => []TypeOK
  <1>1. ServiceInv => TypeOK
    BY DEF ServiceInv
  <1>2. QED
    BY ServiceInvariant, <1>1, PTL

(* Every gated call that ran was requested by an allowlisted user, and     *)
(* approved by that user in the thread of the request: the promise of the  *)
(* handler, the agent's callback and the gate together.                    *)
THEOREM ConsentedWrites == Spec => []WritesAreConsented
  <1>1. ServiceInv => WritesAreConsented
    <2> SUFFICES ASSUME ServiceInv, NEW n \in Asks, outcome[n] = "approved"
                 PROVE  /\ Consented(n)
                        /\ asked[n].user \in Writers
                        /\ \E i \in Ids :
                             /\ said[i] # NoMessage
                             /\ said[i].word \in ChangeWords
                             /\ asked[n] = [user |-> said[i].user, thread |-> said[i].thread]
      BY DEF WritesAreConsented
    <2>1. Consented(n)
      BY DEF ServiceInv, GateInv, ApprovedByRequester
    <2>2. n \in 1 .. asks
      BY GateAssumption DEF ServiceInv, GateInv, GateTypeOK, FutureIsBlank, Asks
    <2>3. PICK i \in 1 .. offered : Requested(i, asked[n])
      BY <2>2 DEF ServiceInv, AskedByWriters
    <2>4. i \in Ids
      BY <2>3, QueueAssumption DEF ServiceInv, TypeOK, QueueTypeOK, Ids
    <2>5. said[i] # NoMessage
      BY <2>3, ServiceAssumption DEF Requested
    <2>6. asked[n].user = said[i].user
      BY <2>3 DEF Requested
    <2>7. QED
      BY <2>1, <2>3, <2>4, <2>5, <2>6 DEF Requested
  <1>2. QED
    BY ServiceInvariant, <1>1, PTL

(* The turns follow the queue: an event was taken if and only if its turn  *)
(* is in progress or has ended.                                            *)
THEOREM TurnsFollowTheQueue == Spec => []EveryTakenEventHasItsTurn
  <1>1. ServiceInv => EveryTakenEventHasItsTurn
    BY DEF ServiceInv
  <1>2. QED
    BY ServiceInvariant, <1>1, PTL

-----------------------------------------------------------------------------
(* The composition adds nothing to its parts: seen through the gate's      *)
(* variables the service only takes steps of ChannelGate, and through the  *)
(* queue's only steps of WorkQueue.                                        *)

(* No call hears more than was polled, and cancel runs once.               *)
PartsAreBounded ==
  /\ \A n \in Asks : Len(heard[n]) <= polled
  /\ cancelled => main \in {"stopping", "closing", "joining", "exited"}

LEMMA BoundedInit == Init => PartsAreBounded
  <1> SUFFICES ASSUME Init PROVE PartsAreBounded
    OBVIOUS
  <1>1. heard = [n \in Asks |-> <<>>] /\ polled = 0 /\ cancelled = FALSE
    BY DEF Init, GateInit
  <1>2. QED
    BY <1>1 DEF PartsAreBounded

(* An answer is heard by the pending call alone, which had room for it.    *)
LEMMA AnswerIsBounded ==
  ASSUME ServiceInv, PartsAreBounded, NEW m \in Message, PollAnswer(m)
  PROVE  PartsAreBounded' /\ Reply(m)
  <1>1. /\ polled \in Nat /\ polled < MaxPolled /\ polled' = polled + 1
        /\ MaxPolled \in Nat /\ MaxPolled <= MaxHeard /\ MaxHeard \in Nat
    BY GateAssumption, ServiceAssumption DEF PollAnswer, ServiceInv, TypeOK
  <1>2. SubmitAnswer(m) /\ cancelled' = cancelled /\ main' = main
    BY DEF PollAnswer, mainVars, SubmitAnswer
  <1>3. heard \in [Asks -> Seq(Message)] /\ pending.ask \in Asks
    BY <1>2 DEF SubmitAnswer, Addressed, ServiceInv, GateInv, GateTypeOK, Gates
  <1>4. Len(heard[pending.ask]) < MaxHeard
    <2>1. Len(heard[pending.ask]) \in Nat /\ Len(heard[pending.ask]) <= polled
      BY <1>3 DEF PartsAreBounded
    <2>2. QED
      BY <1>1, <2>1
  <1>5. ASSUME NEW n \in Asks PROVE Len(heard'[n]) <= polled'
    <2>1. Len(heard[n]) \in Nat /\ Len(heard[n]) <= polled /\ heard[n] \in Seq(Message)
      BY <1>3 DEF PartsAreBounded
    <2>2. heard'[n] = heard[n] \/ heard'[n] = Append(heard[n], m)
      BY <1>2, <1>3 DEF SubmitAnswer
    <2>3. Len(Append(heard[n], m)) = Len(heard[n]) + 1
      BY <2>1
    <2>4. QED
      BY <1>1, <2>1, <2>2, <2>3
  <1>6. QED
    BY <1>2, <1>4, <1>5 DEF PartsAreBounded, Reply, HeardBound

(* Shutdown cancels the gate once. *)
LEMMA CancelIsBounded ==
  ASSUME PartsAreBounded, CancelGate
  PROVE  PartsAreBounded' /\ CancelOnce
  BY DEF PartsAreBounded, CancelGate, Step, Cancel, CancelOnce, readerVars

(* The other steps of the service, and what they are to the gate.          *)
OtherStep ==
  \/ \E m \in Message : PollRequest(m)
  \/ ReadGate \/ TellRefusal \/ ReaderRaises \/ Admit
  \/ CheckStop \/ TakeNothing \/ TakeEvent
  \/ OpenGate \/ InGate \/ GateRaises \/ FinishTurn
  \/ Interrupt \/ ReaderGone \/ SetStop \/ CloseQueue \/ Join
  \/ Exited \/ UNCHANGED vars

LEMMA OtherGateStep ==
  ASSUME ServiceInv, OtherStep
  PROVE  /\ [GateNext]_gateVars
         /\ UNCHANGED <<heard, cancelled>>
  <1>1. CASE OpenGate
    <2>1. Requester \in Address
      BY <1>1 DEF OpenGate, Requester, ServiceInv, TurnHasItsEvent, OfferedWasSaid,
                  Message, Address
    <2>2. Ask(Requester)
      BY <1>1, <2>1 DEF OpenGate
    <2>3. QED
      BY <2>1, <2>2 DEF GateNext, Ask
  <1>2. CASE InGate \/ GateRaises
    <2>1. InsideGate
      BY <1>2 DEF InGate, GateRaises, InsideGate
    <2>2. QED
      BY <2>1 DEF InsideGate, GateNext, PromptSent, PromptRaises, Wake, TimeOut, Clear, Report,
                  ReportRaises, gateLog
  <1>3. CASE UNCHANGED gateVars
    BY <1>3 DEF gateVars, gateState, gateLog
  <1>4. QED
    BY <1>1, <1>2, <1>3
    DEF OtherStep, PollRequest, ReadGate, TellRefusal, ReaderRaises, Admit,
        CheckStop, TakeNothing, TakeEvent, FinishTurn, Interrupt, ReaderGone,
        SetStop, CloseQueue, Join, Exited, vars

LEMMA OtherIsBounded ==
  ASSUME ServiceInv, PartsAreBounded, OtherStep
  PROVE  PartsAreBounded'
  <1>1. UNCHANGED <<heard, cancelled>>
    BY OtherGateStep
  <1>2. polled \in Nat /\ polled' \in {polled, polled + 1}
    BY DEF ServiceInv, TypeOK,
        OtherStep, PollRequest, ReadGate, TellRefusal, ReaderRaises, Admit,
        CheckStop, TakeNothing, TakeEvent, OpenGate, InGate, GateRaises,
        FinishTurn, Interrupt, ReaderGone, SetStop, CloseQueue, Join,
        Exited, vars, readerVars
  <1>3. main' # main => \/ main = "running"
                        \/ main' \in {"closing", "joining", "exited"}
    BY DEF OtherStep, PollRequest, ReadGate, TellRefusal, ReaderRaises, Admit,
        CheckStop, TakeNothing, TakeEvent, OpenGate, InGate, GateRaises,
        FinishTurn, Interrupt, ReaderGone, SetStop, CloseQueue, Join,
        Exited, vars, mainVars, Step
  <1>4. \A n \in Asks : Len(heard[n]) \in Nat
    BY DEF ServiceInv, GateInv, GateTypeOK
  <1>5. QED
    BY <1>1, <1>2, <1>3, <1>4 DEF PartsAreBounded

LEMMA ServiceSplit ==
  ASSUME [Next]_vars
  PROVE  (\E m \in Message : PollAnswer(m)) \/ CancelGate \/ OtherStep
  BY DEF Next, ReaderStep, WorkerStep, Shutdown, OtherStep

LEMMA GateStep ==
  ASSUME ServiceInv, PartsAreBounded, [Next]_vars
  PROVE  PartsAreBounded' /\ [GateNext]_gateVars
  <1>1. CASE \E m \in Message : PollAnswer(m)
    BY <1>1, AnswerIsBounded DEF GateNext
  <1>2. CASE CancelGate
    BY <1>2, CancelIsBounded DEF GateNext
  <1>3. CASE OtherStep
    BY <1>3, OtherIsBounded, OtherGateStep
  <1>4. QED
    BY <1>1, <1>2, <1>3, ServiceSplit

-----------------------------------------------------------------------------
(* What the channel yielded adds up, and the reader's hand is empty unless *)
(* it submits.                                                             *)
MessagesAddUp ==
  /\ IsFiniteSet(Consumed)
  /\ EachMessageUsedOnce
  /\ reader \notin {"submitting", "admitting"} => inbound = NoMessage

LEMMA MessagesInit == Init => MessagesAddUp
  <1> SUFFICES ASSUME Init PROVE MessagesAddUp
    OBVIOUS
  <1>1. heard = [n \in Asks |-> <<>>] /\ polled = 0 /\ offered = 0 /\ inbound = NoMessage
    BY DEF Init, GateInit, QueueInit
  <1>2. \A n \in Asks : heard[n] = <<>> /\ DOMAIN heard[n] = {}
    BY <1>1
  <1>3. Consumed = {}
    BY <1>2 DEF Consumed
  <1>4. QED
    BY <1>1, <1>3, FS_EmptySet DEF MessagesAddUp, EachMessageUsedOnce

(* An answer is one more message consumed, by the pending call. *)
LEMMA AnswerAddsUp ==
  ASSUME ServiceInv, MessagesAddUp, NEW m \in Message, PollAnswer(m)
  PROVE  MessagesAddUp'
  <1> DEFINE n == pending.ask
             new == <<n, Len(heard[n]) + 1>>
  <1>1. /\ reader = "polling" /\ polled' = polled + 1 /\ SubmitAnswer(m)
        /\ UNCHANGED <<offered, reader, inbound>>
    BY DEF PollAnswer, queueVars
  <1>2. n \in Asks /\ heard \in [Asks -> Seq(Message)]
    BY <1>1 DEF SubmitAnswer, Addressed, ServiceInv, GateInv, GateTypeOK, Gates
  <1>3. heard' = [heard EXCEPT ![n] = Append(heard[n], m)]
    BY <1>1 DEF SubmitAnswer
  <1>4. polled \in Nat /\ offered \in Nat
    BY ServiceAssumption, QueueAssumption DEF ServiceInv, TypeOK, QueueTypeOK
  <1> HIDE DEF n
  <1>5. /\ Len(heard[n]) \in Nat
        /\ DOMAIN heard[n] = 1 .. Len(heard[n])
        /\ DOMAIN heard'[n] = 1 .. Len(heard[n]) + 1
        /\ \A o \in Asks \ {n} : heard'[o] = heard[o]
    BY <1>2, <1>3
  <1>6. Consumed' = Consumed \cup {new} /\ new \notin Consumed
    <2>1. DOMAIN heard'[n] = DOMAIN heard[n] \cup {Len(heard[n]) + 1}
      BY <1>5
    <2>2. Len(heard[n]) + 1 \notin DOMAIN heard[n]
      BY <1>5
    <2>3. \A x : x \in Consumed <=> \E o \in Asks : \E k \in DOMAIN heard[o] : x = <<o, k>>
      BY DEF Consumed
    <2>4. \A x : x \in Consumed' <=> \E o \in Asks : \E k \in DOMAIN heard'[o] : x = <<o, k>>
      BY DEF Consumed
    <2>5. new \notin Consumed
      BY <2>2, <2>3
    <2>6. ASSUME NEW x PROVE x \in Consumed' <=> x \in Consumed \cup {new}
      <3>1. ASSUME NEW o \in Asks, NEW k \in DOMAIN heard'[o], x = <<o, k>>
            PROVE  x \in Consumed \cup {new}
        BY <1>5, <2>1, <2>3, <3>1
      <3>2. ASSUME NEW o \in Asks, NEW k \in DOMAIN heard[o], x = <<o, k>>
            PROVE  x \in Consumed'
        BY <1>5, <2>1, <2>4, <3>2
      <3>3. new \in Consumed'
        BY <1>2, <2>1, <2>4
      <3>4. QED
        BY <2>3, <2>4, <3>1, <3>2, <3>3
    <2>7. QED
      BY <2>5, <2>6
  <1>7. /\ IsFiniteSet(Consumed') /\ Cardinality(Consumed) \in Nat
        /\ Cardinality(Consumed') = Cardinality(Consumed) + 1
    BY <1>6, FS_AddElement, FS_CardinalityType DEF MessagesAddUp
  <1>8. QED
    BY <1>1, <1>4, <1>7 DEF MessagesAddUp, EachMessageUsedOnce

(* No other step lets a gate hear anything: what is polled is in hand, and *)
(* what was in hand is offered.                                            *)
LEMMA OthersAddUp ==
  ASSUME ServiceInv, MessagesAddUp, UNCHANGED heard, OtherStep \/ CancelGate
  PROVE  MessagesAddUp'
  <1>1. Consumed' = Consumed /\ Cardinality(Consumed) \in Nat
    BY FS_CardinalityType DEF Consumed, MessagesAddUp
  <1>2. polled \in Nat /\ offered \in Nat
    BY ServiceAssumption, QueueAssumption DEF ServiceInv, TypeOK, QueueTypeOK
  <1>3. CASE \E m \in Message : PollRequest(m)
    <2>1. /\ reader = "polling" /\ polled' = polled + 1 /\ offered' = offered
          /\ inbound' \in Message /\ reader' = "submitting"
      BY <1>3 DEF PollRequest, queueVars
    <2>2. inbound' # NoMessage
      BY <2>1, ServiceAssumption
    <2>3. QED
      BY <1>1, <1>2, <2>1, <2>2 DEF MessagesAddUp, EachMessageUsedOnce
  <1>4. CASE Admit
    <2>1. /\ inbound \in Message /\ inbound' = NoMessage /\ offered' = offered + 1
          /\ polled' = polled
      BY <1>4, AdmitShape DEF Admit, ServiceInv, ReaderHoldsOne
    <2>2. inbound # NoMessage
      BY <2>1, ServiceAssumption
    <2>3. QED
      BY <1>1, <1>2, <2>1, <2>2 DEF MessagesAddUp, EachMessageUsedOnce
  <1>5. CASE ~ Admit /\ ~ \E m \in Message : PollRequest(m)
    <2>1. UNCHANGED <<polled, offered, inbound>>
      BY <1>5 DEF OtherStep, ReadGate, TellRefusal, ReaderRaises, CheckStop, TakeNothing,
          TakeEvent, Take, OpenGate, InGate, GateRaises, FinishTurn, Interrupt,
          ReaderGone, CancelGate, SetStop, CloseQueue, Close, Join, Exited, vars,
          readerVars, queueVars
    <2>2. reader \in {"submitting", "admitting"} => reader' \in {"submitting", "admitting"}
      BY <1>5 DEF OtherStep, ReadGate, TellRefusal, ReaderRaises, CheckStop, TakeNothing,
          TakeEvent, OpenGate, InGate, GateRaises, FinishTurn, Interrupt,
          ReaderGone, CancelGate, SetStop, CloseQueue, Join, Exited, vars, readerVars
    <2>3. EachMessageUsedOnce'
      BY <1>1, <2>1 DEF MessagesAddUp, EachMessageUsedOnce
    <2>4. QED
      BY <1>1, <2>1, <2>2, <2>3 DEF MessagesAddUp
  <1>6. QED
    BY <1>3, <1>4, <1>5

LEMMA MessagesNext ==
  ASSUME ServiceInv, MessagesAddUp, [Next]_vars
  PROVE  MessagesAddUp'
  <1>1. CASE \E m \in Message : PollAnswer(m)
    BY <1>1, AnswerAddsUp
  <1>2. CASE CancelGate
    BY <1>2, OthersAddUp DEF CancelGate, Cancel
  <1>3. CASE OtherStep
    BY <1>3, OtherGateStep, OthersAddUp
  <1>4. QED
    BY <1>1, <1>2, <1>3, ServiceSplit

(* No message answers a gate and is queued too, and none is dropped: each  *)
(* one polled was consumed by one gated call, or offered once to the       *)
(* queue, or is the one in the reader's hand.                              *)
THEOREM MessagesAreUsedOnce == Spec => []EachMessageUsedOnce
  <1>1. Init => MessagesAddUp
    BY MessagesInit
  <1>2. ServiceInv /\ MessagesAddUp /\ [Next]_vars => MessagesAddUp'
    BY MessagesNext
  <1>3. MessagesAddUp => EachMessageUsedOnce
    BY DEF MessagesAddUp
  <1>4. QED
    BY <1>1, <1>2, <1>3, ServiceInvariant, PTL DEF Spec

-----------------------------------------------------------------------------
LEMMA QueueStep ==
  ASSUME ServiceInv, [Next]_vars
  PROVE  [QueueNext]_queueVars
  <1>1. CASE Admit
    <2>1. InboundEvent \in Events
      BY <1>1, AdmitShape
    <2>2. Submit(InboundEvent, gateBusy) /\ gateBusy \in BOOLEAN
      BY <1>1 DEF Admit, ServiceInv, TypeOK
    <2>3. QED
      BY <2>1, <2>2 DEF QueueNext
  <1>2. CASE TakeEvent
    BY <1>2 DEF TakeEvent, QueueNext
  <1>3. CASE CloseQueue
    BY <1>3 DEF CloseQueue, QueueNext
  <1>4. CASE UNCHANGED queueVars
    BY <1>4
  <1>5. QED
    BY <1>1, <1>2, <1>3, <1>4
    DEF Next, ReaderStep, PollAnswer, PollRequest, ReadGate, TellRefusal,
        ReaderRaises, WorkerStep, CheckStop, TakeNothing, OpenGate, InGate,
        GateRaises, FinishTurn, Interrupt, Shutdown, ReaderGone, CancelGate,
        SetStop, Join, Exited, vars

(* Inside the service the gate behaves as ChannelGate says, so what is     *)
(* proved of the gate holds of the service: it keeps the approval contract.*)
THEOREM ServiceRunsTheGate == Spec => GateSpec /\ Promise!Spec
  <1>1. Init => PartsAreBounded /\ GateInit
    BY BoundedInit DEF Init
  <1>2. ServiceInv /\ PartsAreBounded /\ [Next]_vars => PartsAreBounded' /\ [GateNext]_gateVars
    BY GateStep
  <1>3. Spec => GateSpec
    BY <1>1, <1>2, ServiceInvariant, PTL DEF Spec, GateSpec
  <1>4. QED
    BY <1>3, GateImplementsApproval, PTL

(* Inside the service the queue behaves as WorkQueue says, whatever the    *)
(* reader saw of the gate and whenever the queue is closed.                *)
THEOREM ServiceRunsTheQueue == Spec => QueueSpec
  <1>1. Init => QueueInit
    BY DEF Init
  <1>2. ServiceInv /\ [Next]_vars => [QueueNext]_queueVars
    BY QueueStep
  <1>3. QED
    BY <1>1, <1>2, ServiceInvariant, PTL DEF Spec, QueueSpec

(* So the service keeps what its parts promise: nobody but the requester   *)
(* approves a call, and nobody is overtaken in the queue.                  *)
THEOREM ServiceKeepsPromises ==
  Spec => [](/\ ApprovedByRequester /\ BystandersIgnored
             /\ NoRedundantWork /\ AcceptedPushIsCovered /\ HumanMessageKept)
  BY ServiceRunsTheGate, ServiceRunsTheQueue, RequesterApproves,
     BystandersCannotAnswer, NothingRedundantWaits,
     MergingIsNotLossy, NobodyIsOvertaken, PTL
=============================================================================
