---------------------------- MODULE ChannelProofs ----------------------------
(***************************************************************************)
(* Proofs about ChannelGate, for every set of users, threads and words and *)
(* every number of gated calls: its types, that only the requester's own   *)
(* "yes" approves a call, and that it implements Approval.  And about      *)
(* WorkQueue, for every set of keys, every capacity and any number of      *)
(* events: nothing redundant waits, a merged push is covered, and a        *)
(* person's message is neither lost nor overtaken.                         *)
(***************************************************************************)
EXTENDS ChannelGate, WorkQueue, TLAPS

(* The call the worker is inside is the last one and the only open one.    *)
OneOpenCall ==
  /\ asker # "idle" => asks \in Asks
  /\ \A n \in Asks : outcome[n] = "open" <=> (asker # "idle" /\ n = asks)

(* A call not yet made has heard nothing.                                  *)
FutureIsBlank ==
  \A n \in Asks : n > asks => heard[n] = <<>> /\ outcome[n] = "unasked"

(* _pending, while set, describes the last call.                           *)
PendingIsLast ==
  /\ asker \in {"prompting", "waiting"} => pending # NoGate
  /\ asker = "reporting" => pending = NoGate
  /\ pending # NoGate =>
       /\ pending.ask = asks
       /\ asked[asks] = pending.from
       /\ outcome[asks] \in {"open", "failed"}

(* An approving answer, or the decision read from it, was consented to.    *)
AnswerIsConsent ==
  /\ answer # "none" => pending # NoGate
  /\ answer = "approve" => Consented(asks)
  /\ asker = "reporting" /\ decision = "approve" => Consented(asks)

GateInv ==
  /\ GateTypeOK
  /\ OneOpenCall
  /\ FutureIsBlank
  /\ PendingIsLast
  /\ AnswerIsConsent
  /\ BystandersIgnored
  /\ ApprovedByRequester

-----------------------------------------------------------------------------
(* Appending to what a call heard keeps what it had consented to.          *)
LEMMA AppendElement ==
  ASSUME NEW S, NEW s \in Seq(S), NEW e \in S
  PROVE  /\ Append(s, e) \in Seq(S)
         /\ DOMAIN Append(s, e) = 1 .. Len(s) + 1
         /\ \A i \in DOMAIN s : i \in DOMAIN Append(s, e) /\ Append(s, e)[i] = s[i]
         /\ Append(s, e)[Len(s) + 1] = e
         /\ \A i \in DOMAIN Append(s, e) : i \in DOMAIN s \/ i = Len(s) + 1
  OBVIOUS

LEMMA GateInitInv == GateInit => GateInv
  <1> SUFFICES ASSUME GateInit PROVE GateInv
    OBVIOUS
  <1>1. GateTypeOK
    <2>1. heard \in [Asks -> Seq(Message)]
      <3>1. <<>> \in Seq(Message)
        OBVIOUS
      <3>2. QED
        BY <3>1 DEF GateInit
    <2>2. outcome \in [Asks -> Outcomes]
      BY DEF GateInit, Outcomes
    <2>3. asked \in [Asks -> Address \cup {NoGate}]
      BY DEF GateInit
    <2>4. asks \in 0 .. MaxAsks
      BY GateAssumption DEF GateInit
    <2>5. QED
      BY <2>1, <2>2, <2>3, <2>4 DEF GateInit, GateTypeOK, Answers
  <1>2. QED
    BY <1>1, GateAssumption
    DEF GateInit, GateInv, OneOpenCall, FutureIsBlank, PendingIsLast, AnswerIsConsent,
        BystandersIgnored, ApprovedByRequester, Asks

-----------------------------------------------------------------------------
(* Ask opens the next call, which has heard nothing.                       *)
LEMMA AskInv ==
  ASSUME GateInv, NEW from \in Address, Ask(from)
  PROVE  GateInv'
  <1> USE GateAssumption DEF GateInv
  <1>1. asks \in Nat /\ asks + 1 \in Asks /\ asks' = asks + 1
    BY DEF Ask, GateTypeOK, Asks
  <1>2. [ask |-> asks + 1, from |-> from] \in Gates
    BY <1>1 DEF Gates
  <1>3. GateTypeOK'
    BY <1>1, <1>2 DEF Ask, GateTypeOK, Answers, Outcomes, Asks
  <1>4. OneOpenCall'
    BY <1>1 DEF Ask, GateTypeOK, OneOpenCall, FutureIsBlank
  <1>5. FutureIsBlank'
    <2> SUFFICES ASSUME NEW n \in Asks, n > asks'
                 PROVE  heard'[n] = <<>> /\ outcome'[n] = "unasked"
      BY DEF FutureIsBlank
    <2>1. n \in Nat /\ n > asks /\ n # asks + 1
      BY <1>1 DEF Asks
    <2>2. heard[n] = <<>> /\ outcome[n] = "unasked"
      BY <2>1 DEF FutureIsBlank
    <2>3. QED
      BY <2>1, <2>2 DEF Ask, GateTypeOK
  <1>6. PendingIsLast'
    BY <1>1, <1>2 DEF Ask, GateTypeOK, PendingIsLast, Asks
  <1>7. AnswerIsConsent'
    BY <1>1, <1>2 DEF Ask, AnswerIsConsent
  <1>8. \A n \in Asks : n # asks + 1 => (Consented(n) => Consented(n)')
    BY DEF Ask, GateTypeOK, Consented
  <1>9. BystandersIgnored'
    <2> SUFFICES ASSUME NEW n \in Asks, NEW i \in DOMAIN heard'[n]
                 PROVE  asked'[n] = [user |-> heard'[n][i].user,
                                     thread |-> heard'[n][i].thread]
      BY DEF BystandersIgnored
    <2>1. heard' = heard
      BY DEF Ask
    <2>2. n # asks + 1
      BY <1>1, <2>1 DEF FutureIsBlank
    <2>3. asked'[n] = asked[n]
      BY <1>1, <2>2 DEF Ask, GateTypeOK
    <2>4. QED
      BY <2>1, <2>3 DEF BystandersIgnored
  <1>10. ApprovedByRequester'
    BY <1>1, <1>8 DEF Ask, GateTypeOK, ApprovedByRequester
  <1>11. QED
    BY <1>3, <1>4, <1>5, <1>6, <1>7, <1>9, <1>10

(* A step that changes neither what was asked nor what was heard keeps     *)
(* consent.                                                                *)
LEMMA ConsentKept ==
  ASSUME UNCHANGED <<asked, heard>>
  PROVE  \A n \in Asks : Consented(n)' <=> Consented(n)
  BY DEF Consented

(* The prompt is out: nothing but the worker's place changes.              *)
LEMMA PromptSentInv ==
  ASSUME GateInv, PromptSent
  PROVE  GateInv'
  BY DEF GateInv, PromptSent, gateState, gateLog, GateTypeOK, OneOpenCall, FutureIsBlank,
         PendingIsLast, AnswerIsConsent, BystandersIgnored, ApprovedByRequester, Consented

(* A call that ends failed or declined consents to nothing new.            *)
LEMMA PromptRaisesInv ==
  ASSUME GateInv, PromptRaises
  PROVE  GateInv'
  <1> USE DEF GateInv
  <1>1. asks \in Asks
    BY DEF PromptRaises, OneOpenCall
  <1>2. GateTypeOK'
    BY DEF PromptRaises, gateState, GateTypeOK, Outcomes
  <1>3. OneOpenCall' /\ FutureIsBlank'
    BY <1>1 DEF PromptRaises, gateState, GateTypeOK, OneOpenCall, FutureIsBlank, Asks
  <1>4. PendingIsLast' /\ AnswerIsConsent'
    BY <1>1 DEF PromptRaises, gateState, GateTypeOK, PendingIsLast, AnswerIsConsent, Consented
  <1>5. BystandersIgnored' /\ ApprovedByRequester'
    BY <1>1 DEF PromptRaises, GateTypeOK, BystandersIgnored, ApprovedByRequester, Consented
  <1>6. QED
    BY <1>2, <1>3, <1>4, <1>5

(* The worker reads the answer: the decision inherits its consent.         *)
LEMMA ClearInv ==
  ASSUME GateInv, asker = "waiting", Clear
  PROVE  GateInv'
  <1> USE DEF GateInv
  <1>1. GateTypeOK'
    BY DEF Clear, gateLog, GateTypeOK, Answers
  <1>2. OneOpenCall' /\ FutureIsBlank' /\ PendingIsLast'
    BY DEF Clear, gateLog, GateTypeOK, OneOpenCall, FutureIsBlank, PendingIsLast
  <1>3. AnswerIsConsent'
    BY DEF Clear, gateLog, AnswerIsConsent, Consented
  <1>4. BystandersIgnored' /\ ApprovedByRequester'
    BY DEF Clear, gateLog, BystandersIgnored, ApprovedByRequester, Consented
  <1>5. QED
    BY <1>1, <1>2, <1>3, <1>4

(* _ask returns: it returns True only on a decision that was consented to. *)
LEMMA ReportInv ==
  ASSUME GateInv, Report \/ ReportRaises
  PROVE  GateInv'
  <1> USE DEF GateInv
  <1>1. asks \in Asks /\ pending = pending' /\ asker = "reporting"
    BY DEF Report, ReportRaises, OneOpenCall, gateState
  <1>2. GateTypeOK'
    BY DEF Report, ReportRaises, gateState, GateTypeOK, Outcomes
  <1>3. OneOpenCall' /\ FutureIsBlank'
    BY <1>1 DEF Report, ReportRaises, gateState, GateTypeOK, OneOpenCall, FutureIsBlank, Asks
  <1>4. pending = NoGate
    BY <1>1 DEF PendingIsLast, OneOpenCall
  <1>5. PendingIsLast' /\ AnswerIsConsent'
    BY <1>1, <1>4 DEF Report, ReportRaises, gateState, PendingIsLast, AnswerIsConsent
  <1>6. UNCHANGED <<asked, heard>>
    BY DEF Report, ReportRaises
  <1>7. BystandersIgnored'
    BY <1>6 DEF BystandersIgnored
  <1>8. ApprovedByRequester'
    <2> SUFFICES ASSUME NEW n \in Asks, outcome'[n] = "approved"
                 PROVE  Consented(n)
      BY <1>6, ConsentKept DEF ApprovedByRequester
    <2>1. CASE n = asks
      <3>1. decision = "approve"
        BY <1>1, <2>1 DEF Report, ReportRaises, GateTypeOK
      <3>2. QED
        BY <1>1, <2>1, <3>1 DEF AnswerIsConsent
    <2>2. CASE n # asks
      BY <1>1, <2>2 DEF Report, ReportRaises, GateTypeOK, ApprovedByRequester
    <2>3. QED
      BY <2>1, <2>2
  <1>9. QED
    BY <1>2, <1>3, <1>5, <1>7, <1>8

(* A consumed message comes from the requester, and what a call had heard  *)
(* it still has.                                                           *)
LEMMA SubmitAnswerInv ==
  ASSUME GateInv, NEW m \in Message, SubmitAnswer(m)
  PROVE  GateInv'
  <1> USE DEF GateInv
  <1> DEFINE who == [user |-> m.user, thread |-> m.thread]
  <1>1. /\ asks \in Asks
        /\ pending # NoGate
        /\ pending.ask = asks
        /\ asked[asks] = who
    BY DEF SubmitAnswer, Addressed, PendingIsLast, GateTypeOK, Gates
  <1>2. heard[asks] \in Seq(Message)
    BY <1>1 DEF GateTypeOK
  <1>3. heard' = [heard EXCEPT ![asks] = Append(heard[asks], m)]
    BY <1>1 DEF SubmitAnswer
  <1>4. heard'[asks] = Append(heard[asks], m)
    BY <1>1, <1>3 DEF GateTypeOK
  <1>5. \A n \in Asks : n # asks => heard'[n] = heard[n]
    BY <1>3 DEF GateTypeOK
  <1>6. heard' \in [Asks -> Seq(Message)]
    BY <1>2, <1>3, AppendElement DEF GateTypeOK
  <1>7. GateTypeOK'
    BY <1>6 DEF SubmitAnswer, GateTypeOK, Answers
  <1>8. OneOpenCall' /\ PendingIsLast'
    BY DEF SubmitAnswer, OneOpenCall, PendingIsLast
  <1>9. FutureIsBlank'
    BY <1>1, <1>5 DEF SubmitAnswer, FutureIsBlank, Asks
  <1>10. \A n \in Asks : Consented(n) => Consented(n)'
    <2> SUFFICES ASSUME NEW n \in Asks, Consented(n)
                 PROVE  Consented(n)'
      OBVIOUS
    <2>1. asked' = asked
      BY DEF SubmitAnswer
    <2>2. CASE n # asks
      BY <1>5, <2>1, <2>2 DEF Consented
    <2>3. CASE n = asks
      <3>1. PICK i \in DOMAIN heard[asks] :
              /\ heard[asks][i].word \in Affirmative
              /\ asked[asks] = [user |-> heard[asks][i].user,
                                thread |-> heard[asks][i].thread]
        BY <2>3 DEF Consented
      <3>2. i \in DOMAIN heard'[asks] /\ heard'[asks][i] = heard[asks][i]
        BY <1>2, <1>4, AppendElement
      <3>3. QED
        BY <2>1, <2>3, <3>1, <3>2 DEF Consented
    <2>4. QED
      BY <2>2, <2>3
  <1>11. m.word \in Affirmative => Consented(asks)'
    <2>1. Len(heard[asks]) + 1 \in DOMAIN heard'[asks]
      BY <1>2, <1>4, AppendElement
    <2>2. heard'[asks][Len(heard[asks]) + 1] = m
      BY <1>2, <1>4, AppendElement
    <2>3. asked'[asks] = who
      BY <1>1 DEF SubmitAnswer
    <2> SUFFICES ASSUME m.word \in Affirmative PROVE Consented(asks)'
      OBVIOUS
    <2>4. \E i \in DOMAIN heard'[asks] :
            /\ heard'[asks][i].word \in Affirmative
            /\ asked'[asks] = [user |-> heard'[asks][i].user,
                               thread |-> heard'[asks][i].thread]
      <3> WITNESS Len(heard[asks]) + 1 \in DOMAIN heard'[asks]
      <3>1. QED
        BY <2>2, <2>3
    <2>5. asks' = asks
      BY DEF SubmitAnswer
    <2>6. QED
      BY <2>4, <2>5 DEF Consented
  <1>12. AnswerIsConsent'
    BY <1>1, <1>10, <1>11 DEF SubmitAnswer, AnswerIsConsent, OneOpenCall, PendingIsLast
  <1>13. BystandersIgnored'
    <2> SUFFICES ASSUME NEW n \in Asks, NEW i \in DOMAIN heard'[n]
                 PROVE  asked[n] = [user |-> heard'[n][i].user,
                                    thread |-> heard'[n][i].thread]
      BY DEF BystandersIgnored, SubmitAnswer
    <2>1. CASE n # asks
      BY <1>5, <2>1 DEF BystandersIgnored
    <2>2. CASE n = asks
      <3>1. CASE i \in DOMAIN heard[asks]
        <4>1. heard'[n][i] = heard[asks][i]
          BY <1>2, <1>4, <2>2, <3>1, AppendElement
        <4>2. asked[asks] = [user |-> heard[asks][i].user,
                             thread |-> heard[asks][i].thread]
          BY <1>1, <3>1 DEF BystandersIgnored
        <4>3. QED
          BY <2>2, <4>1, <4>2
      <3>2. CASE i \notin DOMAIN heard[asks]
        <4>1. heard'[n][i] = m
          BY <1>2, <1>4, <2>2, <3>2, AppendElement
        <4>2. QED
          BY <1>1, <2>2, <4>1
      <3>3. QED
        BY <3>1, <3>2
    <2>3. QED
      BY <2>1, <2>2
  <1>14. ApprovedByRequester'
    BY <1>10 DEF SubmitAnswer, ApprovedByRequester
  <1>15. QED
    BY <1>7, <1>8, <1>9, <1>12, <1>13, <1>14

(* cancel only ever answers "decline".                                     *)
LEMMA CancelInv ==
  ASSUME GateInv, Cancel
  PROVE  GateInv'
  <1> USE DEF GateInv
  <1>1. GateTypeOK'
    BY DEF Cancel, GateTypeOK, Answers, Gates
  <1>2. OneOpenCall' /\ FutureIsBlank' /\ PendingIsLast'
    BY DEF Cancel, OneOpenCall, FutureIsBlank, PendingIsLast
  <1>3. UNCHANGED <<asked, heard>>
    BY DEF Cancel
  <1>4. AnswerIsConsent'
    BY DEF Cancel, AnswerIsConsent, Consented
  <1>5. BystandersIgnored' /\ ApprovedByRequester'
    BY <1>3, ConsentKept DEF Cancel, BystandersIgnored, ApprovedByRequester
  <1>6. QED
    BY <1>1, <1>2, <1>4, <1>5

(* Every step of the specification keeps the invariant.                    *)
LEMMA GateNextInv == GateInv /\ [GateNext]_gateVars => GateInv'
  <1> SUFFICES ASSUME GateInv, [GateNext]_gateVars
               PROVE  GateInv'
    OBVIOUS
  <1>1. CASE \E from \in Address : Ask(from)
    BY <1>1, AskInv
  <1>2. CASE PromptSent
    BY <1>2, PromptSentInv
  <1>3. CASE PromptRaises
    BY <1>3, PromptRaisesInv
  <1>4. CASE Wake \/ TimeOut
    BY <1>4, ClearInv DEF Wake, TimeOut
  <1>5. CASE Report \/ ReportRaises
    BY <1>5, ReportInv
  <1>6. CASE \E m \in Message : Reply(m)
    BY <1>6, SubmitAnswerInv DEF Reply
  <1>7. CASE CancelOnce
    BY <1>7, CancelInv DEF CancelOnce
  <1>8. CASE UNCHANGED gateVars
    BY <1>8 DEF gateVars, gateState, gateLog, GateInv, GateTypeOK, OneOpenCall, FutureIsBlank,
                PendingIsLast, AnswerIsConsent, BystandersIgnored, ApprovedByRequester,
                Consented
  <1>9. QED
    BY <1>1, <1>2, <1>3, <1>4, <1>5, <1>6, <1>7, <1>8 DEF GateNext

-----------------------------------------------------------------------------
(* The inductive invariant holds in every reachable state.                 *)
THEOREM GateInvariant == GateSpec => []GateInv
  <1>1. QED
    BY GateInitInv, GateNextInv, PTL DEF GateSpec

(* Every variable of the gate keeps its type.                              *)
THEOREM GateTypes == GateSpec => []GateTypeOK
  <1>1. GateInv => GateTypeOK
    BY DEF GateInv
  <1>2. QED
    BY GateInvariant, <1>1, PTL

(* Only the requester's answer approves: every call that returned True     *)
(* heard its own requester approve it, in the thread it was asked in.      *)
THEOREM RequesterApproves == GateSpec => []ApprovedByRequester
  <1>1. GateInv => ApprovedByRequester
    BY DEF GateInv
  <1>2. QED
    BY GateInvariant, <1>1, PTL

(* A bystander's message is never consumed by a call.                      *)
THEOREM BystandersCannotAnswer == GateSpec => []BystandersIgnored
  <1>1. GateInv => BystandersIgnored
    BY DEF GateInv
  <1>2. QED
    BY GateInvariant, <1>1, PTL

-----------------------------------------------------------------------------
(* The gate implements the abstract approval contract.                     *)

LEMMA RefinesInit == GateInit => Promise!Init
  <1> SUFFICES ASSUME GateInit PROVE Promise!Init
    OBVIOUS
  <1>1. \A n \in Asks : ~Consented(n)
    BY DEF GateInit, Consented
  <1>2. QED
    BY <1>1 DEF GateInit, Promise!Init, Asks, Promise!Asks

(* A step that changes neither an outcome nor what anyone consented to is  *)
(* a stutter of the contract.                                              *)
LEMMA RefinesStutter ==
  ASSUME UNCHANGED <<outcome, asked, heard>>
  PROVE  UNCHANGED Promise!vars
  BY DEF Promise!vars, Consented

LEMMA RefinesAsk ==
  ASSUME GateInv, NEW from \in Address, Ask(from)
  PROVE  Promise!Next
  <1> USE DEF GateInv
  <1>1. asks + 1 \in Asks /\ asks \in 0 .. MaxAsks
    BY GateAssumption DEF Ask, Asks, GateTypeOK
  <1>2. outcome[asks + 1] = "unasked" /\ heard[asks + 1] = <<>>
    BY <1>1 DEF FutureIsBlank
  <1>3. \A n \in Asks : Consented(n)' <=> Consented(n)
    <2> SUFFICES ASSUME NEW n \in Asks PROVE Consented(n)' <=> Consented(n)
      OBVIOUS
    <2>1. CASE n = asks + 1
      BY <1>2, <2>1 DEF Consented, Ask
    <2>2. CASE n # asks + 1
      BY <2>2 DEF Consented, Ask, GateTypeOK
    <2>3. QED
      BY <2>1, <2>2
  <1>4. Promise!Open(asks + 1)
    BY <1>1, <1>2, <1>3 DEF Ask, Promise!Open, Promise!Asks, Asks, OneOpenCall
  <1>5. QED
    BY <1>1, <1>4 DEF Promise!Next, Promise!Asks, Asks

(* Ending a call settles it; an approval was consented to.                 *)
LEMMA RefinesSettle ==
  ASSUME GateInv, PromptRaises \/ Report \/ ReportRaises
  PROVE  Promise!Next
  <1> USE DEF GateInv
  <1>1. asks \in Asks /\ outcome[asks] = "open"
    BY DEF PromptRaises, Report, ReportRaises, OneOpenCall
  <1>2. UNCHANGED <<asked, heard>>
    BY DEF PromptRaises, Report, ReportRaises
  <1>3. \A n \in Asks : Consented(n)' <=> Consented(n)
    BY <1>2 DEF Consented
  <1>4. decision = "approve" /\ asker = "reporting" => Consented(asks)
    BY DEF AnswerIsConsent
  <1>5. \E o \in {"approved", "declined", "failed"} :
          /\ o = "approved" => asks \in {n \in Asks : Consented(n)}
          /\ outcome' = [outcome EXCEPT ![asks] = o]
    BY <1>1, <1>4 DEF PromptRaises, Report, ReportRaises
  <1>6. Promise!Settle(asks)
    BY <1>1, <1>3, <1>5 DEF Promise!Settle
  <1>7. QED
    BY <1>1, <1>6 DEF Promise!Next, Promise!Asks, Asks

(* A consumed message is the consent of the pending call, or says nothing  *)
(* new.                                                                    *)
LEMMA RefinesAnswer ==
  ASSUME GateInv, NEW m \in Message, SubmitAnswer(m)
  PROVE  [Promise!Next]_(Promise!vars)
  <1> USE DEF GateInv
  <1>1. asks \in Asks /\ outcome[asks] \in {"open", "failed"}
    BY DEF SubmitAnswer, Addressed, PendingIsLast, GateTypeOK, Gates
  <1>2. pending.ask = asks /\ heard[asks] \in Seq(Message)
    BY <1>1 DEF SubmitAnswer, Addressed, PendingIsLast, GateTypeOK
  <1>3. UNCHANGED <<outcome, asked>>
    BY DEF SubmitAnswer
  <1>4. heard' = [heard EXCEPT ![asks] = Append(heard[asks], m)]
    BY <1>2 DEF SubmitAnswer
  <1>5. \A n \in Asks : n # asks => (Consented(n)' <=> Consented(n))
    BY <1>3, <1>4 DEF Consented, GateTypeOK
  <1>6. Consented(asks) => Consented(asks)'
    <2> SUFFICES ASSUME Consented(asks) PROVE Consented(asks)'
      OBVIOUS
    <2>1. PICK i \in DOMAIN heard[asks] :
            /\ heard[asks][i].word \in Affirmative
            /\ asked[asks] = [user |-> heard[asks][i].user,
                              thread |-> heard[asks][i].thread]
      BY DEF Consented
    <2>2. heard'[asks] = Append(heard[asks], m)
      BY <1>1, <1>4 DEF GateTypeOK
    <2>3. i \in DOMAIN heard'[asks] /\ heard'[asks][i] = heard[asks][i]
      BY <1>2, <2>2, AppendElement
    <2>4. asks' = asks
      BY DEF SubmitAnswer
    <2>5. QED
      BY <1>3, <2>1, <2>3, <2>4 DEF Consented
  <1>7. asks' = asks
    BY DEF SubmitAnswer
  <1>8. CASE Consented(asks) <=> Consented(asks)'
    <2>1. {n \in Asks : Consented(n)}' = {n \in Asks : Consented(n)}
      BY <1>5, <1>7, <1>8
    <2>2. QED
      BY <1>3, <2>1 DEF Promise!vars
  <1>9. CASE ~Consented(asks) /\ Consented(asks)'
    <2>1. {n \in Asks : Consented(n)}' = {n \in Asks : Consented(n)} \cup {asks}
      BY <1>1, <1>5, <1>7, <1>9
    <2>2. Promise!Consent(asks)
      BY <1>1, <1>3, <2>1 DEF Promise!Consent
    <2>3. QED
      BY <1>1, <2>2 DEF Promise!Next, Promise!Asks, Asks
  <1>10. QED
    BY <1>6, <1>8, <1>9

LEMMA RefinesNext == GateInv /\ [GateNext]_gateVars => [Promise!Next]_(Promise!vars)
  <1> SUFFICES ASSUME GateInv, [GateNext]_gateVars
               PROVE  [Promise!Next]_(Promise!vars)
    OBVIOUS
  <1>1. CASE \E from \in Address : Ask(from)
    BY <1>1, RefinesAsk
  <1>2. CASE PromptRaises \/ Report \/ ReportRaises
    BY <1>2, RefinesSettle
  <1>3. CASE \E m \in Message : Reply(m)
    BY <1>3, RefinesAnswer DEF Reply
  <1>4. CASE PromptSent \/ Wake \/ TimeOut \/ CancelOnce \/ UNCHANGED gateVars
    <2>1. UNCHANGED <<outcome, asked, heard>>
      BY <1>4 DEF PromptSent, Wake, TimeOut, Clear, CancelOnce, Cancel, gateVars, gateLog
    <2>2. QED
      BY <2>1, RefinesStutter
  <1>5. QED
    BY <1>1, <1>2, <1>3, <1>4 DEF GateNext

(* The gate, with its three threads and its messages, only ever does what  *)
(* the abstract contract allows: an approval needs the requester's consent *)
(* to that very call.                                                      *)
THEOREM GateImplementsApproval == GateSpec => Promise!Spec
  <1>1. QED
    BY GateInvariant, RefinesInit, RefinesNext, PTL DEF GateSpec, Promise!Spec

-----------------------------------------------------------------------------
(* Every event in the queue or out of it was offered: a later one is newer. *)
IdsWereOffered ==
  /\ \A e \in admitted : e.id <= offered
  /\ \A i \in DOMAIN items : items[i].id <= offered
  /\ \A i \in DOMAIN taken : taken[i].id <= offered

(* People's messages, in the order they were sent. *)
InOrder(s) ==
  \A i, j \in DOMAIN s :
    i < j /\ Interactive(s[i]) /\ Interactive(s[j]) => s[i].id < s[j].id

(* Taken before waiting, and oldest first in both. *)
HumansQueueUp ==
  /\ InOrder(items)
  /\ InOrder(taken)
  /\ \A i \in DOMAIN taken, j \in DOMAIN items :
       Interactive(taken[i]) /\ Interactive(items[j]) => taken[i].id < items[j].id

(* No event is in two places: it waits once, or was taken once. *)
NoTwice(s) == \A i, j \in DOMAIN s : s[i].id = s[j].id => i = j
InOnePlace ==
  /\ NoTwice(items)
  /\ NoTwice(taken)
  /\ \A i \in DOMAIN taken, j \in DOMAIN items : taken[i].id # items[j].id

QueueInv ==
  /\ QueueTypeOK
  /\ NoRedundantWork
  /\ IdsWereOffered
  /\ InOnePlace
  /\ HumansQueueUp
  /\ AcceptedPushIsCovered
  /\ HumanMessageKept

-----------------------------------------------------------------------------
(* What the three changes the queue makes to a sequence do to its elements. *)
LEMMA Appended ==
  ASSUME NEW S, NEW s \in Seq(S), NEW e \in S
  PROVE  /\ Append(s, e) \in Seq(S)
         /\ Len(Append(s, e)) = Len(s) + 1
         /\ DOMAIN s = 1 .. Len(s) /\ Len(s) \in Nat
         /\ DOMAIN Append(s, e) = 1 .. Len(s) + 1
         /\ \A i \in DOMAIN s : Append(s, e)[i] = s[i]
         /\ Append(s, e)[Len(s) + 1] = e
  OBVIOUS

LEMMA Popped ==
  ASSUME NEW S, NEW s \in Seq(S), s # <<>>
  PROVE  /\ Head(s) \in S /\ Tail(s) \in Seq(S)
         /\ Len(s) \in Nat \ {0}
         /\ Len(Tail(s)) = Len(s) - 1
         /\ DOMAIN s = 1 .. Len(s)
         /\ DOMAIN Tail(s) = 1 .. Len(s) - 1
         /\ \A i \in DOMAIN Tail(s) : Tail(s)[i] = s[i + 1] /\ i + 1 \in DOMAIN s
         /\ Head(s) = s[1] /\ 1 \in DOMAIN s
  OBVIOUS

LEMMA Replaced ==
  ASSUME NEW S, NEW s \in Seq(S), NEW e \in S, NEW k \in DOMAIN s
  PROVE  LET t == [s EXCEPT ![k] = e]
         IN  /\ t \in Seq(S) /\ Len(t) = Len(s)
             /\ DOMAIN t = DOMAIN s
             /\ t[k] = e
             /\ \A i \in DOMAIN s : i # k => t[i] = s[i]
  OBVIOUS

(* An event has an id and a source, and a key only if it is a push. *)
LEMMA EventFields ==
  ASSUME NEW e \in Events
  PROVE  /\ e.id \in Nat /\ e.id \in Ids
         /\ e.source \in {"telegram", "heartbeat", "github"}
         /\ e.key # NoKey <=> e.source = "github"
  BY QueueAssumption DEF Events, Ids

(* The waiting push that a new one replaces. *)
LEMMA SlotIsAPush ==
  ASSUME QueueTypeOK, NoRedundantWork, NEW e \in Events, Mergeable(e)
  PROVE  /\ MergeSlot(e) \in DOMAIN items
         /\ items[MergeSlot(e)].key = e.key
         /\ items[MergeSlot(e)].source = "github"
         /\ e.source = "github"
  <1>1. PICK k \in DOMAIN items : items[k].key = e.key
    BY DEF Mergeable
  <1>2. e.key # NoKey
    BY DEF Mergeable
  <1>3. \A j \in DOMAIN items : items[j].key = e.key => j = k
    BY <1>1, <1>2 DEF NoRedundantWork
  <1>4. \A j \in DOMAIN items : items[j] \in Events /\ j \in Nat
    BY DEF QueueTypeOK
  <1>5. \A j \in DOMAIN items : items[j].key = e.key => k <= j
    BY <1>3, <1>4
  <1>6. MergeSlot(e) \in DOMAIN items /\ items[MergeSlot(e)].key = e.key
    BY <1>1, <1>5 DEF MergeSlot
  <1>7. QED
    BY <1>2, <1>4, <1>6, EventFields

LEMMA QueueInitInv == QueueInit => QueueInv
  <1> SUFFICES ASSUME QueueInit PROVE QueueInv
    OBVIOUS
  <1>1. <<>> \in Seq(Events) /\ DOMAIN <<>> = {} /\ Len(<<>>) = 0
    OBVIOUS
  <1>2. QueueTypeOK
    <2>1. 0 \in 0 .. MaxEvents
      BY QueueAssumption
    <2>2. QED
      BY <1>1, <2>1 DEF QueueInit, QueueTypeOK
  <1>3. NoRedundantWork
    BY <1>1, QueueAssumption DEF QueueInit, NoRedundantWork
  <1>4. IdsWereOffered /\ HumansQueueUp /\ InOnePlace
    BY <1>1 DEF QueueInit, IdsWereOffered, HumansQueueUp, InOrder, InOnePlace, NoTwice
  <1>5. AcceptedPushIsCovered /\ HumanMessageKept
    BY <1>1 DEF QueueInit, AcceptedPushIsCovered, HumanMessageKept
  <1>6. QED
    BY <1>2, <1>3, <1>4, <1>5 DEF QueueInv

-----------------------------------------------------------------------------
(* submit.  What it is given is newer than everything it was given before. *)
Offer(e) == e \in Events /\ e.id = offered + 1 /\ offered' = offered + 1

LEMMA OfferTypes ==
  ASSUME QueueTypeOK, NEW e, Offer(e)
  PROVE  /\ offered' \in 0 .. MaxEvents
         /\ offered \in Nat /\ offered < offered'
         /\ e \in Events /\ e.id = offered'
  BY EventFields, QueueAssumption DEF Offer, QueueTypeOK, Ids

(* What leaves the queue as it is keeps the invariant.                     *)
LEMMA IdleOfferInv ==
  ASSUME QueueInv, NEW e, Offer(e), QueueTypeOK',
         UNCHANGED <<items, admitted, taken>>
  PROVE  QueueInv'
  <1> USE DEF QueueInv
  <1>1. NoRedundantWork' /\ HumansQueueUp' /\ InOnePlace'
    BY DEF NoRedundantWork, HumansQueueUp, InOrder, InOnePlace, NoTwice
  <1>2. AcceptedPushIsCovered' /\ HumanMessageKept'
    BY DEF AcceptedPushIsCovered, HumanMessageKept, Waiting, Taken
  <1>3. IdsWereOffered'
    <2>1. /\ \A x \in admitted : x.id \in Nat
          /\ \A i \in DOMAIN items : items[i].id \in Nat
          /\ \A i \in DOMAIN taken : taken[i].id \in Nat
      BY EventFields DEF QueueTypeOK
    <2>2. QED
      BY <2>1, OfferTypes DEF IdsWereOffered
  <1>4. QED
    BY <1>1, <1>2, <1>3

LEMMA FirstReasonType ==
  ASSUME NEW rs PROVE FirstReason(rs) \in Reasons
  BY DEF FirstReason, Reasons

LEMMA RejectInv ==
  ASSUME QueueInv, NEW e, Offer(e), NEW busy, Reject(e, busy)
  PROVE  QueueInv'
  <1>1. <<e, FirstReason(Refusals(e, busy))>> \in Events \X Reasons
    BY FirstReasonType DEF Offer
  <1>2. QueueTypeOK'
    BY <1>1, OfferTypes DEF QueueInv, Reject, QueueTypeOK
  <1>3. QED
    BY <1>2, IdleOfferInv DEF Reject

LEMMA DropInv ==
  ASSUME QueueInv, NEW e, Offer(e), NEW busy, Drop(e, busy)
  PROVE  QueueInv'
  <1>1. QueueTypeOK'
    BY OfferTypes DEF QueueInv, Drop, QueueTypeOK
  <1>2. QED
    BY <1>1, IdleOfferInv DEF Drop

(* The replaced push is covered by the one that took its place.            *)
LEMMA CoalesceInv ==
  ASSUME QueueInv, NEW e, Offer(e), NEW busy, Coalesce(e, busy)
  PROVE  QueueInv'
  <1> USE DEF QueueInv
  <1> DEFINE k == MergeSlot(e)
  <1>1. /\ offered' \in 0 .. MaxEvents
        /\ offered \in Nat /\ offered < offered'
        /\ e \in Events /\ e.id = offered'
    BY OfferTypes
  <1>2. /\ k \in DOMAIN items
        /\ items[k].key = e.key
        /\ items[k].source = "github"
        /\ e.source = "github"
    BY <1>1, SlotIsAPush DEF Coalesce
  <1>3. /\ items' = [items EXCEPT ![k] = e]
        /\ admitted' = admitted \cup {e}
        /\ UNCHANGED <<closed, refused, taken>>
    BY DEF Coalesce
  <1> HIDE DEF k
  <1>4. items \in Seq(Events) /\ taken \in Seq(Events) /\ admitted \subseteq Events
    BY DEF QueueTypeOK
  <1>5. /\ items' \in Seq(Events) /\ Len(items') = Len(items)
        /\ DOMAIN items' = DOMAIN items
        /\ items'[k] = e
        /\ \A i \in DOMAIN items : i # k => items'[i] = items[i]
    BY <1>1, <1>2, <1>3, <1>4, Replaced
  <1>6. /\ \A x \in admitted : x.id \in Nat
        /\ \A i \in DOMAIN items : items[i].id \in Nat
        /\ \A i \in DOMAIN taken : taken[i].id \in Nat
    BY <1>4, EventFields
  <1>7. QueueTypeOK'
    BY <1>1, <1>3, <1>5 DEF QueueTypeOK
  <1>8. NoRedundantWork'
    BY <1>2, <1>5 DEF NoRedundantWork
  <1>9. IdsWereOffered'
    BY <1>1, <1>3, <1>5, <1>6 DEF IdsWereOffered
  <1>10. HumansQueueUp'
    BY <1>2, <1>3, <1>5 DEF HumansQueueUp, InOrder, Interactive
  <1>11. AcceptedPushIsCovered'
    <2> SUFFICES ASSUME NEW x \in admitted', x.source = "github"
                 PROVE  \E f \in (Waiting \cup Taken)' : f.key = x.key /\ f.id >= x.id
      BY DEF AcceptedPushIsCovered
    <2>1. e \in Waiting'
      BY <1>2, <1>5 DEF Waiting
    <2>2. CASE x = e
      BY <1>1, <2>1, <2>2
    <2>3. CASE x \in admitted
      <3>1. PICK f \in Waiting \cup Taken : f.key = x.key /\ f.id >= x.id
        BY <2>3 DEF AcceptedPushIsCovered
      <3>2. CASE f \in Taken
        BY <1>3, <3>1, <3>2 DEF Taken
      <3>3. CASE f = items[k]
        BY <1>1, <1>2, <1>6, <2>1, <2>3, <3>1, <3>3 DEF IdsWereOffered
      <3>4. CASE \E i \in DOMAIN items : i # k /\ f = items[i]
        BY <1>5, <3>1, <3>4 DEF Waiting
      <3>5. QED
        BY <3>1, <3>2, <3>3, <3>4 DEF Waiting
    <2>4. QED
      BY <1>3, <2>2, <2>3
  <1>12. HumanMessageKept'
    <2>1. \A x \in admitted' : Interactive(x) => x \in (Waiting \cup Taken)'
      <3> SUFFICES ASSUME NEW x \in admitted', Interactive(x)
                   PROVE  x \in (Waiting \cup Taken)'
        OBVIOUS
      <3>1. x \in admitted /\ x # items[k]
        BY <1>2, <1>3 DEF Interactive
      <3>2. x \in Waiting \cup Taken
        BY <3>1 DEF HumanMessageKept
      <3>3. QED
        BY <1>3, <1>5, <3>1, <3>2 DEF Waiting, Taken
    <2>2. QED
      BY <1>3, <2>1 DEF HumanMessageKept
  <1>13. InOnePlace'
    BY <1>1, <1>3, <1>5, <1>6 DEF InOnePlace, NoTwice, IdsWereOffered
  <1>14. QED
    BY <1>7, <1>8, <1>9, <1>10, <1>11, <1>12, <1>13

LEMMA EnqueueInv ==
  ASSUME QueueInv, NEW e, Offer(e), NEW busy, Enqueue(e, busy)
  PROVE  QueueInv'
  <1> USE DEF QueueInv
  <1>1. /\ offered' \in 0 .. MaxEvents
        /\ offered \in Nat /\ offered < offered'
        /\ e \in Events /\ e.id = offered'
    BY OfferTypes
  <1>2. /\ items' = Append(items, e)
        /\ admitted' = admitted \cup {e}
        /\ UNCHANGED <<closed, refused, taken>>
    BY DEF Enqueue
  <1>3. items \in Seq(Events) /\ taken \in Seq(Events) /\ admitted \subseteq Events
    BY DEF QueueTypeOK
  <1> DEFINE n == Len(items) + 1
  <1>4. /\ items' \in Seq(Events) /\ Len(items') = n
        /\ DOMAIN items = 1 .. Len(items) /\ Len(items) \in Nat
        /\ DOMAIN items' = 1 .. n
        /\ \A i \in DOMAIN items : items'[i] = items[i]
        /\ items'[n] = e
    BY <1>1, <1>2, <1>3, Appended
  <1>5. n \in DOMAIN items' /\ \A i \in DOMAIN items' : i = n \/ i \in DOMAIN items
    BY <1>4
  <1>6. /\ \A x \in admitted : x.id \in Nat
        /\ \A i \in DOMAIN items : items[i].id \in Nat
        /\ \A i \in DOMAIN taken : taken[i].id \in Nat
    BY <1>3, EventFields
  <1>7. QueueTypeOK'
    BY <1>1, <1>2, <1>4 DEF QueueTypeOK
  <1>8. NoRedundantWork'
    <2>1. Len(items) < MaxSize /\ MaxSize \in Nat
      <3>1. "full" \in Reasons /\ "full" \notin Refusals(e, busy)
        BY DEF Enqueue, Reasons
      <3>2. ~(Len(items) >= MaxSize)
        BY <3>1 DEF Refusals
      <3>3. QED
        BY <1>4, <3>2, QueueAssumption
    <2>2. \A i \in DOMAIN items :
            /\ e.source = "heartbeat" => items[i].source # "heartbeat"
            /\ items[i].key # NoKey => items[i].key # e.key
      BY DEF Enqueue, Redundant, HeartbeatWaiting, Mergeable
    <2>3. Len(items') <= MaxSize
      BY <1>4, <2>1
    <2>4. ASSUME NEW i \in DOMAIN items', NEW j \in DOMAIN items', i # j
          PROVE  /\ items'[i].source = "heartbeat" => items'[j].source # "heartbeat"
                 /\ items'[i].key # NoKey => items'[j].key # items'[i].key
      BY <1>4, <1>5, <2>2, <2>4 DEF NoRedundantWork
    <2>5. QED
      BY <2>3, <2>4 DEF NoRedundantWork
  <1>9. IdsWereOffered'
    BY <1>1, <1>2, <1>4, <1>5, <1>6 DEF IdsWereOffered
  <1>10. HumansQueueUp'
    <2>1. InOrder(items')
      <3> SUFFICES ASSUME NEW i \in DOMAIN items', NEW j \in DOMAIN items', i < j,
                          Interactive(items'[i]), Interactive(items'[j])
                   PROVE  items'[i].id < items'[j].id
        BY DEF InOrder
      <3>1. i \in DOMAIN items
        BY <1>4
      <3>2. CASE j \in DOMAIN items
        BY <1>4, <3>1, <3>2 DEF HumansQueueUp, InOrder
      <3>3. CASE j = n
        BY <1>1, <1>4, <1>6, <3>1, <3>3 DEF IdsWereOffered
      <3>4. QED
        BY <1>5, <3>2, <3>3
    <2>2. \A i \in DOMAIN taken, j \in DOMAIN items' :
            Interactive(taken[i]) /\ Interactive(items'[j]) => taken[i].id < items'[j].id
      BY <1>1, <1>4, <1>5, <1>6 DEF HumansQueueUp, IdsWereOffered
    <2>3. QED
      BY <1>2, <2>1, <2>2 DEF HumansQueueUp, InOrder
  <1>11. Waiting' = Waiting \cup {e} /\ Taken' = Taken
    BY <1>2, <1>4, <1>5 DEF Waiting, Taken
  <1>12. AcceptedPushIsCovered'
    <2>1. e.id >= e.id
      BY <1>1
    <2>2. QED
      BY <1>2, <1>11, <2>1 DEF AcceptedPushIsCovered
  <1>13. HumanMessageKept'
    BY <1>2, <1>11 DEF HumanMessageKept
  <1>14. InOnePlace'
    BY <1>1, <1>2, <1>4, <1>5, <1>6 DEF InOnePlace, NoTwice, IdsWereOffered
  <1>15. QED
    BY <1>7, <1>8, <1>9, <1>10, <1>12, <1>13, <1>14

-----------------------------------------------------------------------------
(* take: an event moves from the one end to the other.                     *)
LEMMA TakeInv ==
  ASSUME QueueInv, Take
  PROVE  QueueInv'
  <1> USE DEF QueueInv
  <1>1. /\ items' = Tail(items) /\ items # <<>>
        /\ taken' = Append(taken, Head(items))
        /\ UNCHANGED <<closed, offered, admitted, refused>>
    BY DEF Take
  <1>2. items \in Seq(Events) /\ taken \in Seq(Events) /\ admitted \subseteq Events
    BY DEF QueueTypeOK
  <1>3. /\ Head(items) \in Events /\ items' \in Seq(Events)
        /\ Len(items) \in Nat \ {0}
        /\ Len(items') = Len(items) - 1
        /\ DOMAIN items = 1 .. Len(items)
        /\ DOMAIN items' = 1 .. Len(items) - 1
        /\ \A i \in DOMAIN items' : items'[i] = items[i + 1] /\ i + 1 \in DOMAIN items
        /\ Head(items) = items[1] /\ 1 \in DOMAIN items
    BY <1>1, <1>2, Popped
  <1> DEFINE n == Len(taken) + 1
  <1>4. /\ taken' \in Seq(Events)
        /\ DOMAIN taken = 1 .. Len(taken) /\ Len(taken) \in Nat
        /\ DOMAIN taken' = 1 .. n
        /\ \A i \in DOMAIN taken : taken'[i] = taken[i]
        /\ taken'[n] = items[1]
    BY <1>1, <1>2, <1>3, Appended
  <1>5. n \in DOMAIN taken' /\ \A i \in DOMAIN taken' : i = n \/ i \in DOMAIN taken
    BY <1>4
  <1>6. QueueTypeOK'
    BY <1>1, <1>3, <1>4 DEF QueueTypeOK
  <1>7. NoRedundantWork'
    <2>1. Len(items') <= MaxSize
      BY <1>3, QueueAssumption DEF NoRedundantWork
    <2>2. ASSUME NEW i \in DOMAIN items', NEW j \in DOMAIN items', i # j
          PROVE  /\ items'[i].source = "heartbeat" => items'[j].source # "heartbeat"
                 /\ items'[i].key # NoKey => items'[j].key # items'[i].key
      <3>1. i + 1 # j + 1
        BY <1>3, <2>2
      <3>2. QED
        BY <1>3, <3>1 DEF NoRedundantWork
    <2>3. QED
      BY <2>1, <2>2 DEF NoRedundantWork
  <1>8. IdsWereOffered'
    BY <1>1, <1>3, <1>4, <1>5 DEF IdsWereOffered
  <1>9. HumansQueueUp'
    <2>1. InOrder(items')
      <3>1. \A i, j \in DOMAIN items' : i < j => i + 1 < j + 1
        BY <1>3
      <3>2. QED
        BY <1>3, <3>1 DEF HumansQueueUp, InOrder
    <2>2. InOrder(taken')
      <3> SUFFICES ASSUME NEW i \in DOMAIN taken', NEW j \in DOMAIN taken', i < j,
                          Interactive(taken'[i]), Interactive(taken'[j])
                   PROVE  taken'[i].id < taken'[j].id
        BY DEF InOrder
      <3>1. i \in DOMAIN taken
        BY <1>4
      <3>2. CASE j \in DOMAIN taken
        BY <1>4, <3>1, <3>2 DEF HumansQueueUp, InOrder
      <3>3. CASE j = n
        BY <1>3, <1>4, <3>1, <3>3 DEF HumansQueueUp
      <3>4. QED
        BY <1>5, <3>2, <3>3
    <2>3. \A i \in DOMAIN taken', j \in DOMAIN items' :
            Interactive(taken'[i]) /\ Interactive(items'[j]) => taken'[i].id < items'[j].id
      <3> SUFFICES ASSUME NEW i \in DOMAIN taken', NEW j \in DOMAIN items',
                          Interactive(taken'[i]), Interactive(items'[j])
                   PROVE  taken'[i].id < items'[j].id
        OBVIOUS
      <3>1. CASE i \in DOMAIN taken
        BY <1>3, <1>4, <3>1 DEF HumansQueueUp
      <3>2. CASE i = n
        <4>1. 1 < j + 1
          BY <1>3
        <4>2. QED
          BY <1>3, <1>4, <3>2, <4>1 DEF HumansQueueUp, InOrder
      <3>3. QED
        BY <1>5, <3>1, <3>2
    <2>4. QED
      BY <2>1, <2>2, <2>3 DEF HumansQueueUp
  <1>10. Waiting \cup Taken \subseteq (Waiting \cup Taken)'
    <2>1. Taken' = Taken \cup {items[1]}
      BY <1>4, <1>5 DEF Taken
    <2>2. ASSUME NEW i \in DOMAIN items
          PROVE  items[i] \in (Waiting \cup Taken)'
      <3>1. CASE i = 1
        BY <2>1, <3>1
      <3>2. CASE i # 1
        <4>1. i - 1 \in DOMAIN items' /\ (i - 1) + 1 = i
          BY <1>3, <3>2
        <4>2. QED
          BY <1>3, <4>1 DEF Waiting
      <3>3. QED
        BY <3>1, <3>2
    <2>3. QED
      BY <2>1, <2>2 DEF Waiting
  <1>11. AcceptedPushIsCovered'
    BY <1>1, <1>10 DEF AcceptedPushIsCovered
  <1>12. HumanMessageKept'
    BY <1>1, <1>9, <1>10 DEF HumanMessageKept, HumansQueueUp, InOrder
  <1>13. InOnePlace'
    <2>1. NoTwice(items')
      <3>1. \A i, j \in DOMAIN items' : i + 1 = j + 1 => i = j
        BY <1>3
      <3>2. QED
        BY <1>3, <3>1 DEF InOnePlace, NoTwice
    <2>2. NoTwice(taken')
      BY <1>3, <1>4, <1>5 DEF InOnePlace, NoTwice
    <2>3. ASSUME NEW i \in DOMAIN taken', NEW j \in DOMAIN items'
          PROVE  taken'[i].id # items'[j].id
      <3>1. j + 1 # 1
        BY <1>3
      <3>2. CASE i \in DOMAIN taken
        BY <1>3, <1>4, <3>2 DEF InOnePlace
      <3>3. CASE i = n
        BY <1>3, <1>4, <3>1, <3>3 DEF InOnePlace, NoTwice
      <3>4. QED
        BY <1>5, <3>2, <3>3
    <2>4. QED
      BY <2>1, <2>2, <2>3 DEF InOnePlace
  <1>14. QED
    BY <1>6, <1>7, <1>8, <1>9, <1>11, <1>12, <1>13

(* close, and any step of another component.                               *)
LEMMA StillInv ==
  ASSUME QueueInv, UNCHANGED <<items, offered, admitted, refused, taken>>,
         closed' \in BOOLEAN
  PROVE  QueueInv'
  BY DEF QueueInv, QueueTypeOK, NoRedundantWork, IdsWereOffered, InOnePlace, NoTwice,
         HumansQueueUp, InOrder, AcceptedPushIsCovered, HumanMessageKept, Waiting, Taken

(* submit, whatever the gate said.                                         *)
LEMMA SubmitInv ==
  ASSUME QueueInv, NEW e \in Events, NEW busy, Submit(e, busy)
  PROVE  QueueInv'
  <1>1. Offer(e)
    BY DEF Offer, Submit
  <1>2. QED
    BY <1>1, RejectInv, DropInv, CoalesceInv, EnqueueInv DEF Submit

LEMMA QueueNextInv == QueueInv /\ [QueueNext]_queueVars => QueueInv'
  <1> SUFFICES ASSUME QueueInv, [QueueNext]_queueVars
               PROVE  QueueInv'
    OBVIOUS
  <1>1. CASE \E e \in Events, gateBusy \in BOOLEAN : Submit(e, gateBusy)
    BY <1>1, SubmitInv
  <1>2. CASE Take
    BY <1>2, TakeInv
  <1>3. CASE Close \/ UNCHANGED queueVars
    BY <1>3, StillInv DEF Close, queueVars, QueueInv, QueueTypeOK
  <1>4. QED
    BY <1>1, <1>2, <1>3 DEF QueueNext

-----------------------------------------------------------------------------
(* QueueInv holds in every reachable state: ids come from 1 .. offered, no   *)
(* event is in two places, and people's ids grow along taken, then items.   *)
THEOREM QueueInvariant == QueueSpec => []QueueInv
  <1>1. QED
    BY QueueInitInv, QueueNextInv, PTL DEF QueueSpec

(* Whatever the keys, the capacity and the events, the queue is well-typed. *)
THEOREM QueueTypes == QueueSpec => []QueueTypeOK
  <1>1. QueueInv => QueueTypeOK
    BY DEF QueueInv
  <1>2. QED
    BY <1>1, QueueInvariant, PTL

(* At every capacity and for every number of branches, the queue holds at   *)
(* most maxsize events, one heartbeat and one push of each branch (submit). *)
THEOREM NothingRedundantWaits == QueueSpec => []NoRedundantWork
  <1>1. QueueInv => NoRedundantWork
    BY DEF QueueInv
  <1>2. QED
    BY <1>1, QueueInvariant, PTL

(* However pushes merge, overtake the worker or are refused, one that was   *)
(* accepted is covered by a push of its branch that is no older (submit).   *)
THEOREM MergingIsNotLossy == QueueSpec => []AcceptedPushIsCovered
  <1>1. QueueInv => AcceptedPushIsCovered
    BY DEF QueueInv
  <1>2. QED
    BY <1>1, QueueInvariant, PTL

(* A person's message, once admitted, waits or was taken, and none of them  *)
(* overtakes an earlier one (submit, take).                                 *)
THEOREM NobodyIsOvertaken == QueueSpec => []HumanMessageKept
  <1>1. QueueInv => HumanMessageKept
    BY DEF QueueInv
  <1>2. QED
    BY <1>1, QueueInvariant, PTL

=============================================================================
