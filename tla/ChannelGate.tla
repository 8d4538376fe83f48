----------------------------- MODULE ChannelGate -----------------------------
(***************************************************************************)
(* The human approval gate of agentlib/approval.py.  The worker thread     *)
(* calls _ask and parks; the reader thread offers every human message with *)
(* submit_answer; the main thread calls cancel at shutdown.  One action is *)
(* one critical section of the gate's condition variable, or one send made *)
(* outside it, so every interleaving of the three threads is a behaviour.  *)
(***************************************************************************)
EXTENDS Naturals, Sequences

CONSTANTS
  Users,           \* resolved RADF users
  Threads,         \* channel threads
  Words,           \* what a message says: one word per reaction of the gate
  Affirmative,     \* the words that approve
  Negative,        \* the words listed as explicit refusals
  MaxAsks,         \* bound: calls of _ask
  MaxHeard,        \* bound: answers one call consumes
  SendMayRaise,    \* may the send callback raise an exception?
  NoGate           \* _pending is None

Asks == 1 .. MaxAsks
Address == [user : Users, thread : Threads]
Message == [user : Users, thread : Threads, word : Words]
Gates == [ask : Asks, from : Address]
Answers == {"none", "approve", "decline"}
Outcomes == {"unasked", "open", "approved", "declined", "failed"}

ASSUME GateAssumption ==
  /\ Affirmative \subseteq Words
  /\ Negative \subseteq Words \ Affirmative
  /\ MaxAsks \in Nat
  /\ MaxHeard \in Nat
  /\ SendMayRaise \in BOOLEAN
  /\ NoGate \notin Gates
  /\ NoGate \notin Address

VARIABLES
  pending,         \* _pending
  answer,          \* _answer: None, True or False
  asker,           \* where the worker is inside _ask
  decision,        \* the local variable "answer" of _ask
  asks,            \* calls of _ask so far (history)
  asked,           \* whom each call was opened for (history)
  heard,           \* the messages each call consumed, in order (history)
  outcome,         \* what each call returned to the agent loop (history)
  cancelled,       \* cancel() has run (history)
  abandoned        \* the calls pending when cancel ran (history)

gateState == <<pending, answer>>
gateLog == <<asks, asked, heard, outcome, cancelled, abandoned>>
gateVars == <<gateState, asker, decision, gateLog>>

GateTypeOK ==
  /\ pending \in Gates \cup {NoGate}
  /\ answer \in Answers
  /\ asker \in {"idle", "prompting", "waiting", "reporting"}
  /\ decision \in Answers
  /\ asks \in 0 .. MaxAsks
  /\ asked \in [Asks -> Address \cup {NoGate}]
  /\ heard \in [Asks -> Seq(Message)]
  /\ outcome \in [Asks -> Outcomes]
  /\ cancelled \in BOOLEAN
  /\ abandoned \subseteq Asks

GateInit ==
  /\ pending = NoGate
  /\ answer = "none"
  /\ asker = "idle"
  /\ decision = "none"
  /\ asks = 0
  /\ asked = [n \in Asks |-> NoGate]
  /\ heard = [n \in Asks |-> <<>>]
  /\ outcome = [n \in Asks |-> "unasked"]
  /\ cancelled = FALSE
  /\ abandoned = {}

-----------------------------------------------------------------------------
(* The worker, inside _ask. *)

(* Slip: _answer is not reset when a gate opens. *)
AskKeepsAnswer(from) ==
  /\ asker = "idle"
  /\ asks < MaxAsks
  /\ asks' = asks + 1
  /\ pending' = [ask |-> asks + 1, from |-> from]
  /\ decision' = "none"
  /\ asker' = "prompting"
  /\ asked' = [asked EXCEPT ![asks + 1] = from]
  /\ outcome' = [outcome EXCEPT ![asks + 1] = "open"]
  /\ UNCHANGED <<answer, heard, cancelled, abandoned>>

(* _pending and _answer are set under the lock, before the prompt is sent. *)
Ask(from) ==
  /\ asker = "idle"
  /\ asks < MaxAsks
  /\ asks' = asks + 1
  /\ pending' = [ask |-> asks + 1, from |-> from]
  /\ answer' = "none"
  /\ decision' = "none"
  /\ asker' = "prompting"
  /\ asked' = [asked EXCEPT ![asks + 1] = from]
  /\ outcome' = [outcome EXCEPT ![asks + 1] = "open"]
  /\ UNCHANGED <<heard, cancelled, abandoned>>

PromptSent ==
  /\ asker = "prompting"
  /\ asker' = "waiting"
  /\ UNCHANGED <<gateState, decision, gateLog>>

(* The exception leaves _ask with _pending still set: nothing clears it. *)
PromptRaises ==
  /\ SendMayRaise
  /\ asker = "prompting"
  /\ asker' = "idle"
  /\ outcome' = [outcome EXCEPT ![asks] = "failed"]
  /\ UNCHANGED <<gateState, decision, asks, asked, heard, cancelled, abandoned>>

(* Slip: _pending survives the wait. *)
ClearKeepsPending ==
  /\ asker' = "reporting"
  /\ decision' = answer
  /\ answer' = "none"
  /\ UNCHANGED <<pending, gateLog>>

(* The wait ends: the answer is read and the gate cleared in one section. *)
Clear ==
  /\ asker' = "reporting"
  /\ decision' = answer
  /\ pending' = NoGate
  /\ answer' = "none"
  /\ UNCHANGED gateLog

Wake == asker = "waiting" /\ answer # "none" /\ Clear

(* Slip: the wait has no deadline. *)
WaitForever == asker = "waiting" /\ answer # "none" /\ Clear

TimeOut == asker = "waiting" /\ answer = "none" /\ Clear

(* Slip: an unanswered gate proceeds. *)
ReportUnlessDeclined ==
  /\ asker = "reporting"
  /\ asker' = "idle"
  /\ outcome' = [outcome EXCEPT
                   ![asks] = IF decision # "decline" THEN "approved" ELSE "declined"]
  /\ UNCHANGED <<gateState, decision, asks, asked, heard, cancelled, abandoned>>

(* The result is sent, then returned: only True lets the tool run. *)
Report ==
  /\ asker = "reporting"
  /\ asker' = "idle"
  /\ outcome' = [outcome EXCEPT
                   ![asks] = IF decision = "approve" THEN "approved" ELSE "declined"]
  /\ UNCHANGED <<gateState, decision, asks, asked, heard, cancelled, abandoned>>

ReportRaises ==
  /\ SendMayRaise
  /\ asker = "reporting"
  /\ asker' = "idle"
  /\ outcome' = [outcome EXCEPT ![asks] = "failed"]
  /\ UNCHANGED <<gateState, decision, asks, asked, heard, cancelled, abandoned>>

-----------------------------------------------------------------------------
(* The reader, in submit_answer. *)

(* Slip: anybody in the thread answers. *)
AddressedByThread(m) ==
  /\ pending # NoGate
  /\ pending.from.thread = m.thread

(* The address must match: the same user in another thread does not answer. *)
Addressed(m) ==
  /\ pending # NoGate
  /\ pending.from = [user |-> m.user, thread |-> m.thread]

(* The message is consumed; a later one overwrites an earlier answer. *)
SubmitAnswer(m) ==
  /\ Addressed(m)
  /\ answer' = IF m.word \in Affirmative THEN "approve" ELSE "decline"
  /\ heard' = [heard EXCEPT ![pending.ask] = Append(@, m)]
  /\ UNCHANGED <<pending, asker, decision, asks, asked, outcome, cancelled, abandoned>>

(* The main thread, at shutdown. *)
Cancel ==
  /\ answer' = IF pending # NoGate THEN "decline" ELSE answer
  /\ cancelled' = TRUE
  /\ abandoned' = IF pending # NoGate THEN abandoned \cup {pending.ask} ELSE abandoned
  /\ UNCHANGED <<pending, asker, decision, asks, asked, heard, outcome>>

-----------------------------------------------------------------------------
HeardBound(n) == Len(heard[n]) < MaxHeard

(* shutdown calls cancel once. *)
CancelOnce == ~cancelled /\ Cancel

Reply(m) == SubmitAnswer(m) /\ HeardBound(pending.ask)

GateNext ==
  \/ \E from \in Address : Ask(from)
  \/ PromptSent
  \/ PromptRaises
  \/ Wake
  \/ TimeOut
  \/ Report
  \/ ReportRaises
  \/ \E m \in Message : Reply(m)
  \/ CancelOnce

GateSpec == GateInit /\ [][GateNext]_gateVars

(* The worker thread keeps running, and the clock reaches the deadline. *)
GateFairness ==
  /\ WF_gateVars(PromptSent \/ PromptRaises)
  /\ WF_gateVars(Wake \/ TimeOut)
  /\ WF_gateVars(Report \/ ReportRaises)

GateFairSpec == GateSpec /\ GateFairness

-----------------------------------------------------------------------------
(* Call n's requester said yes to it, in the thread it was asked in. *)
Consented(n) ==
  \E i \in DOMAIN heard[n] :
    /\ heard[n][i].word \in Affirmative
    /\ asked[n] = [user |-> heard[n][i].user, thread |-> heard[n][i].thread]

(* Only the requester's answer counts: a gated call that returned True has *)
(* heard its own requester approve it, in its own thread.  Neither an      *)
(* answer left over from an earlier call nor a bystander's "y" does it     *)
(* (_ask, submit_answer).                                                  *)
ApprovedByRequester ==
  \A n \in Asks : outcome[n] = "approved" => Consented(n)

(* A bystander can neither approve nor cancel: every message a call has    *)
(* consumed came from the person and the thread it was opened for          *)
(* (submit_answer).                                                        *)
BystandersIgnored ==
  \A n \in Asks : \A i \in DOMAIN heard[n] :
    asked[n] = [user |-> heard[n][i].user, thread |-> heard[n][i].thread]

(* Shutdown is not consent: a gate that was pending when cancel ran is not *)
(* approved afterwards.                                                    *)
ShutdownIsNotConsent == \A n \in abandoned : outcome[n] # "approved"

(* Timeout declines: the worker never stays parked in the gate.            *)
GateCloses == asker # "idle" ~> asker = "idle"

(* The gate implements the promise of an approval gate.                    *)
Promise == INSTANCE Approval WITH consented <- {n \in Asks : Consented(n)}

ImplementsApproval == Promise!FairSpec
=============================================================================
