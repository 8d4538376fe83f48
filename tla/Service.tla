------------------------------- MODULE Service -------------------------------
(***************************************************************************)
(* service.py: the reader thread (pump), the worker thread (Worker.run and *)
(* the handler's turn) and the main thread's shutdown, over one WorkQueue  *)
(* and one ChannelGate.  A turn is abstracted to what touches the shared   *)
(* state: the gates it opens, the event it took, how it ends.              *)
(***************************************************************************)
EXTENDS ChannelGate, WorkQueue, FiniteSets

CONSTANTS
  Writers,          \* the allowlisted users (Identity.can_write)
  ChangeWords,      \* the messages that start with /change
  ReaderMayRaise,   \* may poll, or a send of the reader's, raise?
  MaxPolled,        \* bound: messages the channel yields
  NoMessage         \* no message in hand

VARIABLES
  reader,           \* where the reader is in pump and submit
  inbound,          \* the message the reader holds
  gateBusy,         \* what submit read from gate.pending
  polled,           \* messages yielded so far
  said,             \* the message behind each event offered to the queue
  worker,           \* where the worker is in Worker.run
  current,          \* the event of the turn in progress
  turns,            \* how the turn of each event ended (history)
  stop,             \* Worker._stop
  main              \* where the main thread is in service.main

readerVars == <<reader, inbound, gateBusy, polled, said>>
workerVars == <<worker, current, turns>>
mainVars == <<stop, main>>
vars == <<gateVars, queueVars, readerVars, workerVars, mainVars>>

ASSUME ServiceAssumption ==
  /\ Writers \subseteq Users
  /\ ChangeWords \subseteq Words
  /\ ChangeWords \cap Affirmative = {}
  /\ ReaderMayRaise \in BOOLEAN
  /\ MaxPolled \in Nat
  /\ MaxPolled <= MaxEvents
  /\ MaxPolled <= MaxHeard
  /\ NoMessage \notin Message

TypeOK ==
  /\ GateTypeOK
  /\ QueueTypeOK
  /\ reader \in {"polling", "submitting", "admitting", "refusing", "dead"}
  /\ inbound \in Message \cup {NoMessage}
  /\ gateBusy \in BOOLEAN
  /\ polled \in 0 .. MaxPolled
  /\ said \in [Ids -> Message \cup {NoMessage}]
  /\ worker \in {"checking", "taking", "turn", "dead"}
  /\ current \in Ids \cup {0}
  /\ turns \in [Ids -> {"none", "handled", "failed"}]
  /\ stop \in BOOLEAN
  /\ main \in {"running", "cancelling", "stopping", "closing", "joining", "exited"}

Init ==
  /\ GateInit
  /\ QueueInit
  /\ reader = "polling" /\ inbound = NoMessage /\ gateBusy = FALSE
  /\ polled = 0
  /\ said = [i \in Ids |-> NoMessage]
  /\ worker = "checking" /\ current = 0
  /\ turns = [i \in Ids |-> "none"]
  /\ stop = FALSE
  /\ main = "running"

(* Threads are daemons: they run until the process exits. *)
Alive == main # "exited"

(* submit holds the queue's lock from its checks to its return. *)
QueueLockFree == reader # "admitting"

-----------------------------------------------------------------------------
(* The reader: pump and WorkQueue.submit. *)

(* Slip: a consumed answer is queued as a request too. *)
PollAnswerFallsThrough(m) ==
  /\ Alive /\ reader = "polling" /\ polled < MaxPolled
  /\ SubmitAnswer(m)
  /\ polled' = polled + 1
  /\ inbound' = m
  /\ reader' = "submitting"
  /\ UNCHANGED <<queueVars, gateBusy, said, workerVars, mainVars>>

(* The channel yields m, and submit offers it to the gate, which takes it. *)
PollAnswer(m) ==
  /\ Alive /\ reader = "polling" /\ polled < MaxPolled
  /\ SubmitAnswer(m)
  /\ polled' = polled + 1
  /\ UNCHANGED <<queueVars, reader, inbound, gateBusy, said, workerVars, mainVars>>

(* The gate does not take it: it goes on to the queue. *)
PollRequest(m) ==
  /\ Alive /\ reader = "polling" /\ polled < MaxPolled
  /\ ~Addressed(m)
  /\ polled' = polled + 1
  /\ inbound' = m
  /\ reader' = "submitting"
  /\ UNCHANGED <<gateVars, queueVars, gateBusy, said, workerVars, mainVars>>

(* Under the queue's lock, submit reads gate.pending, under the gate's lock. *)
ReadGate ==
  /\ Alive /\ reader = "submitting"
  /\ gateBusy' = (pending # NoGate)
  /\ reader' = "admitting"
  /\ UNCHANGED <<gateVars, queueVars, inbound, polled, said, workerVars, mainVars>>

InboundEvent == [id |-> offered + 1, source |-> "telegram", key |-> NoKey]

(* The rest of submit, on the value of gate.pending already read. *)
Admit ==
  /\ Alive /\ reader = "admitting"
  /\ Submit(InboundEvent, gateBusy)
  /\ said' = [said EXCEPT ![offered + 1] = inbound]
  /\ reader' = IF refused' # refused THEN "refusing" ELSE "polling"
  /\ inbound' = NoMessage
  /\ gateBusy' = FALSE
  /\ UNCHANGED <<gateVars, polled, workerVars, mainVars>>

(* A person is told they were turned away. *)
TellRefusal ==
  /\ Alive /\ reader = "refusing"
  /\ reader' = "polling"
  /\ UNCHANGED <<gateVars, queueVars, inbound, gateBusy, polled, said, workerVars, mainVars>>

(* An exception from poll or send ends pump, and with it the reader. *)
ReaderRaises ==
  /\ ReaderMayRaise
  /\ Alive /\ reader \in {"polling", "refusing"}
  /\ reader' = "dead"
  /\ UNCHANGED <<gateVars, queueVars, inbound, gateBusy, polled, said, workerVars, mainVars>>

-----------------------------------------------------------------------------
(* The worker: Worker.run and one turn of the handler. *)

CheckStop ==
  /\ Alive /\ worker = "checking"
  /\ worker' = IF stop THEN "dead" ELSE "taking"
  /\ UNCHANGED <<gateVars, queueVars, readerVars, current, turns, mainVars>>

(* Slip: an event taken after stop is thrown away. *)
TakeEventUnlessStopped ==
  /\ Alive /\ worker = "taking" /\ QueueLockFree
  /\ Take
  /\ current' = IF stop THEN 0 ELSE Head(items).id
  /\ worker' = IF stop THEN "dead" ELSE "turn"
  /\ UNCHANGED <<gateVars, readerVars, turns, mainVars>>

TakeEvent ==
  /\ Alive /\ worker = "taking" /\ QueueLockFree
  /\ Take
  /\ current' = Head(items).id
  /\ worker' = "turn"
  /\ UNCHANGED <<gateVars, readerVars, turns, mainVars>>

(* take waited its poll interval and returned None. *)
TakeNothing ==
  /\ Alive /\ worker = "taking" /\ QueueLockFree
  /\ items = <<>>
  /\ worker' = "checking"
  /\ UNCHANGED <<gateVars, queueVars, readerVars, current, turns, mainVars>>

Requester == [user |-> said[current].user, thread |-> said[current].thread]

(* Slip: can_write is not checked. *)
OpenGateForAnyone ==
  /\ Alive /\ worker = "turn"
  /\ said[current].word \in ChangeWords
  /\ Ask(Requester)
  /\ UNCHANGED <<queueVars, readerVars, workerVars, mainVars>>

(* A change request of an allowlisted user reaches a gated call. *)
OpenGate ==
  /\ Alive /\ worker = "turn"
  /\ said[current].word \in ChangeWords
  /\ said[current].user \in Writers
  /\ Ask(Requester)
  /\ UNCHANGED <<queueVars, readerVars, workerVars, mainVars>>

(* Inside _ask; its return puts the worker back in the agent loop. *)
InGate ==
  /\ Alive /\ worker = "turn"
  /\ PromptSent \/ Wake \/ TimeOut \/ Report
  /\ UNCHANGED <<queueVars, readerVars, workerVars, mainVars>>

(* Any exception ends the turn: it is caught in Worker.run and reported. *)
EndTurn(how) ==
  /\ turns' = [turns EXCEPT ![current] = how]
  /\ current' = 0
  /\ worker' = "checking"

GateRaises ==
  /\ Alive /\ worker = "turn"
  /\ PromptRaises \/ ReportRaises
  /\ EndTurn("failed")
  /\ UNCHANGED <<queueVars, readerVars, mainVars>>

(* Slip: the exception is not caught and ends the worker thread. *)
FinishTurnUncaught ==
  /\ Alive /\ worker = "turn" /\ asker = "idle"
  /\ \/ EndTurn("handled")
     \/ worker' = "dead" /\ UNCHANGED <<current, turns>>
  /\ UNCHANGED <<gateVars, queueVars, readerVars, mainVars>>

(* The turn answers, stays silent, or raises outside the gate. *)
FinishTurn ==
  /\ Alive /\ worker = "turn" /\ asker = "idle"
  /\ \E how \in {"handled", "failed"} : EndTurn(how)
  /\ UNCHANGED <<gateVars, queueVars, readerVars, mainVars>>

-----------------------------------------------------------------------------
(* The main thread: the watch on the reader, then the finally block. *)

Step(from, to) == main = from /\ main' = to

(* Ctrl-C, at any time. *)
Interrupt ==
  /\ Step("running", "cancelling")
  /\ UNCHANGED <<gateVars, queueVars, readerVars, workerVars, stop>>

(* Slip: main sleeps until it is interrupted. *)
ReaderUnwatched ==
  /\ reader = "dead" /\ stop
  /\ Step("running", "cancelling")
  /\ UNCHANGED <<gateVars, queueVars, readerVars, workerVars, stop>>

ReaderGone ==
  /\ reader = "dead"
  /\ Step("running", "cancelling")
  /\ UNCHANGED <<gateVars, queueVars, readerVars, workerVars, stop>>

CancelGate ==
  /\ Step("cancelling", "stopping")
  /\ Cancel
  /\ UNCHANGED <<queueVars, readerVars, workerVars, stop>>

SetStop ==
  /\ Step("stopping", "closing")
  /\ stop' = TRUE
  /\ UNCHANGED <<gateVars, queueVars, readerVars, workerVars>>

CloseQueue ==
  /\ QueueLockFree
  /\ Step("closing", "joining")
  /\ Close
  /\ UNCHANGED <<gateVars, readerVars, workerVars, stop>>

(* join returns when the worker ended, or after its timeout. *)
Join ==
  /\ Step("joining", "exited")
  /\ UNCHANGED <<gateVars, queueVars, readerVars, workerVars, stop>>

Exited == main = "exited" /\ UNCHANGED vars

-----------------------------------------------------------------------------
ReaderStep ==
  \/ \E m \in Message : PollAnswer(m) \/ PollRequest(m)
  \/ ReadGate \/ Admit \/ TellRefusal \/ ReaderRaises

WorkerStep ==
  \/ CheckStop \/ TakeEvent \/ TakeNothing
  \/ OpenGate \/ InGate \/ GateRaises \/ FinishTurn

Shutdown == ReaderGone \/ CancelGate \/ SetStop \/ CloseQueue \/ Join

Next == ReaderStep \/ WorkerStep \/ Interrupt \/ Shutdown \/ Exited

Spec == Init /\ [][Next]_vars

(* The three threads are scheduled.  Nothing obliges a person to write, the *)
(* network to fail or an operator to interrupt the service.                 *)
Fairness ==
  /\ WF_vars(ReadGate \/ Admit)
  /\ WF_vars(reader = "refusing" /\ (TellRefusal \/ ReaderRaises))
  /\ WF_vars(WorkerStep)
  /\ WF_vars(Shutdown)

FairSpec == Spec /\ Fairness

-----------------------------------------------------------------------------
(* While a gate is pending the single worker is parked on purpose: the open *)
(* gate is the one its turn is waiting in, opened for the person whose      *)
(* message the turn is about (_ask, Worker.run).                            *)
GateParksWorker ==
  pending # NoGate =>
    /\ worker = "turn"
    /\ asker \in {"prompting", "waiting"}
    /\ pending.from = Requester

(* A gated call runs only for an allowlisted user who asked for a change    *)
(* and then, from the same thread, approved that very call (make_handler,   *)
(* apply_change_request, callback_for).                                     *)
WritesAreConsented ==
  \A n \in Asks : outcome[n] = "approved" =>
    /\ Consented(n)
    /\ asked[n].user \in Writers
    /\ \E i \in Ids :
         /\ said[i] # NoMessage
         /\ said[i].word \in ChangeWords
         /\ asked[n] = [user |-> said[i].user, thread |-> said[i].thread]

(* The messages that gates consumed: the k-th that call n heard.            *)
Consumed == UNION {{<<n, k>> : k \in DOMAIN heard[n]} : n \in Asks}

(* A message is a gate answer or a request, never both and never neither:   *)
(* what the channel yielded is what gates consumed, what submit was         *)
(* offered, and what the reader still holds (submit, pump).                 *)
EachMessageUsedOnce ==
  polled = offered + Cardinality(Consumed) + (IF inbound = NoMessage THEN 0 ELSE 1)

(* The worker runs one turn per admitted event, and its turns follow the    *)
(* queue: every event taken is the turn in progress or has ended (run).     *)
EveryTakenEventHasItsTurn ==
  \A i \in Ids :
    (\E e \in Taken : e.id = i) <=> (turns[i] # "none" \/ current = i)

(* Every admitted message gets its turn, unless the service is stopped.     *)
AdmittedIsHandled ==
  \A i \in Ids :
    (\E e \in admitted : e.id = i) ~> (turns[i] # "none" \/ main # "running")

(* An open gate is released by an answer, its timeout or shutdown.          *)
GateReleased == pending # NoGate ~> (pending = NoGate \/ main = "exited")

(* Once interrupted, or without a reader, the service exits: no lock, no    *)
(* gate and no turn keeps main from finishing.                              *)
ShutdownEnds == (main = "cancelling" \/ reader = "dead") ~> main = "exited"
=============================================================================
