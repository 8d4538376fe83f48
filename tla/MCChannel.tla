------------------------------ MODULE MCChannel ------------------------------
(* The gate and the queue, each on its own: a behaviour follows one of them  *)
(* and leaves the other where it began (Service has them together).          *)
(* Two people, two threads, two gated calls: a bystander in the requester's  *)
(* thread, the requester in another thread, and an answer that outlives the  *)
(* call it was meant for.  Two branches and a queue of three: full, merging  *)
(* and refusing in one run.                                                  *)
EXTENDS ChannelGate, WorkQueue

VARIABLE part  \* what this behaviour is about

MCWords == {"yes", "no", "hmm"}
MCAffirmative == {"yes"}
MCNegative == {"no"}

vars == <<part, gateVars, queueVars>>

Init ==
  /\ part \in {"gate", "queue"}
  /\ GateInit
  /\ QueueInit

Next ==
  /\ UNCHANGED part
  /\ \/ part = "gate" /\ UNCHANGED queueVars /\ GateNext
     \/ part = "queue" /\ UNCHANGED gateVars /\ QueueNext

FairSpec == Init /\ [][Next]_vars /\ GateFairness
=============================================================================
