-------------------------------- MODULE Loops --------------------------------
(***************************************************************************)
(* The two loops that run for as long as the process does: the long poll   *)
(* and the heartbeat.  They share no state, so a behaviour follows one of  *)
(* them, chosen at the start, and leaves the other where it began.         *)
(***************************************************************************)
EXTENDS TelegramPoll, Heartbeat

VARIABLE part  \* the loop this behaviour is about

vars == <<part, pollVars, beatVars>>

Init ==
  /\ part \in {"poll", "beat"}
  /\ PollInit
  /\ BeatInit

Next ==
  /\ UNCHANGED part
  /\ \/ part = "poll" /\ UNCHANGED beatVars /\ PollNext
     \/ part = "beat" /\ UNCHANGED pollVars /\ BeatNext

Spec == Init /\ [][Next]_vars

(* The server answers again and again, the consumer asks for the next       *)
(* event, somebody restarts a stopped process; a clock runs pass after pass.*)
Fairness ==
  /\ SF_vars(part = "poll" /\ GetUpdates /\ UNCHANGED <<part, beatVars>>)
  /\ WF_vars(part = "poll" /\ Yield /\ UNCHANGED <<part, beatVars>>)
  /\ WF_vars(part = "poll" /\ Restart /\ UNCHANGED <<part, beatVars>>)
  /\ \A b \in Beats : WF_vars(part = "beat" /\ Pass(b) /\ UNCHANGED <<part, pollVars>>)

FairSpec == Spec /\ Fairness

(* The type invariant of both. *)
TypeOK == PollTypeOK /\ BeatTypeOK
=============================================================================
