----------------------------- MODULE RunContract -----------------------------
(***************************************************************************)
(* What one agent run promises about the tool calls a model makes, with no *)
(* messages, batches or step counters: a call gets at most one verdict, it *)
(* runs or it is refused; nothing runs after the run has ended; and every  *)
(* run ends (the stopping conditions of agentlib/loop.py, lines 11 to 16). *)
(***************************************************************************)
CONSTANT Calls    \* tool calls, a name with its arguments

VARIABLES
  done,            \* the calls that have run
  refused,         \* the calls that were refused
  over             \* the run has ended

vars == <<done, refused, over>>

Init ==
  /\ done = {}
  /\ refused = {}
  /\ over = FALSE

Undecided(c) == ~over /\ c \notin done \cup refused

Run(c) ==
  /\ Undecided(c)
  /\ done' = done \cup {c}
  /\ UNCHANGED <<refused, over>>

(* The call fails to return, and the run with it. *)
RunAndCrash(c) ==
  /\ Undecided(c)
  /\ done' = done \cup {c}
  /\ over' = TRUE
  /\ UNCHANGED refused

Refuse(c) ==
  /\ Undecided(c)
  /\ refused' = refused \cup {c}
  /\ UNCHANGED <<done, over>>

End ==
  /\ ~over
  /\ over' = TRUE
  /\ UNCHANGED <<done, refused>>

Next ==
  \/ \E c \in Calls : Run(c) \/ RunAndCrash(c) \/ Refuse(c)
  \/ End

Spec == Init /\ [][Next]_vars

(* The step ceiling ends what the model will not. *)
FairSpec == Spec /\ WF_vars(Next)
=============================================================================
