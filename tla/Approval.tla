------------------------------ MODULE Approval ------------------------------
(***************************************************************************)
(* What an approval gate promises, with no threads, locks or messages.     *)
(* A gated call is opened, one at a time; the person it was opened for may *)
(* consent to it; the call then ends approved, declined, or failed.  An    *)
(* approval needs the consent of that very call: silence, a bystander, a   *)
(* consent given to another call never approve (agentlib/approval.py,      *)
(* lines 18 to 33, states these properties).                               *)
(***************************************************************************)
EXTENDS Naturals

CONSTANT MaxAsks   \* bound: gated calls in one behaviour

VARIABLES
  outcome,         \* how each gated call stands
  consented        \* the calls their own requester has said yes to

vars == <<outcome, consented>>

Asks == 1 .. MaxAsks

Outcomes == {"unasked", "open", "approved", "declined", "failed"}

Init ==
  /\ outcome = [n \in Asks |-> "unasked"]
  /\ consented = {}

(* The worker is parked on one call at a time. *)
Open(n) ==
  /\ outcome[n] = "unasked"
  /\ \A m \in Asks : outcome[m] # "open"
  /\ outcome' = [outcome EXCEPT ![n] = "open"]
  /\ UNCHANGED consented

(* The requester of a call says yes to it. *)
Consent(n) ==
  /\ outcome[n] \in {"open", "failed"}
  /\ consented' = consented \cup {n}
  /\ UNCHANGED outcome

(* Only a consented call is approved; any open call may decline or fail. *)
Settle(n) ==
  /\ outcome[n] = "open"
  /\ \E o \in {"approved", "declined", "failed"} :
       /\ o = "approved" => n \in consented
       /\ outcome' = [outcome EXCEPT ![n] = o]
  /\ UNCHANGED consented

Next == \E n \in Asks : Open(n) \/ Consent(n) \/ Settle(n)

Spec == Init /\ [][Next]_vars

(* No call stays open for ever: an unanswered gate declines. *)
FairSpec == Spec /\ \A n \in Asks : WF_vars(Settle(n))
=============================================================================
