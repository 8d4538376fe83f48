------------------------------- MODULE MCLoops -------------------------------
(* A message of an allowed chat and one of another; two clocks.             *)
EXTENDS Loops

MCUpdates == [chat : Chats, text : {TRUE}]

Said(violations, label, labelRationale) ==
  [parsed |-> TRUE, violations |-> violations, grounding |-> label,
   groundingRationale |-> labelRationale]

(* A serious accusation with nothing to back it, and a backed minor one. *)
MCProposals ==
  {Said({[rationale |-> FALSE, inContext |-> TRUE, severity |-> "serious"]}, "ungrounded", FALSE),
   Said({[rationale |-> TRUE, inContext |-> FALSE, severity |-> "minor"]}, "grounded", FALSE)}
=============================================================================
