------------------------------ MODULE MCJudging ------------------------------
(* One evaluator, one passage, one claim: enough for a verdict to be stored, *)
(* the corpus to be indexed again and the verdict to be replayed.            *)
EXTENDS Judging

MCRetrieved == {<<"p">>}
MCShuffle == [n \in 0 .. 1 |-> [i \in 1 .. n |-> i]]
MCClaimLists == {{[named |-> TRUE, label |-> "supported", quote |-> <<"p", 1>>]}}
=============================================================================
