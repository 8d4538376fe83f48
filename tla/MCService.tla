------------------------------ MODULE MCService ------------------------------
(* A writer and a stranger in one chat.  Three messages are enough for a     *)
(* change request, a second one behind it, an answer and a late answer; a    *)
(* queue of one so that it fills.                                            *)
EXTENDS Service

CONSTANTS alice, stranger, group

MCUsers == {alice, stranger}
MCWriters == {alice}
MCThreads == {group}
MCWords == {"/change", "yes", "no"}
MCChangeWords == {"/change"}
MCAffirmative == {"yes"}
MCNegative == {"no"}

(* For the liveness runs: one writer, and the words that change anything.  *)
OneUser == {alice}
TwoWords == {"/change", "yes"}
NoWords == {}
=============================================================================
