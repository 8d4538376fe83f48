----------------------------- MODULE MCKnowledge -----------------------------
(* Instances small enough to explore and large enough for two processes to  *)
(* meet at every store.                                                     *)
EXTENDS Knowledge

(* A Python file that imports a document, which lies deeper than the scan   *)
(* of a push looks.                                                         *)
MCIdOf == [f \in Files |-> f]
MCKindOf == [f \in Files |-> IF f = "doc" THEN "markdown" ELSE "python"]
MCDepthOf == [f \in Files |-> IF f = "doc" THEN 33 ELSE 1]
MCImportsOf == [f \in Files |-> {"doc"}]

MCKindOfText == [x \in Texts |-> "fact"]

MCSortedUsers == <<"ann", "bob">>
(* An old graph file that says one thing twice. *)
MCLegacy ==
  <<[uid |-> "core", text |-> "old"], [uid |-> RepoWide, text |-> "old"],
    [uid |-> "core", text |-> "old"]>>

MCKindSets == {{"component", "decision", "doc"}, {"doc"}}

(* A chain of importers, a cycle, and a file with an edge to a pruned node. *)
MCDrafts ==
  {[nodes |-> Nodes, edges |-> {<<"b", "a">>}],
   [nodes |-> Nodes, edges |-> {<<"b", "a">>, <<"c", "b">>}],
   [nodes |-> Nodes, edges |-> {<<"c", "a">>, <<"b", "c">>, <<"a", "b">>}],
   [nodes |-> Nodes \ {"b"}, edges |-> {<<"b", "a">>, <<"c", "b">>}]}

(* A rule for everything, and what one user adopts against it. *)
MCRulings ==
  {[number |-> 1, about |-> RepoWideRuling, owner |-> "team", takes |-> "", rejects |-> "x"],
   [number |-> 2, about |-> "b", owner |-> "ann", takes |-> "x", rejects |-> ""]}

(* A change request over the channel that the planner stops to ask about,   *)
(* then, on the command line, the same one, carried out, and a question.    *)
MCTurns ==
  <<[message |-> <<"/change", "red">>, live |-> TRUE, orchestrated |-> TRUE,
     asked |-> TRUE, handed |-> FALSE, branches |-> <<>>, answered |-> TRUE],
    [message |-> <<"red">>, live |-> FALSE, orchestrated |-> TRUE,
     asked |-> FALSE, handed |-> TRUE, branches |-> <<"ok", "declined">>, answered |-> TRUE],
    [message |-> <<"red">>, live |-> FALSE, orchestrated |-> FALSE,
     asked |-> FALSE, handed |-> FALSE, branches |-> <<"other">>, answered |-> FALSE]>>

(* What a search finds, the order the judge sees it in, and a judge that    *)
(* quotes one passage, makes one claim without a quote and contradicts one. *)
MCRetrieved == {<<"p", "q">>, <<>>}
MCShuffle == [n \in 0 .. 2 |-> IF n = 2 THEN <<2, 1>> ELSE [i \in 1 .. n |-> i]]
Told(label, quote) == [named |-> TRUE, label |-> label, quote |-> quote]
MCClaimLists ==
  {{Told("supported", <<"p", 1>>), Told("present", <<"p", 1>>), Told("contradicted", NoQuote)}}

(* Two routes, no call at all, one tool twice, and a call that is declined. *)
MCScenario(routes) ==
  [routes |-> routes, forbidden |-> {"prune"}, gated |-> {"prune"}, stopped |-> {"answered"},
   branches |-> {}, allow |-> FALSE]
MCScenarios ==
  {MCScenario(<<<<"search", "graph">>, <<"graph">>>>), MCScenario(<<<<>>>>),
   MCScenario(<<<<"graph", "search", "graph">>>>),
   [MCScenario(<<<<"prune">>>>) EXCEPT !.forbidden = {}, !.branches = {"declined"}]}

MCArmWeights == {<<1, 1>>}
=============================================================================
