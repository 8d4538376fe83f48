----------------------------- MODULE GraphStore -----------------------------
(***************************************************************************)
(* The derived graph as values: what a scan makes of a source tree, what a *)
(* prune takes away, and what the integrity check finds                    *)
(* (tools/repo_scan.py, tools/graph_write.py, tools/decisions.py).         *)
(***************************************************************************)
EXTENDS Naturals, FiniteSets

CONSTANTS
  Files,           \* the files a scan may find
  IdOf,            \* the node id of each: tools.py and tools/__init__.py share one
  KindOf,          \* "python" or "markdown"
  DepthOf,         \* directories between the root and the file
  ImportsOf,       \* the ids each file's imports may name
  Missing, Torn    \* no graph file; one that is not a JSON object

Ids == {IdOf[f] : f \in Files}

ASSUME GraphAssumption ==
  /\ KindOf \in [Files -> {"python", "markdown"}]
  /\ DepthOf \in [Files -> Nat]
  /\ ImportsOf \in [Files -> SUBSET Ids]

(* A file on disk: a broken one does not parse as Python. *)
Trees == [Files -> {"gone", "parses", "broken"}]

Graph == [nodes : SUBSET Files, edges : SUBSET (Ids \X Ids)]

(* What stands for no graph is not one. *)
ASSUME FileAssumption == {Missing, Torn} \cap Graph = {}

EmptyGraph == [nodes |-> {}, edges |-> {}]
NodeIds(graph) == {IdOf[f] : f \in graph.nodes}

-----------------------------------------------------------------------------
(* scan_repository_structure *)

MaxDepthCeiling == 64
Refusal(root, depth, kind) ==
  \/ kind \notin {"python", "markdown", "any"}
  \/ depth \notin 0 .. MaxDepthCeiling
  \/ root # "directory"

Indexed(f, tree, depth, kind) ==
  /\ tree[f] # "gone"
  /\ DepthOf[f] <= depth
  /\ kind \in {KindOf[f], "any"}
  /\ KindOf[f] = "python" => tree[f] = "parses"

ImportTargets(f) == IF KindOf[f] = "python" THEN ImportsOf[f] \ {IdOf[f]} ELSE {}

(* Edges between known nodes only; a later file of the same id replaces the *)
(* imports of an earlier one, so which file's imports count is left open.   *)
Scans(tree, depth, kind) ==
  LET nodes == {f \in Files : Indexed(f, tree, depth, kind)}
      ids == {IdOf[f] : f \in nodes}
      sources == {s \in SUBSET nodes :
                    \A i \in ids : Cardinality({f \in s : IdOf[f] = i}) = 1}
  IN  {[nodes |-> nodes,
        edges |-> UNION {{IdOf[f]} \X (ImportTargets(f) \cap ids) : f \in s}] : s \in sources}

-----------------------------------------------------------------------------
(* prune_graph_node *)

Prune(graph, id, cascade) ==
  [nodes |-> {f \in graph.nodes : IdOf[f] # id},
   edges |-> IF cascade = "node_and_edges"
               THEN {e \in graph.edges : id \notin {e[1], e[2]}} ELSE graph.edges]

-----------------------------------------------------------------------------
(* verify_graph_integrity: the details, each with what it is about. *)

NodeProblems(graph, sourceExists) ==
  {<<"duplicate", i>> : i \in {i \in NodeIds(graph) :
                                 Cardinality({f \in graph.nodes : IdOf[f] = i}) > 1}}
    \cup IF graph.nodes = {} /\ sourceExists THEN {<<"empty_scan">>} ELSE {}

EdgeProblems(graph) ==
  {<<"orphan_edge", e>> : e \in {e \in graph.edges : ~({e[1], e[2]} \subseteq NodeIds(graph))}}

(* Skipped while there are no nodes to join against. *)
OrphanedDecisions(graph, decided) ==
  IF graph.nodes = {} THEN {} ELSE decided \ NodeIds(graph)

IntegrityDetails(file, scope, decided, sourceExists) ==
  IF file \in {Missing, Torn} THEN {<<"unreadable">>}
  ELSE (IF scope \in {"nodes", "all"} THEN NodeProblems(file, sourceExists) ELSE {})
         \cup (IF scope \in {"edges", "all"} THEN EdgeProblems(file) ELSE {})
         \cup (IF scope = "all"
                 THEN {<<"orphaned_decision", i>> : i \in OrphanedDecisions(file, decided)}
                 ELSE {})
=============================================================================
