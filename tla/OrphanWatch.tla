----------------------------- MODULE OrphanWatch -----------------------------
(***************************************************************************)
(* From a push to the messages about decisions whose component is gone:    *)
(* triggers/webhook.py, triggers/orphan_watch.py and the graph file they   *)
(* share with the tools of another process.  One worker rescans, joins the *)
(* decisions against the graph, saves the orphans as the watermark, and    *)
(* only then sends one message for each that is new.                       *)
(***************************************************************************)
EXTENDS GraphStore

CONSTANT Branches  \* dedupe keys of the deliveries

VARIABLES
  tree,            \* the files under the scan root
  graph,           \* the graph file
  legacy,          \* ids with a decision still inside the graph file
  decided,         \* ids some decision of the overlay references
  waiting,         \* dedupe keys of the github events in the queue
  watch,           \* where the worker is in handle_github_event
  current,         \* the orphans its integrity check found
  knownOrphans,    \* the watermark: the orphans of the pass before; {}: none, or torn
  todo,            \* new orphans with no message sent yet
  surfaced,        \* orphans told since they last resolved (history)
  unsent,          \* orphans whose message failed or died with the worker (history)
  repeated,        \* an orphan was told twice without having resolved, and
                   \* no pass had been blind (history)
  blind,           \* the watermark was lost, or a pass had no nodes (history)
  promised,        \* a push was admitted after everything it is about (history)
  everDecided         \* ids a decision was ever written about (history)

watchVars ==
  <<tree, graph, legacy, decided, waiting, watch, current, knownOrphans, todo, surfaced, unsent,
    repeated, blind, promised, everDecided>>

WatchTypeOK ==
  /\ tree \in Trees
  /\ graph \in Graph \cup {Missing, Torn}
  /\ legacy \cup decided \cup current \cup knownOrphans \cup todo \subseteq Ids
  /\ waiting \subseteq Branches
  /\ watch \in {"idle", "taken", "migrated", "scanned", "verified", "sending"}
  /\ surfaced \cup unsent \cup everDecided \subseteq Ids
  /\ {repeated, blind} \subseteq BOOLEAN
  /\ promised \in BOOLEAN

WatchInit ==
  /\ tree = [f \in Files |-> "parses"]
  /\ graph \in {Missing, Torn} \cup Scans(tree, 0, "any")
  /\ legacy \in IF graph \in Graph THEN {{}} \cup {{i} : i \in Ids} ELSE {{}}
  /\ decided = {}
  /\ waiting = {}
  /\ watch = "idle"
  /\ current = {}
  /\ knownOrphans = {}
  /\ todo = {}
  /\ surfaced = {}
  /\ unsent = {}
  /\ repeated = FALSE
  /\ blind = FALSE
  /\ promised = FALSE
  /\ everDecided = legacy

-----------------------------------------------------------------------------
(* The receiver. *)

(* Handled events are push and pull_request; both mean the same here. *)
Delivery ==
  [large : BOOLEAN, signed : BOOLEAN, json : BOOLEAN,
   event : {"handled", "other"}, key : Branches]

(* verify_signature: no secret is as bad as a wrong signature. *)
Verified(d) == d.signed

StatusCode(d) ==
  IF d.large THEN 413
  ELSE IF ~Verified(d) THEN 401
  ELSE IF ~d.json THEN 400
  ELSE IF d.event = "other" THEN 204 ELSE 202

worker == <<watch, current, knownOrphans, todo, surfaced, unsent, repeated, blind>>

(* Slip: the key of the event being handled still counts as waiting. *)
DoPostWhileHandling(d) ==
  /\ StatusCode(d) = 202
  /\ promised' = TRUE
  /\ waiting' = IF watch = "idle" THEN waiting \cup {d.key} ELSE waiting
  /\ UNCHANGED <<tree, graph, legacy, decided, everDecided, worker>>

(* The queue may refuse, and 202 is the answer all the same; a waiting push *)
(* of the same branch is replaced.  Other answers change nothing.           *)
DoPost(d) ==
  /\ StatusCode(d) = 202
  /\ \/ waiting' = waiting \cup {d.key} /\ promised' = TRUE
     \/ UNCHANGED <<waiting, promised>>
  /\ UNCHANGED <<tree, graph, legacy, decided, everDecided, worker>>

-----------------------------------------------------------------------------
(* What changes beside the worker. *)

(* Only Python can fail to parse. *)
Edit(f, state) ==
  /\ tree[f] # state
  /\ state = "broken" => KindOf[f] = "python"
  /\ tree' = [tree EXCEPT ![f] = state]
  /\ promised' = FALSE
  /\ UNCHANGED <<graph, legacy, decided, waiting, everDecided, worker>>

(* append_decision_record, by whoever has a session. *)
Record(id) ==
  /\ id \notin decided
  /\ decided' = decided \cup {id}
  /\ everDecided' = everDecided \cup {id}
  /\ promised' = FALSE
  /\ UNCHANGED <<tree, graph, legacy, waiting, worker>>

(* One depth for each way a scan can cut the tree short. *)
Depths == (0 .. MaxDepthCeiling) \cap ({0, MaxDepthCeiling} \cup {DepthOf[f] : f \in Files})

(* A scan or a prune by another process, the scan as deep as its caller     *)
(* says; migration comes before the save.                                   *)
OtherScan(depth, kind) ==
  /\ graph # Torn
  /\ graph' \in Scans(tree, depth, kind)
  /\ decided' = decided \cup legacy
  /\ legacy' = {}
  /\ promised' = FALSE
  /\ UNCHANGED <<tree, waiting, everDecided, worker>>

OtherPrune(id, cascade) ==
  /\ graph \in Graph
  /\ id \in NodeIds(graph)
  /\ graph' = Prune(graph, id, cascade)
  /\ promised' = FALSE
  /\ UNCHANGED <<tree, legacy, decided, waiting, everDecided, worker>>

(* The file is deleted or damaged, with what was still inside it. *)
Damage ==
  /\ graph' \in {Missing, Torn} \ {graph}
  /\ legacy' = {}
  /\ everDecided' = decided
  /\ promised' = FALSE
  /\ UNCHANGED <<tree, decided, waiting, worker>>

-----------------------------------------------------------------------------
(* handle_github_event. *)

others == <<tree, waiting, everDecided>>
watchBooks == <<surfaced, unsent, repeated, blind>>

Take(key) ==
  /\ watch = "idle"
  /\ key \in waiting
  /\ waiting' = waiting \ {key}
  /\ watch' = "taken"
  /\ UNCHANGED <<tree, graph, legacy, decided, current, knownOrphans, todo, watchBooks, promised,
                 everDecided>>

(* A scan that refuses is recorded as a silence; the watermark stays.       *)
ScanRefused ==
  /\ watch = "taken"
  /\ graph = Torn
  /\ watch' = "idle"
  /\ promised' = FALSE
  /\ UNCHANGED <<graph, legacy, decided, current, knownOrphans, todo, watchBooks, others>>

(* Slip: the file is saved before its decisions are moved. *)
MigrateLate ==
  /\ watch = "taken"
  /\ graph # Torn
  /\ legacy' = {}
  /\ watch' = "migrated"
  /\ UNCHANGED <<graph, decided, current, knownOrphans, todo, watchBooks, promised, others>>

Migrate ==
  /\ watch = "taken"
  /\ graph # Torn
  /\ decided' = decided \cup legacy
  /\ watch' = "migrated"
  /\ UNCHANGED <<graph, legacy, current, knownOrphans, todo, watchBooks, promised, others>>

(* How deep the scan of a push goes, which is less than a scan may. *)
ScanMaxDepth == 32

(* The walk and the save: the derived layer is replaced wholesale. *)
SaveGraph ==
  /\ watch = "migrated"
  /\ graph' \in Scans(tree, ScanMaxDepth, "any")
  /\ legacy' = {}
  /\ decided' = decided
  /\ watch' = "scanned"
  /\ UNCHANGED <<current, knownOrphans, todo, watchBooks, promised, others>>

Joined == graph \in Graph /\ graph.nodes # {}

Verify ==
  /\ watch = "scanned"
  /\ current' = {i \in Ids : <<"orphaned_decision", i>>
                               \in IntegrityDetails(graph, "all", decided, TRUE)}
  /\ blind' = (blind \/ ~Joined)
  /\ watch' = "verified"
  /\ UNCHANGED <<graph, legacy, decided, knownOrphans, todo, surfaced, unsent, repeated, promised,
                 others>>

(* Slip: only what is new is remembered. *)
SaveWatermarkOfNew ==
  /\ watch = "verified"
  /\ todo' = current \ knownOrphans
  /\ knownOrphans' = current \ knownOrphans
  /\ surfaced' = surfaced \cap current
  /\ unsent' = unsent \cap current
  /\ watch' = IF todo' = {} THEN "idle" ELSE "sending"
  /\ UNCHANGED <<graph, legacy, decided, current, repeated, blind, promised, others>>

(* Diff, then save, before any message; no news is recorded as a silence.   *)
SaveWatermark ==
  /\ watch = "verified"
  /\ todo' = current \ knownOrphans
  /\ knownOrphans' = current
  /\ surfaced' = surfaced \cap current
  /\ unsent' = unsent \cap current
  /\ watch' = IF todo' = {} THEN "idle" ELSE "sending"
  /\ UNCHANGED <<graph, legacy, decided, current, repeated, blind, promised, others>>

(* One message for each node that is newly cut off. *)
Surface ==
  /\ watch = "sending"
  /\ \E id \in todo :
       /\ surfaced' = surfaced \cup {id}
       /\ repeated' = (repeated \/ (~blind /\ id \in surfaced))
       /\ todo' = todo \ {id}
  /\ watch' = IF todo' = {} THEN "idle" ELSE "sending"
  /\ UNCHANGED <<graph, legacy, decided, current, knownOrphans, unsent, blind, promised, others>>

(* A pass that ends early, perhaps within the write of the watermark. *)
GiveUp ==
  /\ watch' = "idle"
  /\ todo' = {}
  /\ unsent' = unsent \cup todo
  /\ promised' = FALSE
  /\ \/ UNCHANGED <<knownOrphans, blind>>
     \/ watch = "verified" /\ knownOrphans' = {} /\ blind' = TRUE
  /\ UNCHANGED <<tree, graph, legacy, decided, current, surfaced, repeated, everDecided>>

(* The store, the file or the send raises: the worker's loop swallows it.   *)
PassRaises == watch # "idle" /\ GiveUp /\ UNCHANGED waiting

(* The process dies and starts again: the queue was in memory. *)
CrashWatch == GiveUp /\ waiting' = {}

WatchNext ==
  \/ \E d \in Delivery : DoPost(d)
  \/ \E f \in Files, s \in {"gone", "parses", "broken"} : Edit(f, s)
  \/ \E id \in Ids : Record(id)
  \/ \E depth \in Depths, kind \in {"python", "markdown", "any"} : OtherScan(depth, kind)
  \/ \E id \in Ids, cascade \in {"node_only", "node_and_edges"} : OtherPrune(id, cascade)
  \/ Damage
  \/ \E key \in Branches : Take(key)
  \/ ScanRefused \/ Migrate \/ SaveGraph \/ Verify \/ SaveWatermark \/ Surface
  \/ PassRaises \/ CrashWatch

WatchSpec == WatchInit /\ [][WatchNext]_watchVars

-----------------------------------------------------------------------------
(* What a pass will not report again was reported, is being reported, or    *)
(* its message failed or died with the worker; and the same orphan is       *)
(* reported twice, without having resolved in between, only after the       *)
(* watermark was lost or a pass had no nodes to join with                   *)
(* (handle_github_event, _load_watermark, verify_graph_integrity).          *)
OrphansToldOnce ==
  /\ knownOrphans \subseteq surfaced \cup todo \cup unsent
  /\ ~repeated

(* Replacing a waiting push by a newer one loses no signal: when the queue  *)
(* and the worker are at rest after the last push, the watermark holds      *)
(* exactly the decisions whose component is not in the tree, as far down as *)
(* the scan of a push looks (parse_event, SCAN_MAX_DEPTH).                  *)
QuietMeansChecked ==
  promised /\ waiting = {} /\ watch = "idle" =>
    \A scan \in Scans(tree, ScanMaxDepth, "any") :
      knownOrphans = OrphanedDecisions(scan, decided)

(* No scan loses a decision that was still inside the graph file, wherever  *)
(* it stops (migrate_legacy_decisions).                                     *)
LegacySurvives == everDecided \subseteq decided \cup legacy
=============================================================================
