--------------------------- MODULE KnowledgeProofs ---------------------------
(***************************************************************************)
(* Proofs about Knowledge, for every set of files, processes, people and   *)
(* texts: what the orphan watch has told and checked, what a scan keeps,   *)
(* and what reaches the memory file.                                       *)
(***************************************************************************)
EXTENDS Knowledge, FiniteSetTheorems, TLAPS

(* The decisions whose component a scan of the tree does not find. *)
InTree(there) == {f \in Files : Indexed(f, there, ScanMaxDepth, "any")}
CutOff(there) ==
  IF InTree(there) = {} THEN {} ELSE decided \ {IdOf[f] : f \in InTree(there)}

(* The orphans being told are the new ones, and none was told before while *)
(* the watermark was never lost.                                           *)
ToldIsKnown ==
  /\ todo \subseteq knownOrphans
  /\ watch # "sending" => todo = {}
  /\ knownOrphans \subseteq surfaced \cup todo \cup unsent
  /\ ~blind => surfaced \subseteq knownOrphans /\ todo \cap surfaced = {}
  /\ repeated = FALSE

(* Decisions are in the overlay before the save that drops them.           *)
LegacyMoved ==
  /\ everDecided \subseteq decided \cup legacy
  /\ watch = "migrated" => legacy \subseteq decided

(* What the pass of the last push has found by now. *)
LastPassIsRight ==
  promised /\ waiting = {} =>
    /\ watch = "scanned" => graph \in Graph /\ graph.nodes = InTree(tree)
    /\ watch = "verified" => current = CutOff(tree)
    /\ watch \in {"idle", "sending"} => knownOrphans = CutOff(tree)

WatchInv ==
  /\ WatchTypeOK
  /\ ToldIsKnown
  /\ LegacyMoved
  /\ LastPassIsRight

-----------------------------------------------------------------------------
(* A scan's nodes are the files it indexes, whatever imports it counts.    *)
LEMMA ScanShape ==
  ASSUME NEW t, NEW depth, NEW kind, NEW g \in Scans(t, depth, kind)
  PROVE  /\ g \in Graph
         /\ g.nodes = {f \in Files : Indexed(f, t, depth, kind)}
  <1> DEFINE nodes == {f \in Files : Indexed(f, t, depth, kind)}
             ids == {IdOf[f] : f \in nodes}
             edges(s) == UNION {{IdOf[f]} \X (ImportTargets(f) \cap ids) : f \in s}
  <1>1. PICK s \in SUBSET nodes : g = [nodes |-> nodes, edges |-> edges(s)]
    BY DEF Scans
  <1>2. ids \subseteq Ids
    BY DEF Ids
  <1>3. edges(s) \subseteq Ids \X Ids
    <2>1. \A f \in s : {IdOf[f]} \X (ImportTargets(f) \cap ids) \subseteq Ids \X Ids
      BY <1>2
    <2>2. QED
      BY <2>1
  <1> HIDE DEF edges
  <1>4. nodes \subseteq Files
    OBVIOUS
  <1> HIDE DEF nodes
  <1>5. QED
    BY <1>1, <1>3, <1>4 DEF Graph, nodes

(* What the integrity check says of decisions is the join, when there is a *)
(* graph to join with.                                                     *)
LEMMA JoinShape ==
  ASSUME NEW g \in Graph, decided \subseteq Ids
  PROVE  {i \in Ids : <<"orphaned_decision", i>> \in IntegrityDetails(g, "all", decided, TRUE)}
           = OrphanedDecisions(g, decided)
  <1>1. g \notin {Missing, Torn}
    BY FileAssumption
  <1> DEFINE O == OrphanedDecisions(g, decided)
             N == NodeProblems(g, TRUE)
             E == EdgeProblems(g)
             J == {<<"orphaned_decision", i>> : i \in O}
  <1>2. IntegrityDetails(g, "all", decided, TRUE) = N \cup E \cup J
    BY <1>1 DEF IntegrityDetails
  <1>3. \A i \in Ids : <<"orphaned_decision", i>> \notin N
    BY DEF NodeProblems
  <1>4. \A i \in Ids : <<"orphaned_decision", i>> \notin E
    BY DEF EdgeProblems
  <1>5. O \subseteq Ids
    BY DEF OrphanedDecisions
  <1> HIDE DEF O, N, E
  <1>6. \A i \in Ids : <<"orphaned_decision", i>> \in J <=> i \in O
    OBVIOUS
  <1>7. QED
    BY <1>2, <1>3, <1>4, <1>5, <1>6 DEF O

LEMMA WatchStart == WatchInit => WatchInv
  <1> SUFFICES ASSUME WatchInit PROVE WatchInv
    OBVIOUS
  <1> USE DEF WatchInit
  <1>1. graph \in Graph \cup {Missing, Torn}
    BY ScanShape
  <1>2. legacy \subseteq Ids
    OBVIOUS
  <1>3. WatchTypeOK
    BY <1>1, <1>2 DEF WatchTypeOK, Trees
  <1>4. ToldIsKnown
    BY DEF ToldIsKnown
  <1>5. LegacyMoved
    BY DEF LegacyMoved
  <1>6. LastPassIsRight
    BY DEF LastPassIsRight
  <1>7. QED
    BY <1>3, <1>4, <1>5, <1>6 DEF WatchInv

(* A step beside the worker. *)
LEMMA OutsideKeepsWatchInv ==
  ASSUME WatchInv,
         \/ \E d \in Delivery : DoPost(d)
         \/ \E f \in Files, s \in {"gone", "parses", "broken"} : Edit(f, s)
         \/ \E id \in Ids : Record(id)
         \/ \E depth \in Depths, kind \in {"python", "markdown", "any"} : OtherScan(depth, kind)
         \/ \E id \in Ids, cascade \in {"node_only", "node_and_edges"} :
              OtherPrune(id, cascade)
         \/ Damage
  PROVE  WatchInv'
  <1> USE DEF worker
  <1>0. WatchTypeOK /\ ToldIsKnown /\ LegacyMoved /\ LastPassIsRight
    BY DEF WatchInv
  <1>1. ASSUME NEW d \in Delivery, DoPost(d)
        PROVE  WatchInv'
    <2>1. d.key \in Branches
      BY DEF Delivery
    <2>2. \/ waiting' = waiting \cup {d.key} /\ promised' = TRUE
          \/ waiting' = waiting /\ promised' = promised
      BY <1>1 DEF DoPost
    <2>3. UNCHANGED <<tree, graph, legacy, decided, everDecided, worker>>
      BY <1>1 DEF DoPost
    <2>4. WatchTypeOK'
      BY <1>0, <2>1, <2>2, <2>3 DEF WatchTypeOK
    <2>5. ToldIsKnown' /\ LegacyMoved'
      BY <1>0, <2>3 DEF ToldIsKnown, LegacyMoved
    <2>6. CutOff(tree)' = CutOff(tree) /\ InTree(tree)' = InTree(tree)
      BY <2>3 DEF CutOff, InTree, Indexed
    <2>7. LastPassIsRight'
      <3>1. CASE waiting' = {}
        <4>1. waiting' = waiting /\ promised' = promised
          BY <2>2, <3>1
        <4>2. QED
          BY <1>0, <2>3, <2>6, <4>1 DEF LastPassIsRight
      <3>2. QED
        BY <3>1 DEF LastPassIsRight
    <2>8. QED
      BY <2>4, <2>5, <2>7 DEF WatchInv
  <1>2. ASSUME NEW f \in Files, NEW s \in {"gone", "parses", "broken"}, Edit(f, s)
        PROVE  WatchInv'
    <2> USE <1>2 DEF Edit
    <2>1. tree' \in Trees
      BY <1>0 DEF WatchTypeOK, Trees
    <2>2. WatchTypeOK'
      BY <1>0, <2>1 DEF WatchTypeOK
    <2>3. ToldIsKnown' /\ LegacyMoved' /\ LastPassIsRight'
      BY <1>0 DEF ToldIsKnown, LegacyMoved, LastPassIsRight
    <2>4. QED
      BY <2>2, <2>3 DEF WatchInv
  <1>3. ASSUME NEW id \in Ids, Record(id)
        PROVE  WatchInv'
    <2> USE <1>3 DEF Record
    <2>1. WatchTypeOK'
      BY <1>0 DEF WatchTypeOK
    <2>2. ToldIsKnown' /\ LegacyMoved' /\ LastPassIsRight'
      BY <1>0 DEF ToldIsKnown, LegacyMoved, LastPassIsRight
    <2>3. QED
      BY <2>1, <2>2 DEF WatchInv
  <1>4. ASSUME NEW depth, NEW kind, OtherScan(depth, kind)
        PROVE  WatchInv'
    <2> USE <1>4 DEF OtherScan
    <2>1. graph' \in Graph
      BY ScanShape
    <2>2. WatchTypeOK'
      BY <1>0, <2>1 DEF WatchTypeOK
    <2>3. ToldIsKnown' /\ LegacyMoved' /\ LastPassIsRight'
      BY <1>0 DEF ToldIsKnown, LegacyMoved, LastPassIsRight
    <2>4. QED
      BY <2>2, <2>3 DEF WatchInv
  <1>5. ASSUME NEW id \in Ids, NEW cascade, OtherPrune(id, cascade)
        PROVE  WatchInv'
    <2> USE <1>5 DEF OtherPrune
    <2>1. graph' \in Graph
      BY DEF Prune, Graph
    <2>2. WatchTypeOK'
      BY <1>0, <2>1 DEF WatchTypeOK
    <2>3. ToldIsKnown' /\ LegacyMoved' /\ LastPassIsRight'
      BY <1>0 DEF ToldIsKnown, LegacyMoved, LastPassIsRight
    <2>4. QED
      BY <2>2, <2>3 DEF WatchInv
  <1>6. CASE Damage
    <2> USE <1>6 DEF Damage
    <2>1. WatchTypeOK'
      BY <1>0 DEF WatchTypeOK
    <2>2. ToldIsKnown' /\ LegacyMoved' /\ LastPassIsRight'
      BY <1>0 DEF ToldIsKnown, LegacyMoved, LastPassIsRight
    <2>3. QED
      BY <2>1, <2>2 DEF WatchInv
  <1>7. QED
    BY <1>1, <1>2, <1>3, <1>4, <1>5, <1>6

(* The rescan: the event is taken, decisions move, the graph is replaced.  *)
LEMMA RescanKeepsWatchInv ==
  ASSUME WatchInv,
         (\E key \in Branches : Take(key)) \/ ScanRefused \/ Migrate \/ SaveGraph
  PROVE  WatchInv'
  <1> USE DEF watchBooks, others
  <1>0. WatchTypeOK /\ ToldIsKnown /\ LegacyMoved /\ LastPassIsRight
    BY DEF WatchInv
  <1>1. ASSUME NEW key \in Branches, Take(key)
        PROVE  WatchInv'
    <2> USE <1>1 DEF Take
    <2>1. WatchTypeOK'
      BY <1>0 DEF WatchTypeOK
    <2>2. ToldIsKnown' /\ LegacyMoved' /\ LastPassIsRight'
      BY <1>0 DEF ToldIsKnown, LegacyMoved, LastPassIsRight
    <2>3. QED
      BY <2>1, <2>2 DEF WatchInv
  <1>2. CASE ScanRefused
    <2> USE <1>2 DEF ScanRefused
    <2>1. WatchTypeOK'
      BY <1>0 DEF WatchTypeOK
    <2>2. ToldIsKnown' /\ LegacyMoved' /\ LastPassIsRight'
      BY <1>0 DEF ToldIsKnown, LegacyMoved, LastPassIsRight
    <2>3. QED
      BY <2>1, <2>2 DEF WatchInv
  <1>3. CASE Migrate
    <2> USE <1>3 DEF Migrate
    <2>1. WatchTypeOK'
      BY <1>0 DEF WatchTypeOK
    <2>2. ToldIsKnown' /\ LegacyMoved' /\ LastPassIsRight'
      BY <1>0 DEF ToldIsKnown, LegacyMoved, LastPassIsRight
    <2>3. QED
      BY <2>1, <2>2 DEF WatchInv
  <1>4. CASE SaveGraph
    <2> USE <1>4 DEF SaveGraph
    <2>1. graph' \in Graph /\ graph'.nodes = InTree(tree)
      BY ScanShape DEF InTree
    <2>2. WatchTypeOK'
      BY <1>0, <2>1 DEF WatchTypeOK
    <2>3. ToldIsKnown' /\ LegacyMoved'
      BY <1>0 DEF ToldIsKnown, LegacyMoved
    <2>4. InTree(tree)' = InTree(tree)
      BY DEF InTree, Indexed
    <2>5. LastPassIsRight'
      BY <1>0, <2>1, <2>4 DEF LastPassIsRight
    <2>6. QED
      BY <2>2, <2>3, <2>5 DEF WatchInv
  <1>5. QED
    BY <1>1, <1>2, <1>3, <1>4

(* The pass: the check, the watermark, the messages, and what cuts it off. *)
LEMMA PassKeepsWatchInv ==
  ASSUME WatchInv, Verify \/ SaveWatermark \/ Surface \/ PassRaises \/ CrashWatch
  PROVE  WatchInv'
  <1> USE DEF watchBooks, others
  <1>0. WatchTypeOK /\ ToldIsKnown /\ LegacyMoved /\ LastPassIsRight
    BY DEF WatchInv
  <1>1. CASE Verify
    <2> USE <1>1 DEF Verify
    <2>1. current' \subseteq Ids /\ blind' \in BOOLEAN
      BY <1>0 DEF WatchTypeOK
    <2>2. WatchTypeOK'
      BY <1>0, <2>1 DEF WatchTypeOK
    <2>3. ToldIsKnown' /\ LegacyMoved'
      BY <1>0 DEF ToldIsKnown, LegacyMoved
    <2>4. CutOff(tree)' = CutOff(tree)
      BY DEF CutOff, InTree, Indexed
    <2>5. ASSUME graph \in Graph, graph.nodes = InTree(tree)
          PROVE  current' = CutOff(tree)
      <3>1. decided \subseteq Ids
        BY <1>0 DEF WatchTypeOK
      <3>2. current' = OrphanedDecisions(graph, decided)
        BY <2>5, <3>1, JoinShape
      <3>3. QED
        BY <2>5, <3>2 DEF OrphanedDecisions, CutOff, NodeIds
    <2>6. LastPassIsRight'
      BY <1>0, <2>4, <2>5 DEF LastPassIsRight
    <2>7. QED
      BY <2>2, <2>3, <2>6 DEF WatchInv
  <1>2. CASE SaveWatermark
    <2> USE <1>2 DEF SaveWatermark
    <2>1. WatchTypeOK'
      BY <1>0 DEF WatchTypeOK
    <2>2. ToldIsKnown'
      BY <1>0 DEF ToldIsKnown
    <2>3. LegacyMoved'
      BY <1>0 DEF LegacyMoved
    <2>4. CutOff(tree)' = CutOff(tree)
      BY DEF CutOff, InTree, Indexed
    <2>5. LastPassIsRight'
      BY <1>0, <2>4 DEF LastPassIsRight
    <2>6. QED
      BY <2>1, <2>2, <2>3, <2>5 DEF WatchInv
  <1>3. CASE Surface
    <2> USE <1>3 DEF Surface
    <2>0. PICK id \in todo :
            /\ surfaced' = surfaced \cup {id}
            /\ repeated' = (repeated \/ (~blind /\ id \in surfaced))
            /\ todo' = todo \ {id}
      OBVIOUS
    <2>1. ToldIsKnown'
      BY <1>0, <2>0 DEF ToldIsKnown
    <2>2. WatchTypeOK'
      BY <1>0, <2>0, <2>1 DEF WatchTypeOK, ToldIsKnown
    <2>3. LegacyMoved'
      BY <1>0 DEF LegacyMoved
    <2>4. CutOff(tree)' = CutOff(tree)
      BY DEF CutOff, InTree, Indexed
    <2>5. LastPassIsRight'
      BY <1>0, <2>4 DEF LastPassIsRight
    <2>6. QED
      BY <2>1, <2>2, <2>3, <2>5 DEF WatchInv
  <1>4. CASE PassRaises \/ CrashWatch
    <2> USE <1>4 DEF PassRaises, CrashWatch, GiveUp
    <2>1. WatchTypeOK'
      BY <1>0 DEF WatchTypeOK
    <2>2. ToldIsKnown' /\ LegacyMoved' /\ LastPassIsRight'
      BY <1>0 DEF ToldIsKnown, LegacyMoved, LastPassIsRight
    <2>3. QED
      BY <2>1, <2>2 DEF WatchInv
  <1>5. QED
    BY <1>1, <1>2, <1>3, <1>4

LEMMA WatchStepKeepsInv == WatchInv /\ [WatchNext]_watchVars => WatchInv'
  <1> SUFFICES ASSUME WatchInv, [WatchNext]_watchVars PROVE WatchInv'
    OBVIOUS
  <1>1. CASE WatchNext
    BY <1>1, OutsideKeepsWatchInv, RescanKeepsWatchInv, PassKeepsWatchInv DEF WatchNext
  <1>2. CASE UNCHANGED watchVars
    BY <1>2 DEF watchVars, WatchInv, WatchTypeOK, ToldIsKnown, LegacyMoved, LastPassIsRight,
                CutOff, InTree, Indexed
  <1>3. QED
    BY <1>1, <1>2

(* What the last pass found is what any scan of the tree would cut off.    *)
LEMMA WatchInvShows ==
  WatchInv => OrphansToldOnce /\ QuietMeansChecked /\ LegacySurvives
  <1> SUFFICES ASSUME WatchInv
               PROVE  OrphansToldOnce /\ QuietMeansChecked /\ LegacySurvives
    OBVIOUS
  <1>1. OrphansToldOnce /\ LegacySurvives
    BY DEF WatchInv, ToldIsKnown, LegacyMoved, OrphansToldOnce, LegacySurvives
  <1>2. ASSUME NEW scan \in Scans(tree, ScanMaxDepth, "any")
        PROVE  OrphanedDecisions(scan, decided) = CutOff(tree)
    BY ScanShape DEF OrphanedDecisions, CutOff, InTree, NodeIds
  <1>3. QuietMeansChecked
    BY <1>2 DEF WatchInv, LastPassIsRight, QuietMeansChecked
  <1>4. QED
    BY <1>1, <1>3

-----------------------------------------------------------------------------
(* The memory file. *)

StoredRecords == [Keys -> Records \cup {NoRecord}]

(* A record was saved or confirmed, an accepted one twice or by a person.  *)
EarnedBy(records, counts, persons) ==
  \A k \in Keys :
    /\ records[k] # NoRecord => k \in persons \/ counts[k] >= 1
    /\ records[k].status = "accepted" => k \in persons \/ counts[k] >= 2

Earned(records) == EarnedBy(records, observed, vouched)

EarnedEverywhere ==
  /\ Store(file) => Earned(file)
  /\ Store(tmp) => Earned(tmp)
  /\ \A w \in Writers : Earned(draft[w])

(* The one writer at work, as long as there was only one: its file is as   *)
(* far as it is itself, and nothing kept is missing from what it will save.*)
AloneInv ==
  /\ \A v, w \in Busy : v = w
  /\ \A w \in Writers \ Busy : handle[w] = "gone"
  /\ file # Broken
  /\ \A k \in kept : file # Absent /\ file[k] # NoRecord
  /\ \A w \in Busy : \A k \in kept \cup ack[w] : draft[w][k] # NoRecord
  /\ \A w \in Writers :
       /\ step[w] = "loaded" => handle[w] = "gone"
       /\ step[w] \in {"open", "written"} => handle[w] = "tmp"
       /\ step[w] = "written" => tmp = draft[w]

MemoryInv ==
  /\ MemoryTypeOK
  /\ ack \in [Writers -> SUBSET Keys]
  /\ \A k \in Keys : observed[k] <= saves
  /\ EarnedEverywhere
  /\ overlapped = FALSE => AloneInv

LEMMA MemoryStart == MemoryInit => MemoryInv
  <1> SUFFICES ASSUME MemoryInit PROVE MemoryInv
    OBVIOUS
  <1> USE DEF MemoryInit
  <1>1. EmptyStore \in StoredRecords /\ Earned(EmptyStore)
    BY DEF EmptyStore, StoredRecords, Earned, EarnedBy, NoRecord
  <1>2. MemoryTypeOK
    <2>1. draft \in [Writers -> StoredRecords]
      BY <1>1
    <2>2. 0 \in 0 .. MaxSaves
      BY MemoryAssumption
    <2>3. QED
      BY <2>1, <2>2 DEF MemoryTypeOK, StoredRecords
  <1>3. EarnedEverywhere
    BY <1>1 DEF EarnedEverywhere, Store
  <1>4. AloneInv
    BY StoreAssumption DEF AloneInv, Busy
  <1>5. QED
    BY <1>2, <1>3, <1>4 DEF MemoryInv

(* What a writer loads is a store, and as earned as the file.              *)
LEMMA LoadedShape ==
  ASSUME MemoryInv, file # Broken
  PROVE  /\ Loaded \in StoredRecords
         /\ Earned(Loaded)
         /\ overlapped = FALSE => \A k \in kept : Loaded[k] # NoRecord
  <1>1. CASE file = Absent
    <2>1. EmptyStore \in StoredRecords /\ Earned(EmptyStore)
      BY DEF EmptyStore, StoredRecords, Earned, EarnedBy, NoRecord
    <2>2. QED
      BY <1>1, <2>1 DEF Loaded, MemoryInv, AloneInv
  <1>2. CASE file # Absent
    BY <1>2 DEF Loaded, MemoryInv, MemoryTypeOK, EarnedEverywhere, Store, StoredRecords, AloneInv
  <1>3. QED
    BY <1>1, <1>2

(* Each operation keeps every record it loaded, leaves the one it is about,*)
(* and makes nothing accepted that was not: the second save and the        *)
(* confirmation apart.                                                     *)
LEMMA SaveMemoryShape ==
  ASSUME NEW records \in StoredRecords, NEW key \in Keys, NEW cue \in SUBSET Cues,
         NEW stated \in BOOLEAN
  PROVE  LET after == SaveMemory(records, key, cue, stated)
         IN  /\ after \in StoredRecords
             /\ \A k \in Keys : k # key => after[k] = records[k]
             /\ after[key] # NoRecord
             /\ after[key].status = "accepted" => stated \/ records[key] # NoRecord
  <1> DEFINE after == SaveMemory(records, key, cue, stated)
  <1>1. CASE records[key] = NoRecord
    <2> DEFINE new == [status |-> IF stated THEN "accepted" ELSE "proposed", cue |-> cue,
                       used |-> FALSE]
    <2>1. Twins(records, key) = {}
      BY <1>1 DEF Twins
    <2>2. after = [records EXCEPT ![key] = new]
      BY <2>1 DEF SaveMemory
    <2>3. new \in Records /\ new # NoRecord /\ (new.status = "accepted" => stated)
      BY DEF Records, NoRecord
    <2> HIDE DEF new, after
    <2>4. QED
      BY <2>2, <2>3 DEF StoredRecords, after
  <1>2. CASE records[key] # NoRecord
    <2>1. Twins(records, key) = {key}
      BY <1>2 DEF Twins
    <2>2. (CHOOSE k \in Twins(records, key) : TRUE) = key
      BY <2>1
    <2>3. after = [records EXCEPT ![key].status = "accepted", ![key].cue = @ \cup cue]
      BY <2>1, <2>2 DEF SaveMemory
    <2>4. records[key] \in Records
      BY <1>2 DEF StoredRecords
    <2> DEFINE new == [status |-> "accepted", cue |-> records[key].cue \cup cue,
                       used |-> records[key].used]
    <2>5. after = [records EXCEPT ![key] = new]
      BY <2>3, <2>4 DEF Records, StoredRecords
    <2>6. new \in Records /\ new # NoRecord
      BY <2>4 DEF Records, NoRecord
    <2> HIDE DEF new, after
    <2>7. QED
      BY <1>2, <2>5, <2>6 DEF StoredRecords, after
  <1>3. QED
    BY <1>1, <1>2

LEMMA PromoteShape ==
  ASSUME NEW records \in StoredRecords, NEW key \in Keys, records[key] # NoRecord
  PROVE  LET after == PromoteMemory(records, key)
         IN  /\ after \in StoredRecords
             /\ \A k \in Keys : k # key => after[k] = records[k]
             /\ after[key] # NoRecord
  <1>1. records[key] \in Records
    BY DEF StoredRecords
  <1> DEFINE new == [records[key] EXCEPT !.status = "accepted"]
  <1>2. new \in Records /\ new # NoRecord
    BY <1>1 DEF Records, NoRecord
  <1>3. PromoteMemory(records, key) = [records EXCEPT ![key] = new]
    BY DEF PromoteMemory
  <1> HIDE DEF new
  <1>4. QED
    BY <1>2, <1>3 DEF StoredRecords

LEMMA MarkUsedShape ==
  ASSUME NEW records \in StoredRecords, NEW keys
  PROVE  LET after == MarkUsed(records, keys)
         IN  /\ after \in StoredRecords
             /\ \A k \in Keys : after[k].status = records[k].status
             /\ \A k \in Keys : records[k] # NoRecord <=> after[k] # NoRecord
  <1> DEFINE after == MarkUsed(records, keys)
  <1>1. ASSUME NEW k \in Keys
        PROVE  /\ after[k] \in Records \cup {NoRecord}
               /\ after[k].status = records[k].status
               /\ records[k] # NoRecord <=> after[k] # NoRecord
    <2>1. CASE k \in keys /\ records[k] # NoRecord
      <3>1. records[k] \in Records
        BY <2>1 DEF StoredRecords
      <3> DEFINE new == [status |-> records[k].status, cue |-> records[k].cue, used |-> TRUE]
      <3>2. new \in Records /\ new # NoRecord /\ new.status = records[k].status
            /\ records[k] # NoRecord
        BY <3>1 DEF Records, NoRecord
      <3>3. after[k] = new
        BY <2>1, <3>1 DEF MarkUsed, Records
      <3>4. QED
        BY <3>2, <3>3
    <2>2. CASE ~(k \in keys /\ records[k] # NoRecord)
      <3>1. after[k] = records[k]
        BY <2>2 DEF MarkUsed
      <3>2. QED
        BY <3>1 DEF StoredRecords
    <2>3. QED
      BY <2>1, <2>2
  <1>2. after = [k \in Keys |-> after[k]]
    BY DEF MarkUsed
  <1> HIDE DEF after
  <1>3. QED
    BY <1>1, <1>2 DEF StoredRecords, after

(* A call begins: it has loaded the file, made its change, and counted what*)
(* it was told.                                                            *)
BeginStep ==
  \E w \in Writers, records \in StoredRecords, keys \in SUBSET Keys :
    /\ Begin(w, records, keys)
    /\ observed' \in [Keys -> 0 .. saves + 1]
    /\ \A k \in Keys : observed'[k] >= observed[k]
    /\ vouched \subseteq vouched' /\ vouched' \subseteq Keys
    /\ EarnedBy(records, observed', vouched')
    /\ overlapped = FALSE => \A k \in kept \cup keys : records[k] # NoRecord

LEMMA EarnedGrows ==
  ASSUME NEW records, NEW counts \in [Keys -> Nat], NEW persons, NEW more \in [Keys -> Nat],
         NEW witnesses, EarnedBy(records, counts, persons), persons \subseteq witnesses,
         \A k \in Keys : more[k] >= counts[k]
  PROVE  EarnedBy(records, more, witnesses)
  BY DEF EarnedBy

LEMMA SaveBegins ==
  ASSUME MemoryInv, NEW w \in Writers, NEW p, NEW key \in Keys, NEW cue \in SUBSET Cues,
         NEW stated \in BOOLEAN, Save(w, p, key, cue, stated)
  PROVE  BeginStep
  <1> DEFINE records == SaveMemory(Loaded, key, cue, stated)
  <1>0. MemoryTypeOK /\ file # Broken /\ saves \in Nat /\ \A k \in Keys : observed[k] <= saves
    BY MemoryAssumption DEF MemoryInv, MemoryTypeOK, Save
  <1>1. /\ Loaded \in StoredRecords /\ EarnedBy(Loaded, observed, vouched)
        /\ overlapped = FALSE => \A k \in kept : Loaded[k] # NoRecord
    BY <1>0, LoadedShape DEF Earned
  <1>2. /\ records \in StoredRecords
        /\ \A k \in Keys : k # key => records[k] = Loaded[k]
        /\ records[key] # NoRecord
        /\ records[key].status = "accepted" => stated \/ Loaded[key] # NoRecord
    BY <1>1, SaveMemoryShape
  <1>3. Begin(w, records, {key})
    BY DEF Save
  <1>4. /\ observed' = [observed EXCEPT ![key] = @ + 1]
        /\ vouched' = IF stated THEN vouched \cup {key} ELSE vouched
    BY DEF Save
  <1> HIDE DEF records
  <1>5. observed \in [Keys -> Nat] /\ vouched \subseteq Keys
    BY <1>0, MemoryAssumption DEF MemoryTypeOK
  <1>6. /\ observed' \in [Keys -> 0 .. saves + 1]
        /\ \A k \in Keys : observed'[k] >= observed[k]
        /\ observed'[key] = observed[key] + 1
    BY <1>0, <1>4, <1>5
  <1>7. vouched \subseteq vouched' /\ vouched' \subseteq Keys /\ (stated => key \in vouched')
    BY <1>4, <1>5
  <1>8. EarnedBy(records, observed', vouched')
    <2>1. ASSUME NEW k \in Keys, k # key
          PROVE  /\ records[k] # NoRecord => k \in vouched' \/ observed'[k] >= 1
                 /\ records[k].status = "accepted" => k \in vouched' \/ observed'[k] >= 2
      BY <1>1, <1>2, <1>5, <1>6, <1>7, <2>1 DEF EarnedBy
    <2>2. /\ records[key] # NoRecord => key \in vouched' \/ observed'[key] >= 1
          /\ records[key].status = "accepted" => key \in vouched' \/ observed'[key] >= 2
      <3>1. observed'[key] >= 1
        BY <1>5, <1>6
      <3>2. Loaded[key] # NoRecord => key \in vouched' \/ observed'[key] >= 2
        BY <1>1, <1>5, <1>6, <1>7 DEF EarnedBy
      <3>3. QED
        BY <1>2, <1>7, <3>1, <3>2
    <2>3. QED
      BY <2>1, <2>2 DEF EarnedBy
  <1>9. overlapped = FALSE => \A k \in kept \cup {key} : records[k] # NoRecord
    BY <1>0, <1>1, <1>2 DEF MemoryTypeOK
  <1>10. QED
    BY <1>2, <1>3, <1>6, <1>7, <1>8, <1>9 DEF BeginStep

LEMMA ConfirmBegins ==
  ASSUME MemoryInv, NEW w \in Writers, NEW key \in Keys, Confirm(w, key)
  PROVE  BeginStep
  <1> DEFINE records == PromoteMemory(Loaded, key)
  <1>0. MemoryTypeOK /\ file # Broken /\ saves \in Nat /\ \A k \in Keys : observed[k] <= saves
    BY MemoryAssumption DEF MemoryInv, MemoryTypeOK, Confirm
  <1>1. /\ Loaded \in StoredRecords /\ EarnedBy(Loaded, observed, vouched)
        /\ overlapped = FALSE => \A k \in kept : Loaded[k] # NoRecord
    BY <1>0, LoadedShape DEF Earned
  <1>2. /\ records \in StoredRecords
        /\ \A k \in Keys : k # key => records[k] = Loaded[k]
        /\ records[key] # NoRecord
    BY <1>1, PromoteShape DEF Confirm
  <1>3. Begin(w, records, {key}) /\ vouched' = vouched \cup {key} /\ observed' = observed
    BY DEF Confirm
  <1> HIDE DEF records
  <1>4. observed \in [Keys -> Nat] /\ vouched \subseteq Keys
    BY <1>0, MemoryAssumption DEF MemoryTypeOK
  <1>5. observed' \in [Keys -> 0 .. saves + 1]
    BY <1>0, <1>3, <1>4
  <1>6. EarnedBy(records, observed', vouched')
    <2>1. ASSUME NEW k \in Keys, k # key
          PROVE  /\ records[k] # NoRecord => k \in vouched' \/ observed'[k] >= 1
                 /\ records[k].status = "accepted" => k \in vouched' \/ observed'[k] >= 2
      BY <1>1, <1>2, <1>3, <2>1 DEF EarnedBy
    <2>2. QED
      BY <1>3, <2>1 DEF EarnedBy
  <1>7. overlapped = FALSE => \A k \in kept \cup {key} : records[k] # NoRecord
    BY <1>0, <1>1, <1>2 DEF MemoryTypeOK
  <1>8. \A k \in Keys : observed'[k] >= observed[k]
    BY <1>3, <1>4
  <1>9. QED
    BY <1>2, <1>3, <1>4, <1>5, <1>6, <1>7, <1>8 DEF BeginStep

LEMMA RecallKeepsMemoryInv ==
  ASSUME MemoryInv, NEW w \in Writers, NEW p, NEW asked, NEW kinds, Recall(w, p, asked, kinds)
  PROVE  MemoryInv'
  <1>1. RetrieveMemory(Loaded, p, asked, kinds) \in SUBSET Keys
    BY DEF RetrieveMemory
  <1>2. found' \in [Writers -> SUBSET Keys]
    BY <1>1 DEF Recall, MemoryInv, MemoryTypeOK
  <1>3. UNCHANGED <<file, tmp, step, handle, draft, ack, observed, vouched, kept, overlapped, saves>>
    BY DEF Recall
  <1>4. QED
    BY <1>2, <1>3 DEF MemoryInv, MemoryTypeOK, EarnedEverywhere, Earned, Store, AloneInv, Busy

LEMMA MarkBegins ==
  ASSUME MemoryInv, NEW w \in Writers, MarkFound(w)
  PROVE  BeginStep
  <1> DEFINE keys == found[w]
             records == MarkUsed(Loaded, keys)
  <1>0. MemoryTypeOK /\ file # Broken /\ saves \in Nat /\ \A k \in Keys : observed[k] <= saves
    BY MemoryAssumption DEF MemoryInv, MemoryTypeOK, MarkFound
  <1>1. /\ Loaded \in StoredRecords /\ EarnedBy(Loaded, observed, vouched)
        /\ overlapped = FALSE => \A k \in kept : Loaded[k] # NoRecord
    BY <1>0, LoadedShape DEF Earned
  <1>2. Begin(w, records, {}) /\ observed' = observed /\ vouched' = vouched
    BY DEF MarkFound
  <1> HIDE DEF keys
  <1>4. /\ records \in StoredRecords
        /\ \A k \in Keys : records[k].status = Loaded[k].status
        /\ \A k \in Keys : Loaded[k] # NoRecord <=> records[k] # NoRecord
    BY <1>1, MarkUsedShape
  <1> HIDE DEF records
  <1>5. observed \in [Keys -> Nat] /\ vouched \subseteq Keys
    BY <1>0, MemoryAssumption DEF MemoryTypeOK
  <1>6. observed' \in [Keys -> 0 .. saves + 1]
    BY <1>0, <1>2, <1>5
  <1>7. EarnedBy(records, observed', vouched')
    BY <1>1, <1>2, <1>4 DEF EarnedBy
  <1>8. overlapped = FALSE => \A k \in kept \cup {} : records[k] # NoRecord
    BY <1>0, <1>1, <1>4 DEF MemoryTypeOK
  <1>9. \A k \in Keys : observed'[k] >= observed[k]
    BY <1>2, <1>5
  <1>10. QED
    BY <1>2, <1>4, <1>5, <1>6, <1>7, <1>8, <1>9 DEF BeginStep

LEMMA BeginKeepsMemoryInv ==
  ASSUME MemoryInv, BeginStep
  PROVE  MemoryInv'
  <1>0. /\ MemoryTypeOK /\ ack \in [Writers -> SUBSET Keys] /\ EarnedEverywhere
        /\ overlapped = FALSE => AloneInv
    BY DEF MemoryInv
  <1>1. PICK w \in Writers, records \in StoredRecords, keys \in SUBSET Keys :
          /\ Begin(w, records, keys)
          /\ observed' \in [Keys -> 0 .. saves + 1]
          /\ \A k \in Keys : observed'[k] >= observed[k]
          /\ vouched \subseteq vouched' /\ vouched' \subseteq Keys
          /\ EarnedBy(records, observed', vouched')
          /\ overlapped = FALSE => \A k \in kept \cup keys : records[k] # NoRecord
    BY DEF BeginStep
  <1>2. /\ step[w] = "idle" /\ saves < MaxSaves /\ file # Broken
        /\ saves' = saves + 1
        /\ draft' = [draft EXCEPT ![w] = records]
        /\ ack' = [ack EXCEPT ![w] = keys]
        /\ found' = [found EXCEPT ![w] = {}]
        /\ step' = [step EXCEPT ![w] = "loaded"]
        /\ overlapped' = (overlapped \/ Busy # {})
        /\ file' = file /\ tmp' = tmp /\ handle' = handle /\ kept' = kept
    BY <1>1 DEF Begin
  <1>3. saves \in Nat /\ MaxSaves \in Nat /\ saves' \in 0 .. MaxSaves /\ saves + 1 <= MaxSaves
    BY <1>0, <1>2, MemoryAssumption DEF MemoryTypeOK
  <1>4. /\ step \in [Writers -> {"idle", "loaded", "open", "written"}]
        /\ draft \in [Writers -> StoredRecords]
        /\ observed \in [Keys -> Nat]
    BY <1>0, <1>3 DEF MemoryTypeOK, StoredRecords
  <1>5. /\ step' \in [Writers -> {"idle", "loaded", "open", "written"}]
        /\ draft' \in [Writers -> StoredRecords]
        /\ ack' \in [Writers -> SUBSET Keys]
    BY <1>0, <1>2, <1>4
  <1>6. observed' \in [Keys -> 0 .. MaxSaves] /\ \A k \in Keys : observed'[k] <= saves'
    BY <1>1, <1>2, <1>3
  <1>7. MemoryTypeOK'
    <2>1. found' \in [Writers -> SUBSET Keys]
      BY <1>0, <1>2 DEF MemoryTypeOK
    <2>2. QED
      BY <1>0, <1>1, <1>2, <1>3, <1>5, <1>6, <2>1 DEF MemoryTypeOK, StoredRecords
  <1>8. EarnedEverywhere'
    <2>1. observed' \in [Keys -> Nat]
      BY <1>3, <1>6
    <2>2. \A r : EarnedBy(r, observed, vouched) => EarnedBy(r, observed', vouched')
      BY <1>1, <1>4, <2>1, EarnedGrows
    <2>3. /\ Store(file) => EarnedBy(file, observed', vouched')
          /\ Store(tmp) => EarnedBy(tmp, observed', vouched')
          /\ \A v \in Writers : EarnedBy(draft[v], observed', vouched')
      BY <1>0, <2>2 DEF EarnedEverywhere, Earned
    <2>4. \A v \in Writers : EarnedBy(draft'[v], observed', vouched')
      BY <1>1, <1>2, <1>4, <2>3
    <2>5. QED
      BY <1>2, <2>3, <2>4 DEF EarnedEverywhere, Earned, Store
  <1>9. ASSUME overlapped' = FALSE
        PROVE  AloneInv'
    <2>1. overlapped = FALSE /\ Busy = {}
      BY <1>0, <1>2, <1>9 DEF MemoryTypeOK
    <2>2. AloneInv
      BY <1>0, <2>1
    <2>3. Busy' = {w}
      BY <1>2, <1>4, <2>1 DEF Busy
    <2>4. \A v \in Writers : step'[v] = IF v = w THEN "loaded" ELSE "idle"
      BY <1>2, <1>4, <2>1 DEF Busy
    <2>5. \A v \in Writers : handle'[v] = "gone"
      BY <1>2, <2>1, <2>2 DEF AloneInv
    <2>6. \A k \in kept' \cup ack'[w] : draft'[w][k] # NoRecord
      BY <1>0, <1>1, <1>2, <1>4, <2>1
    <2>7. file' # Broken /\ \A k \in kept' : file' # Absent /\ file'[k] # NoRecord
      BY <1>2, <2>2 DEF AloneInv
    <2>8. QED
      BY <2>3, <2>4, <2>5, <2>6, <2>7 DEF AloneInv
  <1>10. QED
    BY <1>5, <1>6, <1>7, <1>8, <1>9 DEF MemoryInv

(* What a writer that is done leaves: its draft is forgotten.              *)
LEMMA DoneShape ==
  ASSUME MemoryInv, NEW w \in Writers, Done(w)
  PROVE  /\ step' \in [Writers -> {"idle", "loaded", "open", "written"}]
         /\ draft' \in [Writers -> StoredRecords]
         /\ ack' \in [Writers -> SUBSET Keys]
         /\ step'[w] = "idle"
         /\ \A v \in Writers : Earned(draft'[v])
         /\ \A v \in Writers :
              v # w => step'[v] = step[v] /\ draft'[v] = draft[v] /\ ack'[v] = ack[v]
  <1>1. EmptyStore \in StoredRecords /\ Earned(EmptyStore)
    BY DEF EmptyStore, StoredRecords, Earned, EarnedBy, NoRecord
  <1>2. /\ step \in [Writers -> {"idle", "loaded", "open", "written"}]
        /\ draft \in [Writers -> StoredRecords]
        /\ ack \in [Writers -> SUBSET Keys]
        /\ \A v \in Writers : Earned(draft[v])
    BY DEF MemoryInv, MemoryTypeOK, StoredRecords, EarnedEverywhere
  <1>3. QED
    BY <1>1, <1>2 DEF Done

LEMMA OpenKeepsMemoryInv ==
  ASSUME MemoryInv, NEW w \in Writers, Open(w)
  PROVE  MemoryInv'
  <1>0. /\ MemoryTypeOK /\ ack \in [Writers -> SUBSET Keys] /\ EarnedEverywhere
        /\ \A k \in Keys : observed[k] <= saves
        /\ overlapped = FALSE => AloneInv
    BY DEF MemoryInv
  <1>1. /\ step[w] = "loaded" /\ tmp' = Broken
        /\ step' = [step EXCEPT ![w] = "open"]
        /\ handle' = [handle EXCEPT ![w] = "tmp"]
        /\ file' = file /\ draft' = draft /\ ack' = ack /\ kept' = kept
        /\ overlapped' = overlapped /\ observed' = observed /\ vouched' = vouched
        /\ saves' = saves /\ found' = found
    BY DEF Open, memoryBooks
  <1>2. MemoryTypeOK'
    BY <1>0, <1>1 DEF MemoryTypeOK
  <1>3. EarnedEverywhere'
    BY <1>0, <1>1 DEF EarnedEverywhere, Store, Earned
  <1>4. ASSUME AloneInv PROVE AloneInv'
    <2>1. /\ step \in [Writers -> {"idle", "loaded", "open", "written"}]
          /\ handle \in [Writers -> {"tmp", "file", "gone"}]
      BY <1>0 DEF MemoryTypeOK
    <2>2. Busy' = Busy /\ w \in Busy /\ \A v \in Writers : v # w => step[v] = "idle"
      BY <1>1, <1>4, <2>1 DEF Busy, AloneInv
    <2>3. QED
      BY <1>1, <1>4, <2>1, <2>2 DEF AloneInv
  <1>5. QED
    BY <1>0, <1>1, <1>2, <1>3, <1>4 DEF MemoryInv

LEMMA WriteKeepsMemoryInv ==
  ASSUME MemoryInv, NEW w \in Writers, Write(w)
  PROVE  MemoryInv'
  <1>0. /\ MemoryTypeOK /\ ack \in [Writers -> SUBSET Keys] /\ EarnedEverywhere
        /\ \A k \in Keys : observed[k] <= saves
        /\ overlapped = FALSE => AloneInv
    BY DEF MemoryInv
  <1>1. PICK content \in {draft[w]} \cup (IF Mixed(w) THEN {Broken} ELSE {}) :
          /\ tmp' = IF handle[w] = "tmp" THEN content ELSE tmp
          /\ file' = IF handle[w] = "file" THEN content ELSE file
    BY DEF Write
  <1>2. /\ step[w] = "open" /\ step' = [step EXCEPT ![w] = "written"]
        /\ handle' = handle /\ draft' = draft /\ ack' = ack /\ kept' = kept
        /\ overlapped' = overlapped /\ observed' = observed /\ vouched' = vouched
        /\ saves' = saves /\ found' = found
    BY DEF Write, memoryBooks
  <1>3. /\ draft[w] \in StoredRecords /\ Earned(draft[w])
        /\ content = draft[w] \/ content = Broken
    BY <1>0, <1>1 DEF MemoryTypeOK, StoredRecords, EarnedEverywhere
  <1>4. /\ file' \in {Absent, Broken} \/ file' \in StoredRecords
        /\ tmp' \in {Absent, Broken} \/ tmp' \in StoredRecords
    BY <1>0, <1>1, <1>3 DEF MemoryTypeOK, StoredRecords
  <1>5. MemoryTypeOK'
    BY <1>0, <1>2, <1>4 DEF MemoryTypeOK, StoredRecords
  <1>6. EarnedEverywhere'
    BY <1>0, <1>1, <1>2, <1>3 DEF EarnedEverywhere, Store, Earned
  <1>7. ASSUME AloneInv PROVE AloneInv'
    <2>1. /\ step \in [Writers -> {"idle", "loaded", "open", "written"}]
          /\ handle \in [Writers -> {"tmp", "file", "gone"}]
      BY <1>0 DEF MemoryTypeOK
    <2>2. Busy' = Busy /\ w \in Busy /\ \A v \in Writers : v # w => step[v] = "idle"
      BY <1>2, <1>7, <2>1 DEF Busy, AloneInv
    <2>3. ~Mixed(w)
      BY <2>2 DEF Mixed
    <2>4. handle[w] = "tmp" /\ tmp' = draft[w] /\ file' = file
      BY <1>1, <1>2, <1>7, <2>3 DEF AloneInv
    <2>5. QED
      BY <1>2, <1>7, <2>1, <2>2, <2>4 DEF AloneInv
  <1>8. QED
    BY <1>0, <1>2, <1>5, <1>6, <1>7 DEF MemoryInv

LEMMA RenameKeepsMemoryInv ==
  ASSUME MemoryInv, NEW w \in Writers, Rename(w)
  PROVE  MemoryInv'
  <1>0. /\ MemoryTypeOK /\ ack \in [Writers -> SUBSET Keys] /\ EarnedEverywhere
        /\ \A k \in Keys : observed[k] <= saves
        /\ overlapped = FALSE => AloneInv
    BY DEF MemoryInv
  <1>1. /\ step[w] = "written" /\ tmp # Absent
        /\ file' = tmp /\ tmp' = Absent
        /\ handle' = [v \in Writers |->
                        IF v = w \/ handle[v] # "tmp" THEN "gone" ELSE "file"]
        /\ kept' = kept \cup ack[w]
        /\ overlapped' = overlapped /\ observed' = observed /\ vouched' = vouched
        /\ saves' = saves /\ found' = found
        /\ Done(w)
    BY DEF Rename, memoryBooks
  <1>2. /\ step' \in [Writers -> {"idle", "loaded", "open", "written"}]
        /\ draft' \in [Writers -> StoredRecords]
        /\ ack' \in [Writers -> SUBSET Keys]
        /\ step'[w] = "idle"
        /\ \A v \in Writers : Earned(draft'[v])
        /\ \A v \in Writers :
             v # w => step'[v] = step[v] /\ draft'[v] = draft[v] /\ ack'[v] = ack[v]
    BY <1>1, DoneShape
  <1>3. MemoryTypeOK'
    BY <1>0, <1>1, <1>2 DEF MemoryTypeOK, StoredRecords
  <1>4. EarnedEverywhere'
    <2>1. Store(file') => EarnedBy(file', observed', vouched')
      BY <1>0, <1>1 DEF EarnedEverywhere, Store, Earned
    <2>2. \A v \in Writers : EarnedBy(draft'[v], observed', vouched')
      BY <1>1, <1>2 DEF Earned
    <2>3. ~Store(tmp')
      BY <1>1 DEF Store
    <2>4. QED
      BY <2>1, <2>2, <2>3 DEF EarnedEverywhere, Store, Earned
  <1>5. ASSUME AloneInv PROVE AloneInv'
    <2>1. /\ step \in [Writers -> {"idle", "loaded", "open", "written"}]
          /\ handle \in [Writers -> {"tmp", "file", "gone"}]
          /\ draft \in [Writers -> StoredRecords]
      BY <1>0 DEF MemoryTypeOK, StoredRecords
    <2>2. w \in Busy /\ \A v \in Writers : v # w => step[v] = "idle" /\ handle[v] = "gone"
      BY <1>1, <1>5, <2>1 DEF Busy, AloneInv
    <2>3. Busy' = {}
      BY <1>2, <2>2 DEF Busy
    <2>4. file' = draft[w] /\ file' # Broken /\ file' # Absent
      BY <1>1, <1>5, <2>1, StoreAssumption DEF AloneInv, StoredRecords
    <2>5. \A k \in kept' : file'[k] # NoRecord
      BY <1>1, <1>5, <2>2, <2>4 DEF AloneInv
    <2>6. \A v \in Writers : handle'[v] = "gone" /\ step'[v] = "idle"
      BY <1>1, <1>2, <2>2
    <2>7. QED
      BY <2>3, <2>4, <2>5, <2>6 DEF AloneInv
  <1>6. QED
    BY <1>0, <1>1, <1>2, <1>3, <1>4, <1>5 DEF MemoryInv

(* A rename that fails and a death leave the file as it is. *)
LEMMA DeathKeepsMemoryInv ==
  ASSUME MemoryInv, NEW w \in Writers, RenameFails(w) \/ Die(w)
  PROVE  MemoryInv'
  <1>0. /\ MemoryTypeOK /\ ack \in [Writers -> SUBSET Keys] /\ EarnedEverywhere
        /\ \A k \in Keys : observed[k] <= saves
        /\ overlapped = FALSE => AloneInv
    BY DEF MemoryInv
  <1>1. /\ step[w] # "idle"
        /\ handle' = [handle EXCEPT ![w] = "gone"]
        /\ file' = file /\ tmp' = tmp /\ kept' = kept
        /\ overlapped' = overlapped /\ observed' = observed /\ vouched' = vouched
        /\ saves' = saves /\ found' = found
        /\ Done(w)
    BY DEF RenameFails, Die, memoryBooks
  <1>2. /\ step' \in [Writers -> {"idle", "loaded", "open", "written"}]
        /\ draft' \in [Writers -> StoredRecords]
        /\ ack' \in [Writers -> SUBSET Keys]
        /\ step'[w] = "idle"
        /\ \A v \in Writers : Earned(draft'[v])
        /\ \A v \in Writers :
             v # w => step'[v] = step[v] /\ draft'[v] = draft[v] /\ ack'[v] = ack[v]
    BY <1>1, DoneShape
  <1>3. MemoryTypeOK'
    BY <1>0, <1>1, <1>2 DEF MemoryTypeOK, StoredRecords
  <1>4. EarnedEverywhere'
    <2>1. /\ Store(file') => EarnedBy(file', observed', vouched')
          /\ Store(tmp') => EarnedBy(tmp', observed', vouched')
      BY <1>0, <1>1 DEF EarnedEverywhere, Store, Earned
    <2>2. \A v \in Writers : EarnedBy(draft'[v], observed', vouched')
      BY <1>1, <1>2 DEF Earned
    <2>3. QED
      BY <2>1, <2>2 DEF EarnedEverywhere, Store, Earned
  <1>5. ASSUME AloneInv PROVE AloneInv'
    <2>1. /\ step \in [Writers -> {"idle", "loaded", "open", "written"}]
          /\ handle \in [Writers -> {"tmp", "file", "gone"}]
      BY <1>0 DEF MemoryTypeOK
    <2>2. w \in Busy /\ \A v \in Writers : v # w => step[v] = "idle" /\ handle[v] = "gone"
      BY <1>1, <1>5, <2>1 DEF Busy, AloneInv
    <2>3. Busy' = {} /\ \A v \in Writers : handle'[v] = "gone" /\ step'[v] = "idle"
      BY <1>1, <1>2, <2>1, <2>2 DEF Busy
    <2>4. QED
      BY <1>1, <1>5, <2>3 DEF AloneInv
  <1>6. QED
    BY <1>0, <1>1, <1>2, <1>3, <1>4, <1>5 DEF MemoryInv

LEMMA MemoryStepKeepsInv == MemoryInv /\ [MemoryNext]_memoryVars => MemoryInv'
  <1> SUFFICES ASSUME MemoryInv, [MemoryNext]_memoryVars PROVE MemoryInv'
    OBVIOUS
  <1>1. CASE MemoryNext
    <2>1. PICK w \in Writers :
            \/ \E p \in People, k \in Keys, cue \in SUBSET Cues, stated \in BOOLEAN :
                 Save(w, p, k, cue, stated)
            \/ \E k \in Keys : Confirm(w, k)
            \/ \E p \in People \cup {"anonymous"}, asked \in Queries,
                  kinds \in {{"fact"}, {"rule"}, {"fact", "rule"}} : Recall(w, p, asked, kinds)
            \/ MarkFound(w)
            \/ Open(w) \/ Write(w) \/ Rename(w) \/ RenameFails(w) \/ Die(w)
      BY <1>1 DEF MemoryNext
    <2>2. ASSUME NEW p, NEW k \in Keys, NEW cue \in SUBSET Cues, NEW stated \in BOOLEAN,
                 Save(w, p, k, cue, stated)
          PROVE  MemoryInv'
      BY <2>2, SaveBegins, BeginKeepsMemoryInv
    <2>3. ASSUME NEW k \in Keys, Confirm(w, k)
          PROVE  MemoryInv'
      BY <2>3, ConfirmBegins, BeginKeepsMemoryInv
    <2>4. ASSUME NEW p, NEW asked, NEW kinds, Recall(w, p, asked, kinds)
          PROVE  MemoryInv'
      BY <2>4, RecallKeepsMemoryInv
    <2>5. CASE MarkFound(w)
      BY <2>5, MarkBegins, BeginKeepsMemoryInv
    <2>6. CASE Open(w) \/ Write(w) \/ Rename(w) \/ RenameFails(w) \/ Die(w)
      BY <2>6, OpenKeepsMemoryInv, WriteKeepsMemoryInv, RenameKeepsMemoryInv,
         DeathKeepsMemoryInv
    <2>7. QED
      BY <2>1, <2>2, <2>3, <2>4, <2>5, <2>6
  <1>2. CASE UNCHANGED memoryVars
    BY <1>2 DEF memoryVars, MemoryInv, MemoryTypeOK, EarnedEverywhere, Earned, Store, AloneInv,
                Busy
  <1>3. QED
    BY <1>1, <1>2

LEMMA MemoryInvShows == MemoryInv => NothingLostAlone /\ AcceptedIsEarned
  BY DEF MemoryInv, AloneInv, EarnedEverywhere, Earned, EarnedBy, NothingLostAlone,
         AcceptedIsEarned, MemoryTypeOK

-----------------------------------------------------------------------------
(* The decisions and silences. *)

LEMMA LeastExists ==
  ASSUME NEW S \in SUBSET Nat, S # {}
  PROVE  Min(S) \in S /\ \A x \in S : Min(S) <= x
  <1> DEFINE lt == {p \in Nat \X Nat : p[1] < p[2]}
  <1>1. IsWellFoundedOn(lt, Nat)
    BY NatLessThanWellFounded DEF OpToRel
  <1>2. \E k \in S : \A j \in S : <<j, k>> \notin lt
    <2> HIDE DEF lt
    <2>1. QED
      BY <1>1, WFMin
  <1>3. PICK k \in S : \A j \in S : <<j, k>> \notin lt
    BY <1>2
  <1>4. \A j \in S : k <= j
    <2> SUFFICES ASSUME NEW j \in S PROVE ~(j < k)
      OBVIOUS
    <2>1. <<j, k>> \in Nat \X Nat /\ <<j, k>>[1] = j /\ <<j, k>>[2] = k
      OBVIOUS
    <2>2. QED
      BY <1>3, <2>1
  <1>5. \E x \in S : \A y \in S : x <= y
    BY <1>4
  <1>6. QED
    BY <1>5 DEF Min

(* An order of a set of places lists each of them once. *)
LEMMA OrderShape ==
  ASSUME NEW places, IsFiniteSet(places), places \subseteq Nat, NEW order \in Orders(places)
  PROVE  /\ order \in Seq(places)
         /\ DOMAIN order = 1 .. Len(order)
         /\ \A m, n \in DOMAIN order : order[m] = order[n] => m = n
         /\ \A r \in places : \E n \in DOMAIN order : order[n] = r
  <1> DEFINE n == Cardinality(places)
  <1>1. n \in Nat
    BY FS_CardinalityType
  <1>2. order \in [1 .. n -> places] /\ \A i, j \in 1 .. n : i < j => order[i] < order[j]
    BY DEF Orders
  <1>3. Cardinality(1 .. n) = n
    BY <1>1, FS_Interval
  <1> HIDE DEF n
  <1>4. \A i, j \in 1 .. n : order[i] = order[j] => i = j
    <2> SUFFICES ASSUME NEW i \in 1 .. n, NEW j \in 1 .. n, order[i] = order[j], i # j
                 PROVE  FALSE
      OBVIOUS
    <2>1. order[i] \in Nat /\ order[j] \in Nat
      BY <1>2
    <2>2. i < j \/ j < i
      BY <1>1
    <2>3. QED
      BY <1>2, <2>1, <2>2
  <1>5. order \in Injection(1 .. n, places)
    BY <1>2, <1>4 DEF Injection, IsInjective
  <1>6. order \in Surjection(1 .. n, places)
    BY <1>3, <1>5, FS_Injection DEF n
  <1>7. \A r \in places : \E k \in 1 .. n : order[k] = r
    BY <1>6 DEF Surjection
  <1>8. order \in Seq(places) /\ Len(order) = n /\ DOMAIN order = 1 .. n
    BY <1>1, <1>2
  <1>9. QED
    BY <1>4, <1>7, <1>8

Turn ==
  [step : {"idle", "asked", "silent", "speaking", "answering"}, user : {Anonymous} \cup Users,
   names : SUBSET Components, uids : SUBSET Uids, withheld : SUBSET Nat]
Silence ==
  [visibility : Users, asker : {Anonymous} \cup Users, withheld : SUBSET Nat]

(* What was withheld is on file, is somebody's, and is not the asker's. *)
OthersOnly(places, user) ==
  /\ places \subseteq DOMAIN decisions
  /\ Owners(places) \cap VisibleTo(user) = {}

(* The worker reads for one person at a time, and a turn goes quiet once.  *)
ReadingInv ==
  /\ turn \in Turn
  /\ silences \in Seq(Silence)
  /\ {quiet, raised, turns} \subseteq Nat
  /\ quiet <= turns
  /\ turn.step = "asked" => quiet < turns
  /\ handed \subseteq DOMAIN decisions
  /\ turn.step # "answering" => handed = {}
  /\ turn.step = "silent" =>
       /\ OthersOnly(turn.withheld, turn.user)
       /\ turn.withheld # {}
       /\ "team" \notin Owners(turn.withheld)
  /\ \A i \in DOMAIN silences :
       /\ OthersOnly(silences[i].withheld, silences[i].asker)
       /\ silences[i].visibility \in Owners(silences[i].withheld)
  /\ \A d \in handed : decisions[d].visibility \in VisibleTo(turn.user)
  /\ quiet = Len(silences) + raised + (IF turn.step = "silent" THEN 1 ELSE 0)

(* A row that came from the graph file. *)
ImportedRow(d, uid, text) ==
  decisions[d].author = "hw1" /\ decisions[d].uid = uid /\ decisions[d].text = text

(* An importer holds the first record missing, which nobody else inserts   *)
(* while it is alone.                                                      *)
ImportInv ==
  /\ import \in [Importers -> 0 .. Len(Legacy)]
  /\ {imported, contended} \subseteq BOOLEAN
  /\ \A i \in Importers : import[i] # NotImporting =>
       \A r \in MissingRecords : import[i] <= r
  /\ imported = TRUE => MissingRecords = {}
  /\ contended = FALSE =>
       /\ \A i, j \in Importers :
            import[i] # NotImporting /\ import[j] # NotImporting => i = j
       /\ \A i \in Importers : import[i] # NotImporting =>
            \A d \in DOMAIN decisions :
              ~ImportedRow(d, Legacy[import[i]].uid, Legacy[import[i]].text)
       /\ \A d, e \in DOMAIN decisions :
            decisions[d].author = "hw1" /\ ImportedRow(e, decisions[d].uid, decisions[d].text)
              => d = e

OverlayInv ==
  /\ decisions \in Seq(Decision)
  /\ ReadingInv
  /\ ImportInv

LEMMA OverlayStart == OverlayInit => OverlayInv
  <1> SUFFICES ASSUME OverlayInit PROVE OverlayInv
    OBVIOUS
  <1> USE OverlayAssumption DEF OverlayInit
  <1>1. decisions \in Seq(Decision) /\ silences \in Seq(Silence)
    <2>1. /\ <<>> \in Seq(Decision) /\ <<>> \in Seq(Silence)
      OBVIOUS
    <2>2. QED
      BY <2>1
  <1>2. turn \in Turn /\ turn.step = "idle"
    BY DEF NoTurn, Turn
  <1>3. Len(silences) = 0 /\ DOMAIN silences = {} /\ DOMAIN decisions = {}
    OBVIOUS
  <1>4. ReadingInv
    BY <1>1, <1>2, <1>3 DEF ReadingInv
  <1>5. import \in [Importers -> 0 .. Len(Legacy)] /\ \A i \in Importers : import[i] = NotImporting
    BY DEF NotImporting
  <1>6. ImportInv
    BY <1>3, <1>5 DEF ImportInv
  <1>7. QED
    BY <1>1, <1>4, <1>6 DEF OverlayInv

(* Rows are only ever added at the end. *)
Grows ==
  /\ decisions' \in Seq(Decision)
  /\ Len(decisions) <= Len(decisions')
  /\ \A d \in DOMAIN decisions : d \in DOMAIN decisions' /\ decisions'[d] = decisions[d]

LEMMA GrowthKeepsReadingInv ==
  ASSUME OverlayInv, Grows, UNCHANGED <<turn, silences, handed, quiet, raised, turns>>
  PROVE  ReadingInv'
  <1>1. \A places : places \subseteq DOMAIN decisions =>
          places \subseteq DOMAIN decisions' /\ Owners(places)' = Owners(places)
    BY DEF Grows, Owners
  <1>2. \A places, user : OthersOnly(places, user) => OthersOnly(places, user)'
    BY <1>1 DEF OthersOnly
  <1>3. turn' = turn /\ silences' = silences /\ handed' = handed /\ quiet' = quiet
        /\ raised' = raised /\ turns' = turns
    OBVIOUS
  <1>4. ReadingInv
    BY DEF OverlayInv
  <1>5. \A d \in handed : d \in DOMAIN decisions /\ decisions'[d] = decisions[d]
    BY <1>4 DEF ReadingInv, Grows
  <1>6. \A i \in DOMAIN silences :
          /\ OthersOnly(silences[i].withheld, silences[i].asker)'
          /\ silences[i].visibility \in Owners(silences[i].withheld)'
    <2> SUFFICES ASSUME NEW i \in DOMAIN silences
                 PROVE  /\ OthersOnly(silences[i].withheld, silences[i].asker)'
                        /\ silences[i].visibility \in Owners(silences[i].withheld)'
      OBVIOUS
    <2>1. /\ OthersOnly(silences[i].withheld, silences[i].asker)
          /\ silences[i].visibility \in Owners(silences[i].withheld)
      BY <1>4 DEF ReadingInv
    <2>2. QED
      BY <1>1, <1>2, <1>3, <2>1 DEF OthersOnly
  <1>7. turn.step = "silent" =>
          /\ OthersOnly(turn.withheld, turn.user)'
          /\ turn.withheld # {}
          /\ "team" \notin Owners(turn.withheld)'
    BY <1>1, <1>2, <1>3, <1>4 DEF ReadingInv, OthersOnly
  <1>8. /\ turn' \in Turn /\ silences' \in Seq(Silence)
        /\ {quiet', raised', turns'} \subseteq Nat /\ quiet' <= turns'
        /\ turn'.step = "asked" => quiet' < turns'
        /\ turn'.step # "answering" => handed' = {}
        /\ quiet' = Len(silences') + raised' + (IF turn'.step = "silent" THEN 1 ELSE 0)
    BY <1>3, <1>4 DEF ReadingInv
  <1>9. /\ handed' \subseteq DOMAIN decisions'
        /\ \A d \in handed' : decisions'[d].visibility \in VisibleTo(turn'.user)
    <2>1. \A d \in handed : decisions[d].visibility \in VisibleTo(turn.user)
      BY <1>4 DEF ReadingInv
    <2>2. \A d \in handed : d \in DOMAIN decisions' /\ decisions'[d] = decisions[d]
      BY <1>5 DEF Grows
    <2>3. QED
      BY <1>3, <2>1, <2>2
  <1>10. \A i \in DOMAIN silences' :
           /\ OthersOnly(silences[i].withheld, silences[i].asker)'
           /\ silences'[i].visibility \in Owners(silences[i].withheld)'
    BY <1>3, <1>6
  <1>11. turn'.step = "silent" =>
           /\ OthersOnly(turn.withheld, turn.user)'
           /\ turn'.withheld # {}
           /\ "team" \notin Owners(turn.withheld)'
    BY <1>3, <1>7
  <1>12. QED
    BY <1>8, <1>9, <1>10, <1>11 DEF ReadingInv, VisibleTo

(* What is on file stays on file. *)
LEMMA GrowthFindsMore ==
  ASSUME Grows
  PROVE  /\ \A record : OnFile(record) => OnFile(record)'
         /\ MissingRecords' \subseteq MissingRecords
  <1>1. ASSUME NEW record, OnFile(record) PROVE OnFile(record)'
    BY <1>1 DEF OnFile, Grows
  <1>2. QED
    BY <1>1 DEF MissingRecords

(* A record made here, by hand or in a turn: its author is a person. *)
LEMMA RecordKeepsOverlayInv ==
  ASSUME OverlayInv, NEW author \in {Anonymous} \cup Users, NEW uid \in Components,
         NEW text \in Wordings, NEW private \in BOOLEAN, NEW status \in Recorded,
         AppendDecisionRecord(author, uid, text, private, status)
  PROVE  OverlayInv'
  <1>0. OverlayInv /\ author \in Users /\ "hw1" \notin Users
    BY OverlayAssumption DEF AppendDecisionRecord
  <1> DEFINE row == [uid |-> uid, text |-> text, author |-> author, status |-> status,
                     visibility |-> IF private THEN author ELSE "team"]
  <1>1. row \in Decision /\ row.author # "hw1"
    BY <1>0, OverlayAssumption DEF Decision, Uids, Statuses
  <1>2. decisions' = Append(decisions, row)
        /\ UNCHANGED <<turn, silences, handed, quiet, raised, turns>>
        /\ UNCHANGED <<import, imported, contended>>
    BY DEF AppendDecisionRecord, AppendRow, people
  <1> HIDE DEF row
  <1>3. /\ decisions \in Seq(Decision) /\ decisions' \in Seq(Decision)
        /\ DOMAIN decisions = 1 .. Len(decisions) /\ Len(decisions) \in Nat
        /\ Len(decisions') = Len(decisions) + 1
        /\ DOMAIN decisions' = 1 .. Len(decisions) + 1
        /\ decisions'[Len(decisions) + 1] = row
        /\ \A d \in 1 .. Len(decisions) : decisions'[d] = decisions[d]
    BY <1>1, <1>2 DEF OverlayInv
  <1>4. Grows
    BY <1>3 DEF Grows
  <1>5. ReadingInv'
    BY <1>0, <1>2, <1>4, GrowthKeepsReadingInv
  <1>6. \A d \in DOMAIN decisions' :
          decisions'[d].author = "hw1" => d \in DOMAIN decisions /\ decisions'[d] = decisions[d]
    BY <1>1, <1>3
  <1>7. MissingRecords' \subseteq MissingRecords
    BY <1>4, GrowthFindsMore
  <1>8. ImportInv
    BY <1>0 DEF OverlayInv
  <1>9. ImportInv'
    <2>1. /\ import' \in [Importers -> 0 .. Len(Legacy)]
          /\ {imported', contended'} \subseteq BOOLEAN
          /\ \A i \in Importers : import'[i] # NotImporting =>
               \A r \in MissingRecords' : import'[i] <= r
          /\ imported' = TRUE => MissingRecords' = {}
      BY <1>2, <1>7, <1>8 DEF ImportInv
    <2>2. ASSUME contended' = FALSE
          PROVE  /\ \A i, j \in Importers :
                      import'[i] # NotImporting /\ import'[j] # NotImporting => i = j
                 /\ \A i \in Importers : import'[i] # NotImporting =>
                      \A d \in DOMAIN decisions' :
                        ~ImportedRow(d, Legacy[import[i]].uid, Legacy[import[i]].text)'
                 /\ \A d, e \in DOMAIN decisions' :
                      decisions'[d].author = "hw1" /\
                      ImportedRow(e, decisions[d].uid, decisions[d].text)' => d = e
      BY <1>2, <1>6, <1>8, <2>2 DEF ImportInv, ImportedRow
    <2>3. QED
      BY <2>1, <2>2 DEF ImportInv
  <1>10. QED
    BY <1>3, <1>5, <1>9 DEF OverlayInv

LEMMA CheckKeepsOverlayInv ==
  ASSUME OverlayInv, NEW i \in Importers, ImportCheck(i)
  PROVE  OverlayInv'
  <1>0. OverlayInv /\ ImportInv /\ ReadingInv
    BY DEF OverlayInv
  <1>1. /\ import[i] = NotImporting /\ MissingRecords # {}
        /\ import' = [import EXCEPT ![i] = Min(MissingRecords)]
        /\ contended' = (contended \/ \E j \in Importers : import[j] # NotImporting)
        /\ decisions' = decisions /\ imported' = imported
        /\ UNCHANGED <<turn, silences, handed, quiet, raised, turns>>
    BY DEF ImportCheck
  <1>2. DOMAIN Legacy = 1 .. Len(Legacy) /\ Len(Legacy) \in Nat
    BY OverlayAssumption
  <1>3. MissingRecords \subseteq 1 .. Len(Legacy) /\ MissingRecords \subseteq Nat
    BY <1>2 DEF MissingRecords
  <1>4. /\ Min(MissingRecords) \in MissingRecords
        /\ \A r \in MissingRecords : Min(MissingRecords) <= r
    BY <1>1, <1>3, LeastExists
  <1> DEFINE m == Min(MissingRecords)
  <1>5. m \in 1 .. Len(Legacy) /\ ~OnFile(Legacy[m]) /\ \A r \in MissingRecords : m <= r
    BY <1>3, <1>4 DEF MissingRecords
  <1> HIDE DEF m
  <1>6. /\ import' \in [Importers -> 0 .. Len(Legacy)]
        /\ import'[i] = m
        /\ \A j \in Importers : j # i => import'[j] = import[j]
    BY <1>0, <1>1, <1>2, <1>5 DEF ImportInv, m
  <1>7. Grows
    BY <1>0, <1>1 DEF Grows, OverlayInv
  <1>8. ReadingInv'
    BY <1>0, <1>1, <1>7, GrowthKeepsReadingInv
  <1>9. MissingRecords' = MissingRecords
    BY <1>1 DEF MissingRecords, OnFile
  <1>10. ImportInv'
    <2>1. \A j \in Importers : import'[j] # NotImporting =>
            \A r \in MissingRecords' : import'[j] <= r
      BY <1>0, <1>5, <1>6, <1>9 DEF ImportInv
    <2>2. {imported', contended'} \subseteq BOOLEAN /\ (imported' = TRUE => MissingRecords' = {})
      BY <1>0, <1>1, <1>9 DEF ImportInv
    <2>3. ASSUME contended' = FALSE
          PROVE  /\ \A j, k \in Importers :
                      import'[j] # NotImporting /\ import'[k] # NotImporting => j = k
                 /\ \A j \in Importers : import'[j] # NotImporting =>
                      \A d \in DOMAIN decisions' :
                        ~ImportedRow(d, Legacy[import[j]].uid, Legacy[import[j]].text)'
                 /\ \A d, e \in DOMAIN decisions' :
                      decisions'[d].author = "hw1" /\
                      ImportedRow(e, decisions[d].uid, decisions[d].text)' => d = e
      <3>1. contended = FALSE /\ \A j \in Importers : import[j] = NotImporting
        BY <1>0, <1>1, <2>3 DEF ImportInv
      <3>2. \A j \in Importers : import'[j] # NotImporting => j = i
        BY <1>6, <3>1
      <3>3. \A d \in DOMAIN decisions : ~ImportedRow(d, Legacy[m].uid, Legacy[m].text)
        BY <1>5 DEF OnFile, ImportedRow
      <3>4. \A d \in DOMAIN decisions' :
              ~ImportedRow(d, Legacy[import[i]].uid, Legacy[import[i]].text)'
        BY <1>1, <1>6, <3>3 DEF ImportedRow
      <3>5. \A d, e \in DOMAIN decisions' :
              decisions'[d].author = "hw1" /\
              ImportedRow(e, decisions[d].uid, decisions[d].text)' => d = e
        BY <1>0, <1>1, <3>1 DEF ImportInv, ImportedRow
      <3>6. QED
        BY <3>2, <3>4, <3>5
    <2>4. QED
      BY <1>6, <2>1, <2>2, <2>3 DEF ImportInv
  <1>11. QED
    BY <1>0, <1>1, <1>8, <1>10 DEF OverlayInv

(* A legacy record is its component and its text. *)
LEMMA LegacyShape ==
  /\ \A r \in DOMAIN Legacy : Legacy[r].uid \in Uids /\ Legacy[r].text \in Wordings
  /\ \A q, r \in DOMAIN Legacy :
       Legacy[q].uid = Legacy[r].uid /\ Legacy[q].text = Legacy[r].text => Legacy[q] = Legacy[r]
  <1> DEFINE R == [uid : Uids, text : Wordings]
  <1>1. Legacy \in Seq(R)
    BY OverlayAssumption
  <1>2. \A r \in DOMAIN Legacy : Legacy[r] \in R
    <2> HIDE DEF R
    <2>1. QED
      BY <1>1
  <1>3. QED
    BY <1>2

(* What an import inserts: no record twice, and each of the missing ones.  *)
LEMMA ImportRowsShape ==
  ASSUME OverlayInv, NEW i \in Importers, import[i] # NotImporting
  PROVE  LET places == ImportRows(i)
         IN  /\ IsFiniteSet(places) /\ places \subseteq DOMAIN Legacy /\ places \subseteq Nat
             /\ \A q \in places : q = import[i] \/ ~OnFile(Legacy[q])
             /\ \A p, q \in places : Legacy[p] = Legacy[q] => p = q
             /\ \A r \in MissingRecords : \E q \in places : Legacy[q] = Legacy[r]
  <1> DEFINE places == ImportRows(i)
             m == import[i]
  <1>1. /\ DOMAIN Legacy = 1 .. Len(Legacy) /\ Len(Legacy) \in Nat
        /\ m \in 1 .. Len(Legacy)
        /\ \A r \in MissingRecords : m <= r
    BY OverlayAssumption DEF OverlayInv, ImportInv, NotImporting
  <1> HIDE DEF m
  <1>2. places = {m} \cup {r \in MissingRecords :
                           r > m /\ \A q \in m .. r - 1 : Legacy[q] # Legacy[r]}
    BY DEF ImportRows, m
  <1>3. MissingRecords \subseteq 1 .. Len(Legacy)
    BY <1>1 DEF MissingRecords
  <1> HIDE DEF places
  <1>4. places \subseteq 1 .. Len(Legacy) /\ places \subseteq Nat
    <2>1. \A r \in places : r = m \/ r \in MissingRecords
      BY <1>2
    <2>2. \A r \in places : r \in 1 .. Len(Legacy)
      BY <1>1, <1>3, <2>1
    <2>3. QED
      BY <2>2
  <1>5. IsFiniteSet(places)
    <2>1. IsFiniteSet(1 .. Len(Legacy))
      BY <1>1, FS_Interval
    <2>2. QED
      BY <1>4, <2>1, FS_Subset
  <1>6. \A q \in places : q = m \/ ~OnFile(Legacy[q])
    BY <1>2 DEF MissingRecords
  <1>7. ASSUME NEW p \in places, NEW q \in places, p < q, Legacy[p] = Legacy[q]
        PROVE  FALSE
    <2>1. m \in Nat /\ p \in Nat /\ q \in Nat /\ m <= p
      BY <1>1, <1>2, <1>4
    <2>2. q > m /\ \A k \in m .. q - 1 : Legacy[k] # Legacy[q]
      BY <1>2, <1>7, <2>1
    <2>3. QED
      BY <1>7, <2>1, <2>2
  <1>8. \A p, q \in places : Legacy[p] = Legacy[q] => p = q
    BY <1>4, <1>7
  <1>9. ASSUME NEW r \in MissingRecords
        PROVE  \E q \in places : Legacy[q] = Legacy[r]
    <2> DEFINE same == {q \in m .. r : Legacy[q] = Legacy[r]}
               least == Min(same)
    <2>1. r \in Nat /\ m \in Nat /\ m <= r /\ r \in 1 .. Len(Legacy) /\ ~OnFile(Legacy[r])
      BY <1>1, <1>3 DEF MissingRecords
    <2>2. same \in SUBSET Nat /\ r \in same
      BY <2>1
    <2> HIDE DEF same
    <2>3. least \in same /\ \A q \in same : least <= q
      BY <2>2, LeastExists
    <2> HIDE DEF least
    <2>4. least \in m .. r /\ Legacy[least] = Legacy[r]
          /\ \A q \in m .. r : Legacy[q] = Legacy[r] => least <= q
      BY <2>3 DEF same
    <2>5. CASE least = m
      BY <1>2, <2>4, <2>5
    <2>6. CASE least # m
      <3>1. least \in 1 .. Len(Legacy) /\ least > m /\ ~OnFile(Legacy[least])
        BY <1>1, <2>1, <2>4, <2>6
      <3>2. \A q \in m .. least - 1 : Legacy[q] # Legacy[least]
        BY <2>1, <2>4, <3>1
      <3>3. least \in MissingRecords
        BY <1>1, <3>1 DEF MissingRecords
      <3>4. least \in places
        BY <1>2, <3>1, <3>2, <3>3
      <3>5. QED
        BY <2>4, <3>4
    <2>7. QED
      BY <2>5, <2>6
  <1>10. QED
    BY <1>1, <1>4, <1>5, <1>6, <1>8, <1>9 DEF places, m

LEMMA InsertKeepsOverlayInv ==
  ASSUME OverlayInv, NEW i \in Importers, ImportInsert(i)
  PROVE  OverlayInv'
  <1>0. OverlayInv /\ ImportInv /\ import[i] # NotImporting
    BY DEF OverlayInv, ImportInsert
  <1> DEFINE places == ImportRows(i)
             old == Len(decisions)
  <1>1. /\ IsFiniteSet(places) /\ places \subseteq DOMAIN Legacy /\ places \subseteq Nat
        /\ \A q \in places : q = import[i] \/ ~OnFile(Legacy[q])
        /\ \A p, q \in places : Legacy[p] = Legacy[q] => p = q
        /\ \A r \in MissingRecords : \E q \in places : Legacy[q] = Legacy[r]
    BY <1>0, ImportRowsShape
  <1>2. PICK order \in Orders(places) :
          decisions' = decisions \o [k \in DOMAIN order |-> FromLegacy(order[k])]
    BY DEF ImportInsert
  <1>3. /\ import' = [import EXCEPT ![i] = NotImporting]
        /\ imported' = TRUE /\ contended' = contended
        /\ UNCHANGED <<turn, silences, handed, quiet, raised, turns>>
    BY DEF ImportInsert
  <1> HIDE DEF places
  <1>4. /\ order \in Seq(places) /\ DOMAIN order = 1 .. Len(order)
        /\ \A j, k \in DOMAIN order : order[j] = order[k] => j = k
        /\ \A r \in places : \E k \in DOMAIN order : order[k] = r
    BY <1>1, OrderShape
  <1> DEFINE more == [k \in DOMAIN order |-> FromLegacy(order[k])]
  <1>5. \A r \in DOMAIN Legacy :
          /\ FromLegacy(r) \in Decision
          /\ FromLegacy(r).author = "hw1"
          /\ FromLegacy(r).uid = Legacy[r].uid /\ FromLegacy(r).text = Legacy[r].text
    <2>1. \A r \in DOMAIN Legacy : Legacy[r].uid \in Uids /\ Legacy[r].text \in Wordings
      BY LegacyShape
    <2>2. QED
      BY <2>1 DEF FromLegacy, Decision, Statuses
  <1>6. /\ more \in Seq(Decision) /\ Len(more) = Len(order)
        /\ \A k \in 1 .. Len(order) : more[k] = FromLegacy(order[k])
    <2>1. \A k \in 1 .. Len(order) : FromLegacy(order[k]) \in Decision
      BY <1>1, <1>4, <1>5
    <2>2. Len(order) \in Nat
      BY <1>4
    <2>3. QED
      BY <1>4, <2>1, <2>2
  <1> HIDE DEF more
  <1>7. /\ decisions \in Seq(Decision) /\ decisions' \in Seq(Decision)
        /\ old \in Nat /\ DOMAIN decisions = 1 .. old
        /\ Len(order) \in Nat
        /\ Len(decisions') = old + Len(order) /\ DOMAIN decisions' = 1 .. old + Len(order)
        /\ \A d \in 1 .. old : decisions'[d] = decisions[d]
        /\ \A k \in 1 .. Len(order) : decisions'[old + k] = FromLegacy(order[k])
    BY <1>0, <1>2, <1>4, <1>6 DEF OverlayInv, more
  <1>8. Grows
    BY <1>7 DEF Grows
  <1>9. ReadingInv'
    BY <1>0, <1>3, <1>8, GrowthKeepsReadingInv
  <1>10. /\ import' \in [Importers -> 0 .. Len(Legacy)]
         /\ import'[i] = NotImporting
         /\ \A j \in Importers : j # i => import'[j] = import[j]
    BY <1>0, <1>3, OverlayAssumption DEF ImportInv, NotImporting
  <1>11. MissingRecords' = {}
    <2> SUFFICES ASSUME NEW r \in MissingRecords' PROVE FALSE
      OBVIOUS
    <2>1. r \in MissingRecords
      BY <1>8, GrowthFindsMore
    <2>2. PICK q \in places : Legacy[q] = Legacy[r]
      BY <1>1, <2>1
    <2>3. PICK k \in DOMAIN order : order[k] = q
      BY <1>4
    <2>4. /\ old + k \in DOMAIN decisions'
          /\ decisions'[old + k].uid = Legacy[r].uid /\ decisions'[old + k].text = Legacy[r].text
      BY <1>1, <1>4, <1>5, <1>7, <2>2, <2>3
    <2>5. OnFile(Legacy[r])'
      BY <2>4 DEF OnFile
    <2>6. QED
      BY <2>5 DEF MissingRecords
  <1>12. ASSUME contended' = FALSE
         PROVE  /\ \A j \in Importers : import'[j] = NotImporting
                /\ \A d, e \in DOMAIN decisions' :
                     decisions'[d].author = "hw1" /\
                     ImportedRow(e, decisions[d].uid, decisions[d].text)' => d = e
    <2>1. contended = FALSE
      BY <1>3, <1>12
    <2>2. \A j \in Importers : import'[j] = NotImporting
      BY <1>0, <1>10, <2>1 DEF ImportInv
    <2>3. \A d \in 1 .. old, q \in places : ~ImportedRow(d, Legacy[q].uid, Legacy[q].text)
      <3>1. ASSUME NEW d \in 1 .. old, NEW q \in places
            PROVE  ~ImportedRow(d, Legacy[q].uid, Legacy[q].text)
        <4>1. CASE q = import[i]
          BY <1>0, <1>7, <2>1, <4>1 DEF ImportInv
        <4>2. CASE ~OnFile(Legacy[q])
          BY <1>7, <4>2 DEF OnFile, ImportedRow
        <4>3. QED
          BY <1>1, <4>1, <4>2
      <3>2. QED
        BY <3>1
    <2> DEFINE Twin(d, e) ==
                 /\ decisions'[d].author = "hw1" /\ decisions'[e].author = "hw1"
                 /\ decisions'[e].uid = decisions'[d].uid
                 /\ decisions'[e].text = decisions'[d].text
    <2>4. ASSUME NEW d \in 1 .. old, NEW e \in 1 .. old, Twin(d, e)
          PROVE  d = e
      <3>1. decisions'[d] = decisions[d] /\ decisions'[e] = decisions[e]
        BY <1>7
      <3>2. decisions[d].author = "hw1" /\ ImportedRow(e, decisions[d].uid, decisions[d].text)
        BY <2>4, <3>1 DEF ImportedRow
      <3>3. QED
        BY <1>0, <1>7, <2>1, <3>2 DEF ImportInv
    <2>5. ASSUME NEW d \in 1 .. old, NEW k \in 1 .. Len(order),
                 Twin(d, old + k) \/ Twin(old + k, d)
          PROVE  FALSE
      <3>1. order[k] \in places /\ order[k] \in DOMAIN Legacy
        BY <1>1, <1>4
      <3>2. /\ decisions'[old + k].uid = Legacy[order[k]].uid
            /\ decisions'[old + k].text = Legacy[order[k]].text
            /\ decisions'[d] = decisions[d]
        BY <1>5, <1>7, <3>1
      <3>3. ImportedRow(d, Legacy[order[k]].uid, Legacy[order[k]].text)
        BY <2>5, <3>2 DEF ImportedRow
      <3>4. QED
        BY <2>3, <3>1, <3>3
    <2>6. ASSUME NEW j \in 1 .. Len(order), NEW k \in 1 .. Len(order), Twin(old + j, old + k)
          PROVE  j = k
      <3>1. order[j] \in places /\ order[k] \in places
        BY <1>4
      <3>2. Legacy[order[j]].uid = Legacy[order[k]].uid /\
            Legacy[order[j]].text = Legacy[order[k]].text
        <4>1. /\ FromLegacy(order[k]).uid = FromLegacy(order[j]).uid
              /\ FromLegacy(order[k]).text = FromLegacy(order[j]).text
          BY <1>7, <2>6
        <4>2. QED
          BY <1>1, <1>5, <3>1, <4>1
      <3>4. Legacy[order[j]] = Legacy[order[k]]
        BY <1>1, <3>1, <3>2, LegacyShape
      <3>5. QED
        BY <1>1, <1>4, <3>1, <3>4
    <2>7. ASSUME NEW d \in DOMAIN decisions', NEW e \in DOMAIN decisions', Twin(d, e)
          PROVE  d = e
      <3>1. \A c \in DOMAIN decisions' :
              c \in 1 .. old \/ \E k \in 1 .. Len(order) : c = old + k
        <4>1. ASSUME NEW c \in DOMAIN decisions', ~(c \in 1 .. old)
              PROVE  \E k \in 1 .. Len(order) : c = old + k
          <5>1. c - old \in 1 .. Len(order) /\ c = old + (c - old)
            BY <1>7, <4>1
          <5>2. QED
            BY <5>1
        <4>2. QED
          BY <4>1
      <3> HIDE DEF Twin
      <3>2. QED
        BY <2>4, <2>5, <2>6, <2>7, <3>1
    <2>8. QED
      BY <2>2, <2>7 DEF ImportedRow
  <1>13. ImportInv'
    <2>1. /\ \A j \in Importers : import'[j] # NotImporting =>
               \A r \in MissingRecords' : import'[j] <= r
          /\ {imported', contended'} \subseteq BOOLEAN
          /\ imported' = TRUE => MissingRecords' = {}
      BY <1>0, <1>3, <1>11 DEF ImportInv
    <2>2. QED
      BY <1>10, <1>12, <2>1 DEF ImportInv
  <1>14. QED
    BY <1>7, <1>9, <1>13 DEF OverlayInv

(* A turn reads the table and changes nothing in it. *)
LEMMA TurnKeepsImportInv ==
  ASSUME OverlayInv, UNCHANGED unturned
  PROVE  /\ decisions' \in Seq(Decision) /\ decisions' = decisions
         /\ ImportInv'
         /\ \A places : Owners(places)' = Owners(places)
         /\ \A places, user : OthersOnly(places, user)' = OthersOnly(places, user)
  <1>1. decisions' = decisions /\ import' = import /\ imported' = imported
        /\ contended' = contended
    BY DEF unturned
  <1>2. MissingRecords' = MissingRecords
    BY <1>1 DEF MissingRecords, OnFile
  <1>3. QED
    BY <1>1, <1>2 DEF OverlayInv, ImportInv, ImportedRow, Owners, OthersOnly

LEMMA FirstOwnerOwns ==
  ASSUME NEW owners, owners \subseteq Users, owners # {}
  PROVE  FirstOwner(owners) \in owners
  <1> DEFINE places == {i \in DOMAIN SortedUsers : SortedUsers[i] \in owners}
             first == Min(places)
  <1>1. SortedUsers \in Seq(Users) /\ DOMAIN SortedUsers = 1 .. Len(SortedUsers)
        /\ Len(SortedUsers) \in Nat
    BY OverlayAssumption
  <1>2. places \in SUBSET Nat
    BY <1>1
  <1>3. places # {}
    <2>1. Users = {SortedUsers[i] : i \in DOMAIN SortedUsers}
      BY DEF Users, ToSet
    <2>2. QED
      BY <2>1
  <1>4. first \in places
    <2> HIDE DEF places
    <2>1. QED
      BY <1>2, <1>3, LeastExists
  <1> HIDE DEF first
  <1>5. SortedUsers[first] \in owners
    BY <1>4
  <1>6. QED
    BY <1>5 DEF FirstOwner, first

LEMMA ResolveKeepsReadingInv ==
  ASSUME OverlayInv, NEW user \in {Anonymous} \cup Users, NEW names \in SUBSET Components,
         Resolve(user, names)
  PROVE  ReadingInv'
  <1>0. ReadingInv /\ turn \in Turn
    BY DEF OverlayInv, ReadingInv
  <1>1. UNCHANGED unturned /\ turn.step = "idle" /\ turns' = turns + 1
        /\ silences' = silences /\ handed' = handed /\ quiet' = quiet /\ raised' = raised
        /\ turn' = [step |-> "asked", user |-> user, names |-> names,
                    uids |-> MentionedUids(names), withheld |-> {}]
    BY DEF Resolve
  <1>2. MentionedUids(names) \subseteq Uids
    BY DEF MentionedUids, Uids
  <1>3. turn' \in Turn /\ turn'.step = "asked" /\ turn'.user = user
    BY <1>1, <1>2 DEF Turn
  <1>4. handed = {}
    BY <1>0, <1>1 DEF ReadingInv
  <1>5. \A places, u : OthersOnly(places, u)' = OthersOnly(places, u)
    BY <1>1, TurnKeepsImportInv
  <1>6. \A places : Owners(places)' = Owners(places)
    BY <1>1, TurnKeepsImportInv
  <1>7. \A i \in DOMAIN silences' :
          /\ OthersOnly(silences[i].withheld, silences[i].asker)'
          /\ silences'[i].visibility \in Owners(silences[i].withheld)'
    BY <1>0, <1>1 DEF ReadingInv, OthersOnly, Owners, unturned
  <1>8. QED
    BY <1>0, <1>1, <1>3, <1>4, <1>7 DEF ReadingInv

LEMMA CheckSilenceKeepsReadingInv ==
  ASSUME OverlayInv, CheckSilence
  PROVE  ReadingInv'
  <1>0. ReadingInv /\ turn \in Turn /\ decisions \in Seq(Decision)
    BY DEF OverlayInv, ReadingInv
  <1> DEFINE candidates == DecisionsAcrossScopes(turn.uids)
  <1>1. UNCHANGED unturned /\ turn.step = "asked" /\ turns' = turns
        /\ silences' = silences /\ handed' = handed /\ raised' = raised
    BY DEF CheckSilence
  <1>2. candidates \subseteq DOMAIN decisions /\ candidates \subseteq Nat
    BY <1>0 DEF DecisionsAcrossScopes
  <1>3. handed = {} /\ decisions' = decisions
    BY <1>0, <1>1 DEF ReadingInv, unturned
  <1>4. \A i \in DOMAIN silences' :
          /\ OthersOnly(silences[i].withheld, silences[i].asker)'
          /\ silences'[i].visibility \in Owners(silences[i].withheld)'
    BY <1>0, <1>1 DEF ReadingInv, OthersOnly, Owners, unturned
  <1>5. CASE Silent(turn.user, candidates)
    <2>1. turn' = [turn EXCEPT !.step = "silent", !.withheld = candidates] /\ quiet' = quiet + 1
      BY <1>5 DEF CheckSilence
    <2>2. OthersOnly(candidates, turn.user) /\ candidates # {} /\ "team" \notin Owners(candidates)
      BY <1>2, <1>5 DEF Silent, OthersOnly
    <2> HIDE DEF candidates
    <2>3. turn' \in Turn /\ turn'.step = "silent" /\ turn'.user = turn.user
          /\ turn'.withheld = candidates
      BY <1>0, <1>2, <2>1 DEF Turn
    <2>4. OthersOnly(turn.withheld, turn.user)' /\ "team" \notin Owners(turn.withheld)'
      BY <1>3, <2>2, <2>3 DEF OthersOnly, Owners
    <2>5. QED
      BY <1>0, <1>1, <1>3, <1>4, <2>1, <2>2, <2>3, <2>4 DEF ReadingInv
  <1>6. CASE ~Silent(turn.user, candidates)
    <2>1. turn' = [turn EXCEPT !.step = "speaking"] /\ quiet' = quiet
      BY <1>6 DEF CheckSilence
    <2> HIDE DEF candidates
    <2>2. turn' \in Turn /\ turn'.step = "speaking"
      BY <1>0, <2>1 DEF Turn
    <2>3. QED
      BY <1>0, <1>1, <1>3, <1>4, <2>1, <2>2 DEF ReadingInv
  <1>7. QED
    BY <1>5, <1>6

LEMMA RecordSilenceKeepsReadingInv ==
  ASSUME OverlayInv, RecordSilence
  PROVE  ReadingInv'
  <1>0. ReadingInv /\ turn \in Turn /\ decisions \in Seq(Decision)
    BY DEF OverlayInv, ReadingInv
  <1> DEFINE owner == OwnerScope(turn.user, turn.withheld)
             row == [visibility |-> owner, asker |-> turn.user, withheld |-> turn.withheld]
  <1>1. UNCHANGED unturned /\ turn.step = "silent" /\ turns' = turns /\ turn' = NoTurn
        /\ silences' = Append(silences, row)
        /\ handed' = handed /\ raised' = raised /\ quiet' = quiet
    BY DEF RecordSilence
  <1>2. OthersOnly(turn.withheld, turn.user) /\ turn.withheld # {}
        /\ "team" \notin Owners(turn.withheld) /\ handed = {}
    BY <1>0, <1>1 DEF ReadingInv
  <1>3. Owners(turn.withheld) \subseteq Users /\ Owners(turn.withheld) # {}
    <2>0. \A d \in DOMAIN decisions : decisions[d] \in Decision
      BY <1>0
    <2>1. \A d \in DOMAIN decisions : decisions[d].visibility \in {"team"} \cup Users
      BY <2>0 DEF Decision
    <2>2. QED
      BY <1>2, <2>1 DEF Owners, OthersOnly
  <1>4. owner \in Owners(turn.withheld)
    BY <1>3, FirstOwnerOwns DEF OwnerScope
  <1> HIDE DEF owner
  <1>5. row \in Silence
    BY <1>0, <1>3, <1>4 DEF Silence, Turn
  <1>6. /\ row.withheld = turn.withheld /\ row.asker = turn.user /\ row.visibility = owner
    OBVIOUS
  <1> HIDE DEF row
  <1>7. /\ silences' \in Seq(Silence) /\ Len(silences') = Len(silences) + 1
        /\ Len(silences) \in Nat /\ DOMAIN silences = 1 .. Len(silences)
        /\ DOMAIN silences' = 1 .. Len(silences) + 1
        /\ silences'[Len(silences) + 1] = row
        /\ \A i \in 1 .. Len(silences) : silences'[i] = silences[i]
    BY <1>0, <1>1, <1>5 DEF ReadingInv
  <1>8. \A i \in DOMAIN silences' :
          /\ OthersOnly(silences'[i].withheld, silences'[i].asker)
          /\ silences'[i].visibility \in Owners(silences'[i].withheld)
    <2>1. \A i \in 1 .. Len(silences) :
            /\ OthersOnly(silences'[i].withheld, silences'[i].asker)
            /\ silences'[i].visibility \in Owners(silences'[i].withheld)
      BY <1>0, <1>7 DEF ReadingInv
    <2>2. /\ OthersOnly(row.withheld, row.asker)
          /\ row.visibility \in Owners(row.withheld)
      BY <1>2, <1>4, <1>6
    <2>3. QED
      BY <1>7, <2>1, <2>2
  <1>9. \A i \in DOMAIN silences' :
          /\ OthersOnly(silences[i].withheld, silences[i].asker)'
          /\ silences'[i].visibility \in Owners(silences[i].withheld)'
    <2>1. decisions' = decisions
      BY <1>1 DEF unturned
    <2>2. QED
      BY <1>8, <2>1 DEF OthersOnly, Owners
  <1>10. turn' \in Turn /\ turn'.step = "idle"
    BY <1>1 DEF NoTurn, Turn
  <1>11. quiet = Len(silences) + raised + 1 /\ {quiet, raised, turns} \subseteq Nat
         /\ quiet <= turns
    BY <1>0, <1>1 DEF ReadingInv
  <1>12. QED
    BY <1>1, <1>2, <1>7, <1>9, <1>10, <1>11 DEF ReadingInv

(* The rest of a turn: the write fails, the reads, and the answer.         *)
LEMMA AnsweringKeepsReadingInv ==
  ASSUME OverlayInv,
         \/ RecordRaises \/ Assemble \/ Answer
         \/ \E u \in Uids, scope \in {"component", "component_and_repo_wide"} :
              RetrieveDecisions(u, scope)
  PROVE  ReadingInv'
  <1>0. ReadingInv /\ turn \in Turn /\ decisions \in Seq(Decision)
    BY DEF OverlayInv, ReadingInv
  <1>1. UNCHANGED unturned /\ silences' = silences /\ turns' = turns /\ quiet' = quiet
    BY DEF RecordRaises, Assemble, Answer, RetrieveDecisions
  <1>2. \A i \in DOMAIN silences' :
          /\ OthersOnly(silences[i].withheld, silences[i].asker)'
          /\ silences'[i].visibility \in Owners(silences[i].withheld)'
    BY <1>0, <1>1 DEF ReadingInv, OthersOnly, Owners, unturned
  <1>3. \A user, uids, wide : QueryDecisions(user, uids, wide) \subseteq DOMAIN decisions
        /\ \A d \in QueryDecisions(user, uids, wide) :
             decisions[d].visibility \in VisibleTo(user)
    BY DEF QueryDecisions
  <1>4. decisions' = decisions
    BY <1>1 DEF unturned
  <1>5. NoTurn \in Turn /\ NoTurn.step = "idle"
    BY DEF NoTurn, Turn
  <1>6. CASE RecordRaises
    <2>1. /\ turn.step = "silent" /\ raised' = raised + 1 /\ turn' = NoTurn /\ handed' = handed
      BY <1>6 DEF RecordRaises
    <2>2. /\ handed = {} /\ {quiet, raised, turns} \subseteq Nat /\ quiet <= turns
          /\ silences \in Seq(Silence) /\ quiet = Len(silences) + raised + 1
      BY <1>0, <2>1 DEF ReadingInv
    <2>3. {quiet', raised', turns'} \subseteq Nat /\ quiet' = Len(silences') + raised' + 0
      BY <1>1, <2>1, <2>2
    <2>4. QED
      BY <1>1, <1>2, <1>5, <2>1, <2>2, <2>3 DEF ReadingInv
  <1>7. CASE Assemble
    <2> DEFINE impact == MentionedUids(turn.names)
    <2>1. /\ turn.step = "speaking" /\ raised' = raised
          /\ turn' = [turn EXCEPT !.step = "answering", !.uids = impact]
          /\ handed' = IF impact = {} THEN {} ELSE QueryDecisions(turn.user, impact, TRUE)
      BY <1>7 DEF Assemble
    <2>2. impact \subseteq Uids
      BY <1>0 DEF MentionedUids, Uids, Turn
    <2> HIDE DEF impact
    <2>3. turn' \in Turn /\ turn'.step = "answering" /\ turn'.user = turn.user
      BY <1>0, <2>1, <2>2 DEF Turn
    <2>4. /\ handed' \subseteq DOMAIN decisions'
          /\ \A d \in handed' : decisions'[d].visibility \in VisibleTo(turn'.user)
      BY <1>3, <1>4, <2>1, <2>3
    <2>5. QED
      BY <1>0, <1>1, <1>2, <2>1, <2>3, <2>4 DEF ReadingInv, VisibleTo
  <1>8. CASE Answer
    <2>1. turn.step = "answering" /\ raised' = raised /\ turn' = NoTurn /\ handed' = {}
      BY <1>8 DEF Answer
    <2>2. QED
      BY <1>0, <1>1, <1>2, <1>5, <2>1 DEF ReadingInv
  <1>9. ASSUME NEW u, NEW scope, RetrieveDecisions(u, scope)
        PROVE  ReadingInv'
    <2>1. /\ turn.step = "answering" /\ raised' = raised /\ turn' = turn
          /\ handed' = handed \cup QueryDecisions(turn.user, {u} \ {RepoWide},
                                                  scope = "component_and_repo_wide")
      BY <1>9 DEF RetrieveDecisions
    <2>2. /\ handed \subseteq DOMAIN decisions
          /\ \A d \in handed : decisions[d].visibility \in VisibleTo(turn.user)
      BY <1>0 DEF ReadingInv
    <2>3. /\ handed' \subseteq DOMAIN decisions'
          /\ \A d \in handed' : decisions'[d].visibility \in VisibleTo(turn'.user)
      BY <1>3, <1>4, <2>1, <2>2
    <2>4. QED
      BY <1>0, <1>1, <1>2, <2>1, <2>3 DEF ReadingInv, VisibleTo
  <1>10. QED
    BY <1>6, <1>7, <1>8, <1>9

LEMMA OverlayStepKeepsInv == OverlayInv /\ [OverlayNext]_overlayVars => OverlayInv'
  <1> SUFFICES ASSUME OverlayInv, [OverlayNext]_overlayVars PROVE OverlayInv'
    OBVIOUS
  <1>1. ASSUME NEW a \in Users, NEW u \in Components, NEW t \in Wordings, NEW p \in BOOLEAN,
               NEW s \in Recorded, AppendDecisionRecord(a, u, t, p, s) \/ RecordInTurn(u, t, p, s)
        PROVE  OverlayInv'
    <2>1. turn.user \in {Anonymous} \cup Users
      BY DEF OverlayInv, ReadingInv, Turn
    <2>2. QED
      BY <1>1, <2>1, RecordKeepsOverlayInv DEF RecordInTurn
  <1>2. ASSUME NEW i \in Importers, ImportCheck(i) \/ ImportInsert(i)
        PROVE  OverlayInv'
    BY <1>2, CheckKeepsOverlayInv, InsertKeepsOverlayInv
  <1>3. ASSUME \/ \E u \in {Anonymous} \cup Users, names \in SUBSET Components : Resolve(u, names)
               \/ CheckSilence \/ RecordSilence \/ RecordRaises \/ Assemble \/ Answer
               \/ \E u \in Uids, scope \in {"component", "component_and_repo_wide"} :
                    RetrieveDecisions(u, scope)
        PROVE  OverlayInv'
    <2>1. UNCHANGED unturned
      BY <1>3 DEF Resolve, CheckSilence, RecordSilence, RecordRaises, Assemble, Answer,
                  RetrieveDecisions
    <2>2. ReadingInv'
      BY <1>3, ResolveKeepsReadingInv, CheckSilenceKeepsReadingInv,
         RecordSilenceKeepsReadingInv, AnsweringKeepsReadingInv
    <2>3. QED
      BY <2>1, <2>2, TurnKeepsImportInv DEF OverlayInv
  <1>4. CASE UNCHANGED overlayVars
    <2>1. Grows /\ UNCHANGED <<turn, silences, handed, quiet, raised, turns>>
          /\ UNCHANGED unturned
      BY <1>4 DEF overlayVars, unturned, Grows, OverlayInv
    <2>2. QED
      BY <2>1, GrowthKeepsReadingInv, TurnKeepsImportInv DEF OverlayInv
  <1>5. QED
    BY <1>1, <1>2, <1>3, <1>4 DEF OverlayNext

LEMMA OverlayInvShows == OverlayInv => OverlayTypeOK /\ PrivateStaysPrivate /\ ImportedOnce
  <1> SUFFICES ASSUME OverlayInv PROVE OverlayTypeOK /\ PrivateStaysPrivate /\ ImportedOnce
    OBVIOUS
  <1>0. ReadingInv /\ ImportInv /\ decisions \in Seq(Decision)
    BY DEF OverlayInv
  <1>1. OverlayTypeOK
    <2>1. \A s \in ToSet(silences) : s \in Silence
      BY <1>0 DEF ReadingInv, ToSet
    <2>2. \A s \in ToSet(silences) : s.visibility \in Users /\ s.asker \in {Anonymous} \cup Users
      BY <2>1 DEF Silence
    <2>3. turn.step \in {"idle", "asked", "silent", "speaking", "answering"}
          /\ turn.user \in {Anonymous} \cup Users
      BY <1>0 DEF ReadingInv, Turn
    <2>4. quiet + raised <= 2 * turns
      <3>1. /\ {quiet, raised, turns} \subseteq Nat /\ quiet <= turns /\ Len(silences) \in Nat
            /\ quiet = Len(silences) + raised + (IF turn.step = "silent" THEN 1 ELSE 0)
        BY <1>0 DEF ReadingInv
      <3>2. raised <= quiet
        BY <3>1
      <3>3. QED
        BY <3>1, <3>2
    <2>5. QED
      BY <1>0, <2>2, <2>3, <2>4 DEF OverlayTypeOK, ReadingInv, ImportInv
  <1>2. PrivateStaysPrivate
    <2>1. ASSUME NEW i \in DOMAIN silences
          PROVE  /\ i \notin QuerySilences(silences[i].asker)
                 /\ silences[i].visibility \in Owners(silences[i].withheld)
                 /\ Owners(silences[i].withheld) \cap VisibleTo(silences[i].asker) = {}
      BY <1>0, <2>1 DEF ReadingInv, OthersOnly, QuerySilences
    <2>2. \A d \in handed : decisions[d].visibility \in VisibleTo(turn.user)
      BY <1>0 DEF ReadingInv
    <2>3. quiet = Len(silences) + raised + (IF turn.step = "silent" THEN 1 ELSE 0)
      BY <1>0 DEF ReadingInv
    <2>4. QED
      BY <2>1, <2>2, <2>3 DEF PrivateStaysPrivate
  <1>3. ASSUME imported, NEW r \in DOMAIN Legacy
        PROVE  OnFile(Legacy[r])
    BY <1>0, <1>3 DEF ImportInv, MissingRecords
  <1>4. ASSUME ~contended, NEW r \in DOMAIN Legacy
        PROVE  Cardinality({d \in DOMAIN decisions :
                  /\ decisions[d].author = "hw1"
                  /\ decisions[d].uid = Legacy[r].uid
                  /\ decisions[d].text = Legacy[r].text}) <= 1
    <2> DEFINE twins == {d \in DOMAIN decisions :
                  /\ decisions[d].author = "hw1"
                  /\ decisions[d].uid = Legacy[r].uid
                  /\ decisions[d].text = Legacy[r].text}
    <2>1. \A d, e \in twins : d = e
      BY <1>0, <1>4 DEF ImportInv, ImportedRow
    <2> HIDE DEF twins
    <2>2. ASSUME twins # {} PROVE Cardinality(twins) <= 1
      <3>1. PICK d \in twins : twins = {d}
        BY <2>1, <2>2
      <3>2. Cardinality(twins) = 1
        BY <3>1, FS_Singleton
      <3>3. QED
        BY <3>2
    <2>3. Cardinality(twins) <= 1
      BY <2>2, FS_EmptySet
    <2>4. QED
      BY <2>3 DEF twins
  <1>5. ImportedOnce
    BY <1>3, <1>4 DEF ImportedOnce
  <1>6. QED
    BY <1>1, <1>2, <1>5

-----------------------------------------------------------------------------
(* A behaviour follows one part and leaves the others where they began.    *)
StoresInv == WatchInv /\ MemoryInv /\ OverlayInv

LEMMA StoresStart == Init => StoresInv
  BY WatchStart, MemoryStart, OverlayStart DEF Init, StoresInv

LEMMA PartsStep ==
  [Next]_vars => [WatchNext]_watchVars /\ [MemoryNext]_memoryVars /\ [OverlayNext]_overlayVars
  BY DEF Next, vars

LEMMA StoresStep == StoresInv /\ [Next]_vars => StoresInv'
  BY PartsStep, WatchStepKeepsInv, MemoryStepKeepsInv, OverlayStepKeepsInv DEF StoresInv

(* The inductive invariant of the stores. *)
THEOREM StoresInvariant == Spec => []StoresInv
  BY StoresStart, StoresStep, PTL DEF Spec

(* The stores' variables keep their types, whatever the number of files,   *)
(* processes and people.                                                   *)
THEOREM StoresTypes == Spec => [](WatchTypeOK /\ MemoryTypeOK /\ OverlayTypeOK)
  <1>1. StoresInv => WatchTypeOK /\ MemoryTypeOK /\ OverlayTypeOK
    BY OverlayInvShows DEF StoresInv, WatchInv, MemoryInv
  <1>2. QED
    BY <1>1, StoresInvariant, PTL

(* Orphans are reported once: what the watermark holds was told, is being  *)
(* told or died with its message (handle_github_event).                    *)
THEOREM OrphansAreToldOnce == Spec => []OrphansToldOnce
  <1>1. StoresInv => OrphansToldOnce
    BY WatchInvShows DEF StoresInv
  <1>2. QED
    BY <1>1, StoresInvariant, PTL

(* At rest after the last push the watermark is what the tree says, down to *)
(* SCAN_MAX_DEPTH and whichever pushes the queue replaced (parse_event,     *)
(* handle_github_event).                                                   *)
THEOREM LastPushIsChecked == Spec => []QuietMeansChecked
  <1>1. StoresInv => QuietMeansChecked
    BY WatchInvShows DEF StoresInv
  <1>2. QED
    BY <1>1, StoresInvariant, PTL

(* No scan loses a decision that was inside the graph file, wherever it    *)
(* stops (migrate_legacy_decisions).                                       *)
THEOREM NoDecisionIsLost == Spec => []LegacySurvives
  <1>1. StoresInv => LegacySurvives
    BY WatchInvShows DEF StoresInv
  <1>2. QED
    BY <1>1, StoresInvariant, PTL

(* With one writer at a time the memory file parses and keeps what was     *)
(* saved, wherever a writer died (_save).                                  *)
THEOREM LoneWriterLosesNothing == Spec => []NothingLostAlone
  <1>1. StoresInv => NothingLostAlone
    BY MemoryInvShows DEF StoresInv
  <1>2. QED
    BY <1>1, StoresInvariant, PTL

(* No interleaving of writers makes a memory accepted that nobody vouched  *)
(* for and that was saved only once (save_memory).                         *)
THEOREM TrustIsEarned == Spec => []AcceptedIsEarned
  <1>1. StoresInv => AcceptedIsEarned
    BY MemoryInvShows DEF StoresInv
  <1>2. QED
    BY <1>1, StoresInvariant, PTL

(* Private decisions reach their owner's turns alone, and what went        *)
(* unanswered is on record for an owner (visible_to, evaluate_silence).    *)
THEOREM PrivacyHolds == Spec => []PrivateStaysPrivate
  <1>1. StoresInv => PrivateStaysPrivate
    BY OverlayInvShows DEF StoresInv
  <1>2. QED
    BY <1>1, StoresInvariant, PTL

(* An import is complete, and repeats nothing unless two were at work at   *)
(* once (import_legacy_decisions).                                         *)
THEOREM ImportIsIdempotent == Spec => []ImportedOnce
  <1>1. StoresInv => ImportedOnce
    BY OverlayInvShows DEF StoresInv
  <1>2. QED
    BY <1>1, StoresInvariant, PTL
=============================================================================
