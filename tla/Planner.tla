------------------------------- MODULE Planner -------------------------------
(***************************************************************************)
(* agents/planner.py: a seed component, the importers of it within a       *)
(* number of hops, and the decisions about each.  Every hop reads the      *)
(* graph file again and every lookup the decisions, while other processes  *)
(* rescan, prune and record.                                               *)
(***************************************************************************)
EXTENDS Naturals, FiniteSets

CONSTANTS
  Nodes,           \* component ids a graph file may name
  Unknown,         \* a component no graph file names
  Drafts,          \* graph files a run may start from or find later
  Unreadable,      \* a graph file that does not parse
  Rulings,         \* decisions that may be on file
  Askers,          \* users of a session, and "" for none
  HopCaps,         \* values of max_hops
  MaxPlans,        \* bound: runs of the planner
  MaxRescans       \* bound: changes of the graph file during a run

RepoWideRuling == "everywhere"
Nothing == ""

ASSUME PlannerAssumption ==
  /\ Unknown \notin Nodes
  /\ \A g \in Drafts : g.nodes \subseteq Nodes /\ g.edges \subseteq Nodes \X Nodes
  /\ Unreadable \notin Drafts
  /\ \A r \in Rulings : r.about \in Nodes \cup {RepoWideRuling, Unknown}
  /\ HopCaps \subseteq Nat
  /\ {MaxPlans, MaxRescans} \subseteq Nat

VARIABLES
  chart,           \* the graph file
  ledger,          \* the decisions on file
  plan,            \* the run of the planner
  charts,          \* graph files there were since it began (history)
  onFile,          \* decisions there were when it began (history)
  plans            \* runs so far (history)

plannerVars == <<chart, ledger, plan, charts, onFile, plans>>

NoPlan ==
  [at |-> "idle", asker |-> Nothing, seed |-> Unknown, cap |-> 0, hop |-> 0, impacted |-> {},
   frontier |-> {}, next |-> {}, unread |-> {}, constraints |-> {}, asks |-> FALSE,
   found |-> FALSE, outcome |-> "none"]

PlannerTypeOK ==
  /\ chart \in Drafts \cup {Unreadable}
  /\ ledger \subseteq Rulings /\ onFile \subseteq ledger
  /\ plan.at \in {"idle", "seeded", "walking", "joining"}
  /\ plan.outcome \in {"none", "ok", "needs_input", "failed", "raised"}
  /\ plan.frontier \cup plan.next \cup plan.unread \subseteq plan.impacted
  /\ plan.impacted \subseteq Nodes \cup {Unknown}
  /\ plan.constraints \subseteq ledger
  /\ plan.hop <= plan.cap + 1

PlannerInit ==
  /\ chart \in Drafts
  /\ ledger = {}
  /\ plan = NoPlan
  /\ charts = {}
  /\ onFile = {}
  /\ plans = 0

-----------------------------------------------------------------------------
(* What the run reads. *)

Found(component) == chart # Unreadable /\ component \in chart.nodes

(* query_component_graph, relation "imported_by": who an edge says imports  *)
(* it, a node of the file or not.                                           *)
ImportedBy(component) == {n \in Nodes : <<n, component>> \in chart.edges}

VisibleRuling(ruling, asker) == ruling.owner \in {"team"} \cup ({asker} \ {Nothing})

RetrieveRulings(file, asker, component) ==
  {r \in file : r.about \in {component, RepoWideRuling} /\ VisibleRuling(r, asker)}

(* Slip: a pair is looked at in one order. *)
EarlierRejects(records) ==
  \E a, b \in records : a.number < b.number /\ a.takes # Nothing /\ b.rejects = a.takes

(* One adopts what another rejects. *)
DetectConflicts(records) ==
  \E a, b \in records : a # b /\ a.takes # Nothing /\ b.rejects = a.takes

-----------------------------------------------------------------------------
(* run_planner. *)

Fail(outcome) == plan' = [plan EXCEPT !.at = "idle", !.outcome = outcome]

files == <<chart, ledger>>
era == <<charts, onFile, plans>>

(* The hint; or the model's seed, else the best candidate of the search.    *)
ChooseSeed(hint, reply, candidate) ==
  IF hint # Nothing THEN hint
  ELSE IF reply \in {"truncated", "unparseable"} THEN Nothing
  ELSE IF reply # Nothing THEN reply ELSE candidate

RunPlanner(asker, cap, hint, reply, candidate) ==
  /\ plan.at = "idle"
  /\ plans < MaxPlans
  /\ plans' = plans + 1
  /\ charts' = {chart}
  /\ onFile' = ledger
  /\ LET seed == ChooseSeed(hint, reply, candidate)
     IN  plan' = IF seed = Nothing
                   THEN [NoPlan EXCEPT !.outcome = "failed"]
                   ELSE [NoPlan EXCEPT !.at = "seeded", !.asker = asker, !.cap = cap,
                                       !.seed = seed]
  /\ UNCHANGED files

(* A file that does not parse is a fault, a component that is not in it a   *)
(* question for a person.                                                   *)
VerifySeed ==
  /\ plan.at = "seeded"
  /\ IF chart = Unreadable THEN Fail("failed")
     ELSE LET start == [plan EXCEPT !.impacted = {plan.seed}, !.unread = {plan.seed}]
          IN  plan' = IF Found(plan.seed)
                        THEN [start EXCEPT !.at = "walking", !.found = TRUE,
                                           !.frontier = {plan.seed}, !.hop = 1]
                        ELSE [start EXCEPT !.at = "joining", !.asks = TRUE]
  /\ UNCHANGED <<files, era>>

(* Slip: the hops are counted from 0. *)
OneHopMore == plan.hop <= plan.cap + 1

HopsLeft == plan.hop <= plan.cap

(* One component of the frontier; an error on the way is passed over. *)
Expand(component) ==
  /\ plan.at = "walking"
  /\ HopsLeft
  /\ component \in plan.frontier
  /\ LET fresh == (IF Found(component) THEN ImportedBy(component) ELSE {}) \ plan.impacted
     IN  plan' = [plan EXCEPT !.frontier = @ \ {component}, !.next = @ \cup fresh,
                              !.impacted = @ \cup fresh, !.unread = @ \cup fresh]
  /\ UNCHANGED <<files, era>>

(* The frontier is done: closed, at the cap, or one hop more. *)
NextHop ==
  /\ plan.at = "walking"
  /\ plan.frontier = {} \/ ~HopsLeft
  /\ plan' = IF plan.next = {} \/ ~HopsLeft
               THEN [plan EXCEPT !.frontier = {}, !.next = {}, !.at = "joining"]
               ELSE [plan EXCEPT !.frontier = plan.next, !.next = {}, !.hop = @ + 1]
  /\ UNCHANGED <<files, era>>

(* One lookup; what the store raises is not caught. *)
ReadDecisions(component) ==
  /\ plan.at = "joining"
  /\ component \in plan.unread
  /\ \/ LET records == RetrieveRulings(ledger, plan.asker, component)
        IN  plan' = [plan EXCEPT !.unread = @ \ {component},
                                 !.constraints = @ \cup records,
                                 !.asks = @ \/ DetectConflicts(records)]
     \/ Fail("raised")
  /\ UNCHANGED <<files, era>>

AssemblePlan ==
  /\ plan.at = "joining"
  /\ plan.unread = {}
  /\ Fail(IF plan.asks THEN "needs_input" ELSE "ok")
  /\ UNCHANGED <<files, era>>

-----------------------------------------------------------------------------
(* Other processes. *)

Rescan ==
  /\ Cardinality(charts) <= MaxRescans
  /\ \E g \in Drafts \cup {Unreadable} :
       g # chart /\ chart' = g /\ charts' = charts \cup {g}
  /\ UNCHANGED <<ledger, plan, onFile, plans>>

RecordRuling(ruling) ==
  /\ ruling \notin ledger
  /\ ledger' = ledger \cup {ruling}
  /\ UNCHANGED <<chart, plan, era>>

PlannerNext ==
  \/ /\ plan.at = "idle"
     /\ \E asker \in Askers, cap \in HopCaps, hint, candidate \in Nodes \cup {Unknown, Nothing},
           reply \in Nodes \cup {Unknown, Nothing, "truncated", "unparseable"} :
          RunPlanner(asker, cap, hint, reply, candidate)
  \/ VerifySeed \/ NextHop \/ AssemblePlan
  \/ \E c \in Nodes \cup {Unknown} : Expand(c) \/ ReadDecisions(c)
  \/ Rescan
  \/ \E r \in Rulings : RecordRuling(r)

PlannerSpec == PlannerInit /\ [][PlannerNext]_plannerVars

-----------------------------------------------------------------------------
(* A chain of importers of the seed, each known to some graph file. *)
WithinHops(graphs, seed, cap) ==
  {c \in Nodes :
     \E k \in 0 .. cap : \E path \in [0 .. k -> Nodes] :
       /\ path[0] = seed
       /\ path[k] = c
       /\ \A i \in 0 .. k - 1 :
            \E g \in graphs : path[i] \in g.nodes /\ <<path[i + 1], path[i]>> \in g.edges}

(* The impact set, which is also what the executor may write: with one      *)
(* graph file throughout it is everything that reaches the seed within the  *)
(* cap; whatever other processes did to the file meanwhile, it holds the    *)
(* seed and nothing farther away than the cap (_impact_walk).               *)
ImpactIsReach ==
  plan.outcome \in {"ok", "needs_input"} =>
    IF plan.found
      THEN /\ charts = {chart} => plan.impacted = WithinHops(charts, plan.seed, plan.cap)
           /\ plan.seed \in plan.impacted
           /\ plan.impacted \subseteq WithinHops(charts \ {Unreadable}, plan.seed, plan.cap)
      ELSE plan.impacted = {plan.seed} /\ plan.outcome = "needs_input"

(* The executor is told to go ahead only if no two decisions that were on   *)
(* file when the run began and are about something impacted contradict each *)
(* other, and the plan lists each of them the asker may see (run_planner).  *)
ClearToAct ==
  plan.outcome = "ok" =>
    \A c \in plan.impacted :
      LET records == RetrieveRulings(onFile, plan.asker, c)
      IN  /\ records \subseteq plan.constraints
          /\ ~ \E a, b \in records : a # b /\ a.takes = b.rejects /\ a.takes # Nothing

(* What the executor gets: nothing but what the seed reaches, nothing of it *)
(* missing, and no contradiction on file among what governs it.             *)
PlanIsSound == ImpactIsReach /\ ClearToAct
=============================================================================
