------------------------------ MODULE Knowledge ------------------------------
(***************************************************************************)
(* What the agents know and those who read it: the graph and the push that *)
(* rescans it, the memory file, the decisions and silences, the corpus and *)
(* its index, the planner, the demo's panel, and the harness that scores   *)
(* answers, runs and rankings.  The parts share no variable, so a behaviour*)
(* follows one of them, chosen at the start, and leaves the others where   *)
(* they began.                                                             *)
(***************************************************************************)
EXTENDS OrphanWatch, MemoryStore, Overlay, Corpus, Planner, EventLog,
        Judging, Trajectory, Ranking

VARIABLE part  \* what this behaviour is about

vars ==
  <<part, watchVars, memoryVars, overlayVars, corpusVars, plannerVars,
    panelVars, judgingVars, trajectoryVars, rankingVars>>

(* Each part from all its initial states, beside one of the others'. *)
Init ==
  /\ part \in {"watch", "memory", "overlay", "corpus", "planner", "panel",
              "judging", "trajectory", "ranking"}
  /\ WatchInit
  /\ MemoryInit
  /\ OverlayInit
  /\ CorpusInit
  /\ PlannerInit
  /\ PanelInit
  /\ JudgingInit
  /\ TrajectoryInit
  /\ RankingInit
  /\ part # "watch" => graph = Missing
  /\ part # "planner" => chart = CHOOSE g \in Drafts : TRUE
  /\ part # "trajectory" => scenario = CHOOSE s \in Scenarios : TRUE

Next ==
  /\ UNCHANGED part
  /\ \/ /\ part = "watch"
        /\ UNCHANGED <<memoryVars, overlayVars, corpusVars, plannerVars, panelVars,
                       judgingVars, trajectoryVars, rankingVars>>
        /\ WatchNext
     \/ /\ part = "memory"
        /\ UNCHANGED <<watchVars, overlayVars, corpusVars, plannerVars, panelVars, judgingVars,
                       trajectoryVars, rankingVars>>
        /\ MemoryNext
     \/ /\ part = "overlay"
        /\ UNCHANGED <<watchVars, memoryVars, corpusVars, plannerVars, panelVars, judgingVars,
                       trajectoryVars, rankingVars>>
        /\ OverlayNext
     \/ /\ part = "corpus"
        /\ UNCHANGED <<watchVars, memoryVars, overlayVars, plannerVars, panelVars, judgingVars,
                       trajectoryVars, rankingVars>>
        /\ CorpusNext
     \/ /\ part = "planner"
        /\ UNCHANGED <<watchVars, memoryVars, overlayVars, corpusVars, panelVars, judgingVars,
                       trajectoryVars, rankingVars>>
        /\ PlannerNext
     \/ /\ part = "panel"
        /\ UNCHANGED <<watchVars, memoryVars, overlayVars, corpusVars, plannerVars,
                       judgingVars, trajectoryVars, rankingVars>>
        /\ PanelNext
     \/ /\ part = "judging"
        /\ UNCHANGED <<watchVars, memoryVars, overlayVars, corpusVars, plannerVars, panelVars,
                       trajectoryVars, rankingVars>>
        /\ JudgingNext
     \/ /\ part = "trajectory"
        /\ UNCHANGED <<watchVars, memoryVars, overlayVars, corpusVars, plannerVars, panelVars,
                       judgingVars, rankingVars>>
        /\ TrajectoryNext
     \/ /\ part = "ranking"
        /\ UNCHANGED <<watchVars, memoryVars, overlayVars, corpusVars, plannerVars, panelVars,
                       judgingVars, trajectoryVars>>
        /\ RankingNext

Spec == Init /\ [][Next]_vars

(* The type invariant of each part. *)
TypeOK ==
  /\ WatchTypeOK
  /\ MemoryTypeOK
  /\ OverlayTypeOK
  /\ CorpusTypeOK
  /\ PlannerTypeOK
  /\ PanelTypeOK
  /\ JudgingTypeOK
  /\ TrajectoryTypeOK
  /\ RankingTypeOK
=============================================================================
