------------------------- MODULE ChangePipelineProofs -------------------------
(***************************************************************************)
(* Proofs about ChangePipeline, for every set of runs, paths and uids and  *)
(* every assignment of uids to paths: its types, that a file is written    *)
(* only under a plan and a consent, and that trace, envelope, run log and  *)
(* row tell of each run what it wrote.                                     *)
(***************************************************************************)
EXTENDS ChangePipeline, TLAPS

(* The ambient impact set never exceeds the plan in the scratch.           *)
ScopeIsThePlan ==
  \A r \in Runs :
    /\ impact[r] \subseteq scratch[r].impacted
    /\ phase[r] \in {"idle", "planning"} => impact[r] = {}

(* A call past the gate was approved; a call about to write was checked.   *)
CallIsChecked ==
  \A r \in Runs :
    /\ phase[r] \in {"checking", "writing"} => <<r, call[r].path, calls[r]>> \in consents
    /\ phase[r] = "writing" =>
         /\ call[r].path \notin Denied
         /\ UidOf[call[r].path] \in scratch[r].impacted

(* Before its plan is handed over, a run has written nothing.              *)
WritersHavePlans ==
  \A r \in Runs : phase[r] \in {"idle", "planning"} => writes[r] = <<>>

PipelineInv ==
  /\ TypeOK
  /\ ScopeIsThePlan
  /\ CallIsChecked
  /\ WritersHavePlans
  /\ WritesAreAuthorised

-----------------------------------------------------------------------------
(* Appending one element keeps the others and the type.                    *)
LEMMA AppendElement ==
  ASSUME NEW S, NEW s \in Seq(S), NEW e \in S
  PROVE  /\ Append(s, e) \in Seq(S)
         /\ \A i \in DOMAIN Append(s, e) :
              (i \in DOMAIN s /\ Append(s, e)[i] = s[i]) \/ Append(s, e)[i] = e
  OBVIOUS

LEMMA NoCallType == NoCall \in Call
  <1>1. PICK p \in Paths : TRUE
    BY PipelineAssumption
  <1>2. [path |-> p, intent |-> "edit"] \in Call
    BY DEF Call, Intents
  <1>3. QED
    BY <1>2 DEF NoCall

(* A return from the tool touches the call of its run only.                *)
LEMMA ToolReturnsTypes ==
  ASSUME TypeOK, NEW r \in Runs, ToolReturns(r)
  PROVE  /\ call' \in [Runs -> Call]
         /\ before' \in [Runs -> Contents]
         /\ calls' = calls
         /\ \A q \in Runs \ {r} : call'[q] = call[q]
  <1>1. Absent \in Contents
    BY DEF Contents
  <1>2. QED
    BY <1>1, NoCallType DEF ToolReturns, TypeOK

LEMMA CutShortTypes ==
  ASSUME TypeOK, NEW r \in Runs, CutShort(r)
  PROVE  files' \in [Paths -> Contents]
  <1>1. call[r].path \in Paths /\ Torn \in Contents
    BY DEF TypeOK, Call, Contents
  <1>2. QED
    BY <1>1 DEF CutShort, TypeOK

LEMMA InitInv == Init => PipelineInv
  <1> SUFFICES ASSUME Init PROVE PipelineInv
    OBVIOUS
  <1>1. /\ <<>> \in Seq(Change)
        /\ <<>> \in Seq(Record)
    OBVIOUS
  <1>2. TypeOK
    BY <1>1, NoCallType, PipelineAssumption
    DEF Init, TypeOK, Contents, Plan, NoPlan, Phases, Statuses
  <1>3. ScopeIsThePlan /\ CallIsChecked
    BY DEF Init, ScopeIsThePlan, CallIsChecked
  <1>4. WritersHavePlans /\ WritesAreAuthorised
    BY DEF Init, WritersHavePlans, WritesAreAuthorised
  <1>5. QED
    BY <1>2, <1>3, <1>4 DEF PipelineInv

-----------------------------------------------------------------------------
(* A step that writes nothing and changes no plan.  What is left to show   *)
(* of it is where it takes its run, and what it does to that run's call.   *)
LEMMA QuietStep ==
  ASSUME PipelineInv, NEW r \in Runs, TypeOK',
         UNCHANGED <<scratch, writes>>,
         consents \subseteq consents',
         \A q \in Runs \ {r} : /\ phase'[q] = phase[q] /\ impact'[q] = impact[q]
                               /\ call'[q] = call[q] /\ calls'[q] = calls[q],
         phase'[r] # "idle",
         phase'[r] = "planning" => phase[r] = "idle",
         impact'[r] \subseteq scratch[r].impacted,
         phase'[r] = "planning" => impact'[r] = {},
         phase'[r] \in {"checking", "writing"} =>
           <<r, call'[r].path, calls'[r]>> \in consents',
         phase'[r] = "writing" =>
           call'[r].path \notin Denied /\ UidOf[call'[r].path] \in scratch[r].impacted
  PROVE  PipelineInv'
  <1> USE DEF PipelineInv
  <1>1. ScopeIsThePlan'
    BY DEF ScopeIsThePlan
  <1>2. CallIsChecked'
    BY DEF CallIsChecked
  <1>3. WritersHavePlans'
    BY DEF WritersHavePlans
  <1>4. WritesAreAuthorised'
    BY DEF WritesAreAuthorised
  <1>5. QED
    BY <1>1, <1>2, <1>3, <1>4

(* A line is added, or the last one is spoiled.                            *)
LEMMA AddedLine ==
  ASSUME TypeOK, NEW r \in Runs, NEW readable \in BOOLEAN, log' = Append(log, Line(r, readable))
  PROVE  LET n == Len(log) + 1
         IN  /\ log' \in Seq(Record) /\ Len(log') = n /\ log' # <<>>
             /\ n \in DOMAIN log' /\ log'[n] = Line(r, readable)
             /\ n \notin DOMAIN log
             /\ \A i \in DOMAIN log : i \in DOMAIN log' /\ log'[i] = log[i]
             /\ \A i \in DOMAIN log' : i = n \/ i \in DOMAIN log
  <1>1. Line(r, readable) \in Record
    BY DEF TypeOK, Line, Record
  <1>2. log \in Seq(Record)
    BY DEF TypeOK
  <1>3. QED
    BY <1>1, <1>2

LEMMA SpoiledLine ==
  ASSUME TypeOK, ~lineEnded, SpoilLastLine
  PROVE  LET n == Len(log)
         IN  /\ log' \in Seq(Record) /\ Len(log') = n /\ log' # <<>>
             /\ n \in DOMAIN log /\ DOMAIN log' = DOMAIN log
             /\ log[n] \in Record /\ ~log'[n].readable /\ log'[n].run = log[n].run
             /\ \A i \in DOMAIN log : i # n => log'[i] = log[i]
  <1>1. log \in Seq(Record) /\ log # <<>>
    BY DEF TypeOK
  <1>2. Len(log) \in DOMAIN log /\ Len(log) \in Nat /\ DOMAIN log = 1 .. Len(log)
    BY <1>1
  <1>3. log[Len(log)] \in Record
    BY <1>1, <1>2
  <1>4. [log[Len(log)] EXCEPT !.readable = FALSE] \in Record
    BY <1>3 DEF Record
  <1>5. log' = [log EXCEPT ![Len(log)] = [log[Len(log)] EXCEPT !.readable = FALSE]]
    BY <1>1, <1>2, <1>3 DEF SpoilLastLine, Record
  <1>6. log' \in Seq(Record) /\ Len(log') = Len(log) /\ DOMAIN log' = DOMAIN log
    BY <1>1, <1>2, <1>4, <1>5
  <1>7. log'[Len(log)] = [log[Len(log)] EXCEPT !.readable = FALSE]
    BY <1>1, <1>2, <1>5
  <1>8. \A i \in DOMAIN log : i # Len(log) => log'[i] = log[i]
    BY <1>1, <1>5
  <1>9. ~log'[Len(log)].readable /\ log'[Len(log)].run = log[Len(log)].run
    BY <1>3, <1>7 DEF Record
  <1>10. log' # <<>>
    BY <1>1, <1>2, <1>6
  <1>11. QED
    BY <1>2, <1>3, <1>6, <1>8, <1>9, <1>10

LEMMA LogTypes ==
  ASSUME TypeOK, NEW r \in Runs, Flush(r) \/ HalfFlush(r)
  PROVE  /\ log' \in Seq(Record) /\ lineEnded' \in BOOLEAN
         /\ glued' \subseteq [run : Runs, to : Runs]
         /\ lineEnded' \/ log' # <<>>
  <1>1. lineEnded' \in BOOLEAN
    BY DEF Flush, HalfFlush, AppendRecord
  <1>2. CASE lineEnded
    <2>1. PICK readable \in BOOLEAN : log' = Append(log, Line(r, readable))
      BY <1>2 DEF Flush, HalfFlush, AppendRecord
    <2>2. glued' = glued
      BY <1>2 DEF Flush, HalfFlush, AppendRecord
    <2>3. QED
      BY <1>1, <2>1, <2>2, AddedLine DEF TypeOK
  <1>3. CASE ~lineEnded
    <2>1. SpoilLastLine /\ glued' \subseteq glued \cup {[run |-> r, to |-> log[Len(log)].run]}
      BY <1>3 DEF Flush, HalfFlush, AppendRecord
    <2>2. log[Len(log)].run \in Runs
      BY <1>3, <2>1, SpoiledLine DEF Record
    <2>3. [run |-> r, to |-> log[Len(log)].run] \in [run : Runs, to : Runs]
      BY <2>2
    <2>4. glued' \subseteq [run : Runs, to : Runs]
      BY <2>1, <2>3 DEF TypeOK
    <2>5. log' \in Seq(Record) /\ log' # <<>>
      BY <1>3, <2>1, SpoiledLine
    <2>6. QED
      BY <1>1, <2>4, <2>5
  <1>4. QED
    BY <1>2, <1>3

(* The orchestrator's steps, but for the hand-over of the plan.            *)
LEMMA OrchestrateInv ==
  ASSUME PipelineInv, NEW r \in Runs,
         Start(r) \/ PlanStops(r) \/ Flush(r) \/ HalfFlush(r) \/ FinishRun(r)
  PROVE  PipelineInv'
  <1> USE DEF PipelineInv
  <1>1. CASE Start(r)
    <2>1. TypeOK'
      BY <1>1 DEF Start, Goto, TypeOK, loopVars, logVars, Phases
    <2>2. QED
      BY <1>1, <2>1, QuietStep DEF Start, Goto, TypeOK, ScopeIsThePlan, loopVars
  <1>2. CASE PlanStops(r)
    <2>1. TypeOK'
      BY <1>2 DEF PlanStops, Goto, Conclude, TypeOK, loopVars, recordVars, logVars, Phases, Statuses
    <2>2. QED
      BY <1>2, <2>1, QuietStep
      DEF PlanStops, Goto, TypeOK, ScopeIsThePlan, loopVars, recordVars, logVars
  <1>3. CASE Flush(r) \/ HalfFlush(r)
    <2>1. phase'[r] \in {"closing", "raised"} /\ phase' \in [Runs -> Phases]
      BY <1>3 DEF Flush, HalfFlush, Goto, TypeOK, Phases
    <2>2. TypeOK'
      BY <1>3, <2>1, LogTypes DEF Flush, HalfFlush, TypeOK, loopVars
    <2>3. QED
      BY <1>3, <2>1, <2>2, QuietStep DEF Flush, HalfFlush, Goto, TypeOK, ScopeIsThePlan, loopVars
  <1>4. CASE FinishRun(r)
    <2>1. TypeOK'
      BY <1>4 DEF FinishRun, Goto, TypeOK, loopVars, logVars, Phases, Statuses
    <2>2. QED
      BY <1>4, <2>1, QuietStep DEF FinishRun, Goto, TypeOK, ScopeIsThePlan, loopVars
  <1>5. QED
    BY <1>1, <1>2, <1>3, <1>4

(* The plan is handed over: the run has not written, and has no scope yet. *)
LEMMA PlanReadyInv ==
  ASSUME PipelineInv, NEW r \in Runs, PlanReady(r)
  PROVE  PipelineInv'
  <1> USE DEF PipelineInv
  <1>1. TypeOK'
    BY DEF PlanReady, Goto, TypeOK, loopVars, recordVars, logVars, Phases, Plan
  <1>2. /\ phase[r] = "planning" /\ phase' = [phase EXCEPT ![r] = "reading"]
        /\ \A q \in Runs \ {r} : scratch'[q] = scratch[q]
        /\ UNCHANGED <<impact, call, calls, consents, writes>>
    BY DEF PlanReady, Goto, TypeOK, loopVars
  <1>3. ScopeIsThePlan'
    BY <1>2 DEF ScopeIsThePlan, TypeOK
  <1>4. CallIsChecked'
    BY <1>2 DEF CallIsChecked, TypeOK
  <1>5. writes[r] = <<>> /\ DOMAIN writes[r] = {}
    BY <1>2 DEF WritersHavePlans
  <1>6. WritersHavePlans'
    BY <1>2 DEF WritersHavePlans, TypeOK
  <1>7. WritesAreAuthorised'
    BY <1>2, <1>5 DEF WritesAreAuthorised
  <1>8. QED
    BY <1>1, <1>3, <1>4, <1>6, <1>7

(* The executor's steps: the scope it sets is the plan's, and a call goes  *)
(* on to the tool only with a consent.                                     *)
LEMMA ExecuteInv ==
  ASSUME PipelineInv, NEW r \in Runs, Execute(r)
  PROVE  PipelineInv'
  <1> USE DEF PipelineInv
  <1>1. CASE PlanUnusable(r)
    <2>1. TypeOK'
      BY <1>1 DEF PlanUnusable, Goto, Conclude, TypeOK, loopVars, recordVars, logVars, Phases, Statuses
    <2>2. QED
      BY <1>1, <2>1, QuietStep
      DEF PlanUnusable, Goto, TypeOK, ScopeIsThePlan, loopVars, recordVars, logVars
  <1>2. CASE EnterLoop(r)
    <2>1. TypeOK'
      BY <1>2 DEF EnterLoop, Goto, TypeOK, loopVars, recordVars, logVars, Phases, Plan
    <2>2. QED
      BY <1>2, <2>1, QuietStep DEF EnterLoop, Goto, TypeOK, loopVars, recordVars, logVars
  <1>3. CASE LoopStops(r)
    <2>1. \A stopped \in Reasons : Verdict(r, stopped) \in Statuses
      BY DEF Verdict, Statuses
    <2>2. TypeOK'
      BY <1>3, <2>1 DEF LoopStops, Goto, Conclude, TypeOK, loopVars, recordVars, logVars, Phases
    <2>3. QED
      BY <1>3, <2>2, QuietStep DEF LoopStops, Goto, TypeOK, loopVars, recordVars, logVars
  <1>4. CASE \E c \in Call : Propose(r, c)
    <2>1. PICK c \in Call : Propose(r, c)
      BY <1>4
    <2>2. /\ calls' = [calls EXCEPT ![r] = calls[r] + 1]
          /\ calls \in [Runs -> Nat]
          /\ calls[r] < MaxCalls[r] /\ MaxCalls[r] \in Nat
          /\ \A q \in Runs : calls[q] <= MaxCalls[q]
      BY <2>1, PipelineAssumption DEF Propose, TypeOK
    <2>3. calls' \in [Runs -> Nat] /\ \A q \in Runs : calls'[q] <= MaxCalls[q]
      BY <2>2
    <2>4. TypeOK'
      BY <2>1, <2>3 DEF Propose, Goto, TypeOK, recordVars, logVars, Phases
    <2>5. QED
      BY <2>1, <2>4, QuietStep DEF Propose, Goto, TypeOK, ScopeIsThePlan, recordVars, logVars
  <1>5. CASE Approve(r)
    <2>1. <<r, call[r].path, calls[r]>> \in Runs \X Paths \X Nat
      BY PipelineAssumption DEF TypeOK, Call
    <2>2. TypeOK'
      BY <1>5, <2>1 DEF Approve, Goto, TypeOK, loopVars, recordVars, logVars, Phases
    <2>3. QED
      BY <1>5, <2>2, QuietStep DEF Approve, Goto, TypeOK, ScopeIsThePlan, loopVars, recordVars, logVars
  <1>6. CASE Decline(r)
    <2>1. TypeOK'
      BY <1>6, ToolReturnsTypes DEF Decline, Goto, TypeOK, recordVars, logVars, Phases
    <2>2. QED
      BY <1>6, <2>1, ToolReturnsTypes, QuietStep
      DEF Decline, Goto, TypeOK, ScopeIsThePlan, recordVars, logVars
  <1>7. QED
    BY <1>1, <1>2, <1>3, <1>4, <1>5, <1>6 DEF Execute

-----------------------------------------------------------------------------
(* apply_change: a path reaches the write only through its checks.         *)
LEMMA CheckInv ==
  ASSUME PipelineInv, NEW r \in Runs, Refuse(r) \/ ReadBefore(r) \/ WriteFails(r)
  PROVE  PipelineInv'
  <1> USE DEF PipelineInv
  <1>1. CASE Refuse(r)
    <2>1. TypeOK'
      BY <1>1, ToolReturnsTypes DEF Refuse, Goto, TypeOK, recordVars, logVars, Phases
    <2>2. QED
      BY <1>1, <2>1, ToolReturnsTypes, QuietStep
      DEF Refuse, Goto, TypeOK, ScopeIsThePlan, recordVars, logVars
  <1>2. CASE ReadBefore(r)
    <2>1. call[r].path \in Paths
      BY DEF TypeOK, Call
    <2>2. TypeOK'
      BY <1>2, <2>1 DEF ReadBefore, Goto, TypeOK, recordVars, logVars, Phases
    <2>3. /\ call[r].path \notin Denied
          /\ UidOf[call[r].path] \in scratch[r].impacted
          /\ <<r, call[r].path, calls[r]>> \in consents
      BY <1>2 DEF ReadBefore, Goto, OutOfScope, ScopeIsThePlan, CallIsChecked
    <2>4. QED
      BY <1>2, <2>2, <2>3, QuietStep DEF ReadBefore, Goto, TypeOK, ScopeIsThePlan, recordVars, logVars
  <1>3. CASE WriteFails(r)
    <2>1. TypeOK'
      BY <1>3, CutShortTypes, ToolReturnsTypes DEF WriteFails, Goto, TypeOK, recordVars, logVars, Phases
    <2>2. QED
      BY <1>3, <2>1, ToolReturnsTypes, QuietStep
      DEF WriteFails, Goto, TypeOK, ScopeIsThePlan, recordVars, logVars
  <1>4. QED
    BY <1>1, <1>2, <1>3

LEMMA RaiseInv ==
  ASSUME PipelineInv, NEW r \in Runs, Raise(r)
  PROVE  PipelineInv'
  <1> USE DEF PipelineInv
  <1>1. files' \in [Paths -> Contents]
    BY CutShortTypes DEF Raise, TypeOK
  <1>2. TypeOK'
    BY <1>1, ToolReturnsTypes DEF Raise, Goto, TypeOK, recordVars, logVars, Phases
  <1>3. QED
    BY <1>2, ToolReturnsTypes, QuietStep DEF Raise, Goto, TypeOK, recordVars, logVars

(* The write itself: the new record is the call that was checked.          *)
LEMMA WriteInv ==
  ASSUME PipelineInv, NEW r \in Runs, Write(r)
  PROVE  PipelineInv'
  <1> USE DEF PipelineInv
  <1> DEFINE w == CompletedWrite(r)
  <1>1. /\ call[r].path \in Paths
        /\ NewVersion(r) \in Version
        /\ Version \subseteq Contents
    BY DEF TypeOK, Call, NewVersion, Version, Contents
  <1>2. w \in Change /\ AppliedChange(r) \in Change
    BY <1>1 DEF TypeOK, AppliedChange, CompletedWrite, Change
  <1>3. writes' = [writes EXCEPT ![r] = Append(writes[r], w)]
    BY DEF Write
  <1>4. writes \in [Runs -> Seq(Change)] /\ changes \in [Runs -> Seq(Change)]
    BY DEF TypeOK
  <1>5. /\ Append(writes[r], w) \in Seq(Change)
        /\ Append(changes[r], AppliedChange(r)) \in Seq(Change)
        /\ \A i \in DOMAIN Append(writes[r], w) :
             (i \in DOMAIN writes[r] /\ Append(writes[r], w)[i] = writes[r][i])
               \/ Append(writes[r], w)[i] = w
    BY <1>2, <1>4, AppendElement
  <1>6. changes' \in [Runs -> Seq(Change)] /\ writes' \in [Runs -> Seq(Change)]
    BY <1>3, <1>4, <1>5 DEF Write, RecordChange
  <1>7. files' \in [Paths -> Contents]
    BY <1>1 DEF Write, TypeOK
  <1>8. TypeOK'
    BY <1>6, <1>7, ToolReturnsTypes DEF Write, Goto, TypeOK, recordVars, logVars, Phases
  <1>9. /\ phase[r] = "writing" /\ phase' = [phase EXCEPT ![r] = "looping"]
        /\ \A q \in Runs \ {r} : call'[q] = call[q]
        /\ UNCHANGED <<scratch, impact, calls, consents>>
    BY ToolReturnsTypes DEF Write, Goto
  <1>10. ScopeIsThePlan' /\ CallIsChecked'
    BY <1>9 DEF ScopeIsThePlan, CallIsChecked, TypeOK
  <1>11. WritersHavePlans'
    BY <1>3, <1>9 DEF WritersHavePlans, TypeOK
  <1>12. WritesAreAuthorised'
    <2>1. /\ w.path \notin Denied
          /\ UidOf[w.path] \in scratch[r].impacted
          /\ <<r, w.path, w.after.n>> \in consents
      BY <1>9 DEF CallIsChecked, CompletedWrite, NewVersion
    <2>2. \A q \in Runs \ {r} : writes'[q] = writes[q]
      BY <1>3, <1>4
    <2>3. writes'[r] = Append(writes[r], w)
      BY <1>3, <1>4
    <2> HIDE DEF w
    <2>4. QED
      BY <1>5, <1>9, <2>1, <2>2, <2>3 DEF WritesAreAuthorised
  <1>13. QED
    BY <1>8, <1>10, <1>11, <1>12

-----------------------------------------------------------------------------
LEMMA NextInv == PipelineInv /\ [Next]_vars => PipelineInv'
  <1> SUFFICES ASSUME PipelineInv, [Next]_vars
               PROVE  PipelineInv'
    OBVIOUS
  <1>1. CASE \E r \in Runs : Orchestrate(r) \/ Execute(r) \/ ApplyChange(r) \/ Raise(r)
    BY <1>1, OrchestrateInv, PlanReadyInv, ExecuteInv, CheckInv, WriteInv, RaiseInv
    DEF Orchestrate, ApplyChange
  <1>2. CASE UNCHANGED vars
    BY <1>2
    DEF vars, loopVars, recordVars, logVars, PipelineInv, TypeOK, ScopeIsThePlan, CallIsChecked,
        WritersHavePlans, WritesAreAuthorised
  <1>3. QED
    BY <1>1, <1>2 DEF Next, AllEnded

(* PipelineInv holds in every reachable state.                             *)
THEOREM PipelineInvariant == Spec => []PipelineInv
  <1>1. QED
    BY InitInv, NextInv, PTL DEF Spec

(* Whatever runs, paths and uids there are, the pipeline's state is        *)
(* well-typed; in particular its status is one the orchestrator branches on.*)
THEOREM PipelineTypes == Spec => []TypeOK
  <1>1. PipelineInv => TypeOK
    BY DEF PipelineInv
  <1>2. QED
    BY <1>1, PipelineInvariant, PTL

(* However many processes write to the tree, whatever the disk does and     *)
(* wherever a process dies, each completed write was in its run's plan,     *)
(* off the denylist, and approved by a human (executor.py, apply_change.py).*)
THEOREM WritesNeedPlanAndConsent == Spec => []WritesAreAuthorised
  <1>1. PipelineInv => WritesAreAuthorised
    BY DEF PipelineInv
  <1>2. QED
    BY <1>1, PipelineInvariant, PTL

-----------------------------------------------------------------------------
(* What is recorded of a run: applied_changes, the run log, and the row.   *)

Ended == {"done", "raised"}

ChangesAreTheWrites == \A r \in Runs : SameWrites(changes[r], writes[r])

(* Who is in the log writes no more, and keeps its status.                 *)
LoggedRunsAreOver ==
  \A i \in DOMAIN log :
    /\ log[i] \in Record
    /\ phase[log[i].run] \in {"closing"} \cup Ended
ClosingRunsAreLogged ==
  \A r \in Runs : phase[r] = "closing" =>
    \/ \E i \in ReadRecords : log[i].run = r /\ log[i].status = status[r]
    \/ \E g \in glued : g.run = r

(* A line that was not ended is that of a dead run, and took no record yet. *)
OpenLineIsOfTheDead ==
  ~lineEnded => /\ phase[log[Len(log)].run] = "raised"
                /\ \A g \in glued : g.to # log[Len(log)].run
GluedToTheDead == \A g \in glued : phase[g.to] = "raised"
ClosedRunsAreDone == \A r \in Runs : row[r] \in Statuses => phase[r] = "done"

(* Up to the write, what was read is what is there, or it is somebody       *)
(* else's, or a torn file.                                                  *)
ReadIsCurrent ==
  \A r \in Runs : phase[r] = "writing" =>
    LET now == files[call[r].path]
    IN  before[r] = now \/ now = Torn \/ (now \in Version /\ now.run # r)

OkHasChanges == \A r \in Runs : status[r] = "ok" => changes[r] # <<>>

RecordInv ==
  /\ ChangesAreTheWrites
  /\ LoggedRunsAreOver
  /\ LogIsTheRun
  /\ ClosingRunsAreLogged
  /\ OpenLineIsOfTheDead
  /\ GluedToTheDead
  /\ ClosedRunsAreDone
  /\ ClosedRowIsLogged
  /\ ReadIsCurrent
  /\ RecordsWhatWasReplaced
  /\ OkHasChanges
  /\ OkMeansWritten

Step(r) == Orchestrate(r) \/ Execute(r) \/ ApplyChange(r) \/ Raise(r)

(* A step of one run leaves what is known of the others alone.             *)
LEMMA OthersStay ==
  ASSUME TypeOK, NEW r \in Runs, Step(r), NEW q \in Runs, q # r
  PROVE  /\ phase'[q] = phase[q] /\ status'[q] = status[q] /\ row'[q] = row[q]
         /\ changes'[q] = changes[q] /\ writes'[q] = writes[q]
         /\ call'[q] = call[q] /\ before'[q] = before[q]
  <1>1. CASE Orchestrate(r)
    BY <1>1 DEF Orchestrate, Start, PlanStops, PlanReady, Flush, HalfFlush, FinishRun, Goto, Conclude,
                loopVars, recordVars, logVars, TypeOK
  <1>2. CASE Execute(r)
    BY <1>2 DEF Execute, PlanUnusable, EnterLoop, LoopStops, Propose, Approve, Decline, Goto,
                Conclude, ToolReturns, loopVars, recordVars, logVars, TypeOK
  <1>3. CASE ApplyChange(r) \/ Raise(r)
    BY <1>3 DEF ApplyChange, Refuse, ReadBefore, Write, WriteFails, Raise, RecordChange, Goto,
                ToolReturns, loopVars, recordVars, logVars, TypeOK
  <1>4. QED
    BY <1>1, <1>2, <1>3 DEF Step

(* Which steps of a run touch which record.                                *)
LEMMA StepShape ==
  ASSUME TypeOK, NEW r \in Runs, Step(r)
  PROVE  /\ phase[r] \notin Ended
         /\ phase[r] = "closing" => phase'[r] \in Ended /\ status'[r] = status[r]
         /\ Write(r) \/ UNCHANGED <<changes, writes>>
         /\ Flush(r) \/ HalfFlush(r) \/ UNCHANGED logVars
         /\ FinishRun(r) \/ (row'[r] \in Statuses => row[r] \in Statuses)
         /\ LoopStops(r) \/ (status'[r] = "ok" => status[r] = "ok")
         /\ phase'[r] = "closing" => Flush(r)
         /\ phase'[r] = "writing" => ReadBefore(r)
  <1> USE DEF Ended
  <1>1. CASE Orchestrate(r)
    BY <1>1 DEF Orchestrate, Start, PlanStops, PlanReady, Flush, HalfFlush, FinishRun, Goto, Conclude,
                loopVars, recordVars, logVars, TypeOK, Statuses
  <1>2. CASE Execute(r)
    BY <1>2 DEF Execute, PlanUnusable, EnterLoop, LoopStops, Propose, Approve, Decline, Goto,
                Conclude, ToolReturns, loopVars, recordVars, logVars, TypeOK
  <1>3. CASE ApplyChange(r) \/ Raise(r)
    BY <1>3 DEF ApplyChange, Refuse, ReadBefore, Write, WriteFails, Raise, RecordChange, Goto,
                ToolReturns, loopVars, recordVars, logVars, TypeOK
  <1>4. QED
    BY <1>1, <1>2, <1>3 DEF Step

(* A file changes to the writer's new version, or is cut short.            *)
LEMMA FileStep ==
  ASSUME TypeOK, NEW r \in Runs, Step(r), NEW p \in Paths
  PROVE  \/ files'[p] = files[p]
         \/ files'[p] = Torn
         \/ files'[p] \in Version /\ files'[p].run = r
  <1>1. NewVersion(r) \in Version /\ NewVersion(r).run = r
    BY DEF NewVersion, Version, TypeOK
  <1>2. CASE Orchestrate(r)
    BY <1>2 DEF Orchestrate, Start, PlanStops, PlanReady, Flush, HalfFlush, FinishRun
  <1>3. CASE Execute(r)
    BY <1>3 DEF Execute, PlanUnusable, EnterLoop, LoopStops, Propose, Approve, Decline
  <1>4. CASE ApplyChange(r) \/ Raise(r)
    BY <1>1, <1>4 DEF ApplyChange, Refuse, ReadBefore, Write, WriteFails, Raise, CutShort, TypeOK
  <1>5. QED
    BY <1>2, <1>3, <1>4 DEF Step

LEMMA RecordInit == Init => RecordInv
  <1> SUFFICES ASSUME Init PROVE RecordInv
    OBVIOUS
  <1>1. DOMAIN <<>> = {} /\ Len(<<>>) = 0
    OBVIOUS
  <1>2. ChangesAreTheWrites /\ RecordsWhatWasReplaced
    BY <1>1 DEF Init, ChangesAreTheWrites, SameWrites, RecordsWhatWasReplaced
  <1>3. LoggedRunsAreOver /\ LogIsTheRun /\ OkMeansWritten
    BY <1>1 DEF Init, LoggedRunsAreOver, LogIsTheRun, OkMeansWritten, ReadRecords
  <1>4. ClosingRunsAreLogged /\ ClosedRunsAreDone /\ ClosedRowIsLogged
    BY <1>1 DEF Init, ClosingRunsAreLogged, ClosedRunsAreDone, ClosedRowIsLogged, ReadRecords,
                Statuses
  <1>5. OpenLineIsOfTheDead /\ GluedToTheDead
    BY DEF Init, OpenLineIsOfTheDead, GluedToTheDead
  <1>6. ReadIsCurrent /\ OkHasChanges
    BY DEF Init, ReadIsCurrent, OkHasChanges
  <1>7. QED
    BY <1>2, <1>3, <1>4, <1>5, <1>6 DEF RecordInv

(* The one step that adds to the lists adds the same to both, but for what *)
(* it believes it replaced.                                                *)
LEMMA WriteRecords ==
  ASSUME TypeOK, NEW r \in Runs, Write(r)
  PROVE  /\ phase[r] = "writing"
         /\ changes' = [changes EXCEPT ![r] = Append(changes[r], AppliedChange(r))]
         /\ writes' = [writes EXCEPT ![r] = Append(writes[r], CompletedWrite(r))]
         /\ changes[r] \in Seq(Change) /\ AppliedChange(r) \in Change
         /\ writes[r] \in Seq(Change) /\ CompletedWrite(r) \in Change
         /\ changes'[r] = Append(changes[r], AppliedChange(r))
         /\ writes'[r] = Append(writes[r], CompletedWrite(r))
  <1>1. /\ call[r].path \in Paths
        /\ NewVersion(r) \in Version
        /\ Version \subseteq Contents
    BY DEF TypeOK, Call, NewVersion, Version, Contents
  <1>2. AppliedChange(r) \in Change /\ CompletedWrite(r) \in Change
    BY <1>1 DEF TypeOK, AppliedChange, CompletedWrite, Change
  <1>3. QED
    BY <1>2 DEF Write, Goto, RecordChange, TypeOK

LEMMA WritesStep ==
  ASSUME TypeOK, RecordInv, NEW r \in Runs, Step(r)
  PROVE  ChangesAreTheWrites' /\ RecordsWhatWasReplaced'
  <1> USE DEF RecordInv
  <1>1. CASE UNCHANGED <<changes, writes>>
    BY <1>1 DEF ChangesAreTheWrites, SameWrites, RecordsWhatWasReplaced
  <1>2. CASE Write(r)
    <2> DEFINE a == AppliedChange(r)
               w == CompletedWrite(r)
               n == Len(writes[r]) + 1
    <2>1. /\ changes[r] \in Seq(Change) /\ a \in Change
          /\ writes[r] \in Seq(Change) /\ w \in Change
          /\ changes'[r] = Append(changes[r], a)
          /\ writes'[r] = Append(writes[r], w)
          /\ phase[r] = "writing"
      BY <1>2, WriteRecords
    <2>2. /\ a.path = w.path /\ a.after = w.after
          /\ a = w \/ w.before = Torn \/ (w.before \in Version /\ w.before.run # r)
      BY <2>1 DEF AppliedChange, CompletedWrite, ReadIsCurrent
    <2> HIDE DEF a, w
    <2>3. /\ Len(changes[r]) = Len(writes[r]) /\ Len(writes[r]) \in Nat
          /\ \A i \in DOMAIN writes[r] : changes[r][i].path = writes[r][i].path
                                          /\ changes[r][i].after = writes[r][i].after
      BY <2>1 DEF ChangesAreTheWrites, SameWrites
    <2>4. /\ Len(changes'[r]) = n /\ Len(writes'[r]) = n
          /\ DOMAIN changes'[r] = 1 .. n /\ DOMAIN writes'[r] = 1 .. n
          /\ DOMAIN changes[r] = 1 .. n - 1 /\ DOMAIN writes[r] = 1 .. n - 1
          /\ changes'[r][n] = a /\ writes'[r][n] = w
          /\ \A i \in 1 .. n - 1 : changes'[r][i] = changes[r][i] /\ writes'[r][i] = writes[r][i]
      BY <2>1, <2>3
    <2>5. \A i \in 1 .. n : i = n \/ i \in 1 .. n - 1
      BY <2>3
    <2>6. SameWrites(changes'[r], writes'[r])
      BY <2>2, <2>3, <2>4, <2>5 DEF SameWrites
    <2>7. \A i \in DOMAIN changes'[r] :
            \/ changes'[r][i] = writes'[r][i]
            \/ writes'[r][i].before = Torn
            \/ writes'[r][i].before \in Version /\ writes'[r][i].before.run # r
      BY <2>2, <2>4, <2>5 DEF RecordsWhatWasReplaced
    <2>8. \A q \in Runs : q # r => changes'[q] = changes[q] /\ writes'[q] = writes[q]
      BY OthersStay
    <2>9. ChangesAreTheWrites'
      BY <2>6, <2>8 DEF ChangesAreTheWrites, SameWrites
    <2>10. RecordsWhatWasReplaced'
      BY <2>7, <2>8 DEF RecordsWhatWasReplaced
    <2>11. QED
      BY <2>9, <2>10
  <1>3. QED
    BY <1>1, <1>2, StepShape

(* Before the write of a run, another one can only make its read stale by   *)
(* a version of its own, or leave a torn file.                              *)
LEMMA ReadStep ==
  ASSUME TypeOK, RecordInv, NEW r \in Runs, Step(r)
  PROVE  ReadIsCurrent'
  <1> USE DEF RecordInv
  <1> SUFFICES ASSUME NEW q \in Runs, phase'[q] = "writing"
               PROVE  LET now == files'[call'[q].path]
                      IN  before'[q] = now \/ now = Torn \/ (now \in Version /\ now.run # q)
    BY DEF ReadIsCurrent
  <1>1. CASE q = r
    <2>1. ReadBefore(r)
      BY <1>1, StepShape
    <2>2. before'[r] = files[call[r].path] /\ call' = call /\ files' = files
      BY <2>1 DEF ReadBefore, TypeOK
    <2>3. QED
      BY <1>1, <2>2
  <1>2. CASE q # r
    <2>1. phase[q] = "writing" /\ call'[q] = call[q] /\ before'[q] = before[q]
      BY <1>2, OthersStay
    <2>2. call[q].path \in Paths
      BY DEF TypeOK, Call
    <2>3. QED
      BY <1>2, <2>1, <2>2, FileStep DEF ReadIsCurrent
  <1>3. QED
    BY <1>1, <1>2

LEMMA OkStep ==
  ASSUME TypeOK, RecordInv, NEW r \in Runs, Step(r)
  PROVE  OkHasChanges'
  <1> USE DEF RecordInv
  <1> SUFFICES ASSUME NEW q \in Runs, status'[q] = "ok"
               PROVE  changes'[q] # <<>>
    BY DEF OkHasChanges
  <1>1. CASE q # r
    BY <1>1, OthersStay DEF OkHasChanges
  <1>2. CASE q = r /\ LoopStops(r)
    <2>1. PICK stopped \in Reasons : status'[r] = Verdict(r, stopped)
      BY <1>2 DEF LoopStops, Conclude, TypeOK
    <2>2. changes[r] # <<>>
      BY <1>2, <2>1 DEF Verdict
    <2>3. QED
      BY <1>2, <2>2 DEF LoopStops, loopVars
  <1>3. CASE q = r /\ status[r] = "ok"
    <2>1. changes[r] # <<>>
      BY <1>3 DEF OkHasChanges
    <2>2. CASE Write(r)
      BY <1>3, <2>2, WriteRecords
    <2>3. QED
      BY <1>3, <2>1, <2>2, StepShape
  <1>4. QED
    BY <1>1, <1>2, <1>3, StepShape

-----------------------------------------------------------------------------
(* The run log: flush adds one line or, after half a line, makes that one  *)
(* longer; nothing else touches it.                                        *)
LEMMA LogWriteFrame ==
  ASSUME TypeOK, NEW r \in Runs, Flush(r) \/ HalfFlush(r)
  PROVE  /\ phase[r] = "flushing" /\ phase'[r] \in {"closing", "raised"}
         /\ \A q \in Runs \ {r} : phase'[q] = phase[q]
         /\ UNCHANGED <<changes, writes, status, row>>
         /\ lineEnded' = (phase'[r] = "closing")
  BY DEF Flush, HalfFlush, AppendRecord, Goto, TypeOK, loopVars

LEMMA AppendStep ==
  ASSUME TypeOK, RecordInv, NEW r \in Runs, Flush(r) \/ HalfFlush(r), lineEnded
  PROVE  /\ LoggedRunsAreOver' /\ LogIsTheRun' /\ OkMeansWritten'
         /\ ClosingRunsAreLogged' /\ ClosedRowIsLogged'
         /\ OpenLineIsOfTheDead' /\ GluedToTheDead'
  <1> USE DEF RecordInv
  <1> DEFINE n == Len(log) + 1
  <1>1. PICK readable \in BOOLEAN : /\ log' = Append(log, Line(r, readable))
                                    /\ phase'[r] = "closing" => readable
    BY DEF Flush, HalfFlush, AppendRecord, Goto, TypeOK
  <1>2. glued' = glued
    BY DEF Flush, HalfFlush, AppendRecord
  <1> DEFINE line == Line(r, readable)
  <1>3. /\ line.run = r /\ line.status = status[r] /\ line.changes = changes[r]
        /\ line.readable = readable /\ line \in Record
    BY DEF Line, Record, TypeOK
  <1>4. /\ Len(log') = n /\ n \in DOMAIN log' /\ log'[n] = line /\ n \notin DOMAIN log
        /\ \A i \in DOMAIN log : i \in DOMAIN log' /\ log'[i] = log[i]
        /\ \A i \in DOMAIN log' : i = n \/ i \in DOMAIN log
    BY <1>1, AddedLine
  <1> HIDE DEF line, n
  <1>5. \A i \in DOMAIN log : log[i] \in Record /\ log[i].run \in Runs \ {r}
    BY LogWriteFrame DEF LoggedRunsAreOver, Ended, Record
  <1>6. /\ \A i \in ReadRecords : i \in ReadRecords' /\ i \in DOMAIN log
        /\ \A i \in ReadRecords' : i \in DOMAIN log' /\ (i = n \/ i \in ReadRecords)
        /\ readable => n \in ReadRecords'
    BY <1>3, <1>4 DEF ReadRecords
  <1>7. LoggedRunsAreOver'
    BY <1>3, <1>4, <1>5, LogWriteFrame DEF LoggedRunsAreOver, Ended
  <1>8. LogIsTheRun'
    BY <1>3, <1>4, <1>5, <1>6, LogWriteFrame DEF LogIsTheRun, ChangesAreTheWrites, SameWrites
  <1>9. ClosingRunsAreLogged'
    BY <1>1, <1>2, <1>3, <1>4, <1>5, <1>6, LogWriteFrame DEF ClosingRunsAreLogged
  <1>10. ClosedRowIsLogged'
    BY <1>2, <1>3, <1>4, <1>5, <1>6, LogWriteFrame DEF ClosedRowIsLogged
  <1>11. OkMeansWritten'
    <2>1. status[r] = "ok" => writes[r] # <<>>
      <3>1. Len(changes[r]) = Len(writes[r]) /\ changes[r] \in Seq(Change)
        BY DEF ChangesAreTheWrites, SameWrites, TypeOK
      <3>2. QED
        BY <3>1 DEF OkHasChanges
    <2>2. QED
      BY <1>3, <1>4, <1>6, <2>1, LogWriteFrame DEF OkMeansWritten
  <1>12. \A g \in glued : g.to \in Runs \ {r}
    BY LogWriteFrame DEF GluedToTheDead, TypeOK
  <1>13. GluedToTheDead'
    BY <1>2, <1>12, LogWriteFrame DEF GluedToTheDead
  <1>14. OpenLineIsOfTheDead'
    BY <1>2, <1>3, <1>4, <1>12, LogWriteFrame DEF OpenLineIsOfTheDead
  <1>15. QED
    BY <1>7, <1>8, <1>9, <1>10, <1>11, <1>13, <1>14

LEMMA SpoilStep ==
  ASSUME TypeOK, RecordInv, NEW r \in Runs, Flush(r) \/ HalfFlush(r), ~lineEnded
  PROVE  /\ LoggedRunsAreOver' /\ LogIsTheRun' /\ OkMeansWritten'
         /\ ClosingRunsAreLogged' /\ ClosedRowIsLogged'
         /\ OpenLineIsOfTheDead' /\ GluedToTheDead'
  <1> USE DEF RecordInv
  <1> DEFINE n == Len(log)
             dead == log[n].run
             g0 == [run |-> r, to |-> dead]
  <1>1. /\ SpoilLastLine
        /\ IF phase'[r] = "closing" THEN glued' = glued \cup {g0} ELSE glued' = glued
    BY DEF Flush, HalfFlush, AppendRecord, Goto, TypeOK
  <1>2. /\ Len(log') = n /\ n \in DOMAIN log /\ DOMAIN log' = DOMAIN log
        /\ log' \in Seq(Record) /\ log[n] \in Record /\ ~log'[n].readable /\ log'[n].run = dead
        /\ \A i \in DOMAIN log : i # n => log'[i] = log[i]
    BY <1>1, SpoiledLine
  <1>3. g0.run = r /\ g0.to = dead
    OBVIOUS
  <1>4. dead \in Runs /\ phase[dead] = "raised" /\ \A g \in glued : g.to # dead
    BY <1>2 DEF OpenLineIsOfTheDead, Record
  <1> HIDE DEF n, dead, g0
  <1>5. dead # r /\ phase'[dead] = "raised"
    BY <1>4, LogWriteFrame
  <1>6. \A i \in DOMAIN log : /\ log[i] \in Record /\ log[i].run \in Runs \ {r}
                             /\ log'[i] \in Record /\ log'[i].run = log[i].run
    <2>1. \A i \in DOMAIN log : log[i] \in Record /\ log[i].run \in Runs \ {r}
      BY LogWriteFrame DEF LoggedRunsAreOver, Ended, Record
    <2>2. \A i \in DOMAIN log : log'[i] \in Record
      BY <1>2
    <2>3. QED
      BY <1>2, <2>1, <2>2 DEF dead
  <1>7. /\ \A i \in ReadRecords' : i \in ReadRecords /\ i \in DOMAIN log /\ log'[i] = log[i]
        /\ \A i \in ReadRecords : log[i].run # dead => i \in ReadRecords' /\ log'[i] = log[i]
    BY <1>2 DEF ReadRecords, dead
  <1>8. LoggedRunsAreOver'
    BY <1>2, <1>6, LogWriteFrame DEF LoggedRunsAreOver
  <1>9. LogIsTheRun' /\ OkMeansWritten'
    BY <1>7, LogWriteFrame DEF LogIsTheRun, OkMeansWritten, SameWrites
  <1>10. ClosingRunsAreLogged'
    BY <1>1, <1>3, <1>4, <1>5, <1>7, LogWriteFrame DEF ClosingRunsAreLogged
  <1>11. \A g \in glued' : g \in glued \/ (g = g0 /\ g.to = dead)
    BY <1>1, <1>3
  <1>12. \A g \in glued : g \in glued' /\ g.to \in Runs /\ g.to # r
    BY <1>1, LogWriteFrame DEF GluedToTheDead, TypeOK
  <1>13. GluedToTheDead'
    BY <1>5, <1>11, <1>12, LogWriteFrame DEF GluedToTheDead
  <1>14. ClosedRowIsLogged'
    <2>1. \A i, j \in ReadRecords' : log'[i].run = log'[j].run => i = j
      BY <1>7 DEF ClosedRowIsLogged
    <2>2. row'[dead] \notin Statuses
      BY <1>4, LogWriteFrame DEF ClosedRunsAreDone
    <2>3. \A g \in glued' : row'[g.to] \notin Statuses
      BY <1>11, <2>2, LogWriteFrame DEF ClosedRowIsLogged
    <2>4. \A g, h \in glued' : g.to = h.to => g = h
      BY <1>4, <1>11 DEF ClosedRowIsLogged
    <2>5. ASSUME NEW q \in Runs, row'[q] \in Statuses
          PROVE  \/ \E i \in ReadRecords' : log'[i].run = q /\ log'[i].status = row'[q]
                 \/ \E g \in glued' : g.run = q
      <3>1. q # dead /\ row[q] \in Statuses /\ row'[q] = row[q]
        BY <2>2, <2>5, LogWriteFrame
      <3>2. CASE \E i \in ReadRecords : log[i].run = q /\ log[i].status = row[q]
        BY <1>7, <3>1, <3>2
      <3>3. CASE \E g \in glued : g.run = q
        BY <1>12, <3>3
      <3>4. QED
        BY <3>1, <3>2, <3>3 DEF ClosedRowIsLogged
    <2>6. QED
      BY <2>1, <2>3, <2>4, <2>5 DEF ClosedRowIsLogged
  <1>15. OpenLineIsOfTheDead'
    <2>1. ASSUME ~lineEnded' PROVE glued' = glued
      BY <1>1, <2>1, LogWriteFrame
    <2>2. log'[Len(log')].run = dead
      BY <1>2
    <2>3. QED
      BY <1>4, <1>5, <2>1, <2>2 DEF OpenLineIsOfTheDead
  <1>16. QED
    BY <1>8, <1>9, <1>10, <1>13, <1>14, <1>15

LEMMA LogStep ==
  ASSUME TypeOK, RecordInv, NEW r \in Runs, Step(r)
  PROVE  /\ LoggedRunsAreOver'
         /\ LogIsTheRun'
         /\ ClosingRunsAreLogged'
         /\ OpenLineIsOfTheDead' /\ GluedToTheDead'
         /\ ClosedRunsAreDone'
         /\ ClosedRowIsLogged'
         /\ OkMeansWritten'
  <1> USE DEF RecordInv
  <1>1. ClosedRunsAreDone'
    <2>1. CASE FinishRun(r)
      BY <2>1, OthersStay DEF FinishRun, Goto, ClosedRunsAreDone, TypeOK
    <2>2. CASE row'[r] \in Statuses => row[r] \in Statuses
      BY <2>2, OthersStay, StepShape DEF ClosedRunsAreDone, Ended
    <2>3. QED
      BY <2>1, <2>2, StepShape
  <1>2. CASE Flush(r) \/ HalfFlush(r)
    BY <1>1, <1>2, AppendStep, SpoilStep
  <1>3. CASE ~(Flush(r) \/ HalfFlush(r))
    <2>1. log' = log /\ lineEnded' = lineEnded /\ glued' = glued /\ ReadRecords' = ReadRecords
      BY <1>3, StepShape DEF logVars, ReadRecords
    <2>2. \A i \in DOMAIN log :
            /\ log[i] \in Record /\ log[i].run \in Runs
            /\ phase'[log[i].run] \in {"closing"} \cup Ended
            /\ writes'[log[i].run] = writes[log[i].run]
      <3> SUFFICES ASSUME NEW i \in DOMAIN log
                   PROVE  /\ log[i] \in Record /\ log[i].run \in Runs
                          /\ phase'[log[i].run] \in {"closing"} \cup Ended
                          /\ writes'[log[i].run] = writes[log[i].run]
        OBVIOUS
      <3>1. log[i] \in Record /\ log[i].run \in Runs /\ phase[log[i].run] \in {"closing"} \cup Ended
        BY DEF LoggedRunsAreOver, Record
      <3>2. CASE log[i].run # r
        BY <3>1, <3>2, OthersStay
      <3>3. CASE log[i].run = r
        <4>1. phase[r] = "closing" /\ phase'[r] \in Ended
          BY <3>1, <3>3, StepShape
        <4>2. ~Write(r)
          BY <4>1 DEF Write, Goto
        <4>3. QED
          BY <3>1, <3>3, <4>1, <4>2, StepShape
      <3>4. QED
        BY <3>2, <3>3
    <2>3. LoggedRunsAreOver' /\ LogIsTheRun' /\ OkMeansWritten'
      BY <2>1, <2>2 DEF LoggedRunsAreOver, LogIsTheRun, OkMeansWritten, SameWrites, ReadRecords
    <2>4. ClosingRunsAreLogged'
      <3>1. phase'[r] # "closing"
        BY <1>3, StepShape
      <3>2. QED
        BY <2>1, <3>1, OthersStay DEF ClosingRunsAreLogged
    <2>5. \A q \in Runs : phase[q] = "raised" => phase'[q] = "raised"
      BY OthersStay, StepShape DEF Ended
    <2>6. GluedToTheDead'
      BY <2>1, <2>5 DEF GluedToTheDead, TypeOK
    <2>7. ClosedRowIsLogged'
      <3>1. \A g \in glued' : row'[g.to] \notin Statuses
        BY <1>1, <2>1, <2>6 DEF GluedToTheDead, ClosedRunsAreDone, TypeOK
      <3>2. ASSUME NEW q \in Runs, row'[q] \in Statuses
            PROVE  \/ \E i \in ReadRecords : log[i].run = q /\ log[i].status = row'[q]
                   \/ \E g \in glued : g.run = q
        <4>1. CASE q # r
          BY <3>2, <4>1, OthersStay DEF ClosedRowIsLogged
        <4>2. CASE q = r /\ FinishRun(r)
          <5>1. phase[r] = "closing" /\ row'[r] = status[r]
            BY <4>2 DEF FinishRun, Goto, TypeOK
          <5>2. QED
            BY <4>2, <5>1 DEF ClosingRunsAreLogged
        <4>3. CASE q = r /\ ~FinishRun(r)
          <5>1. phase[r] = "done"
            BY <3>2, <4>3, StepShape DEF ClosedRunsAreDone
          <5>2. QED
            BY <5>1, StepShape DEF Ended
        <4>4. QED
          BY <4>1, <4>2, <4>3
      <3>3. QED
        BY <2>1, <3>1, <3>2 DEF ClosedRowIsLogged
    <2>8. OpenLineIsOfTheDead'
      <3>1. ~lineEnded => log[Len(log)].run \in Runs
        <4>1. ~lineEnded => log \in Seq(Record) /\ log # <<>>
          BY DEF TypeOK
        <4>2. ~lineEnded => log[Len(log)] \in Record
          BY <4>1
        <4>3. QED
          BY <4>2 DEF Record
      <3>2. QED
        BY <2>1, <2>5, <3>1 DEF OpenLineIsOfTheDead
    <2>9. QED
      BY <1>1, <2>3, <2>4, <2>6, <2>7, <2>8
  <1>4. QED
    BY <1>2, <1>3

LEMMA RecordNext == PipelineInv /\ RecordInv /\ [Next]_vars => RecordInv'
  <1> SUFFICES ASSUME PipelineInv, RecordInv, [Next]_vars
               PROVE  RecordInv'
    OBVIOUS
  <1>1. TypeOK
    BY DEF PipelineInv
  <1>2. ASSUME NEW r \in Runs, Step(r)
        PROVE  RecordInv'
    BY <1>1, <1>2, WritesStep, ReadStep, OkStep, LogStep DEF RecordInv
  <1>3. CASE UNCHANGED vars
    BY <1>3
    DEF vars, loopVars, recordVars, logVars, RecordInv, ChangesAreTheWrites, SameWrites,
        LoggedRunsAreOver, LogIsTheRun, ClosingRunsAreLogged, ClosedRunsAreDone,
        OpenLineIsOfTheDead, GluedToTheDead, ReadRecords, ClosedRowIsLogged, ReadIsCurrent, RecordsWhatWasReplaced, OkHasChanges, OkMeansWritten
  <1>4. QED
    BY <1>2, <1>3 DEF Next, AllEnded, Step

-----------------------------------------------------------------------------
(* RecordInv holds in every reachable state.                               *)
THEOREM RecordInvariant == Spec => []RecordInv
  <1>1. QED
    BY RecordInit, RecordNext, PipelineInvariant, PTL DEF Spec

(* Whatever a record of the run log says was written was written, in that   *)
(* order, and nothing else, for any number of runs (_envelope_from_loop).   *)
THEOREM LogTellsTheRun == Spec => []LogIsTheRun
  <1>1. RecordInv => LogIsTheRun
    BY DEF RecordInv
  <1>2. QED
    BY <1>1, RecordInvariant, PTL

(* before_sha is what the write replaced, unless another process or a       *)
(* failed write got in between (apply_change).                              *)
THEOREM ReplacedIsRecorded == Spec => []RecordsWhatWasReplaced
  <1>1. RecordInv => RecordsWhatWasReplaced
    BY DEF RecordInv
  <1>2. QED
    BY <1>1, RecordInvariant, PTL

(* ok is said of no run that has not written (_envelope_from_loop).         *)
THEOREM OkRunsHaveWritten == Spec => []OkMeansWritten
  <1>1. RecordInv => OkMeansWritten
    BY DEF RecordInv
  <1>2. QED
    BY <1>1, RecordInvariant, PTL

(* Wherever a process dies, within the append to the run log too, a row     *)
(* that was closed has its one record there, with the same status, or the   *)
(* record was glued to the line of a run that died appending and whose row   *)
(* is open: one record for each such death at most (flush, finish_run).     *)
THEOREM ClosedRunsAreLogged == Spec => []ClosedRowIsLogged
  <1>1. RecordInv => ClosedRowIsLogged
    BY DEF RecordInv
  <1>2. QED
    BY <1>1, RecordInvariant, PTL

=============================================================================
