---------------------------- MODULE ChangePipeline ----------------------------
(***************************************************************************)
(* A /change request: orchestrator.py takes it through the planner and the *)
(* executor, whose agent loop writes files with tools/apply_change.py.     *)
(* Runs of several processes (the service's worker, an orchestrator on the *)
(* command line) share the repository, so a write is two actions: check    *)
(* and read, then write.  Of the agent loop only the apply_change calls    *)
(* are kept; AgentLoop models the rest of it.                              *)
(***************************************************************************)
EXTENDS Naturals, Sequences

CONSTANTS
  Runs,            \* change requests, each in a process of its own
  Paths,           \* the paths a model may name
  Uids,            \* symbol_uids
  UidOf,           \* resolve_uid: several paths may have one uid
  Denied,          \* the paths _confine refuses
  Existing,        \* the files there are at first
  Original, Absent, Torn,   \* a file untouched, no file, a file cut short
  WritesMayFail,   \* may the disk refuse a write?
  MaxCalls         \* bound: apply_change calls of each run

ASSUME PipelineAssumption ==
  /\ UidOf \in [Paths -> Uids]
  /\ Paths # {}
  /\ Denied \subseteq Paths
  /\ Existing \subseteq Paths
  /\ WritesMayFail \in BOOLEAN
  /\ MaxCalls \in [Runs -> Nat]

Version == [run : Runs, n : Nat]
Contents == Version \cup {Original, Absent, Torn}
Intents == {"edit", "create"}
Statuses == {"ok", "needs_input", "blocked", "failed"}
Plan == [impacted : SUBSET Uids, steps : BOOLEAN]
NoPlan == [impacted |-> {}, steps |-> FALSE]
Call == [path : Paths, intent : Intents]
NoCall == CHOOSE c \in Call : TRUE   \* stands in call where there is none
Change == [path : Paths, before : Contents, after : Version]
Record == [run : Runs, status : Statuses, changes : Seq(Change), readable : BOOLEAN]

VARIABLES
  files,           \* the working tree
  phase,           \* where each run is
  scratch,         \* run_scratch: the plan the planner left
  impact,          \* the ambient impact set
  call,            \* the apply_change call in progress
  calls,           \* apply_change calls so far
  before,          \* what the call in progress read before it writes
  declined,        \* a write was declined
  changes,         \* applied_changes
  status,          \* the envelope's status
  row,             \* the row in runs: absent, open, or its stopped column
  log,             \* the lines of runs.jsonl: who began each, and does it parse
  lineEnded,       \* runs.jsonl does not end within a line
  glued,           \* the records written onto another run's line (history)
  consents,        \* the calls a human approved (history)
  writes           \* each run's completed writes, in order, as its record
                   \* should list them (history)

loopVars == <<call, calls, before, declined, changes>>
logVars == <<log, lineEnded, glued>>
recordVars == <<row, logVars>>
vars == <<files, phase, scratch, impact, loopVars, status, recordVars, consents, writes>>

Phases == {"idle", "planning", "reading", "looping", "asking", "checking", "writing",
           "flushing", "closing", "done", "raised"}
InLoop == {"looping", "asking", "checking", "writing"}

TypeOK ==
  /\ files \in [Paths -> Contents]
  /\ phase \in [Runs -> Phases]
  /\ scratch \in [Runs -> Plan]
  /\ impact \in [Runs -> SUBSET Uids]
  /\ call \in [Runs -> Call]
  /\ calls \in [Runs -> Nat]
  /\ \A r \in Runs : calls[r] <= MaxCalls[r]
  /\ before \in [Runs -> Contents]
  /\ declined \in [Runs -> BOOLEAN]
  /\ changes \in [Runs -> Seq(Change)]
  /\ status \in [Runs -> Statuses]
  /\ row \in [Runs -> Statuses \cup {"none", "open"}]
  /\ log \in Seq(Record)
  /\ lineEnded \in BOOLEAN
  /\ lineEnded \/ log # <<>>   \* there is a line to go on with
  /\ glued \subseteq [run : Runs, to : Runs]
  /\ consents \subseteq (Runs \X Paths \X Nat)
  /\ writes \in [Runs -> Seq(Change)]

Init ==
  /\ files = [p \in Paths |-> IF p \in Existing THEN Original ELSE Absent]
  /\ phase = [r \in Runs |-> "idle"]
  /\ scratch = [r \in Runs |-> NoPlan]
  /\ impact = [r \in Runs |-> {}]
  /\ call = [r \in Runs |-> NoCall]
  /\ calls = [r \in Runs |-> 0]
  /\ before = [r \in Runs |-> Absent]
  /\ declined = [r \in Runs |-> FALSE]
  /\ changes = [r \in Runs |-> <<>>]
  /\ status = [r \in Runs |-> "failed"]
  /\ row = [r \in Runs |-> "none"]
  /\ log = <<>>
  /\ lineEnded = TRUE
  /\ glued = {}
  /\ consents = {}
  /\ writes = [r \in Runs |-> <<>>]

Goto(r, from, to) == phase[r] = from /\ phase' = [phase EXCEPT ![r] = to]

(* The tool returns to the loop, and its locals are gone. *)
ToolReturns(r) ==
  /\ call' = [call EXCEPT ![r] = NoCall]
  /\ before' = [before EXCEPT ![r] = Absent]
  /\ UNCHANGED calls

Conclude(r, s) == status' = [status EXCEPT ![r] = s]

-----------------------------------------------------------------------------
(* The orchestrator, up to the executor. *)

Start(r) ==
  /\ Goto(r, "idle", "planning")
  /\ row' = [row EXCEPT ![r] = "open"]
  /\ UNCHANGED <<files, scratch, impact, loopVars, status, logVars, consents, writes>>

(* The planner asks, or fails: its envelope is the run's. *)
PlanStops(r) ==
  /\ Goto(r, "planning", "flushing")
  /\ \E s \in {"needs_input", "failed"} : Conclude(r, s)
  /\ UNCHANGED <<files, scratch, impact, loopVars, recordVars, consents, writes>>

(* An actionable plan is left in the scratch; its seed is always in it. *)
PlanReady(r) ==
  /\ Goto(r, "planning", "reading")
  /\ \E plan \in Plan :
       /\ plan.impacted # {}
       /\ scratch' = [scratch EXCEPT ![r] = plan]
  /\ UNCHANGED <<files, impact, loopVars, status, recordVars, consents, writes>>

-----------------------------------------------------------------------------
(* The executor. *)

(* A plan without steps is a question. *)
PlanUnusable(r) ==
  /\ ~scratch[r].steps
  /\ Goto(r, "reading", "flushing")
  /\ Conclude(r, "needs_input")
  /\ UNCHANGED <<files, scratch, impact, loopVars, recordVars, consents, writes>>

(* The loop runs under the plan's impact set. *)
EnterLoop(r) ==
  /\ scratch[r].steps
  /\ Goto(r, "reading", "looping")
  /\ impact' = [impact EXCEPT ![r] = scratch[r].impacted]
  /\ UNCHANGED <<files, scratch, loopVars, status, recordVars, consents, writes>>

(* The model asks for a write; the gate asks the human. *)
Propose(r, c) ==
  /\ calls[r] < MaxCalls[r]
  /\ Goto(r, "looping", "asking")
  /\ call' = [call EXCEPT ![r] = c]
  /\ calls' = [calls EXCEPT ![r] = @ + 1]
  /\ UNCHANGED <<files, scratch, impact, before, declined, changes, status,
                 recordVars, consents, writes>>

Decline(r) ==
  /\ Goto(r, "asking", "looping")
  /\ ToolReturns(r)
  /\ declined' = [declined EXCEPT ![r] = TRUE]
  /\ UNCHANGED <<files, scratch, impact, changes, status, recordVars, consents, writes>>

Approve(r) ==
  /\ Goto(r, "asking", "checking")
  /\ consents' = consents \cup {<<r, call[r].path, calls[r]>>}
  /\ UNCHANGED <<files, scratch, impact, loopVars, status, recordVars, writes>>

-----------------------------------------------------------------------------
(* apply_change, once approved. *)

(* Slip: the impact set is not consulted. *)
OutOfScopeByPath(r) == call[r].path \in Denied

(* path_outside_scope, no_plan and outside_impact_set. *)
OutOfScope(r) == call[r].path \in Denied \/ UidOf[call[r].path] \notin impact[r]

Present(path) == files[path] # Absent

(* file_missing and file_exists. *)
WrongIntent(r) == (call[r].intent = "edit") # Present(call[r].path)

Refuse(r) ==
  /\ OutOfScope(r) \/ WrongIntent(r)
  /\ Goto(r, "checking", "looping")
  /\ ToolReturns(r)
  /\ UNCHANGED <<files, scratch, impact, declined, changes, status, recordVars, consents,
                 writes>>

(* Authorised: the file is read for before_sha. *)
ReadBefore(r) ==
  /\ ~OutOfScope(r)
  /\ ~WrongIntent(r)
  /\ Goto(r, "checking", "writing")
  /\ before' = [before EXCEPT ![r] = files[call[r].path]]
  /\ UNCHANGED <<files, scratch, impact, call, calls, declined, changes, status,
                 recordVars, consents, writes>>

NewVersion(r) == [run |-> r, n |-> calls[r]]

(* Slip: the replaced contents are not recorded. *)
BlindChange(r) ==
  [path |-> call[r].path, before |-> Absent, after |-> NewVersion(r)]

AppliedChange(r) ==
  [path |-> call[r].path, before |-> before[r], after |-> NewVersion(r)]

(* Slip: once a write was declined, no change is recorded. *)
ForgetIfDeclined(r) ==
  changes' = IF declined[r] THEN changes ELSE [changes EXCEPT ![r] = Append(@, AppliedChange(r))]

(* The step's place in the trace: _envelope_from_loop makes the list from   *)
(* the trace once the loop has ended, which gives this list.               *)
RecordChange(r) == changes' = [changes EXCEPT ![r] = Append(@, AppliedChange(r))]

CompletedWrite(r) ==
  [path |-> call[r].path, before |-> files[call[r].path], after |-> NewVersion(r)]

Write(r) ==
  /\ Goto(r, "writing", "looping")
  /\ ToolReturns(r)
  /\ files' = [files EXCEPT ![call[r].path] = NewVersion(r)]
  /\ RecordChange(r)
  /\ writes' = [writes EXCEPT ![r] = Append(@, CompletedWrite(r))]
  /\ UNCHANGED <<scratch, impact, declined, status, recordVars, consents>>

(* write_text empties the file as it opens it. *)
CutShort(r) ==
  \E left \in {Torn, files[call[r].path]} : files' = [files EXCEPT ![call[r].path] = left]

(* An OSError is returned, as path_outside_scope: no change is recorded. *)
WriteFails(r) ==
  /\ WritesMayFail
  /\ Goto(r, "writing", "looping")
  /\ ToolReturns(r)
  /\ CutShort(r)
  /\ UNCHANGED <<scratch, impact, declined, changes, status, recordVars, consents, writes>>

-----------------------------------------------------------------------------
(* The end of a run. *)

Reasons == {"answered", "max_steps", "stalled", "truncated", "declined"}

(* Slip: an answered run is ok, whatever it wrote. *)
AnsweredIsOk(r, stopped) ==
  IF stopped = "answered" THEN "ok" ELSE IF stopped = "declined" THEN "blocked" ELSE "failed"

(* _envelope_from_loop. *)
Verdict(r, stopped) ==
  LET nothing == changes[r] = <<>>
  IN  IF stopped = "declined" \/ (declined[r] /\ nothing) THEN "blocked"
      ELSE IF stopped # "answered" THEN "failed"
      ELSE IF nothing THEN "blocked" ELSE "ok"

LoopStops(r) ==
  /\ Goto(r, "looping", "flushing")
  /\ impact' = [impact EXCEPT ![r] = {}]
  /\ \E stopped \in Reasons :
       /\ stopped = "declined" => declined[r]
       /\ Conclude(r, Verdict(r, stopped))
  /\ UNCHANGED <<files, scratch, loopVars, recordVars, consents, writes>>

Line(r, readable) ==
  [run |-> r, status |-> status[r], changes |-> changes[r], readable |-> readable]

(* The last line takes more text, and no longer parses. *)
SpoilLastLine == log' = [log EXCEPT ![Len(log)].readable = FALSE]

(* flush opens the file for appending: after half a line, the record only  *)
(* makes that line longer.                                                  *)
AppendRecord(r) ==
  /\ IF lineEnded
       THEN log' = Append(log, Line(r, TRUE)) /\ glued' = glued
       ELSE SpoilLastLine /\ glued' = glued \cup {[run |-> r, to |-> log[Len(log)].run]}
  /\ lineEnded' = TRUE

(* Slip: only a run that is ok is logged. *)
FlushOk(r) ==
  /\ Goto(r, "flushing", "closing")
  /\ IF status[r] = "ok" THEN AppendRecord(r) ELSE UNCHANGED logVars
  /\ UNCHANGED <<files, scratch, impact, loopVars, status, row, consents, writes>>

Flush(r) ==
  /\ Goto(r, "flushing", "closing")
  /\ AppendRecord(r)
  /\ UNCHANGED <<files, scratch, impact, loopVars, status, row, consents, writes>>

(* The process is killed within the append: the record is cut short, or     *)
(* only its newline is missing and the line still parses.                   *)
HalfFlush(r) ==
  /\ Goto(r, "flushing", "raised")
  /\ IF lineEnded
       THEN \E readable \in BOOLEAN : log' = Append(log, Line(r, readable))
       ELSE SpoilLastLine
  /\ lineEnded' = FALSE
  /\ UNCHANGED <<files, scratch, impact, loopVars, status, row, glued, consents, writes>>

FinishRun(r) ==
  /\ Goto(r, "closing", "done")
  /\ row' = [row EXCEPT ![r] = status[r]]
  /\ UNCHANGED <<files, scratch, impact, loopVars, status, logVars, consents, writes>>

(* An exception leaves the pipeline, or the process is killed: nothing more *)
(* is recorded, and the row stays open.                                     *)
Raise(r) ==
  /\ phase[r] \notin {"idle", "done", "raised"}
  /\ Goto(r, phase[r], "raised")
  /\ ToolReturns(r)
  /\ impact' = [impact EXCEPT ![r] = {}]
  /\ IF phase[r] = "writing" /\ WritesMayFail THEN CutShort(r) ELSE files' = files
  /\ UNCHANGED <<scratch, declined, changes, status, recordVars, consents, writes>>

-----------------------------------------------------------------------------
Orchestrate(r) ==
  Start(r) \/ PlanStops(r) \/ PlanReady(r) \/ Flush(r) \/ HalfFlush(r) \/ FinishRun(r)

Execute(r) ==
  \/ PlanUnusable(r) \/ EnterLoop(r) \/ LoopStops(r)
  \/ \E c \in Call : Propose(r, c)
  \/ Approve(r) \/ Decline(r)

ApplyChange(r) == Refuse(r) \/ ReadBefore(r) \/ Write(r) \/ WriteFails(r)

AllEnded == (\A r \in Runs : phase[r] \in {"done", "raised"}) /\ UNCHANGED vars

Next ==
  \/ \E r \in Runs : Orchestrate(r) \/ Execute(r) \/ ApplyChange(r) \/ Raise(r)
  \/ AllEnded

Spec == Init /\ [][Next]_vars

-----------------------------------------------------------------------------
(* Properties. *)

(* A file is written only where the planner said so before the executor    *)
(* ran, never on the denylist, and by a call a human approved: the model    *)
(* cannot widen its own permission (executor.py, impact_scope).             *)
WritesAreAuthorised ==
  \A r \in Runs : \A i \in DOMAIN writes[r] :
    LET w == writes[r][i]
    IN  /\ w.path \notin Denied
        /\ UidOf[w.path] \in scratch[r].impacted
        /\ <<r, w.path, w.after.n>> \in consents

(* One list names the same paths and the same new contents as another.     *)
SameWrites(logged, done) ==
  /\ Len(logged) = Len(done)
  /\ \A i \in DOMAIN done :
       logged[i].path = done[i].path /\ logged[i].after = done[i].after

(* What read_runs returns: the lines that parse.                           *)
ReadRecords == {i \in DOMAIN log : log[i].readable}

(* A record of the run log lists the writes of its run, all of them, in    *)
(* the order they hit the disk, and no other: _envelope_from_loop rebuilds  *)
(* the list from the trace after the fact, whatever stopped the loop.       *)
LogIsTheRun ==
  \A i \in ReadRecords : SameWrites(log[i].changes, writes[log[i].run])

(* "so the run log records exactly what was replaced" (apply_change.py,    *)
(* T7.1c): before_sha is the hash of what the write overwrote, unless       *)
(* another process wrote the file after it was read.                        *)
RecordsWhatWasReplaced ==
  \A r \in Runs : \A i \in DOMAIN changes[r] :
    LET truth == writes[r][i]
    IN  \/ changes[r][i] = truth
        \/ truth.before = Torn
        \/ truth.before \in Version /\ truth.before.run # r

(* ok says that a file was written and that the plan was carried out under  *)
(* consent: it is never the status of a run that only answered, gave up or  *)
(* was refused (executor.py, _envelope_from_loop, decision #75).  The       *)
(* docstring of run_executor has "ok (possibly with nothing to write)"; the *)
(* code reports such a run as blocked.                                      *)
OkMeansWritten ==
  \A i \in ReadRecords : log[i].status = "ok" => writes[log[i].run] # <<>>

(* A row whose stopped column is set has its one record in the run log,     *)
(* with the same status: flush comes before finish_run, so a crash between   *)
(* them leaves an open row.  The one way to lose the record of a closed run *)
(* is the death of another within its append, whose own row stays open; and *)
(* each such death takes at most one record with it.                        *)
ClosedRowIsLogged ==
  /\ \A i, j \in ReadRecords : log[i].run = log[j].run => i = j
  /\ \A r \in Runs : row[r] \in Statuses =>
       \/ \E i \in ReadRecords : log[i].run = r /\ log[i].status = row[r]
       \/ \E g \in glued : g.run = r
  /\ \A g \in glued : row[g.to] \notin Statuses
  /\ \A g, h \in glued : g.to = h.to => g = h

(* "a half-written line must not stop the monitor from grading the rest"    *)
(* (runlog.py, read_runs): every run whose row was closed is read.          *)
EveryClosedRunIsRead ==
  \A r \in Runs : row[r] \in Statuses => \E i \in ReadRecords : log[i].run = r

(* "A refused write must leave the file BYTE-IDENTICAL" (apply_change.py):  *)
(* the working tree changes only in a step that records a change.           *)
RefusedWriteLeavesFile == [][changes' = changes => files' = files]_vars

=============================================================================
