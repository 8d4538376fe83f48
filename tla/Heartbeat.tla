------------------------------ MODULE Heartbeat ------------------------------
(***************************************************************************)
(* The monitor's clock, triggers/heartbeat.py, with the grading of         *)
(* monitor/judge.py: read the run log, read the watermark, grade what is   *)
(* new, move the watermark, and only then report.  The service's clock and *)
(* a manual tick are two processes over the same two files.                *)
(***************************************************************************)
EXTENDS Naturals, SequencesExt, FiniteSetsExt

CONSTANTS
  Beats,           \* processes that run a pass
  Threshold,       \* threshold
  Proposals,       \* what the judge model may say of a run
  MaxRuns,         \* bound: lines in the run log
  MaxStopped       \* bound: passes that stop in the middle

(* What the judge model proposes about a run: its violations, a grounding   *)
(* label, a rationale for the label; or a reply that does not parse.        *)
Violation == [rationale : BOOLEAN, inContext : BOOLEAN, severity : {"minor", "serious"}]
Proposal ==
  [parsed : BOOLEAN, violations : {v \in SUBSET Violation : Cardinality(v) <= 1},
   grounding : {"grounded", "ungrounded"}, groundingRationale : BOOLEAN]

ASSUME BeatAssumption ==
  /\ Threshold \in Nat \ {0}
  /\ Proposals \subseteq Proposal
  /\ MaxRuns \in Nat
  /\ MaxStopped \in Nat

-----------------------------------------------------------------------------
(* The verdict: the model proposes, the code decides. *)

(* Slip: whatever the judge lists is kept. *)
EveryViolation(raw) == raw.violations

(* _has_rationale: what was expected and what was observed. *)
Backed(raw) == {v \in raw.violations : v.rationale}

Kept(raw) == {v \in Backed(raw) : v.inContext}
AssemblerGaps(raw) == {v \in Backed(raw) : ~v.inContext}

Adherence(raw) ==
  IF \E v \in Kept(raw) : v.severity = "serious" THEN "serious_violation"
  ELSE IF Kept(raw) # {} THEN "minor_violation" ELSE "strictly_adheres"

(* A downgrade without a rationale is not believed. *)
Grounding(raw) ==
  IF raw.grounding # "grounded" /\ ~raw.groundingRationale THEN "grounded" ELSE raw.grounding

Verdict(raw) ==
  IF raw.parsed
    THEN [adherence |-> Adherence(raw), grounding |-> Grounding(raw), kept |-> Kept(raw),
          gaps |-> AssemblerGaps(raw), gradeable |-> TRUE]
    ELSE [adherence |-> "ungraded", grounding |-> "ungraded", kept |-> {}, gaps |-> {},
          gradeable |-> FALSE]

IsProblem(verdict) ==
  \/ verdict.kept # {}
  \/ verdict.gaps # {}
  \/ verdict.adherence = "serious_violation"
  \/ verdict.grounding = "ungrounded"

-----------------------------------------------------------------------------
VARIABLES
  runLog,          \* the lines of the run log; a record's run_id is its line
  halfLine,        \* the last line has no end: its writer stopped
  watermark,       \* last_run_id; 0: none, or a file that does not parse
  pass,            \* where each process is in run_once
  runs,            \* what its read_runs returned
  pending,         \* what it found unjudged
  found,           \* the problem verdicts of its grading, with their proposals
  judged,          \* runs judged, with what the judge said (history)
  told,            \* problems posted (history)
  lost,            \* problems whose pass stopped before it posted (history)
  stopped          \* passes that stopped in the middle (history)

beatVars ==
  <<runLog, halfLine, watermark, pass, runs, pending, found, judged, told, lost, stopped>>

RunIds == 1 .. MaxRuns
Finding == RunIds \X Proposals

BeatTypeOK ==
  /\ runLog \in Seq({"record", "half"})
  /\ halfLine \in BOOLEAN
  /\ watermark \in 0 .. MaxRuns
  /\ pass \in [Beats -> {"idle", "read", "grading", "graded", "reporting"}]
  /\ runs \in [Beats -> SUBSET RunIds]
  /\ pending \in [Beats -> SUBSET RunIds]
  /\ found \in [Beats -> SUBSET Finding]
  /\ judged \cup told \cup lost \subseteq Finding
  /\ stopped \in 0 .. MaxStopped

BeatInit ==
  /\ runLog = <<>>
  /\ halfLine = FALSE
  /\ watermark = 0
  /\ pass = [b \in Beats |-> "idle"]
  /\ runs = [b \in Beats |-> {}]
  /\ pending = [b \in Beats |-> {}]
  /\ found = [b \in Beats |-> {}]
  /\ judged = {}
  /\ told = {}
  /\ lost = {}
  /\ stopped = 0

-----------------------------------------------------------------------------
(* The run log: appended by every run, read by every pass. *)

beatBooks == <<watermark, pass, runs, pending, found, judged, told, lost, stopped>>

(* A record appended to a half line is part of a line that does not parse.  *)
Flush ==
  /\ Len(runLog) < MaxRuns
  /\ runLog' = IF halfLine THEN runLog ELSE Append(runLog, "record")
  /\ halfLine' = FALSE
  /\ UNCHANGED beatBooks

(* The process of a run stops within the write. *)
HalfFlush ==
  /\ Len(runLog) < MaxRuns
  /\ ~halfLine
  /\ runLog' = Append(runLog, "half")
  /\ halfLine' = TRUE
  /\ UNCHANGED beatBooks

ReadRuns == {r \in DOMAIN runLog : runLog[r] = "record"}

-----------------------------------------------------------------------------
(* One pass. *)

logVars == <<runLog, halfLine>>

Read(b) ==
  /\ pass[b] = "idle"
  /\ runs' = [runs EXCEPT ![b] = ReadRuns]
  /\ pass' = [pass EXCEPT ![b] = "read"]
  /\ UNCHANGED <<watermark, pending, found, judged, told, lost, stopped, logVars>>

(* A watermark that is not among the records leaves everything unjudged. *)
Unjudged(records, mark) ==
  IF mark \in records THEN {r \in records : r > mark} ELSE records

(* Slip: a backlog must exceed the threshold. *)
TooFew(new) == Cardinality(new) <= Threshold

BelowThreshold(new) == Cardinality(new) < Threshold

Consider(b) ==
  /\ pass[b] = "read"
  /\ LET new == Unjudged(runs[b], watermark)
     IN  IF BelowThreshold(new)
           THEN pass' = [pass EXCEPT ![b] = "idle"] /\ UNCHANGED pending
           ELSE /\ pass' = [pass EXCEPT ![b] = "grading"]
                /\ pending' = [pending EXCEPT ![b] = new]
  /\ UNCHANGED <<watermark, runs, found, judged, told, lost, stopped, logVars>>

Verdicts(says) == {<<r, says[r]>> : r \in DOMAIN says}

Grade(b) ==
  /\ pass[b] = "grading"
  /\ \E says \in [pending[b] -> Proposals] :
       /\ found' = [found EXCEPT ![b] = {f \in Verdicts(says) : IsProblem(Verdict(f[2]))}]
       /\ judged' = judged \cup Verdicts(says)
  /\ pass' = [pass EXCEPT ![b] = "graded"]
  /\ UNCHANGED <<watermark, runs, pending, told, lost, stopped, logVars>>

(* Slip: the newest record now, not the newest that was read. *)
NewestNow(b) == Max(ReadRuns)

Newest(b) == Max(runs[b])

Advance(b) ==
  /\ pass[b] = "graded"
  /\ watermark' = Newest(b)
  /\ pass' = [pass EXCEPT ![b] = "reporting"]
  /\ UNCHANGED <<runs, pending, found, judged, told, lost, stopped, logVars>>

Idle(b) ==
  /\ pass' = [pass EXCEPT ![b] = "idle"]
  /\ runs' = [runs EXCEPT ![b] = {}]
  /\ pending' = [pending EXCEPT ![b] = {}]
  /\ found' = [found EXCEPT ![b] = {}]

(* Slip: a pass with any clean run is a clean pass. *)
ReportWhenAllBad(b) ==
  /\ pass[b] = "reporting"
  /\ told' = IF Cardinality(found[b]) = Cardinality(pending[b]) THEN told \cup found[b] ELSE told
  /\ Idle(b)
  /\ UNCHANGED <<watermark, judged, lost, stopped, logVars>>

(* The problems are posted, or a heartbeat_clean row says there were none.  *)
Report(b) ==
  /\ pass[b] = "reporting"
  /\ told' = told \cup found[b]
  /\ Idle(b)
  /\ UNCHANGED <<watermark, judged, lost, stopped, logVars>>

(* The judge, the file, the post or the process fails: the pass is gone,    *)
(* and a watermark it was writing may not parse.                            *)
StopPass(b) ==
  /\ pass[b] # "idle"
  /\ stopped < MaxStopped
  /\ stopped' = stopped + 1
  /\ lost' = lost \cup found[b]
  /\ watermark' \in IF pass[b] = "graded" THEN {watermark, 0} ELSE {watermark}
  /\ Idle(b)
  /\ UNCHANGED <<judged, told, logVars>>

Pass(b) == Read(b) \/ Consider(b) \/ Grade(b) \/ Advance(b) \/ Report(b)

BeatNext ==
  \/ Flush
  \/ HalfFlush
  \/ \E b \in Beats : Pass(b) \/ StopPass(b)

BeatSpec == BeatInit /\ [][BeatNext]_beatVars

-----------------------------------------------------------------------------
Graded == {f[1] : f \in judged}

InHand == UNION {found[b] : b \in Beats}

(* The watermark never passes a run nobody judged, with two clocks, torn    *)
(* watermarks and stopped passes; and a run that was graded a problem is    *)
(* posted, about to be, or went with a pass that stopped (run_once).        *)
NothingSlipsPast ==
  /\ \A r \in ReadRuns : r <= watermark => r \in Graded
  /\ \A f \in judged : IsProblem(Verdict(f[2])) => f \in told \cup lost \cup InHand

(* What people are told about a run rests on a rationale: a violation with  *)
(* what was expected and what was observed, or a grounding label with one.  *)
EveryReportIsBacked ==
  \A f \in told \cup InHand :
    LET raw == f[2]
    IN  /\ raw.parsed
        /\ \/ \E v \in raw.violations : v.rationale
           \/ raw.grounding = "ungrounded" /\ raw.groundingRationale

(* What the monitor says is all there is to say and nothing it made up.     *)
MonitorIsFaithful == NothingSlipsPast /\ EveryReportIsBacked

(* A backlog of the threshold's size is judged, in spite of what stops.     *)
BacklogIsGraded ==
  \A r \in RunIds :
    (r \in ReadRuns /\ Cardinality({q \in ReadRuns : q >= r}) >= Threshold) ~> (r \in Graded)

=============================================================================
