------------------------------ MODULE EventLog ------------------------------
(***************************************************************************)
(* The demo's panel, app/server.py: two threads follow what the service    *)
(* prints and the run records it appends, add rows to one bounded log, and *)
(* the page asks again and again for the rows after the last it saw.       *)
(***************************************************************************)
EXTENDS Naturals, SequencesExt, FiniteSetsExt

CONSTANTS
  Turns,           \* what the service and the command line do, in order
  MaxEvents,       \* MAX_EVENTS: rows the log keeps
  MaxRestarts      \* bound: restarts of the demo's server

(* A turn: the message, whether the service prints it, whose run it is,     *)
(* whether the planner asked and whether the executor was handed a plan, the *)
(* tool calls of its record, and whether it has an answer.                  *)
ASSUME PanelAssumption ==
  /\ Turns \in Seq(ToSet(Turns))
  /\ \A n \in DOMAIN Turns :
       /\ Turns[n].message # <<>>
       /\ {Turns[n].live, Turns[n].orchestrated, Turns[n].answered} \subseteq BOOLEAN
       /\ {Turns[n].asked, Turns[n].handed} \subseteq {FALSE, Turns[n].orchestrated}
       /\ Turns[n].branches \in Seq({"ok", "declined", "other"})
  /\ MaxEvents \in Nat \ {0}
  /\ MaxRestarts \in Nat

(* CHANGE_PREFIX is cut off before the run is recorded. *)
ChangePrefix == "/change"
Request(turn) ==
  IF turn.orchestrated THEN SelectSeq(turn.message, LAMBDA w : w # ChangePrefix)
  ELSE turn.message

VARIABLES
  begun,           \* turns whose message is printed, if it is
  runs,            \* pieces of run records on file: two for each
  stdoutPos,       \* turns the first thread has read the line of
  runsPos,         \* pieces the second has read
  buffer,          \* pieces it keeps: a line not yet ended
  telling,         \* rows of a record it has still to add
  rows,            \* every row added since the server started (history)
  since,           \* the last row the page saw
  seen,            \* rows the page was given (history)
  tardy,           \* the page once asked when the log had dropped rows (history)
  restarts         \* (history)

tailVars == <<stdoutPos, runsPos, buffer, telling, rows>>
pageVars == <<since, seen, tardy>>
panelVars == <<begun, runs, tailVars, pageVars, restarts>>

Row == [kind : {"user", "agent", "plan", "exec", "tool", "gate", "error", "answer", "note"},
        turn : DOMAIN Turns, live : BOOLEAN]

PanelTypeOK ==
  /\ begun \in 0 .. Len(Turns)
  /\ runs \in Seq(DOMAIN Turns) /\ Len(runs) <= 2 * begun
  /\ stdoutPos \in 0 .. begun
  /\ runsPos \in 0 .. Len(runs)
  /\ buffer \in Seq(DOMAIN Turns) /\ Len(buffer) <= 1
  /\ rows \in Seq(Row) /\ telling \in Seq(Row)
  /\ since \in Nat /\ seen \subseteq Nat /\ tardy \in BOOLEAN
  /\ restarts \in 0 .. MaxRestarts

PanelInit ==
  /\ begun = 0
  /\ runs = <<>>
  /\ stdoutPos = 0
  /\ runsPos = 0
  /\ buffer = <<>>
  /\ telling = <<>>
  /\ rows = <<>>
  /\ since = 0
  /\ seen = {}
  /\ tardy = FALSE
  /\ restarts = 0

-----------------------------------------------------------------------------
(* What is followed: one worker, and a record in two writes. *)

BeginTurn ==
  /\ begun < Len(Turns)
  /\ Len(runs) = 2 * begun
  /\ begun' = begun + 1
  /\ UNCHANGED <<runs, tailVars, pageVars, restarts>>

FlushPiece ==
  /\ Len(runs) < 2 * begun
  /\ runs' = Append(runs, begun)
  /\ UNCHANGED <<begun, tailVars, pageVars, restarts>>

-----------------------------------------------------------------------------
(* The log. *)

RowOf(kind, turn, live) == [kind |-> kind, turn |-> turn, live |-> live]
Window == {s \in DOMAIN rows : s > Len(rows) - MaxEvents}

(* Slip: the page's own place is not looked at. *)
LatestRow(place) == {s \in Window : s = Len(rows)}

Since(place) == {s \in Window : s > place}

Shows(live, request) == IsPrefix(live, request) \/ IsPrefix(request, live)

TextOf(row) ==
  IF row.live THEN Turns[row.turn].message ELSE Request(Turns[row.turn])

(* Only the newest message in the log is looked at. *)
AlreadyShowedUser(request) ==
  LET users == {s \in Window : rows[s].kind = "user"}
  IN  users # {} /\ Shows(TextOf(rows[Max(users)]), request)

-----------------------------------------------------------------------------
(* The first thread: only the message's own line matters here. *)

TailServiceLog ==
  /\ stdoutPos < begun
  /\ stdoutPos' = stdoutPos + 1
  /\ rows' = IF Turns[stdoutPos'].live THEN Append(rows, RowOf("user", stdoutPos', TRUE))
             ELSE rows
  /\ UNCHANGED <<begun, runs, runsPos, buffer, telling, pageVars, restarts>>

-----------------------------------------------------------------------------
(* The second: a record's rows in the order things happened: the planner's  *)
(* envelope, its questions, the hand-over, the calls, the executor's.       *)

KindOfBranch(branch) ==
  CASE branch = "ok" -> "tool" [] branch = "declined" -> "gate" [] OTHER -> "error"

Narrative(n) ==
  LET turn == Turns[n]
      kinds == <<"agent">>
        \o (IF turn.orchestrated THEN <<"plan">> ELSE <<>>)
        \o (IF turn.asked THEN <<"gate">> ELSE <<>>)
        \o (IF turn.orchestrated /\ turn.branches # <<>> THEN <<"exec">> ELSE <<>>)
        \o [i \in DOMAIN turn.branches |-> KindOfBranch(turn.branches[i])]
        \o (IF turn.handed THEN <<"exec">> ELSE <<>>)
        \o (IF turn.answered THEN <<"answer">> ELSE <<"note">>)
  IN  [i \in DOMAIN kinds |-> RowOf(kinds[i], n, FALSE)]

(* The message first, unless the log shows it; the check and the row are    *)
(* two steps.                                                               *)
ExpandRun(n) ==
  (IF Request(Turns[n]) = <<>> \/ AlreadyShowedUser(Request(Turns[n])) THEN <<>>
   ELSE <<RowOf("user", n, FALSE)>>) \o Narrative(n)

(* A line that does not parse gets a row of its own. *)
Expand1(line) ==
  IF Len(line) = 2 /\ line[1] = line[2] THEN ExpandRun(line[1])
  ELSE <<RowOf("error", line[1], FALSE)>>

(* Slip: what was read is a line. *)
WholeChunks(pieces) == [lines |-> Expand1(pieces), rest |-> <<>>]

(* What is left after the last newline is kept. *)
KeepPartial(pieces) ==
  IF Len(pieces) = 2 THEN [lines |-> Expand1(pieces), rest |-> <<>>]
  ELSE [lines |-> <<>>, rest |-> pieces]

(* One line of a chunk at a time. *)
TailRuns ==
  /\ telling = <<>>
  /\ runsPos < Len(runs)
  /\ runsPos' = runsPos + 1
  /\ LET cut == KeepPartial(Append(buffer, runs[runsPos']))
     IN  telling' = cut.lines /\ buffer' = cut.rest
  /\ UNCHANGED <<begun, runs, stdoutPos, rows, pageVars, restarts>>

AddRow ==
  /\ telling # <<>>
  /\ rows' = Append(rows, Head(telling))
  /\ telling' = Tail(telling)
  /\ UNCHANGED <<begun, runs, stdoutPos, runsPos, buffer, pageVars, restarts>>

-----------------------------------------------------------------------------
(* The page, and a server that is started again: both threads begin at the  *)
(* end of their file, perhaps in the middle of a record, and the numbers    *)
(* begin anew, while the page keeps its place until it is loaded again.     *)

Fetch ==
  /\ Since(since) # {}
  /\ since' = Max(Since(since))
  /\ seen' = seen \cup Since(since)
  /\ tardy' = (tardy \/ Len(rows) - since > MaxEvents)
  /\ UNCHANGED <<begun, runs, tailVars, restarts>>

Reload ==
  /\ since # 0
  /\ since' = 0
  /\ seen' = {}
  /\ UNCHANGED <<begun, runs, tailVars, tardy, restarts>>

RestartServer ==
  /\ restarts < MaxRestarts
  /\ restarts' = restarts + 1
  /\ rows' = <<>>
  /\ stdoutPos' = begun
  /\ runsPos' = Len(runs)
  /\ buffer' = <<>>
  /\ telling' = <<>>
  /\ seen' = {}
  /\ UNCHANGED <<begun, runs, since, tardy>>

PanelNext ==
  \/ BeginTurn \/ FlushPiece
  \/ TailServiceLog \/ TailRuns \/ AddRow
  \/ Fetch \/ Reload \/ RestartServer

PanelSpec == PanelInit /\ [][PanelNext]_panelVars

-----------------------------------------------------------------------------
(* The rows of a log that were made from records: they are not live, and    *)
(* they are not the message itself.                                         *)
FromRecords(log) ==
  FlattenSeq([i \in DOMAIN log |->
                IF ~log[i].live /\ log[i].kind # "user" THEN <<log[i]>> ELSE <<>>])

(* As long as the server runs, the rows made from records, and those about  *)
(* to be, are the narratives of the records written so far, each once and   *)
(* in order, however the writes and reads cut them (tail_runs); and a page  *)
(* that never fell a whole log behind was given every row up to its place   *)
(* (since).                                                                 *)
PanelIsFaithful ==
  restarts = 0 =>
    /\ FromRecords(rows \o telling) = FlattenSeq([n \in 1 .. runsPos \div 2 |-> Narrative(n)])
    /\ ~tardy => seen = 1 .. since

=============================================================================
