------------------------------ MODULE Trajectory ------------------------------
(***************************************************************************)
(* The agent suite: an agent runs a scenario several times, each attempt   *)
(* ends where the loop ends it, and its calls are scored against the best  *)
(* of the routes the scenario accepts (eval/agent_metrics.py, and run_once *)
(* and evaluate of eval/run_agent_eval.py).                                *)
(***************************************************************************)
EXTENDS Naturals, SequencesExt, FiniteSetsExt

CONSTANTS
  Tools,           \* tool names
  Scenarios,       \* the scenarios
  Endings,         \* why a run may stop
  RunsPerCase,     \* RUNS_PER_CASE
  Unit,            \* what a metric of one is: every length here divides it
  MaxCalls         \* bound: calls of one attempt

(* A route is a sequence of expected tools; the arguments a call may have   *)
(* are right or wrong for it.  Gated tools run only in scenarios that allow.*)
ASSUME TrajectoryAssumption ==
  /\ \A s \in Scenarios :
       /\ s.routes \in Seq(Seq(Tools)) /\ s.routes # <<>>
       /\ s.forbidden \subseteq Tools /\ s.gated \subseteq Tools
       /\ s.stopped \subseteq Endings
       /\ s.branches \subseteq {"ok", "error", "declined"}
       /\ s.allow \in BOOLEAN
       /\ \A i \in DOMAIN s.routes : s.routes[i] # <<>> => Unit % Len(s.routes[i]) = 0
  /\ RunsPerCase \in Nat \ {0}
  /\ MaxCalls \in Nat
  /\ Unit \in Nat \ {0} /\ \A n \in 1 .. MaxCalls : Unit % n = 0

VARIABLES
  scenario,        \* the scenario being run
  made,            \* the calls of the attempt so far, with their branches
  attempts,        \* attempts ended
  scored           \* what the one that has just ended was given

trajectoryVars == <<scenario, made, attempts, scored>>

ToolCall == [tool : Tools, right : BOOLEAN, branch : {"ok", "error", "declined"}]

TrajectoryTypeOK ==
  /\ scenario \in Scenarios
  /\ made \in Seq(ToolCall) /\ Len(made) <= MaxCalls
  /\ attempts \in 0 .. RunsPerCase
  /\ scored # {} => \E a \in scored : scored = {a} /\ a.calls \in Seq(ToolCall)

TrajectoryInit ==
  /\ scenario \in Scenarios
  /\ made = <<>>
  /\ attempts = 0
  /\ scored = {}

-----------------------------------------------------------------------------
(* Alignment. *)

Larger(a, b) == IF a >= b THEN a ELSE b

(* Slip: no table, every expected call takes the next call of its name.     *)
AlignGreedily(expected, actual) ==
  LET n == Len(expected)
      m == Len(actual)
      walk[i \in 1 .. n + 1, j \in 1 .. m + 1] ==
        IF i > n \/ j > m THEN <<>>
        ELSE IF expected[i] = actual[j].tool THEN <<<<i, j>>>> \o walk[i + 1, j + 1]
        ELSE walk[i, j + 1]
  IN  walk[1, 1]

(* How far the two are: the next expected call and the next of the run. *)
Cells(expected, actual) == (1 .. Len(expected) + 1) \X (1 .. Len(actual) + 1)
Ended(expected, actual, c) == c[1] > Len(expected) \/ c[2] > Len(actual)
Same(expected, actual, c) == expected[c[1]] = actual[c[2]].tool
Down(c) == <<c[1] + 1, c[2]>>
Across(c) == <<c[1], c[2] + 1>>
Past(c) == <<c[1] + 1, c[2] + 1>>

(* The length of a longest common subsequence of the tool names from there on. *)
Table(expected, actual) ==
  LET table[c \in Cells(expected, actual)] ==
        IF Ended(expected, actual, c) THEN 0
        ELSE IF Same(expected, actual, c) THEN 1 + table[Past(c)]
        ELSE Larger(table[Down(c)], table[Across(c)])
  IN  table

(* One of them, as pairs of positions. *)
Walk(expected, actual) ==
  LET table == Table(expected, actual)
      walk[c \in Cells(expected, actual)] ==
        IF Ended(expected, actual, c) THEN <<>>
        ELSE IF Same(expected, actual, c) THEN <<c>> \o walk[Past(c)]
        ELSE IF table[Down(c)] >= table[Across(c)] THEN walk[Down(c)]
        ELSE walk[Across(c)]
  IN  walk

Align(expected, actual) == Walk(expected, actual)[<<1, 1>>]

-----------------------------------------------------------------------------
(* The metrics, in fractions of Unit; None is NotDefined. *)

NotDefined == 2 * Unit
Part(count, length) == count * (Unit \div length)
OrZero(score) == IF score = NotDefined THEN 0 ELSE score

Selection(expected, actual) ==
  IF actual = <<>> THEN IF expected = <<>> THEN NotDefined ELSE 0
  ELSE Part(Cardinality({j \in DOMAIN actual : actual[j].tool \in ToSet(expected)}), Len(actual))

Parameters(pairs, actual) ==
  IF pairs = <<>> THEN NotDefined
  ELSE Part(Cardinality({p \in ToSet(pairs) : actual[p[2]].right}), Len(pairs))

TrajectoryPrecision(expected, actual, pairs) ==
  IF actual = <<>> THEN IF expected = <<>> THEN NotDefined ELSE 0
  ELSE Part(Len(pairs), Len(actual))

TrajectoryRecall(expected, pairs) ==
  IF expected = <<>> THEN Unit ELSE Part(Len(pairs), Len(expected))

(* Where the run ended, what its answer says and which guards it met. *)
GoalCompletion(s, actual, stopped, fits) ==
  /\ s.stopped # {} => stopped \in s.stopped
  /\ fits
  /\ s.branches # {} => \E j \in DOMAIN actual : actual[j].branch \in s.branches

ScoreAgainst(s, route, actual, stopped, fits) ==
  LET pairs == Align(route, actual)
  IN  [route |-> route, pairs |-> pairs,
       selection |-> Selection(route, actual), parameters |-> Parameters(pairs, actual),
       precision |-> TrajectoryPrecision(route, actual, pairs),
       recall |-> TrajectoryRecall(route, pairs),
       goal |-> GoalCompletion(s, actual, stopped, fits)]

(* _passed *)
Meets(scores) == scores.goal /\ scores.recall = Unit /\ scores.parameters >= Unit

(* _rank: a route that passes, then the better scores. *)
Outranks(a, b) ==
  LET total(x) == x.recall + OrZero(x.precision)
  IN  \/ Meets(a) /\ ~Meets(b)
      \/ /\ Meets(a) <=> Meets(b)
         /\ \/ total(a) > total(b)
            \/ total(a) = total(b) /\ OrZero(a.parameters) > OrZero(b.parameters)

(* Slip: a forbidden call is no veto. *)
NeverForbidden(s, actual) == FALSE

ForbiddenCalled(s, actual) == \E j \in DOMAIN actual : actual[j].tool \in s.forbidden

(* Slip: only the route listed first counts. *)
FirstRoute(candidates) == candidates[1]

(* The first of the routes that no other outranks, as the loop finds it. *)
BestRoute(candidates) ==
  LET best[i \in DOMAIN candidates] ==
        IF i = 1 THEN candidates[1]
        ELSE IF Outranks(candidates[i], best[i - 1]) THEN candidates[i]
        ELSE best[i - 1]
  IN  best[Len(candidates)]

ScoreCase(s, actual, stopped, fits) ==
  LET best == BestRoute([i \in DOMAIN s.routes |->
                           ScoreAgainst(s, s.routes[i], actual, stopped, fits)])
  IN  [scores |-> best, passed |-> Meets(best) /\ ~ForbiddenCalled(s, actual),
       calls |-> actual, stopped |-> stopped, fits |-> fits]

-----------------------------------------------------------------------------
(* The suite. *)

Call(tool, right, branch) ==
  /\ attempts < RunsPerCase
  /\ Len(made) < MaxCalls
  /\ tool \in scenario.gated => (branch = "declined" <=> ~scenario.allow)
  /\ tool \notin scenario.gated => branch # "declined"
  /\ made' = Append(made, [tool |-> tool, right |-> right, branch |-> branch])
  /\ scored' = {}
  /\ UNCHANGED <<scenario, attempts>>

(* The run ends; whether its answer has the phrases asked for is open.      *)
EndRun(stopped, fits) ==
  /\ attempts < RunsPerCase
  /\ attempts' = attempts + 1
  /\ scored' = {ScoreCase(scenario, made, stopped, fits)}
  /\ made' = <<>>
  /\ UNCHANGED scenario

TrajectoryNext ==
  \/ \E t \in Tools, right \in BOOLEAN, b \in {"ok", "error", "declined"} : Call(t, right, b)
  \/ \E stopped \in Endings, fits \in BOOLEAN : EndRun(stopped, fits)

TrajectorySpec == TrajectoryInit /\ [][TrajectoryNext]_trajectoryVars

-----------------------------------------------------------------------------
(* The route's calls at these positions occur in this order among these     *)
(* calls of the run.                                                        *)
Occurs(positions, route, actual, among) ==
  \E at \in [positions -> among] :
    \A i \in positions :
      /\ actual[at[i]].tool = route[i]
      /\ \A h \in positions : h < i => at[h] < at[i]

(* A pass is earned: the run did, in order and with the right arguments,    *)
(* everything one accepted route asks for, called nothing forbidden and     *)
(* ended where the scenario says; a run that did exactly that is never      *)
(* failed for being on the second route; and no alignment is longer than    *)
(* the one reported, so one extra call is never two failures (score_case,   *)
(* align, _passed, forbidden_called).                                       *)
PassIsEarned ==
  \A a \in scored :
    LET proper == /\ a.fits
                  /\ scenario.stopped # {} => a.stopped \in scenario.stopped
                  /\ scenario.branches # {} =>
                       \E j \in DOMAIN a.calls : a.calls[j].branch \in scenario.branches
                  /\ \A j \in DOMAIN a.calls : a.calls[j].tool \notin scenario.forbidden
        right == {j \in DOMAIN a.calls : a.calls[j].right}
        routes == ToSet(scenario.routes)
    IN  /\ a.passed => proper /\ \E r \in routes : Occurs(DOMAIN r, r, a.calls, right)
        /\ /\ proper
           /\ right = DOMAIN a.calls
           /\ [j \in DOMAIN a.calls |-> a.calls[j].tool] \in routes
           => a.passed
        /\ \A p \in SUBSET DOMAIN a.scores.route :
             Occurs(p, a.scores.route, a.calls, DOMAIN a.calls) => Cardinality(p) <= Len(a.scores.pairs)
=============================================================================
