# RADF, a TLA+ verification development

RADF answers questions about a repository in a chat and, on request, changes
the repository. A message comes in over Telegram, waits in a queue, and is
handled by one worker. A question is answered with read-only tools; a `/change`
goes through a planner and an executor, and each write waits for a "yes" in the
chat. Around this run a push watcher, a heartbeat that grades past runs, a
harness that grades answers, and the stores: a SQLite overlay, a JSON memory, a
JSON graph, and a Postgres index.

This directory holds TLA+ models of that code, TLC configurations that check
them on small instances, and TLAPS proofs. `PROJECT.json` names, for each
definition, the source lines it stands for; for each run, what it checks; for
each hazard, the properties that would catch it. Paths below are relative to
the repository (`src/` in `PROJECT.json`).

## 1. Inventory

| part | code | state | operations | talks to |
|---|---|---|---|---|
| approval gate | `agentlib/approval.py` | `_pending`, `_answer` under a condition | `_ask`, `submit_answer`, `cancel` | called by the worker (through the loop), the reader (through the queue) and main; sends through the channel |
| work queue | `channel/queue.py`, `channel/base.py` | `_items`, `_closed` under a condition; `_stop` | `submit`, `take`, `close`, `Worker.run` | reads `gate.pending`; hands answers to the gate |
| service | `service.py` | three threads | `pump`, the handler's turn, the shutdown in `main` | owns queue, gate, channel |
| agent loop | `agentlib/graph.py`, `graph_state.py`, `guards.py`, `loop.py` | one state dict per run | agent node, tools node | the model (external), tools, the approve callback |
| change pipeline | `orchestrator.py`, `agents/executor.py`, `tools/apply_change.py`, `agentlib/session.py`, `agentlib/runlog.py` | run row, scratch, ambient impact set, the working tree, `runs.jsonl` | plan, hand over, execute, write, flush, close | loop, overlay, file system |
| planner | `agents/planner.py`, `tools/graph_query.py` | none of its own | seed, impact walk, decision lookups, conflict check | graph file, overlay |
| Telegram transport | `channel/telegram.py` | update offset, in memory and in a file | `poll`, `send` | Telegram (external) |
| identity, silence | `channel/identity.py`, `channel/silence.py` | allowlist | resolve, evaluate | overlay |
| webhook, orphan watch | `triggers/webhook.py`, `triggers/orphan_watch.py` | orphan watermark | accept a push; scan, diff, report | queue, graph, overlay, channel |
| graph store | `tools/repo_scan.py`, `graph_write.py`, `tools/decisions.py`, `overlay/uid.py` | one JSON file | scan, migrate, prune, verify | planner, orphan watch |
| heartbeat, monitor | `triggers/heartbeat.py`, `monitor/judge.py` | run watermark | grade the backlog, report | run log, model |
| decision store | `overlay/db.py`, `tools/decisions.py` | SQLite tables | insert, query, import, silences, runs, scratch | everything |
| memory store | `overlay/memory.py`, `tools/memory_tools.py` | one JSON file | save, promote, retrieve, mark used | context, tools |
| node summaries | `overlay/summarize.py` | rows in the overlay | summarise what changed | graph, model |
| retrieval | `retrieval/` | Postgres table, caches | index, replace, search, fuse, rerank, pack | Postgres and the models (external) |
| evaluation | `eval/` | response cache | judged metrics, agent suite, rank metrics | retrieval, loop, model |
| demo panel | `app/server.py` | event log, two file positions | tail, append, poll | the service's log and `runs.jsonl` |
| admin path, context, model client, tracing, entry points | the rest | little or none | | |

How the parts meet. The **reader thread** polls the channel and calls
`submit`; `submit` first offers the message to the gate, then, under the
queue's lock, reads whether a gate is open. The **worker thread** takes events
one by one and, inside a `/change`, blocks in the gate. The **main thread**
watches the reader and, at shutdown, cancels the gate, stops the worker and
closes the queue. Two locks (queue, gate) are never held in opposite orders:
only `submit` takes the gate's lock under the queue's. **Processes** (the
service, an `orchestrator` on the command line, the heartbeat, an indexer, an
evaluation, the demo) share the files, the SQLite database and Postgres; only
the databases lock anything, and each statement commits on its own.

What is hard, and what makes each part correct:

* **The gate.** An answer and a timeout, an answer and a cancel, a send that
  raises between setting `_pending` and waiting. Correct when a call returns
  True only if its own requester said yes, in its own thread, while that call
  was the pending one.
* **The queue.** Merge, drop, refuse and close in the right order of checks.
  Correct when a person's message is never lost or overtaken, an accepted push
  stays covered by one at least as new, and redundant work does not pile up.
* **The service.** Two locks, three threads, exceptions in each, shutdown at
  any point. Correct when a write has consent from an allowlisted requester,
  each message is used once, every admitted message has its turn, an open gate
  is released, and a shutdown ends.
* **The loop.** A model that repeats itself, repeats a refused call, is cut
  off, or raises. Correct when no call has its effect twice, a person decides
  each call once, the trace is what ran, and it ends.
* **The change pipeline.** A hash read and a write in two steps, several
  processes, a failing disk, a crash anywhere, and a status computed after the
  fact. Correct when each write was planned, permitted and consented to, and
  when log, row and status agree with what happened.
* **Watermarks and offsets** (Telegram, orphan watch, heartbeat): advanced
  before the work they stand for is delivered. Correct when what they skip is
  exactly what a stop took along, and nothing is done twice without cause.
* **JSON stores**: load, change, save without a lock, through one `.tmp` name.
  Correct when one writer alone never loses or tears anything, and a memory is
  trusted only for what people said of it.
* **Visibility**: who is handed which decision, while rows change between the
  queries of one turn; and what a silence row gives away.
* **Cards and index**: two commits where readers rely on one.
* **Planner**: a bounded walk over a graph that changes under it, whose result
  is also what may be written.
* **Search and evaluation**: positions used as identities (re-ranking verdicts,
  cached judgements), alignments, and labels a model proposes and the code
  decides.

## 2. Plan

In the order of what matters most: what can write to a repository first, then
what can lose or leak something, then what measures.

| # | modules | composes, refines | checked | proved |
|---|---|---|---|---|
| 1 | `Approval`, `ChannelGate` | ChannelGate implements Approval | all | all safety, the refinement's safety part |
| 2 | `WorkQueue` | | all | all safety |
| 3 | `Service` | ChannelGate and WorkQueue | all | all safety that holds; that it runs a gate and a queue |
| 4 | `RunContract`, `AgentLoop` | AgentLoop implements RunContract | all | all safety, the refinement's safety part |
| 5 | `ChangePipeline` | the calls of one tool of AgentLoop | all | all |
| 6 | `TelegramPoll`, `Heartbeat` | side by side in `Loops` | all | all safety |
| 7 | `GraphStore`, `OrphanWatch` | OrphanWatch extends GraphStore | all | all |
| 8 | `MemoryStore`, `Overlay`, `Corpus`, `Planner` | with 7 and 9 side by side in `Knowledge` | all | all |
| 9 | `Judging` | | all | all |
| 10 | `EventLog`, `Trajectory`, `Ranking` | | all | all |

Every invariant and every action property a passing run checks is proved for
every value of the constants; the liveness properties are left to TLC
(section 5). What could follow is breadth rather than depth: the parts that
`PROJECT.json` lists as not modelled or modelled in part.

## 3. Modules

A definition whose comment begins with "Slip:" is not part of a specification:
it is a plausible mistake in the definition that follows it, kept to show that
the properties would notice it. The `MC*` modules only name the values of the
constants.

### What can write

**`ChannelGate`** (`agentlib/approval.py`). One action per critical section of
the condition variable and one per send, since sends are outside the lock.
`asker` says where the worker is in `_ask`: `prompting` (`_pending` is set, the
prompt is being sent), `waiting`, `reporting` (the result is being sent).
`Ask`, `PromptSent`/`PromptRaises`, `Wake`/`TimeOut`, `Report`/`ReportRaises`
are the worker's; `SubmitAnswer` the reader's; `Cancel` main's. A word is
affirmative, negative, or neither; the clock is a nondeterministic `TimeOut`.
`asked`, `heard`, `outcome`, `cancelled` and `abandoned` are history.

**`Approval`** is the contract without threads: open a call, consent to it,
settle it; only a consented call is approved.

**`WorkQueue`** (`channel/queue.py`). `Submit` is `submit` after the gate
declined the message: `Reject` for the reasons in the code's order, else `Drop`
(a heartbeat behind a heartbeat), `Coalesce` (a push replaces the waiting push
of its key, in place), or `Enqueue`; then `Take` and `Close`. Whether a gate
is open is a parameter, so the module stands alone. It promises nothing about
eventually: whether what waits is taken depends on the worker, which leaves
when the queue is closed, and is `Service`'s to say.

**`Service`** (`service.py`, `Worker.run`) extends both modules and takes their
actions as parts of its own, so that the invariants proved of gate and queue
are at hand; their `GateSpec` and `QueueSpec` are what it is shown to run.
`submit` is three steps, since the gate's lock and the queue's are
taken one after the other: `PollAnswer` or `PollRequest`; `ReadGate`; `Admit`.
`QueueLockFree` keeps `Take` and `Close` out while `submit` holds the queue's
lock. A turn is the gates it opens and how it ends; the silence check and the
read-only agent end in `FinishTurn`. `SendMayRaise` is a channel whose `send`
raises inside a gate, `ReaderMayRaise` one whose `poll` or `send` raises in the
reader: `telegram.py` catches URLError, TimeoutError, OSError and
RuntimeError, and not a truncated or malformed body.

**`AgentLoop`** (`agentlib/graph.py`, `guards.py`). `Answer`, `Truncate`,
`CallTools` are the agent node on whatever the model replies; the tools node
takes the calls of the batch one at a time through the stall guard, the
validation, the gate and the tool, and `EndBatch` counts the step and tests the
ceiling. A call is a model value, its name and arguments together, as
`call_signature` makes it. Termination is protected twice: by the ceiling, and
by the stall guard over any finite set of calls.

**`RunContract`**: a call gets one verdict, it runs or it is refused; nothing
happens after the end; the run ends.

**`ChangePipeline`** (`orchestrator.py`, `executor.py`, `apply_change.py`).
Several runs, each a process of its own, over one working tree. `Start` opens
the row; the planner stops or leaves a plan in the scratch; the executor takes
it as its ambient impact set; `Propose`, `Approve`/`Decline` are the loop's
calls of `apply_change`; `Refuse`, `ReadBefore`, `Write`, `WriteFails` are the
tool's body, in which the hash is read in one step and the file written in the
next. `LoopStops` computes the status as `_envelope_from_loop` does; the list
of changes, which that function makes from the trace when the loop has ended,
grows with the trace instead (`RecordChange`), to the same list. `Flush`
precedes `FinishRun`. A line of the log is `readable` or not: `HalfFlush` is the
death of a process within its append, and a `Flush` after it makes that line
longer instead of adding one (`glued` remembers whose record went where).
`Raise` is an exception or a kill, anywhere else. File contents
are versions, `UidOf` is `resolve_uid`, which maps several paths to one uid.

**`Planner`** (`agents/planner.py`, `query_component_graph`). `RunPlanner`
picks the seed from the hint, the model's reply or the search's best candidate;
`VerifySeed`, one `Expand` per component of the frontier, `NextHop`, one
`ReadDecisions` per impacted component and `AssemblePlan` follow. Every
`Expand` reads the graph file as it then is, `Rescan` and `RecordRuling` change
it and the decisions between any two reads.

### What never ends

**`TelegramPoll`** (`channel/telegram.py`). `sent` is what the server holds,
`forgotten` what an offset acknowledged. `GetUpdates` is one successful
request, which saves the offset (or fails to) before anything of the page is
yielded; `TransportError` a failed one, before or after the server saw it;
`Yield` hands over one update or passes over one that is not an event; `Stop`
is a crash or an uncaught exception, within a save too, and `Restart` loads the
file.

**`Heartbeat`** (`triggers/heartbeat.py`, `monitor/judge.py`). The run log is
written in whole or half lines (`Flush`, `HalfFlush`); a half line and what is
glued to it do not parse and are passed over. `Read`, `Consider` (the
watermark and the threshold), `Grade`, `Advance`, `Report` are the steps of a
pass, and two clocks run passes at once. `Verdict` is the code's half of the
judgement: what the model proposes counts as far as it has a rationale.

**`Loops`** puts the two side by side: `part` picks one, the other stays where
it began, and TLC explores each in full under one fairness condition.

### What the agents know, and what measures them

**`GraphStore`** holds the graph as a value: which nodes and edges a scan makes
of a tree, under the depth and kind limits, what a prune removes, and which
decisions the integrity check calls orphaned.

**`OrphanWatch`** (`triggers/webhook.py`, `triggers/orphan_watch.py`). A
delivery gets its status code and perhaps a place in the queue
(`DoPost`), where a newer push replaces a waiting one; `Take` rescans;
`Migrate`, `SaveGraph`, `Verify`, `SaveWatermark`, and one `Surface` per
message follow. Another process may scan, prune, record a decision or tear the
graph file between any two of these; the worker may crash, or a step raise,
anywhere. The rescan of a push looks `ScanMaxDepth` deep, another's as deep as
its caller says (`Depths`), up to `MaxDepthCeiling`.

**`MemoryStore`** (`overlay/memory.py`). An operation loads the file (`Save`,
`Confirm`, `MarkFound`), then `Open`, `Write` and `Rename` the shared `.tmp`;
a retrieval loads it twice, to search (`Recall`) and again to mark what it
found, which another writer may have changed or removed by then. A
writer whose `.tmp` was renamed by another still has it open: `handle` tells
whether it is now writing to the file itself. `Die` stops a writer anywhere.
The embedding of a query is abstracted to its set of cues.

**`Overlay`** (`overlay/db.py`, `channel/identity.py`, `channel/silence.py`). A
turn resolves its user, checks for silence, records it or assembles the
decisions and answers; other processes append and import. Each query is a step,
since each commits on its own.

**`Corpus`** (`overlay/summarize.py`, `retrieval/index.py`, `store.py`,
`search.py`, `chunker.py`). A summariser writes the module card and then the
symbol cards; indexers build chunks, `Truncate`, then `UpsertChunks`; a search
reads the table once for each arm. Chunk ids are what they identify.

**`EventLog`** (`app/server.py`). Pieces of the service's output and of the run
records reach their files in any cut; two tailers keep what is incomplete,
turn lines into rows and append them to a log of bounded length (`Narrative`:
the planner's plan and questions, the hand-over, the calls, the executor's end,
as far as the run got); the page asks for what follows the last row it saw. `RestartServer` starts it all anew.

**`Judging`** (`eval/run_gen_eval.py`, `answer.py`, `generation_metrics.py`,
`cache.py`). A case retrieves, answers and asks the judge, each call looked up
in a cache that evaluators share (`GetCall`, `Ask`, `Receive`); `Reindex`
changes passages under their ids.

**`Trajectory`** (`eval/agent_metrics.py`, `eval/run_agent_eval.py`). An
attempt is a sequence of calls and an ending; `Table` and `Walk` are the two
loops of `align` over cells of the table, `BestRoute` the loop over the routes,
`Meets` the verdict, `ScoreCase` all of it. Whether a call's arguments are
`right` is a property of the call; the code asks it of a call and an expected
position, which differs only for a route that expects one tool twice with
different arguments, and `agent_cases.json` has none. Scores are fractions of `Unit`. The
property states the alignment independently: positions of the route that occur
in order among the calls.

**`Ranking`** (`retrieval/fuse.py`, `search.py`, `rerank.py`,
`eval/retrieval_metrics.py`). Both arms are arbitrary rankings of arbitrary
subsets; fusion adds weighted reciprocal ranks as exact fractions of `RrfUnit`;
a re-ranker answers from its cache, from the model, or not at all; packing and
the metrics read the result. Each of the code's sorts is `Ordered`: the
sequence of a set's members in a given order.

**`Knowledge`** puts these eight and the planner side by side as `Loops` does.
They share no variable in the models: where the code has a link (the planner
reads what a scan wrote, the index what the summariser wrote), the reading
module has the other's effect as actions of its own.

## 4. Runs

Passing:

| run | shows | bounds |
|---|---|---|
| `channel` | gate: in every interleaving of `_ask`, `submit_answer` and `cancel`, with sends that raise: only the requester approves, bystanders are ignored, the gate closes, and it implements Approval. Queue: nothing human is lost or reordered, coalescing covers the push it replaces, no redundant work. A behaviour follows one of the two | 2 calls (an answer meant for the first can reach the second), 2 people in 2 threads (each mismatch alone and together), 2 answers per call (an overwrite); 5 events and 2 keys against a queue of 3: it fills, and a merge can have an event on either side |
| `service_safety` | writes are consented by a writer, a message is used once, an event taken has its turn | 3 messages, 2 gates, a queue of 1, a writer and a stranger, raising sends |
| `service_live` | when the sends of an open gate do not raise, it is released; every admitted message gets its turn; shutdown ends, begun by an operator or a dead reader | one user, the two words that matter, a reader that may die, 3 messages |
| `agent_loop` | nothing runs twice, a person decides once (and without a callback no gated tool is entered), the trace is the run and its stop reason is true, RunContract is implemented | 3 steps of up to 2 calls out of 4, so that a repeat inside a batch, across batches, and after a refusal all occur |
| `change_pipeline` | writes are planned, off the denylist and consented to; the log lists what was written; a recorded hash is stale only through another process's write; `ok` means written; a closed row is logged once and with its status, or its record went with a process that died appending, one for each | 2 processes of 2 and 1 calls (the second call follows a write, a refusal or a decline; the other process fits between hash and write), 3 paths of which 2 share a uid, failing disk, crash anywhere, within the append too |
| `loops` | the poll repeats a message only when its offset never reached the file and loses one only with the process; every message arrives; the heartbeat's watermark passes nothing unjudged, posts every problem it found and none without a rationale; a backlog gets graded | 3 messages in pages of 2, 2 stops (the second can hit the recovery from the first), a chat that is not allowed; 3 run records against a threshold of 2, 2 clocks, one stopped pass |
| `knowledge` | nine parts, one property or two each, below | below |

`knowledge`, part by part:

| part | property | bounds |
|---|---|---|
| watch | OrphansToldOnce, QuietMeansChecked, LegacySurvives | 2 files, one importing the other, the other just below the depth a push scans to and above what a scan may be asked for; every tree over them (gone, parses, broken); one branch, so that a push meets a waiting one |
| memory | NothingLostAlone, AcceptedIsEarned | 2 writers, 3 operations: a third can follow a lost update, or overlap the tail of two others |
| overlay | PrivateStaysPrivate, ImportedOnce | 2 users and the anonymous one, 2 decisions, a component and the whole repository, 2 importers |
| corpus | CorpusIsCoherent | 2 indexers, 2 builds, 2 versions of the source, a declared and an invented symbol, a search |
| planner | PlanIsSound | 3 components, 4 graphs (a chain, a shorter one, a cycle, a dangling edge) and an unreadable file, caps 1 and 2, one rescan during the walk |
| panel | PanelIsFaithful | 3 turns (a change the planner asks about, one carried out, a question), every cut of their output into pieces, a log shorter than what they print, one restart |
| judging | VerdictsAreChecked | 2 evaluators, 2 passages, 2 cases, 2 versions of the corpus |
| trajectory | PassIsEarned | runs of up to 3 calls of 3 tools against 4 scenarios (2 routes, none, a repeated tool, a call that must be declined) |
| ranking | SearchIsFaithful | 3 documents, every ranking of every subset in both arms, 2 queries (the second may find the first one's verdicts) |

Runs that TLC finds violated, each a claim in the repository that the code
does not keep (see "findings" in `PROJECT.json` for the quoted line):

| run | claim | what happens |
|---|---|---|
| `shutdown_consent` | a pending gate is abandoned as declined | a "yes" after `cancel` and before the worker wakes overwrites the False |
| `gate_leak` | while a gate is pending the worker is parked | the prompt's send raises; `_pending` stays set |
| `half_line_swallows_record` | a half-written line does not stop the rest from being graded | the next record is appended to the half line, and neither is read |
| `refused_write_tears_file` | a refused write leaves the file byte-identical | a disk error after the truncation is returned as a refusal |
| `stale_verdict` | the cache key contains everything that varies the prompt | it holds chunk ids; after a re-index under the same ids an old verdict is replayed |

Bounds on counters (`MaxAsks`, `MaxHeard`, the `MaxEvents` of the queue, `MaxPolled`,
`MaxBatch`, `MaxCalls`, `MaxUpdates`, `MaxStops`, `MaxRuns`, `MaxStopped`,
`MaxSaves`, `MaxDecisions`, `MaxTurns`, `MaxEdits`, `MaxSummaries`,
`MaxBuilds`, `MaxSearches`, `MaxPlans`, `MaxRescans`, `MaxRestarts`,
`MaxCases`, `MaxVersions`, `MaxQueries`, `RunsPerCase`) only cut behaviours
short; `MaxSize`, `MaxSteps`, `Threshold`, `PageSize`, `BackoffMax`, `Depth`,
the `MaxEvents` of the panel and `HopCaps` are parameters of the code. `Unit`
and `RrfUnit` are what a score of one is counted in: any number that the
lengths, or 60 and a position, divide makes every fraction exact. `Given`,
`Recorded`, `PassageLabels`, `ClaimLists` and `Proposals` pick, out of what a
model or a person may say, enough to tell the cases apart: a lower and a higher
band (no verdict counts as the lowest), a status in force and one that is not,
a label and none, a backed and an unbacked claim. `Service` and `ChangePipeline` end in an
explicit stuttering step and are checked for deadlock; elsewhere a bounded
behaviour simply ends, and deadlock is not reported. Each module states its
type invariant as the documentation of its variables; all are proved.

**Fairness.** `ChannelGate` assumes that the worker thread runs and that the
deadline arrives (`_ask` waits with a monotonic deadline). `WorkQueue` assumes
nothing. `Service` assumes that the reader finishes a
`submit` it began, that the worker runs, and that main carries out a shutdown
it began or notices a dead reader (it polls `is_alive`). Nothing obliges a
person to write, a network to fail, or an operator to interrupt. `AgentLoop`
assumes that a run takes its next step: the model's HTTP call has a timeout,
and an exception ends the run. A turn that hangs outside the gate is excluded
by the fairness of the worker: a tool or a model call returns or raises.

`Loops` assumes of the poll that the consumer asks for the next event (`pump`
is a for loop), that a stopped process is started again, and, strongly, that a
request which is possible again and again succeeds some time: failed requests
may come in any number and disable nothing for good, since `poll` backs off
and retries for ever. Weak fairness would not do: a request is not enabled
while a page is being yielded or the process is down. Of the heartbeat it
assumes that a clock goes on with the pass it began and begins another:
`run_forever` does until it is killed, and an exception ends it, so that the next
pass is that of a clock started again, or the manual tick. Neither assumes that anything is sent or
logged. `EveryMessageArrives` excepts what a stop took along, as the code does:
it saves the offset first, on purpose.

`Knowledge` states no fairness: its parts promise nothing about eventually.

## 5. Proofs

TLC checks the instances of section 4; the theorems hold for every value of the
constants, that is for any number of people, messages, runs, processes, files
or texts. Each rests on the named assumptions of the modules it extends and on
nothing else; they say of what kind a constant is and that a marker (`NoGate`,
`NoKey`, `Absent`, `Torn`, ...) is none of the values it stands beside. TLC
evaluates them in every run. In each proof module an inductive invariant comes
first, one lemma per action (or per group that changes the same variables)
shows that it is kept, and the properties follow from it.

| module | invariant | theorems that state a property of a run |
|---|---|---|
| `ChannelProofs` | `GateInv`, `QueueInv` | RequesterApproves, BystandersCannotAnswer; GateImplementsApproval; NothingRedundantWaits, MergingIsNotLossy, NobodyIsOvertaken |
| `ServiceProofs` | `ServiceInv`, `PartsAreBounded`, `MessagesAddUp` | ConsentedWrites, MessagesAreUsedOnce, TurnsFollowTheQueue; ServiceRunsTheGate, ServiceRunsTheQueue |
| `AgentLoopProofs` | `LoopInv` | NoCallRunsTwice, OneHumanDecision, TraceTellsTheRun; LoopImplementsContract |
| `ChangePipelineProofs` | `PipelineInv`, `RecordInv` | WritesNeedPlanAndConsent, LogTellsTheRun, ReplacedIsRecorded, OkRunsHaveWritten, ClosedRunsAreLogged |
| `LoopsProofs` | `PollInv`, `BeatInv` | PollHandsOverOnce, MonitorMissesNothing |
| `KnowledgeProofs` | `WatchInv`, `MemoryInv`, `OverlayInv` | OrphansAreToldOnce, LastPushIsChecked, NoDecisionIsLost, LoneWriterLosesNothing, TrustIsEarned, PrivacyHolds, ImportIsIdempotent |
| `AnswersProofs` | `CorpusInv`, `PlanInv`, `JudgingInv` | AnswersAreCoherent, PlansAreSound, VerdictsHoldUp |
| `MeasuresProofs` | `PanelInv`, `RankingInv`, `TrajectoryInv` | PanelTellsTheRuns, SearchesAreFaithful, PassesAreEarned |

Each also proves the types of its variables (GateTypes, QueueTypes, ...).

**The gate.** ApprovedByRequester is not inductive: whether `Report` may
approve depends on what `decision` was read from, that on `_answer`, and that
on which call `_pending` described when the message came. `GateInv` closes the
chain: `OneOpenCall` (only the last call can be open, and exactly while the
worker is in `_ask`), `FutureIsBlank` (a call not yet made has heard nothing),
`PendingIsLast` (`_pending` names the last call and its requester, even after a
prompt that raised), and `AnswerIsConsent` (an approving `_answer`, and an
approving `decision`, were consented to by the requester of that very call).
The last needs `_ask` to reset `_answer`. The refinement reuses `GateInv`: each
step is a step of `Approval` or a stutter.

**The queue.** That a push is covered by one no older, and that nobody is
overtaken, both compare ids. `QueueInv` adds `IdsWereOffered` (every id in the
queue or out of it was handed out, so a new event is newer than all),
`InOnePlace` (no id waits twice, was taken twice, or both) and
`HumansQueueUp` (people's ids grow along `taken` and then along `items`). A
merge puts a new id in an old place, which would break any order of all ids:
the order is that of people's messages only, and a merge never touches one.

**The service.** `ServiceInv` contains `GateInv` and, of its own,
`ReaderHoldsOne` (while it submits the reader holds a message that was polled
and not yet offered: so an id is left for it), `OfferedWasSaid`,
`TurnHasItsEvent` (the worker has an event exactly during its turn) and
`AskedByWriters` (every call ever opened was opened for the author of a change
request who is on the allowlist). ConsentedWrites is the last of these together
with the gate's invariant. MessagesAreUsedOnce counts: what gates heard is a
finite set of pairs of a call and a place, and only an answer adds one to it.
ServiceRunsTheGate and ServiceRunsTheQueue say that no interleaving of the
threads does anything to the gate or the queue that those modules do not have:
the value of `gate.pending` that `submit` uses may be stale, `Cancel` may come
at any time (once: `PartsAreBounded`), and still ServiceKeepsPromises follows
from the parts' own theorems.

**The loop.** `detect_stall` compares with the signatures, not with what ran.
`LoopInv` adds `EveryCallIsSigned`: while the run goes on, every call that ran,
was refused or was put to a human is among the signatures, so that a fresh call
is in none of the three. It holds only while the run goes on, since a tool that
raises has run and left no signature. `StepsLeft` (the counter is below
`max_steps` until the end) is what the types need. TraceTellsTheRun matches the
entries that say "executed" with the tools that ran, one for one and in order:
the matching of a step is extended by its last pair, so no counting over
sequences is needed.

**The change pipeline.** `PipelineInv` adds `ScopeIsThePlan` (the impact set
`apply_change` checks against never exceeds the plan in the scratch),
`CallIsChecked` (past the gate the call is consented to; about to write, it is
confined) and `WritersHavePlans` (a run that has written never returns to its
planner). `RecordInv` follows the record from the tool's trace to the envelope,
the log and the row: `ChangesAreTheWrites`, `LoggedRunsAreOver` (who is in the
log writes no more and keeps its status, so a record once true stays true),
`ClosingRunsAreLogged` (in a line that parses, or glued to another's),
`OpenLineIsOfTheDead` (a line that is not ended was begun by a run that died
appending, and has taken nobody's record yet), which is why one death costs at
most one record and never that of a run whose own line is whole, and
`ReadIsCurrent` (between hash and write the file is
what was read, or somebody else wrote it, or a failed write tore it), which is
what RecordsWhatWasReplaced needs. Other runs and crashes are steps like any
other.

**The long poll.** `PollInv` says what the two offsets and the page mean:
`RefetchedIsUnsaved` (what a next request could fetch again was handed over by
a process that stopped before its offset was saved), `PageIsNext` (a page is the
consecutive ids up to the offset), and `AcknowledgedIsSettled` (whatever an
offset passed was handed over, was no event, is in hand, or went with a stop).
**The heartbeat.** `BeatInv`: `ReadsThePast` (what a pass read is downward
closed in the log), `TakesUpTheRest` (what it left aside was graded before),
`FoundByGrading`, `FindingsAreProblems`. With several clocks the watermark may
move back; it never passes a record nobody graded.

**The stores.** `WatchInv`: `ToldIsKnown` (who is being told is on the
watermark and was not told before, unless the watermark was lost or a pass had
no nodes to compare with),
`LegacyMoved` (a decision leaves the graph file only after the overlay has it),
`LastPassIsRight` (what the pass of the last push has computed so far).
`MemoryInv`: `EarnedEverywhere` (trust is earned in the file, in the `.tmp` and
in every draft, since any of them may become the file), and `AloneInv` (where
the file, the `.tmp` and the only writer at work agree; it is claimed only as
long as no two have overlapped). `OverlayInv`: `ReadingInv` (what a turn has
read is the asker's, what it withheld is others') and `ImportInv` (an importer
holds the first record missing).

**The answers.** `CorpusInv`: cards below the module card are of its version
once its run is over; a table that one indexer truncated is empty until that
one fills it; what the lexical arm read is the asker's. `PlanInv`: `WalkSoFar`
states the walk hop by hop against what is within so many hops of the seed, for
a graph left alone and for one that changed under it.
`JudgingInv`: a cached judgement of passages has a label for each one it was
shown and is kept under their ids (`CacheIsFiled`): the label used for a
passage is its own, although the text may not be, which is `stale_verdict`.

**Induction over data** comes in `MeasuresProofs` without an operator for a
parameter: `SetInduction` is induction for a set of numbers, from the least
element of a well-founded order, and `RecursionExists` says that a function
which is computed at each point from points of lower rank exists, where the
computation is itself a function and so an ordinary variable of the lemma.
From the two follows what a recursive definition means: that the CHOOSE behind
it satisfies its equation (`FlattenUnfolds`, `TableUnfolds`, `WalkUnfolds`,
`BestRouteOf`), and then, by induction, what it computes.

**The panel.** `PanelInv`: `RunsComeInPairs` (the pieces on file are two of each
record, one after the other, since one worker writes them), and `Told`: after
2n pieces nothing is kept back and the rows that come from records are exactly
the first n narratives; after one more its piece is the buffer. The rows of the
service's own output, and a message that the log already shows, come in between
without disturbing this (`FromRecordsConcat`). That the page is given every row
is `PageIsCurrent`: a page not more than a whole log behind finds the window
reaching back to its place.

**The search.** `OrderedSorts` is the heart: a finite set in a total order has
exactly the listing that `Ordered` picks, by induction over its size, so each
sort of the code yields every member once and in order. `ShareFalls` and
`ArmScoreOf` make a better position a strictly larger sum, hence `FuseFuses`: what
is above in both arms is above in the fusion. `CacheIsSound` says of every
cached entry that its verdicts are of the pool that is its key, position by
position, which is why `RerankKey` must keep the order. `ShownAs` is what the
hits are: the fused list, or its head listed by verdict. `PackingMovesNothing`
is exact arithmetic: the packed hits are a permutation, and the ranks they
carry give the order back.

**The agent suite.** `WalkAligns` and `NoneFindsMore` are inductions over the
cells of the table, from its far edge back: the walk is an alignment as long as
the table says, and whatever embeds a part of the route in the run has no more
calls than that, since at a pair of equal names it has one call at most that is
not past both. So `align` is optimal for every route and run. A recall of one
then means that the alignment is the whole route (`WholeRouteAligned`), and a parameter
score of one that every aligned call is right (`EarnedByMeeting`); a run that is
exactly a route meets it (`ExactRunMeets`); and the loop over the routes never
leaves one that passes for one that does not (`BestRouteOf`).

**Changed because a proof did not go through.** `Overlay` inserts the missing
records of the graph file in their order there, and a record that repeats an
earlier one of the same import not at all, since it is looked for after that one
was inserted (`ImportRows`, `Orders`). `ChangePipeline` keeps the completed
writes of a run in `writes`, so that log and trace are compared with them entry
by entry. `TraceIsTheRun` asks for an exact matching, where it used to compare
the calls as sets. `Trajectory`'s recursive functions run over pairs of
positions, its units and `Ranking`'s are constants with the divisibility they
need (they were products over a bound), and `Ranking` lists a set by `Ordered`,
a CHOOSE, where it used to sort with library operators that no prover here
expands. The type of a panel row and of a search say all their fields.
`FileAssumption` and `StoreAssumption` say that a missing or
unreadable file is not a file that parses.

**Checked by TLC only**, and why:

* All liveness, since it needs ENABLED: GateCloses,
  AdmittedIsHandled, GateReleased, ShutdownEnds, EveryMessageArrives,
  BacklogIsGraded, and the fairness part of ImplementsApproval and
  KeepsContract, whose safety parts are proved.

## 6. Met while modelling

Behaviour of the code that its documents do not rule out, or only in passing,
and that the models therefore have as steps like any other:

* **Gate and queue.** A "no" followed by a "yes" before the worker wakes
  approves. An unrecognised word declines at once, not at the timeout as the
  comment on `NEGATIVE` has it. The gate is open before its prompt is sent. A
  message can be admitted just before a gate opens and then waits behind it
  (`queue.py:40` says it is rejected). A full or a closed queue refuses people
  too, and a full one refuses a push that it could have merged.
* **Stop.** `queue.py:38` has a person's message "never dropped". The queue keeps
  that (HumanMessageKept); `Worker.run` looks at `_stop` before it takes, so a
  service that stops leaves admitted messages in `_items`, and nobody tells
  their senders. AdmittedIsHandled promises a turn only while main runs.
* **Loop.** `max_steps` counts batches of calls, where `executor_brief.md:60`
  speaks of calls. A run that raises keeps no trace (`loop.py:185`), no log
  record, and leaves its row open.
* **Executor.** The docstring of `run_executor` (`executor.py:126`) calls a run
  `ok` that had nothing to write; `_envelope_from_loop` calls it `blocked`, and a
  comment there says why (decision #75). OkMeansWritten states what the code
  does; the docstring would have it fail, since it allows an `ok` without a
  write, and a run whose steps needed none is told that it was blocked.
  A package and its `__init__.py` have one uid: a plan that names one lets the
  executor write the other. Nothing locks the working tree between the hash of
  `apply_change` and its write.
* **Silence.** The row goes to one owner of the withheld decisions only, and
  decisions the asker could see of other components do not count as evidence.
* **Decisions.** Two imports at once find the same rows missing and insert them
  twice. Nothing reachable from the tools writes `superseded`.
* **Scan.** The rescan of a push looks 32 directories deep, the tool up to 64: a
  component between the two is in the graph after a deep scan, and an orphan
  after the next push. A relative import in an `__init__.py` is resolved one package too
  high.
* **Webhook.** 202 is the answer whatever the queue said.
* **Cards.** A summariser that stops between the module card and the symbol cards
  leaves cards that do not agree, and the next run skips the node: CardsComplete
  excepts those versions. Two indexers at once leave an index of two builds.
* **Index.** Between the committed TRUNCATE and the insert a search says the
  index is empty. Building with one kind deletes the rows of the others. Two
  chunks with one id become one without a word.
* **Search.** `reranked` is true although the judge's reply did not parse. The
  verdicts' cache has ids in its key, not texts.
* **Planner.** `AgentResult.blocked`, which its docstring names, is never
  returned.
* **Demo.** A `/change` request shows up twice, since the prefix is gone from
  the record it is compared with. A restart numbers rows from 1 again.
* **Run log.** A half-written line swallows the record appended after it
  (`half_line_swallows_record`). If only its newline is missing, the record of
  the run that died is read until the next one is appended.
* **Evaluation.** A second call of an expected tool with other arguments can
  fail a case, although the docstring of `_passed` allows extra calls. All
  attempts of the agent suite share one sandboxed store. A truncated answer is
  cached without the flag, and an unparseable reply for good, so its case stays
  ungradeable. A stale verdict's quote does not verify, and the label is
  downgraded as if the judge had invented it. `Answer.cost` counts replayed
  calls, `MetricResult.cost` does not.

## 7. Not modelled

* The text of prompts, answers, cards and logs; which tool the model picks and
  why; BM25's and cosine's scores (the arms are arbitrary rankings instead).
* The notebooks under `guidance/`, which are teaching copies of the agent
  modelled here, and the entry points, `inspect_store` and `reset_demo`: they
  print, or delete, and no state of theirs outlives a call.
* The model client, tracing and MLflow: external services, and observation that
  never raises and changes nothing.
* In `Service`: session commands, and the webhook and the heartbeat as further
  producers (`service.py` does not start them; `WorkQueue` covers their
  events). The admission of the admin path compares one id and enters the loop.
* In `ChangePipeline`: symbolic links, directories made by a `create`, and the
  read log of the scratch, which is written for inspection and decides nothing.
* In retrieval: the embedding cache and its retries, which return what the
  model returned; in `Corpus`, how a text is cut into chunks.
* In evaluation: loading of cases, report formatting, the tracking of results,
  and `run_trace_scoring`, which appends feedback to an external store.
* Context assembly beyond which decisions it hands over (`Overlay`).
