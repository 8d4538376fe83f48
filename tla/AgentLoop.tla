------------------------------ MODULE AgentLoop ------------------------------
(***************************************************************************)
(* One run of the agent loop: the two-node graph of agentlib/graph.py with *)
(* the guards of agentlib/guards.py.  The model is free: in each turn it   *)
(* answers, is cut off, or asks for a batch of tool calls, any of them as  *)
(* often as it likes.  The tools node handles the batch one call at a      *)
(* time, and each handled call is one action.                              *)
(***************************************************************************)
EXTENDS Naturals, SequencesExt, Functions

CONSTANTS
  Calls,           \* call signatures: a tool name with its arguments
  Malformed,       \* calls of an unknown tool or with invalid arguments
  Gated,           \* calls of a tool in GATED
  MaxSteps,        \* max_steps
  MaxBatch         \* bound: tool calls in one model turn

ASSUME LoopAssumption ==
  /\ Malformed \subseteq Calls
  /\ Gated \subseteq Calls
  /\ MaxSteps \in Nat \ {0}
  /\ MaxBatch \in Nat \ {0}

VARIABLES
  approver,        \* was an approve callback passed?
  node,            \* the node to run next, or how invoke ended
  batch,           \* last.tool_calls not yet handled
  signatures,      \* signatures
  declined,        \* declined_signatures
  trace,           \* trace
  step,            \* step
  stopped,         \* stopped
  approved,        \* the calls approve returned True for (history)
  asked,           \* the calls put to approve, in order (history)
  ran              \* the calls whose tool was entered, in order (history)

vars ==
  <<approver, node, batch, signatures, declined, trace, step, stopped, approved, asked, ran>>

Branches == {"ok", "error", "declined", "invalid_args"}
Entry == [call : Calls, branch : Branches]
Reasons == {"answered", "max_steps", "stalled", "declined", "truncated"}
Running == "none"

TypeOK ==
  /\ approver \in BOOLEAN
  /\ node \in {"agent", "tools", "end", "raised"}
  /\ batch \in Seq(Calls)
  /\ signatures \in Seq(Calls)
  /\ declined \subseteq Calls
  /\ trace \in Seq(Entry)
  /\ step \in 0 .. MaxSteps
  /\ stopped \in Reasons \cup {Running}
  /\ approved \subseteq Calls
  /\ asked \in Seq(Calls)
  /\ ran \in Seq(Calls)

Init ==
  /\ approver \in BOOLEAN
  /\ node = "agent"
  /\ batch = <<>>
  /\ signatures = <<>>
  /\ declined = {}
  /\ trace = <<>>
  /\ step = 0
  /\ stopped = Running
  /\ approved = {}
  /\ asked = <<>>
  /\ ran = <<>>

books == <<approver, signatures, declined, trace, approved, asked, ran>>

-----------------------------------------------------------------------------
(* The agent node: one model turn. *)

Finish(reason) ==
  /\ stopped' = reason
  /\ node' = "end"
  /\ UNCHANGED <<batch, step, books>>

Answer == node = "agent" /\ Finish("answered")

Truncate == node = "agent" /\ Finish("truncated")

Batches == UNION {[1 .. n -> Calls] : n \in 1 .. MaxBatch}

CallTools(b) ==
  /\ node = "agent"
  /\ batch' = b
  /\ node' = "tools"
  /\ UNCHANGED <<step, stopped, books>>

(* The model call raises, or approve does: invoke raises, nothing is kept. *)
Crash ==
  /\ node' = "raised"
  /\ UNCHANGED <<batch, step, stopped, books>>

ModelRaises == node = "agent" /\ Crash

-----------------------------------------------------------------------------
(* The tools node. *)

TheCall == Head(batch)

Handling == node = "tools" /\ batch # <<>>

(* Slip: only the calls that ran are compared. *)
RepeatOfRan == Handling /\ TheCall \in ToSet(ran)

(* Slip: only the call just before is compared. *)
RepeatOfLast ==
  /\ Handling
  /\ signatures # <<>>
  /\ Last(signatures) = TheCall

(* detect_stall: the same name and arguments anywhere earlier in the run. *)
Repeat == Handling /\ TheCall \in ToSet(signatures)

Fresh == Handling /\ ~Repeat

(* Slip: every repeat is a stall. *)
StopStalled ==
  /\ Repeat
  /\ signatures' = Append(signatures, TheCall)
  /\ stopped' = "stalled"
  /\ node' = "end"
  /\ UNCHANGED <<approver, batch, declined, trace, step, approved, asked, ran>>

(* The rest of the batch is not looked at, and the repeat is not traced. *)
StopRepeat ==
  /\ Repeat
  /\ signatures' = Append(signatures, TheCall)
  /\ stopped' = IF TheCall \in declined THEN "declined" ELSE "stalled"
  /\ node' = "end"
  /\ UNCHANGED <<approver, batch, declined, trace, step, approved, asked, ran>>

(* Slip: a tool's error is not traced. *)
RecordOk(branch) ==
  /\ signatures' = Append(signatures, TheCall)
  /\ trace' = IF branch = "ok" THEN Append(trace, [call |-> TheCall, branch |-> "ok"]) ELSE trace
  /\ batch' = Tail(batch)
  /\ UNCHANGED <<approver, node, step, stopped>>

(* A handled call leaves the batch, with its signature and trace entry. *)
Record(branch) ==
  /\ signatures' = Append(signatures, TheCall)
  /\ trace' = Append(trace, [call |-> TheCall, branch |-> branch])
  /\ batch' = Tail(batch)
  /\ UNCHANGED <<approver, node, step, stopped>>

RejectCall ==
  /\ Fresh
  /\ TheCall \in Malformed
  /\ Record("invalid_args")
  /\ UNCHANGED <<declined, approved, asked, ran>>

NeedsApproval == Fresh /\ TheCall \in Gated \ Malformed

(* Slip: without a callback a gated call is let through. *)
ApprovedUnlessRefused(yes) == ~approver \/ yes

(* approve is not None and approve(name, args). *)
Allowed(yes) == approver /\ yes

AskHuman == asked' = IF approver THEN Append(asked, TheCall) ELSE asked

Decline(yes) ==
  /\ NeedsApproval
  /\ ~Allowed(yes)
  /\ AskHuman
  /\ declined' = declined \cup {TheCall}
  /\ Record("declined")
  /\ UNCHANGED <<approved, ran>>

(* The tool runs and returns, a structured error or a value. *)
Enter == ran' = Append(ran, TheCall)

RunGated(yes) ==
  /\ NeedsApproval
  /\ Allowed(yes)
  /\ AskHuman
  /\ approved' = IF approver /\ yes THEN approved \cup {TheCall} ELSE approved
  /\ Enter
  /\ \E branch \in {"ok", "error"} : Record(branch)
  /\ UNCHANGED declined

RunFree ==
  /\ Fresh
  /\ TheCall \notin Gated \cup Malformed
  /\ Enter
  /\ \E branch \in {"ok", "error"} : Record(branch)
  /\ UNCHANGED <<declined, approved, asked>>

(* A tool raises: the exception leaves run_agent, with the trace it had. *)
ToolRaises ==
  /\ Fresh
  /\ TheCall \notin Malformed
  /\ TheCall \in Gated => approver
  /\ IF TheCall \in Gated
       THEN asked' = Append(asked, TheCall) /\ approved' = approved \cup {TheCall}
       ELSE UNCHANGED <<asked, approved>>
  /\ Enter
  /\ node' = "raised"
  /\ UNCHANGED <<approver, batch, signatures, declined, trace, step, stopped>>

(* approve itself raises: the channel's send failed. *)
ApproveRaises ==
  /\ NeedsApproval
  /\ approver
  /\ asked' = Append(asked, TheCall)
  /\ node' = "raised"
  /\ UNCHANGED <<approver, batch, signatures, declined, trace, step, stopped, approved, ran>>

(* A step is a whole batch, however many calls it had. *)
EndBatch ==
  /\ node = "tools"
  /\ batch = <<>>
  /\ step' = step + 1
  /\ IF step + 1 >= MaxSteps
       THEN stopped' = "max_steps" /\ node' = "end"
       ELSE node' = "agent" /\ UNCHANGED stopped
  /\ UNCHANGED <<batch, books>>

-----------------------------------------------------------------------------
ModelTurn == Answer \/ Truncate \/ ModelRaises \/ \E b \in Batches : CallTools(b)

HandleCall ==
  \/ StopRepeat
  \/ RejectCall
  \/ \E yes \in BOOLEAN : Decline(yes) \/ RunGated(yes)
  \/ RunFree
  \/ ToolRaises
  \/ ApproveRaises

Next == ModelTurn \/ HandleCall \/ EndBatch

Spec == Init /\ [][Next]_vars

(* invoke runs the nodes in turn; a model call, a tool and the human gate    *)
(* each return or raise: requests and gates have time limits.                *)
FairSpec == Spec /\ WF_vars(Next)

-----------------------------------------------------------------------------
Over == node \in {"end", "raised"}

(* No call has its effect twice: a model that repeats a call, in the same   *)
(* batch or turns later, does not run the tool again (detect_stall).        *)
NothingRunsTwice == IsInjective(ran)

(* The human decides once: a gated call runs only if the human said yes to  *)
(* that call; a refused call never runs in this run, and nobody is asked    *)
(* the same thing twice (requires_approval, declined_signatures).           *)
HumanDecidesOnce ==
  /\ ToSet(ran) \cap Gated \subseteq approved
  /\ declined \cap ToSet(ran) = {}
  /\ IsInjective(asked)

Executed == {i \in DOMAIN trace : trace[i].branch \in {"ok", "error"}}

(* The runs are the calls traced as executed, one for one and in order.     *)
RunsAreTraced ==
  \E at \in Surjection(DOMAIN ran, Executed) :
    \A m, n \in DOMAIN ran :
      /\ ran[m] = trace[at[m]].call
      /\ m < n => at[m] < at[n]

(* The trace is the whole story: every call the model asked for is in it,   *)
(* in order, but for the repeat that ended the run; and the calls traced as *)
(* executed are exactly the tools that ran (tools_node).                    *)
TraceIsComplete ==
  /\ LET handled == IF stopped \in {"stalled", "declined"}
                      THEN Front(signatures)
                      ELSE signatures
     IN  handled = [i \in DOMAIN trace |-> trace[i].call]
  /\ node # "raised" => RunsAreTraced

Earlier == ToSet(Front(signatures))

(* The stopping condition reported is the one that happened: the envelope   *)
(* statuses are decided on it (loop.py, "Stopping conditions").             *)
StopReasonIsTrue ==
  /\ stopped = "declined" => Last(signatures) \in Earlier \cap declined
  /\ stopped = "stalled" => Last(signatures) \in Earlier \ declined
  /\ stopped = "max_steps" <=> step = MaxSteps
  /\ stopped # Running <=> node = "end"

(* What a run reports of itself is what it did: the executor's envelope and *)
(* the monitor read nothing else (tools_node, run_agent).                   *)
TraceIsTheRun == TraceIsComplete /\ StopReasonIsTrue

(* The loop keeps the contract of an agent run.                             *)
Contract == INSTANCE RunContract
  WITH done <- ToSet(ran), refused <- declined, over <- Over

KeepsContract == Contract!FairSpec
=============================================================================
