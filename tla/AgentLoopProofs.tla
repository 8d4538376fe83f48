--------------------------- MODULE AgentLoopProofs ---------------------------
(***************************************************************************)
(* Proofs about AgentLoop, for every set of calls, every batch and every   *)
(* step ceiling: no call runs twice, a human decides once, what a run      *)
(* reports is what it did, and the loop implements RunContract.            *)
(***************************************************************************)
EXTENDS AgentLoop, SequenceTheorems, TLAPS

InRun == node \in {"agent", "tools"}

(* While the run goes on, whatever was put to a tool or a person has left  *)
(* its signature, and a gated call that ran was approved.                  *)
EveryCallIsSigned ==
  InRun => ToSet(ran) \cup declined \cup ToSet(asked) \subseteq ToSet(signatures)

StepsLeft == node # "end" => step < MaxSteps

LoopInv ==
  /\ TypeOK
  /\ StepsLeft
  /\ EveryCallIsSigned
  /\ NothingRunsTwice
  /\ HumanDecidesOnce

-----------------------------------------------------------------------------
(* A call added to a record of calls.                                      *)
LEMMA AppendCall ==
  ASSUME NEW S, NEW s \in Seq(S), NEW e \in S
  PROVE  /\ Append(s, e) \in Seq(S)
         /\ ToSet(Append(s, e)) = ToSet(s) \cup {e}
         /\ IsInjective(s) /\ e \notin ToSet(s) => IsInjective(Append(s, e))
  <1>1. /\ Append(s, e) \in Seq(S)
        /\ DOMAIN s = 1 .. Len(s) /\ Len(s) \in Nat
        /\ DOMAIN Append(s, e) = 1 .. Len(s) + 1
        /\ \A i \in DOMAIN s : Append(s, e)[i] = s[i]
        /\ Append(s, e)[Len(s) + 1] = e
    OBVIOUS
  <1>2. ToSet(Append(s, e)) = ToSet(s) \cup {e}
    BY <1>1 DEF ToSet
  <1>3. ASSUME IsInjective(s), e \notin ToSet(s)
        PROVE  IsInjective(Append(s, e))
    BY <1>1, <1>3 DEF IsInjective, ToSet
  <1>4. QED
    BY <1>1, <1>2, <1>3

LEMMA TheCallType ==
  ASSUME TypeOK, Handling
  PROVE  TheCall \in Calls /\ Tail(batch) \in Seq(Calls)
  <1>1. batch \in Seq(Calls) /\ batch # <<>>
    BY DEF TypeOK, Handling
  <1>2. QED
    BY <1>1 DEF TheCall

LEMMA InitInv == Init => LoopInv
  <1> SUFFICES ASSUME Init PROVE LoopInv
    OBVIOUS
  <1>1. /\ <<>> \in Seq(Calls) /\ <<>> \in Seq(Entry)
        /\ DOMAIN <<>> = {}
    OBVIOUS
  <1>2. TypeOK
    BY <1>1, LoopAssumption DEF Init, TypeOK, Running, Reasons
  <1>3. StepsLeft
    BY LoopAssumption DEF Init, StepsLeft
  <1>4. ToSet(<<>>) = {} /\ IsInjective(<<>>)
    BY <1>1 DEF ToSet, IsInjective
  <1>5. QED
    BY <1>2, <1>3, <1>4
    DEF Init, LoopInv, EveryCallIsSigned, NothingRunsTwice, HumanDecidesOnce

(* What a handled call leaves behind.                                      *)
LEMMA RecordTypes ==
  ASSUME TypeOK, Handling, NEW branch \in Branches, Record(branch)
  PROVE  /\ signatures' \in Seq(Calls) /\ ToSet(signatures') = ToSet(signatures) \cup {TheCall}
         /\ trace' \in Seq(Entry)
         /\ batch' \in Seq(Calls)
         /\ UNCHANGED <<approver, node, step, stopped>>
  <1>1. [call |-> TheCall, branch |-> branch] \in Entry
    BY TheCallType DEF Entry
  <1>2. trace' \in Seq(Entry)
    BY <1>1, AppendCall DEF Record, TypeOK
  <1>3. QED
    BY <1>2, TheCallType, AppendCall DEF Record, TypeOK

(* Steps that put nothing to a tool or a person.                           *)
LEMMA TurnInv ==
  ASSUME LoopInv, ModelTurn \/ EndBatch
  PROVE  LoopInv'
  <1> USE DEF LoopInv
  <1>1. UNCHANGED books
    BY DEF ModelTurn, Answer, Truncate, Finish, ModelRaises, Crash, CallTools, EndBatch
  <1>2. NothingRunsTwice' /\ HumanDecidesOnce'
    BY <1>1 DEF books, NothingRunsTwice, HumanDecidesOnce
  <1>3. EveryCallIsSigned'
    BY <1>1 DEF books, EveryCallIsSigned, InRun, ModelTurn, Answer, Truncate, ModelRaises,
                CallTools, EndBatch
  <1>4. TypeOK' /\ StepsLeft'
    <2>1. CASE Answer \/ Truncate \/ ModelRaises
      BY <1>1, <2>1
      DEF Answer, Truncate, Finish, ModelRaises, Crash, books, TypeOK, StepsLeft, Reasons
    <2>2. CASE \E b \in Batches : CallTools(b)
      <3>1. \A b \in Batches : b \in Seq(Calls)
        BY LoopAssumption DEF Batches
      <3>2. QED
        BY <1>1, <2>2, <3>1 DEF CallTools, books, TypeOK, StepsLeft
    <2>3. CASE EndBatch
      <3>1. step + 1 \in Nat /\ step + 1 <= MaxSteps /\ MaxSteps \in Nat
        BY <2>3, LoopAssumption DEF EndBatch, TypeOK, StepsLeft
      <3>2. QED
        BY <1>1, <2>3, <3>1 DEF EndBatch, books, TypeOK, StepsLeft, Reasons
    <2>4. QED
      BY <2>1, <2>2, <2>3 DEF ModelTurn
  <1>5. QED
    BY <1>2, <1>3, <1>4

-----------------------------------------------------------------------------
(* A fresh call has not run, was not refused, and was put to nobody.       *)
LEMMA FreshCall ==
  ASSUME LoopInv, Fresh
  PROVE  /\ Handling /\ InRun /\ TheCall \in Calls
         /\ TheCall \notin ToSet(ran) \cup declined \cup ToSet(asked)
         /\ step < MaxSteps
  BY TheCallType DEF LoopInv, Fresh, Handling, Repeat, InRun, EveryCallIsSigned, StepsLeft

(* The call enters the history of what ran.                                *)
LEMMA EnterOnce ==
  ASSUME LoopInv, Fresh, Enter
  PROVE  /\ ran' \in Seq(Calls)
         /\ ToSet(ran') = ToSet(ran) \cup {TheCall}
         /\ IsInjective(ran')
  BY FreshCall, AppendCall DEF LoopInv, TypeOK, Enter, NothingRunsTwice

(* The call is put to the human, if there is one to ask.                   *)
LEMMA AskOnce ==
  ASSUME LoopInv, Fresh, AskHuman \/ asked' = Append(asked, TheCall)
  PROVE  /\ asked' \in Seq(Calls)
         /\ ToSet(asked') \subseteq ToSet(asked) \cup {TheCall}
         /\ IsInjective(asked')
  <1>1. /\ asked \in Seq(Calls) /\ IsInjective(asked)
        /\ TheCall \in Calls /\ TheCall \notin ToSet(asked)
    BY FreshCall DEF LoopInv, TypeOK, HumanDecidesOnce
  <1>2. CASE asked' = asked
    BY <1>1, <1>2
  <1>3. CASE asked' = Append(asked, TheCall)
    <2>1. /\ Append(asked, TheCall) \in Seq(Calls)
          /\ ToSet(Append(asked, TheCall)) = ToSet(asked) \cup {TheCall}
          /\ IsInjective(Append(asked, TheCall))
      BY <1>1, AppendCall
    <2>2. QED
      BY <1>3, <2>1
  <1>4. QED
    BY <1>2, <1>3 DEF AskHuman

LEMMA RefuseInv ==
  ASSUME LoopInv, StopRepeat \/ RejectCall \/ (\E yes \in BOOLEAN : Decline(yes))
  PROVE  LoopInv'
  <1> USE DEF LoopInv
  <1>1. CASE StopRepeat
    <2>1. signatures' \in Seq(Calls)
      BY <1>1, TheCallType, AppendCall DEF StopRepeat, Repeat, TypeOK
    <2>2. TypeOK'
      BY <1>1, <2>1 DEF StopRepeat, TypeOK, Reasons
    <2>3. QED
      BY <1>1, <2>2
      DEF StopRepeat, StepsLeft, EveryCallIsSigned, InRun, NothingRunsTwice, HumanDecidesOnce
  <1>2. CASE RejectCall
    <2>1. Handling /\ "invalid_args" \in Branches
      BY <1>2 DEF RejectCall, Fresh, Branches
    <2>2. TypeOK'
      BY <1>2, <2>1, RecordTypes DEF RejectCall, TypeOK
    <2>3. EveryCallIsSigned' /\ StepsLeft'
      BY <1>2, <2>1, RecordTypes DEF RejectCall, EveryCallIsSigned, InRun, StepsLeft
    <2>4. QED
      BY <1>2, <2>2, <2>3 DEF RejectCall, NothingRunsTwice, HumanDecidesOnce
  <1>3. ASSUME NEW yes \in BOOLEAN, Decline(yes)
        PROVE  LoopInv'
    <2>1. Fresh /\ "declined" \in Branches
      BY <1>3 DEF Decline, NeedsApproval, Branches
    <2>2. TypeOK'
      BY <1>3, <2>1, FreshCall, AskOnce, RecordTypes DEF Decline, TypeOK
    <2>3. EveryCallIsSigned' /\ StepsLeft'
      BY <1>3, <2>1, FreshCall, AskOnce, RecordTypes
      DEF Decline, EveryCallIsSigned, InRun, StepsLeft
    <2>4. NothingRunsTwice' /\ HumanDecidesOnce'
      BY <1>3, <2>1, FreshCall, AskOnce DEF Decline, NothingRunsTwice, HumanDecidesOnce
    <2>5. QED
      BY <2>2, <2>3, <2>4
  <1>4. QED
    BY <1>1, <1>2, <1>3

LEMMA RunInv ==
  ASSUME LoopInv, RunFree \/ (\E yes \in BOOLEAN : RunGated(yes))
  PROVE  LoopInv'
  <1> USE DEF LoopInv
  <1>1. {"ok", "error"} \subseteq Branches
    BY DEF Branches
  <1>2. CASE RunFree
    <2>1. Fresh /\ Enter /\ TheCall \notin Gated /\ UNCHANGED <<declined, approved, asked>>
      BY <1>2 DEF RunFree
    <2>2. PICK branch \in Branches : Record(branch)
      BY <1>1, <1>2 DEF RunFree
    <2>3. TypeOK'
      BY <2>1, <2>2, FreshCall, EnterOnce, RecordTypes DEF TypeOK
    <2>4. EveryCallIsSigned' /\ StepsLeft'
      BY <2>1, <2>2, FreshCall, EnterOnce, RecordTypes DEF EveryCallIsSigned, InRun, StepsLeft
    <2>5. NothingRunsTwice' /\ HumanDecidesOnce'
      BY <2>1, FreshCall, EnterOnce DEF NothingRunsTwice, HumanDecidesOnce
    <2>6. QED
      BY <2>3, <2>4, <2>5
  <1>3. ASSUME NEW yes \in BOOLEAN, RunGated(yes)
        PROVE  LoopInv'
    <2>1. /\ Fresh /\ Enter /\ AskHuman
          /\ approved' = approved \cup {TheCall} /\ UNCHANGED declined
      BY <1>3 DEF RunGated, NeedsApproval, Allowed
    <2>2. PICK branch \in Branches : Record(branch)
      BY <1>1, <1>3 DEF RunGated
    <2>3. TypeOK'
      BY <2>1, <2>2, FreshCall, EnterOnce, AskOnce, RecordTypes DEF TypeOK
    <2>4. EveryCallIsSigned' /\ StepsLeft'
      BY <2>1, <2>2, FreshCall, EnterOnce, AskOnce, RecordTypes
      DEF EveryCallIsSigned, InRun, StepsLeft
    <2>5. NothingRunsTwice' /\ HumanDecidesOnce'
      BY <2>1, FreshCall, EnterOnce, AskOnce DEF NothingRunsTwice, HumanDecidesOnce
    <2>6. QED
      BY <2>3, <2>4, <2>5
  <1>4. QED
    BY <1>2, <1>3

LEMMA RaiseInv ==
  ASSUME LoopInv, ToolRaises \/ ApproveRaises
  PROVE  LoopInv'
  <1> USE DEF LoopInv
  <1>1. CASE ToolRaises
    <2>1. /\ Fresh /\ Enter /\ node' = "raised"
          /\ UNCHANGED <<approver, batch, signatures, declined, trace, step, stopped>>
      BY <1>1 DEF ToolRaises
    <2>2. /\ asked' \in Seq(Calls) /\ IsInjective(asked')
          /\ approved' \in {approved, approved \cup {TheCall}}
          /\ TheCall \in Gated => TheCall \in approved'
      BY <1>1, <2>1, AskOnce DEF ToolRaises, TypeOK, HumanDecidesOnce
    <2>3. TypeOK'
      BY <2>1, <2>2, FreshCall, EnterOnce DEF TypeOK
    <2>4. EveryCallIsSigned' /\ StepsLeft'
      BY <2>1, FreshCall DEF EveryCallIsSigned, InRun, StepsLeft
    <2>5. NothingRunsTwice' /\ HumanDecidesOnce'
      BY <2>1, <2>2, FreshCall, EnterOnce DEF NothingRunsTwice, HumanDecidesOnce
    <2>6. QED
      BY <2>3, <2>4, <2>5
  <1>2. CASE ApproveRaises
    <2>1. /\ Fresh /\ node' = "raised" /\ asked' = Append(asked, TheCall)
          /\ UNCHANGED <<approver, batch, signatures, declined, trace, step, stopped,
                         approved, ran>>
      BY <1>2 DEF ApproveRaises, NeedsApproval
    <2>2. TypeOK'
      BY <2>1, AskOnce DEF TypeOK
    <2>3. QED
      BY <2>1, <2>2, FreshCall, AskOnce
      DEF EveryCallIsSigned, InRun, StepsLeft, NothingRunsTwice, HumanDecidesOnce
  <1>3. QED
    BY <1>1, <1>2

LEMMA NextInv == LoopInv /\ [Next]_vars => LoopInv'
  <1> SUFFICES ASSUME LoopInv, [Next]_vars
               PROVE  LoopInv'
    OBVIOUS
  <1>1. CASE Next
    BY <1>1, TurnInv, RefuseInv, RunInv, RaiseInv DEF Next, HandleCall
  <1>2. CASE UNCHANGED vars
    BY <1>2
    DEF vars, LoopInv, TypeOK, StepsLeft, EveryCallIsSigned, InRun, NothingRunsTwice,
        HumanDecidesOnce
  <1>3. QED
    BY <1>1, <1>2

-----------------------------------------------------------------------------
(* The inductive invariant of the loop.                                    *)
THEOREM LoopInvariant == Spec => []LoopInv
  <1>1. QED
    BY InitInv, NextInv, PTL DEF Spec

(* The loop's state stays well-typed, and the step counter never passes    *)
(* max_steps (EndBatch counts, then compares).                             *)
THEOREM LoopTypes == Spec => []TypeOK
  <1>1. LoopInv => TypeOK
    BY DEF LoopInv
  <1>2. QED
    BY <1>1, LoopInvariant, PTL

(* No call enters its tool twice in a run, whatever the model repeats      *)
(* (detect_stall).                                                         *)
THEOREM NoCallRunsTwice == Spec => []NothingRunsTwice
  <1>1. LoopInv => NothingRunsTwice
    BY DEF LoopInv
  <1>2. QED
    BY <1>1, LoopInvariant, PTL

(* A gated call runs only if it was approved, a refused call never runs,   *)
(* and no call is put to the human twice (tools_node).                     *)
THEOREM OneHumanDecision == Spec => []HumanDecidesOnce
  <1>1. LoopInv => HumanDecidesOnce
    BY DEF LoopInv
  <1>2. QED
    BY <1>1, LoopInvariant, PTL

-----------------------------------------------------------------------------
(* What a run reports of itself.                                           *)

(* A sequence that grew by one: its last element, and the rest.            *)
LEMMA FrontAndLast ==
  ASSUME NEW S, NEW s \in Seq(S), NEW e \in S
  PROVE  Front(Append(s, e)) = s /\ Last(Append(s, e)) = e
  <1> DEFINE t == Append(s, e)
             f == SubSeq(t, 1, Len(t) - 1)
  <1>1. /\ Len(s) \in Nat /\ Len(t) = Len(s) + 1
        /\ \A i \in 1 .. Len(s) : t[i] = s[i] /\ s[i] \in S
        /\ t[Len(s) + 1] = e
    OBVIOUS
  <1> HIDE DEF t
  <1>2. f \in Seq(S) /\ Len(f) = Len(s) /\ \A i \in 1 .. Len(s) : f[i] = s[i]
    <2>1. Len(t) - 1 = Len(s) /\ Len(t) - 1 \in Int
      BY <1>1
    <2>2. \A i \in 1 .. Len(t) - 1 : t[i] \in S
      BY <1>1, <2>1
    <2>3. /\ f \in Seq(S)
          /\ Len(f) = IF 1 <= Len(t) - 1 THEN Len(t) - 1 - 1 + 1 ELSE 0
          /\ \A i \in 1 .. Len(t) - 1 - 1 + 1 : f[i] = t[1 + i - 1]
      BY <2>1, <2>2, SubSeqProperties
    <2>4. QED
      BY <1>1, <2>1, <2>3
  <1> HIDE DEF f
  <1>3. f = s
    BY <1>2, SeqEqual
  <1>4. QED
    BY <1>1, <1>3 DEF f, t, Front, Last

(* The calls of a trace that grew by one entry.                            *)
LEMMA CallsOfTrace ==
  ASSUME NEW log \in Seq(Entry), NEW e \in Entry,
         NEW calls \in Seq(Calls), calls = [i \in DOMAIN log |-> log[i].call]
  PROVE  Append(calls, e.call) = [i \in DOMAIN Append(log, e) |-> Append(log, e)[i].call]
  <1> DEFINE longer == Append(log, e)
             told == [i \in DOMAIN longer |-> longer[i].call]
             asks == Append(calls, e.call)
  <1>1. /\ Len(log) \in Nat /\ DOMAIN log = 1 .. Len(log)
        /\ DOMAIN longer = 1 .. Len(log) + 1
        /\ \A i \in 1 .. Len(log) : longer[i] = log[i]
        /\ longer[Len(log) + 1] = e
    OBVIOUS
  <1>2. Len(calls) = Len(log) /\ \A i \in 1 .. Len(log) : calls[i] = log[i].call
    <2>1. DOMAIN calls = 1 .. Len(log) /\ DOMAIN calls = 1 .. Len(calls) /\ Len(calls) \in Nat
      BY <1>1
    <2>2. QED
      BY <1>1, <2>1
  <1>3. e.call \in Calls
    BY DEF Entry
  <1>4. /\ asks = [i \in 1 .. Len(log) + 1 |-> asks[i]]
        /\ \A i \in 1 .. Len(log) : asks[i] = calls[i]
        /\ asks[Len(log) + 1] = e.call
    BY <1>1, <1>2, <1>3
  <1> HIDE DEF longer, asks
  <1>5. \A i \in 1 .. Len(log) + 1 : asks[i] = longer[i].call
    BY <1>1, <1>2, <1>4
  <1>6. asks = told
    BY <1>1, <1>4, <1>5
  <1>7. QED
    BY <1>6 DEF longer, asks

(* A call traced as executed when its tool was entered: still one for one. *)
LEMMA TraceOfRun ==
  ASSUME TypeOK, RunsAreTraced, NEW c \in Calls, NEW branch \in {"ok", "error"},
         ran' = Append(ran, c), trace' = Append(trace, [call |-> c, branch |-> branch])
  PROVE  RunsAreTraced'
  <1> DEFINE n == Len(ran)
             k == Len(trace)
             e == [call |-> c, branch |-> branch]
  <1>1. PICK at \in Surjection(DOMAIN ran, Executed) :
               \A i, j \in DOMAIN ran : ran[i] = trace[at[i]].call /\ (i < j => at[i] < at[j])
    BY DEF RunsAreTraced
  <1>2. /\ n \in Nat /\ DOMAIN ran = 1 .. n /\ DOMAIN ran' = 1 .. n + 1
        /\ \A i \in 1 .. n : ran'[i] = ran[i]
        /\ ran'[n + 1] = c
    BY DEF TypeOK
  <1>3. e \in Entry /\ e.call = c /\ e.branch = branch
    BY DEF Entry, Branches
  <1>4. /\ k \in Nat /\ DOMAIN trace = 1 .. k /\ DOMAIN trace' = 1 .. k + 1
        /\ \A i \in 1 .. k : trace'[i] = trace[i]
        /\ trace'[k + 1] = e
    BY <1>3 DEF TypeOK
  <1> HIDE DEF n, k, e
  <1>5. Executed' = Executed \cup {k + 1} /\ Executed \subseteq 1 .. k
    BY <1>3, <1>4 DEF Executed
  <1>6. /\ at \in [1 .. n -> Executed]
        /\ \A x \in Executed : \E i \in 1 .. n : at[i] = x
    BY <1>1, <1>2 DEF Surjection
  <1> DEFINE longer == [i \in 1 .. n + 1 |-> IF i = n + 1 THEN k + 1 ELSE at[i]]
  <1>7. /\ longer \in [1 .. n + 1 -> Executed']
        /\ longer[n + 1] = k + 1
        /\ \A i \in 1 .. n : longer[i] = at[i] /\ at[i] \in 1 .. k /\ i \in 1 .. n + 1
    <2>1. n + 1 \in 1 .. n + 1 /\ \A i \in 1 .. n : i \in 1 .. n + 1 /\ i # n + 1
      BY <1>2
    <2>2. \A i \in 1 .. n + 1 : i # n + 1 => i \in 1 .. n
      BY <1>2
    <2>3. \A i \in 1 .. n : at[i] \in Executed
      BY <1>6
    <2>4. QED
      BY <1>5, <2>1, <2>2, <2>3
  <1> HIDE DEF longer
  <1>8. \A x \in Executed' : \E i \in 1 .. n + 1 : longer[i] = x
    BY <1>2, <1>5, <1>6, <1>7
  <1>9. longer \in Surjection(DOMAIN ran', Executed')
    BY <1>2, <1>7, <1>8 DEF Surjection
  <1>10. \A i \in 1 .. n + 1 : ran'[i] = trace'[longer[i]].call
    <2>1. \A i \in 1 .. n : ran'[i] = trace'[longer[i]].call
      BY <1>1, <1>2, <1>4, <1>7
    <2>2. ran'[n + 1] = trace'[longer[n + 1]].call
      BY <1>2, <1>3, <1>4, <1>7
    <2>3. \A i \in 1 .. n + 1 : i \in 1 .. n \/ i = n + 1
      BY <1>2
    <2>4. QED
      BY <2>1, <2>2, <2>3
  <1>11. \A i, j \in 1 .. n + 1 : i < j => longer[i] < longer[j]
    <2>1. ASSUME NEW i \in 1 .. n + 1, NEW j \in 1 .. n + 1, i < j
          PROVE  longer[i] < longer[j]
      <3>1. i \in 1 .. n /\ longer[i] = at[i] /\ at[i] \in 1 .. k
        BY <1>2, <1>7, <2>1
      <3>2. CASE j = n + 1
        BY <1>4, <1>7, <3>1, <3>2
      <3>3. CASE j # n + 1
        <4>1. j \in 1 .. n /\ longer[j] = at[j]
          BY <1>2, <1>7, <2>1, <3>3
        <4>2. QED
          BY <1>1, <1>2, <2>1, <3>1, <4>1
      <3>4. QED
        BY <3>2, <3>3
    <2>2. QED
      BY <2>1
  <1>12. QED
    <2>1. \A i, j \in DOMAIN ran' :
            ran'[i] = trace'[longer[i]].call /\ (i < j => longer[i] < longer[j])
      BY <1>2, <1>10, <1>11
    <2>2. QED
      BY <1>9, <2>1, Zenon DEF RunsAreTraced

(* A call traced as refused or malformed ran nothing.                      *)
LEMMA TraceOfRefusal ==
  ASSUME TypeOK, RunsAreTraced, NEW c \in Calls, NEW branch \in Branches \ {"ok", "error"},
         ran' = ran, trace' = Append(trace, [call |-> c, branch |-> branch])
  PROVE  RunsAreTraced'
  <1> DEFINE k == Len(trace)
             e == [call |-> c, branch |-> branch]
  <1>1. e \in Entry /\ e.branch = branch
    BY DEF Entry
  <1>2. /\ k \in Nat /\ DOMAIN trace = 1 .. k /\ DOMAIN trace' = 1 .. k + 1
        /\ \A i \in 1 .. k : trace'[i] = trace[i]
        /\ trace'[k + 1] = e
    BY <1>1 DEF TypeOK
  <1> HIDE DEF k, e
  <1>3. Executed' = Executed /\ \A i \in Executed : trace'[i] = trace[i]
    BY <1>1, <1>2 DEF Executed
  <1>4. PICK at \in Surjection(DOMAIN ran, Executed) :
               \A i, j \in DOMAIN ran : ran[i] = trace[at[i]].call /\ (i < j => at[i] < at[j])
    BY DEF RunsAreTraced
  <1>5. \A i \in DOMAIN ran : at[i] \in Executed
    BY <1>4 DEF Surjection
  <1>6. \A i, j \in DOMAIN ran' : ran'[i] = trace'[at[i]].call /\ (i < j => at[i] < at[j])
    BY <1>3, <1>4, <1>5
  <1>7. at \in Surjection(DOMAIN ran', Executed')
    BY <1>3, <1>4
  <1>8. QED
    BY <1>6, <1>7 DEF RunsAreTraced

-----------------------------------------------------------------------------
(* A step on a fresh call happens in a run that has not stopped.           *)
LEMMA NotStopped ==
  ASSUME LoopInv, TraceIsTheRun, InRun
  PROVE  /\ stopped = Running /\ step # MaxSteps
         /\ signatures = [i \in DOMAIN trace |-> trace[i].call]
         /\ RunsAreTraced
  <1>1. stopped = Running /\ step # MaxSteps
    BY LoopAssumption DEF InRun, TraceIsTheRun, StopReasonIsTrue, LoopInv, StepsLeft
  <1>2. QED
    BY <1>1 DEF InRun, TraceIsTheRun, TraceIsComplete, Running

LEMMA TraceAtInit == Init => TraceIsTheRun
  <1> SUFFICES ASSUME Init PROVE TraceIsTheRun
    OBVIOUS
  <1>1. DOMAIN <<>> = {} /\ <<>> = [i \in {} |-> <<>>[i].call]
    OBVIOUS
  <1>2. RunsAreTraced
    <2>1. DOMAIN ran = {} /\ Executed = {}
      BY <1>1 DEF Init, Executed
    <2>2. [x \in {} |-> x] \in Surjection({}, {})
      BY DEF Surjection
    <2>3. QED
      BY <2>1, <2>2 DEF RunsAreTraced
  <1>3. TraceIsComplete
    BY <1>1, <1>2 DEF Init, Running, TraceIsComplete
  <1>4. StopReasonIsTrue
    BY LoopAssumption DEF Init, Running, StopReasonIsTrue
  <1>5. QED
    BY <1>3, <1>4 DEF TraceIsTheRun

(* A recorded call: one more signature, one more entry.                    *)
LEMMA TraceAtRecord ==
  ASSUME LoopInv, TraceIsTheRun, Fresh, NEW branch \in Branches, Record(branch),
         \/ branch \in {"ok", "error"} /\ Enter
         \/ branch \notin {"ok", "error"} /\ ran' = ran
  PROVE  TraceIsTheRun'
  <1> DEFINE e == [call |-> TheCall, branch |-> branch]
  <1>1. /\ InRun /\ TheCall \in Calls /\ TypeOK
        /\ signatures \in Seq(Calls) /\ trace \in Seq(Entry)
    BY FreshCall DEF LoopInv, TypeOK
  <1>2. /\ signatures' = Append(signatures, TheCall) /\ trace' = Append(trace, e)
        /\ UNCHANGED <<node, step, stopped>>
    BY DEF Record
  <1>3. /\ stopped = Running /\ step # MaxSteps
        /\ signatures = [i \in DOMAIN trace |-> trace[i].call]
        /\ RunsAreTraced
    BY <1>1, NotStopped
  <1>4. e \in Entry /\ e.call = TheCall
    BY <1>1 DEF Entry
  <1>5. RunsAreTraced'
    BY <1>1, <1>2, <1>3, TraceOfRun, TraceOfRefusal DEF Enter
  <1> HIDE DEF e
  <1>6. Append(signatures, e.call) = [i \in DOMAIN Append(trace, e) |-> Append(trace, e)[i].call]
    BY <1>1, <1>3, <1>4, CallsOfTrace
  <1>7. signatures' = [i \in DOMAIN trace' |-> trace'[i].call]
    BY <1>2, <1>4, <1>6
  <1>8. TraceIsComplete'
    BY <1>2, <1>3, <1>5, <1>7 DEF TraceIsComplete, Running
  <1>9. StopReasonIsTrue'
    BY <1>2, <1>3 DEF TraceIsTheRun, StopReasonIsTrue, Running
  <1>10. QED
    BY <1>8, <1>9 DEF TraceIsTheRun

(* The repeat that ends a run is signed, not traced, and named for what    *)
(* the first of the two met.                                               *)
LEMMA TraceAtRepeat ==
  ASSUME LoopInv, TraceIsTheRun, StopRepeat
  PROVE  TraceIsTheRun'
  <1>1. /\ Handling /\ InRun /\ TypeOK /\ TheCall \in ToSet(signatures)
        /\ signatures' = Append(signatures, TheCall) /\ node' = "end"
        /\ stopped' = IF TheCall \in declined THEN "declined" ELSE "stalled"
        /\ UNCHANGED <<trace, ran, step, declined>>
    BY DEF StopRepeat, Repeat, Handling, InRun, LoopInv
  <1>2. TheCall \in Calls /\ signatures \in Seq(Calls)
    BY <1>1, TheCallType DEF TypeOK
  <1>3. Front(signatures') = signatures /\ Last(signatures') = TheCall
    BY <1>1, <1>2, FrontAndLast
  <1>4. /\ step # MaxSteps
        /\ signatures = [i \in DOMAIN trace |-> trace[i].call]
        /\ RunsAreTraced
    BY <1>1, NotStopped
  <1>5. RunsAreTraced'
    BY <1>1, <1>4 DEF RunsAreTraced, Executed
  <1>6. TraceIsComplete'
    BY <1>1, <1>3, <1>4, <1>5 DEF TraceIsComplete
  <1>7. Earlier' = ToSet(signatures)
    BY <1>3 DEF Earlier
  <1>8. StopReasonIsTrue'
    BY <1>1, <1>3, <1>4, <1>7 DEF StopReasonIsTrue, Running
  <1>9. QED
    BY <1>6, <1>8 DEF TraceIsTheRun

(* Model turns and ends of batches leave the books alone; a run that       *)
(* raises keeps the trace it had.                                          *)
LEMMA TraceAtTurn ==
  ASSUME LoopInv, TraceIsTheRun, ModelTurn \/ EndBatch \/ ToolRaises \/ ApproveRaises
  PROVE  TraceIsTheRun'
  <1>1. /\ InRun /\ UNCHANGED <<signatures, trace, declined>>
        /\ node' # "raised" => ran' = ran
    BY DEF ModelTurn, Answer, Truncate, Finish, ModelRaises, Crash, CallTools, EndBatch,
           ToolRaises, ApproveRaises, NeedsApproval, Fresh, Handling, InRun, books
  <1>2. /\ stopped = Running /\ step # MaxSteps
        /\ signatures = [i \in DOMAIN trace |-> trace[i].call]
        /\ RunsAreTraced
    BY <1>1, NotStopped
  <1>3. stopped' \notin {"stalled", "declined"}
    BY <1>2
    DEF ModelTurn, Answer, Truncate, Finish, ModelRaises, Crash, CallTools, EndBatch,
        ToolRaises, ApproveRaises, Running
  <1>4. node' # "raised" => RunsAreTraced'
    BY <1>1, <1>2 DEF RunsAreTraced, Executed
  <1>5. TraceIsComplete'
    BY <1>1, <1>2, <1>3, <1>4 DEF TraceIsComplete
  <1>6. /\ stopped' = "max_steps" <=> step' = MaxSteps
        /\ stopped' # Running <=> node' = "end"
    <2>1. CASE EndBatch
      <3>1. step + 1 <= MaxSteps /\ step + 1 \in Nat /\ MaxSteps \in Nat
        BY <1>1, LoopAssumption DEF LoopInv, TypeOK, StepsLeft, InRun
      <3>2. QED
        BY <1>2, <2>1, <3>1 DEF EndBatch, Running
    <2>2. CASE ModelTurn \/ ToolRaises \/ ApproveRaises
      BY <1>1, <1>2, <2>2
      DEF ModelTurn, Answer, Truncate, Finish, ModelRaises, Crash, CallTools, ToolRaises,
          ApproveRaises, Running
    <2>3. QED
      BY <2>1, <2>2
  <1>7. StopReasonIsTrue'
    BY <1>3, <1>6 DEF StopReasonIsTrue
  <1>8. QED
    BY <1>5, <1>7 DEF TraceIsTheRun

LEMMA NextTrace == LoopInv /\ TraceIsTheRun /\ [Next]_vars => TraceIsTheRun'
  <1> SUFFICES ASSUME LoopInv, TraceIsTheRun, [Next]_vars
               PROVE  TraceIsTheRun'
    OBVIOUS
  <1>1. CASE RejectCall
    <2>1. Fresh /\ Record("invalid_args") /\ ran' = ran
      BY <1>1 DEF RejectCall
    <2>2. "invalid_args" \in Branches /\ "invalid_args" \notin {"ok", "error"}
      BY DEF Branches
    <2>3. QED
      BY <2>1, <2>2, TraceAtRecord
  <1>2. ASSUME NEW yes \in BOOLEAN, Decline(yes)
        PROVE  TraceIsTheRun'
    <2>1. Fresh /\ Record("declined") /\ ran' = ran
      BY <1>2 DEF Decline, NeedsApproval
    <2>2. "declined" \in Branches /\ "declined" \notin {"ok", "error"}
      BY DEF Branches
    <2>3. QED
      BY <2>1, <2>2, TraceAtRecord
  <1>3. CASE RunFree \/ \E yes \in BOOLEAN : RunGated(yes)
    <2>1. Fresh /\ Enter
      BY <1>3 DEF RunFree, RunGated, NeedsApproval
    <2>2. PICK branch \in {"ok", "error"} : Record(branch)
      BY <1>3 DEF RunFree, RunGated
    <2>3. branch \in Branches
      BY DEF Branches
    <2>4. QED
      BY <2>1, <2>2, <2>3, TraceAtRecord
  <1>4. CASE StopRepeat
    BY <1>4, TraceAtRepeat
  <1>5. CASE ModelTurn \/ EndBatch \/ ToolRaises \/ ApproveRaises
    BY <1>5, TraceAtTurn
  <1>6. CASE UNCHANGED vars
    BY <1>6
    DEF vars, TraceIsTheRun, TraceIsComplete, RunsAreTraced, Executed, StopReasonIsTrue, Earlier
  <1>7. QED
    BY <1>1, <1>2, <1>3, <1>4, <1>5, <1>6 DEF Next, HandleCall

(* What a run reports is what it did: its trace is every call it handled,  *)
(* in order; the entries traced as executed are the tools it entered, one  *)
(* for one; and the reason it gives for stopping is the true one           *)
(* (tools_node, run_agent).                                                *)
THEOREM TraceTellsTheRun == Spec => []TraceIsTheRun
  <1>1. QED
    BY LoopInvariant, TraceAtInit, NextTrace, PTL DEF Spec

-----------------------------------------------------------------------------
(* The loop implements the contract of an agent run, step by step.         *)

LEMMA RefinesInit == Init => Contract!Init
  <1>1. DOMAIN <<>> = {}
    OBVIOUS
  <1>2. ToSet(<<>>) = {}
    BY <1>1 DEF ToSet
  <1>3. QED
    BY <1>2 DEF Init, Contract!Init, Over

(* Steps that decide no call: the contract ends or stutters.               *)
LEMMA RefinesUndecided ==
  ASSUME \/ ModelTurn \/ EndBatch \/ StopRepeat \/ RejectCall \/ ApproveRaises
         \/ UNCHANGED vars
  PROVE  [Contract!Next]_(Contract!vars)
  <1>1. UNCHANGED <<ran, declined>>
    BY DEF ModelTurn, Answer, Truncate, Finish, ModelRaises, Crash, CallTools, EndBatch,
           StopRepeat, RejectCall, ApproveRaises, books, vars
  <1>2. ToSet(ran)' = ToSet(ran)
    BY <1>1
  <1>3. Over => UNCHANGED Over
    BY DEF ModelTurn, Answer, Truncate, Finish, ModelRaises, Crash, CallTools, EndBatch,
           StopRepeat, RejectCall, ApproveRaises, NeedsApproval, Fresh, Repeat, Handling,
           Over, vars
  <1>4. CASE Over' = Over
    BY <1>1, <1>2, <1>4 DEF Contract!vars
  <1>5. CASE ~Over /\ Over'
    <2>1. Contract!End
      BY <1>1, <1>2, <1>5 DEF Contract!End
    <2>2. QED
      BY <2>1 DEF Contract!Next
  <1>6. QED
    BY <1>3, <1>4, <1>5 DEF Over

(* A call that runs, to its end or not.                                    *)
LEMMA RefinesRun ==
  ASSUME LoopInv, RunFree \/ (\E yes \in BOOLEAN : RunGated(yes)) \/ ToolRaises
  PROVE  Contract!Next
  <1>1. Fresh /\ Enter /\ declined' = declined
    BY DEF RunFree, RunGated, NeedsApproval, ToolRaises
  <1>2. ToSet(ran)' = ToSet(ran) \cup {TheCall}
    BY <1>1, EnterOnce
  <1>3. TheCall \in Calls /\ Contract!Undecided(TheCall)
    BY <1>1, FreshCall DEF Contract!Undecided, Over, InRun
  <1>4. node' = node \/ node' = "raised"
    BY DEF RunFree, RunGated, ToolRaises, Record
  <1>5. Contract!Run(TheCall) \/ Contract!RunAndCrash(TheCall)
    BY <1>1, <1>2, <1>3, <1>4
    DEF Contract!Run, Contract!RunAndCrash, Contract!Undecided, Over
  <1>6. QED
    BY <1>3, <1>5 DEF Contract!Next

(* A call the human, or the want of one, refuses.                          *)
LEMMA RefinesDecline ==
  ASSUME LoopInv, NEW yes \in BOOLEAN, Decline(yes)
  PROVE  Contract!Next
  <1>1. Fresh /\ declined' = declined \cup {TheCall} /\ ran' = ran /\ node' = node
    BY DEF Decline, NeedsApproval, Record
  <1>2. TheCall \in Calls /\ Contract!Undecided(TheCall)
    BY <1>1, FreshCall DEF Contract!Undecided, Over, InRun
  <1>3. ToSet(ran)' = ToSet(ran) /\ Over' = Over
    BY <1>1 DEF Over
  <1>4. Contract!Refuse(TheCall)
    BY <1>1, <1>2, <1>3 DEF Contract!Refuse
  <1>5. QED
    BY <1>2, <1>4 DEF Contract!Next

LEMMA RefinesNext == LoopInv /\ [Next]_vars => [Contract!Next]_(Contract!vars)
  <1> SUFFICES ASSUME LoopInv, [Next]_vars
               PROVE  [Contract!Next]_(Contract!vars)
    OBVIOUS
  <1>1. CASE \/ ModelTurn \/ EndBatch \/ StopRepeat \/ RejectCall \/ ApproveRaises
             \/ UNCHANGED vars
    BY <1>1, RefinesUndecided
  <1>2. CASE RunFree \/ (\E yes \in BOOLEAN : RunGated(yes)) \/ ToolRaises
    BY <1>2, RefinesRun
  <1>3. CASE \E yes \in BOOLEAN : Decline(yes)
    BY <1>3, RefinesDecline
  <1>4. QED
    BY <1>1, <1>2, <1>3 DEF Next, HandleCall

(* Whatever the model asks for, the loop only does what the contract       *)
(* allows: one verdict per call, none after the end (loop.py, 11 to 16).   *)
THEOREM LoopImplementsContract == Spec => Contract!Spec
  <1>1. QED
    BY LoopInvariant, RefinesInit, RefinesNext, PTL DEF Spec, Contract!Spec

=============================================================================
