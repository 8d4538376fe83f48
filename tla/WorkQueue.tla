------------------------------ MODULE WorkQueue ------------------------------
(***************************************************************************)
(* The bounded FIFO of channel/queue.py with its admission policy by       *)
(* source: a push is merged with a waiting push of the same key, a         *)
(* heartbeat is dropped when one is waiting, a person's message is queued  *)
(* unless an approval is open.  submit, take and close each run under the  *)
(* queue's condition variable, so each is one action; whether a gate is    *)
(* open is a parameter of submit, read from the gate while it runs.        *)
(***************************************************************************)
EXTENDS Naturals, Sequences

CONSTANTS
  Keys,            \* dedupe keys: one per repository and branch
  NoKey,           \* dedupe_key is None: never merged
  MaxSize,         \* maxsize
  MaxEvents        \* bound: events offered in one behaviour

Ids == 1 .. MaxEvents

(* Telegram messages and heartbeats carry no key, a push carries its branch. *)
Events ==
  [id : Ids, source : {"telegram", "heartbeat"}, key : {NoKey}]
    \cup [id : Ids, source : {"github"}, key : Keys]

Reasons == {"closed", "gate busy", "full"}

ASSUME QueueAssumption ==
  /\ NoKey \notin Keys
  /\ MaxSize \in Nat \ {0}
  /\ MaxEvents \in Nat

VARIABLES
  items,           \* _items, oldest first
  closed,          \* _closed
  offered,         \* how many events have been submitted (history)
  admitted,        \* the events queued or merged into the queue (history)
  refused,         \* the events rejected, each with its reason (history)
  taken            \* the events the consumer popped, in order (history)

queueVars == <<items, closed, offered, admitted, refused, taken>>

Interactive(e) == e.source = "telegram"

Waiting == {items[i] : i \in DOMAIN items}
Taken == {taken[i] : i \in DOMAIN taken}

QueueTypeOK ==
  /\ items \in Seq(Events)
  /\ closed \in BOOLEAN
  /\ offered \in 0 .. MaxEvents
  /\ admitted \subseteq Events
  /\ refused \subseteq (Events \X Reasons)
  /\ taken \in Seq(Events)

QueueInit ==
  /\ items = <<>>
  /\ closed = FALSE
  /\ offered = 0
  /\ admitted = {}
  /\ refused = {}
  /\ taken = <<>>

-----------------------------------------------------------------------------
(* submit: the checks, in the order the code makes them. *)

(* The reasons that would refuse e; the code reports the first one.  A full *)
(* queue refuses before the heartbeat and merge rules are looked at.        *)
Refusals(e, gateBusy) ==
  {r \in Reasons :
     \/ r = "closed" /\ closed
     \/ r = "gate busy" /\ gateBusy /\ Interactive(e)
     \/ r = "full" /\ Len(items) >= MaxSize}

FirstReason(rs) ==
  IF "closed" \in rs THEN "closed"
  ELSE IF "gate busy" \in rs THEN "gate busy" ELSE "full"

HeartbeatWaiting == \E i \in DOMAIN items : items[i].source = "heartbeat"

(* Slip: only the oldest waiting event is looked at. *)
RedundantAtHead(e) ==
  e.source = "heartbeat" /\ items # <<>> /\ Head(items).source = "heartbeat"

Redundant(e) == e.source = "heartbeat" /\ HeartbeatWaiting

(* Slip: events without a key merge with each other. *)
MergeableWithoutKey(e) == \E i \in DOMAIN items : items[i].key = e.key

Mergeable(e) == e.key # NoKey /\ \E i \in DOMAIN items : items[i].key = e.key

(* The first waiting event with e's key. *)
MergeSlot(e) ==
  CHOOSE i \in DOMAIN items :
    /\ items[i].key = e.key
    /\ \A j \in DOMAIN items : items[j].key = e.key => i <= j

Reject(e, gateBusy) ==
  /\ Refusals(e, gateBusy) # {}
  /\ refused' = refused \cup {<<e, FirstReason(Refusals(e, gateBusy))>>}
  /\ UNCHANGED <<items, closed, admitted, taken>>

(* A heartbeat that is waiting already covers everything outstanding. *)
Drop(e, gateBusy) ==
  /\ Refusals(e, gateBusy) = {}
  /\ Redundant(e)
  /\ UNCHANGED <<items, closed, admitted, refused, taken>>

(* Slip: the older push is kept, as for a heartbeat. *)
CoalesceKeepsOlder(e, gateBusy) ==
  /\ Refusals(e, gateBusy) = {}
  /\ Mergeable(e)
  /\ admitted' = admitted \cup {e}
  /\ UNCHANGED <<items, closed, refused, taken>>

(* The newest push replaces the waiting one, in its place. *)
Coalesce(e, gateBusy) ==
  /\ Refusals(e, gateBusy) = {}
  /\ Mergeable(e)
  /\ items' = [items EXCEPT ![MergeSlot(e)] = e]
  /\ admitted' = admitted \cup {e}
  /\ UNCHANGED <<closed, refused, taken>>

(* Slip: appendleft for append. *)
EnqueueFirst(e, gateBusy) ==
  /\ Refusals(e, gateBusy) = {}
  /\ ~Redundant(e)
  /\ ~Mergeable(e)
  /\ items' = <<e>> \o items
  /\ admitted' = admitted \cup {e}
  /\ UNCHANGED <<closed, refused, taken>>

Enqueue(e, gateBusy) ==
  /\ Refusals(e, gateBusy) = {}
  /\ ~Redundant(e)
  /\ ~Mergeable(e)
  /\ items' = Append(items, e)
  /\ admitted' = admitted \cup {e}
  /\ UNCHANGED <<closed, refused, taken>>

Submit(e, gateBusy) ==
  /\ e.id = offered + 1
  /\ offered' = offered + 1
  /\ \/ Reject(e, gateBusy)
     \/ Drop(e, gateBusy)
     \/ Coalesce(e, gateBusy)
     \/ Enqueue(e, gateBusy)

(* take pops the oldest event, closed or not: a worker that is inside take  *)
(* when the queue closes still gets one.  An empty queue returns None.      *)
Take ==
  /\ items # <<>>
  /\ items' = Tail(items)
  /\ taken' = Append(taken, Head(items))
  /\ UNCHANGED <<closed, offered, admitted, refused>>

Close ==
  /\ closed' = TRUE
  /\ UNCHANGED <<items, offered, admitted, refused, taken>>

QueueNext ==
  \/ \E e \in Events, gateBusy \in BOOLEAN : Submit(e, gateBusy)
  \/ Take
  \/ Close

QueueSpec == QueueInit /\ [][QueueNext]_queueVars

-----------------------------------------------------------------------------
(* At most one heartbeat and at most one push per key wait at any time, and *)
(* the queue never outgrows maxsize (submit).                               *)
NoRedundantWork ==
  /\ Len(items) <= MaxSize
  /\ \A i, j \in DOMAIN items :
       i # j => /\ items[i].source = "heartbeat" => items[j].source # "heartbeat"
                /\ items[i].key # NoKey => items[j].key # items[i].key

(* Coalescing is not lossy: for every push the queue accepted, that push or *)
(* a newer one of its key is waiting or has been taken (submit).            *)
AcceptedPushIsCovered ==
  \A e \in admitted : e.source = "github" =>
    \E f \in Waiting \cup Taken : f.key = e.key /\ f.id >= e.id

(* A person's message is never coalesced and never dropped: once admitted   *)
(* it waits or has been taken; and people's messages are taken in the order *)
(* they were sent (submit, take).                                           *)
HumanMessageKept ==
  /\ \A e \in admitted : Interactive(e) => e \in Waiting \cup Taken
  /\ \A i, j \in DOMAIN taken :
       i < j /\ Interactive(taken[i]) /\ Interactive(taken[j]) => taken[i].id < taken[j].id
=============================================================================
