---------------------------- MODULE TelegramPoll ----------------------------
(***************************************************************************)
(* The long poll of channel/telegram.py against a server that forgets what *)
(* a request's offset acknowledges.  The offset is saved, in memory and in *)
(* a file, before the updates of the reply are yielded one by one.  The    *)
(* process may stop anywhere, a save may fail or tear the file, a request  *)
(* may fail after the server has seen it.                                  *)
(***************************************************************************)
EXTENDS Naturals, SequencesExt, FiniteSetsExt

CONSTANTS
  Chats,           \* chat ids
  AllowedChats,    \* allowed_chats
  Updates,         \* what people may send: a chat, and whether it is text
  NoOffset,        \* None, and what an unreadable offset file loads as
  PageSize,        \* updates the server puts in one reply
  BackoffMax,      \* BACKOFF_MAX, in units of BACKOFF_START
  MaxUpdates,      \* bound: updates people send
  MaxStops         \* bound: stops of the process

Update == [chat : Chats, text : BOOLEAN]

ASSUME PollAssumption ==
  /\ AllowedChats \subseteq Chats
  /\ Updates \subseteq Update
  /\ NoOffset \notin Nat
  /\ PageSize \in Nat \ {0}
  /\ BackoffMax \in Nat \ {0}
  /\ MaxUpdates \in Nat
  /\ MaxStops \in Nat

VARIABLES
  sent,            \* the updates people sent; an update's id is its place
  forgotten,       \* the server has forgotten the ids below this one
  offset,          \* _offset
  offsetFile,      \* the offset file
  page,            \* the ids of the last reply not yet looked at
  backoff,         \* _backoff
  running,         \* does the process run?
  yielded,         \* the ids yielded as events, in order (history)
  unsaved,         \* the ids whose offset did not reach the file (history)
  cutOff,          \* the ids of a page the process stopped in (history)
  stops            \* stops so far (history)

pollVars ==
  <<sent, forgotten, offset, offsetFile, page, backoff, running, yielded, unsaved, cutOff, stops>>

Offsets == Nat \cup {NoOffset}

PollTypeOK ==
  /\ sent \in Seq(Update)
  /\ forgotten \in Nat
  /\ offset \in Offsets
  /\ offsetFile \in Offsets
  /\ page \in Seq(1 .. Len(sent))
  /\ backoff \in 1 .. BackoffMax
  /\ running \in BOOLEAN
  /\ yielded \in Seq(1 .. Len(sent))
  /\ unsaved \subseteq 1 .. Len(sent)
  /\ cutOff \subseteq 1 .. Len(sent)
  /\ stops \in 0 .. MaxStops

PollInit ==
  /\ sent = <<>>
  /\ forgotten = 1
  /\ offset = NoOffset
  /\ offsetFile = NoOffset
  /\ page = <<>>
  /\ backoff = 1
  /\ running = TRUE
  /\ yielded = <<>>
  /\ unsaved = {}
  /\ cutOff = {}
  /\ stops = 0

-----------------------------------------------------------------------------
Greater(a, b) == IF a > b THEN a ELSE b
Lesser(a, b) == IF a < b THEN a ELSE b

Send(update) ==
  /\ Len(sent) < MaxUpdates
  /\ sent' = Append(sent, update)
  /\ UNCHANGED <<forgotten, offset, offsetFile, page, backoff, running, yielded, unsaved,
                 cutOff, stops>>

(* _load_offset: memory first, then the file. *)
LoadOffset == IF offset # NoOffset THEN offset ELSE offsetFile

(* The server acknowledges what is below the offset it is sent. *)
Acknowledged ==
  IF LoadOffset = NoOffset THEN forgotten ELSE Greater(forgotten, LoadOffset)

(* And answers with the oldest updates it still has. *)
Reply ==
  [i \in 1 .. Lesser(PageSize, (Len(sent) + 1) - Acknowledged) |-> Acknowledged + i - 1]

(* Slip: the newest id itself, without the + 1. *)
NewestId(reply) == Max(ToSet(reply))

(* Slip: one too far. *)
SkipOffset(reply) == Max(ToSet(reply)) + 2

NextOffset(reply) == Max(ToSet(reply)) + 1

(* write_text truncates, then writes; an OSError is swallowed. *)
FileAfterSave(o) == {o, offsetFile, NoOffset}

Waiting == running /\ page = <<>>

GetUpdates ==
  /\ Waiting
  /\ forgotten' = Acknowledged
  /\ page' = Reply
  /\ backoff' = 1
  /\ IF Reply = <<>>
       THEN offset' = LoadOffset /\ UNCHANGED <<offsetFile, unsaved>>
       ELSE LET o == NextOffset(Reply)
            IN  /\ offset' = o
                /\ offsetFile' \in FileAfterSave(o)
                /\ unsaved' = IF offsetFile' = o THEN unsaved ELSE unsaved \cup ToSet(Reply)
  /\ UNCHANGED <<sent, running, yielded, cutOff, stops>>

(* A refused or failed request, which the server may have seen. *)
TransportError ==
  /\ Waiting
  /\ forgotten' \in {forgotten, Acknowledged}
  /\ offset' = LoadOffset
  /\ backoff' = Lesser(2 * backoff, BackoffMax)
  /\ UNCHANGED <<sent, offsetFile, page, running, yielded, unsaved, cutOff, stops>>

(* to_event: text only, and only from the rooms it was given. *)
IsEvent(id) == sent[id].text /\ sent[id].chat \in AllowedChats

(* The consumer takes the next event, or the update is passed over. *)
Yield ==
  /\ running
  /\ page # <<>>
  /\ page' = Tail(page)
  /\ yielded' = IF IsEvent(Head(page)) THEN Append(yielded, Head(page)) ELSE yielded
  /\ UNCHANGED <<sent, forgotten, offset, offsetFile, backoff, running, unsaved, cutOff, stops>>

(* The process is killed, or the poll raises what it does not catch: the    *)
(* rest of the page goes with it.  It may be in the middle of a save.       *)
Stop ==
  /\ running
  /\ stops < MaxStops
  /\ stops' = stops + 1
  /\ running' = FALSE
  /\ offset' = NoOffset
  /\ page' = <<>>
  /\ backoff' = 1
  /\ cutOff' = cutOff \cup ToSet(page)
  /\ UNCHANGED <<sent, yielded>>
  /\ \/ UNCHANGED <<forgotten, offsetFile, unsaved>>
     \/ /\ page = <<>>
        /\ Reply # <<>>
        /\ forgotten' = Acknowledged
        /\ offsetFile' = NoOffset
        /\ unsaved' = unsaved \cup ToSet(Reply)

Restart ==
  /\ ~running
  /\ running' = TRUE
  /\ UNCHANGED <<sent, forgotten, offset, offsetFile, page, backoff, yielded, unsaved, cutOff,
                 stops>>

PollNext ==
  \/ \E update \in Updates : Send(update)
  \/ GetUpdates
  \/ TransportError
  \/ Yield
  \/ Stop
  \/ Restart

PollSpec == PollInit /\ [][PollNext]_pollVars

-----------------------------------------------------------------------------
Handed(id) == id \in ToSet(yielded)

(* A question is not answered twice: an update is handed over again only if *)
(* its offset never reached the file and the process stopped, and the       *)
(* others come in the order they were sent; and what the server may forget  *)
(* was handed over, was nothing to hand over, is being handed over, or went *)
(* with a process that stopped (_save_offset, poll).                        *)
PollIsFaithful ==
  /\ \A i, j \in DOMAIN yielded :
       i < j /\ yielded[i] >= yielded[j] => stops > 0 /\ yielded[j] \in unsaved
  /\ \A id \in 1 .. Len(sent) :
       id < forgotten \/ (offset # NoOffset /\ id < offset) =>
         ~IsEvent(id) \/ Handed(id) \/ id \in ToSet(page) \cup cutOff

(* Every message in an allowed room reaches the queue, however often the    *)
(* network fails, unless the process stopped while it had it in hand.       *)
EveryMessageArrives ==
  \A id \in 1 .. MaxUpdates :
    (id \in DOMAIN sent /\ IsEvent(id)) ~> (Handed(id) \/ id \in cutOff)
=============================================================================
