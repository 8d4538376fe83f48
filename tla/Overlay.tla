------------------------------- MODULE Overlay -------------------------------
(***************************************************************************)
(* The decisions and silences of overlay/db.py under the service's worker, *)
(* which checks for silence, assembles a context and answers, and under    *)
(* other processes that record decisions or import those an old graph file *)
(* still holds.  Every statement commits on its own, so another process    *)
(* may write between any two of a turn's.                                  *)
(***************************************************************************)
EXTENDS Naturals, SequencesExt, FiniteSetsExt

CONSTANTS
  SortedUsers,     \* the allowlisted user ids, sorted
  Components,      \* symbol_uids
  Wordings,        \* decision texts
  Legacy,          \* decisions[] of an old graph file: [uid, text], in order
  Importers,       \* processes that scan
  Recorded,        \* statuses people give here
  MaxDecisions,    \* bound: rows recorded by people
  MaxTurns         \* bound: turns of the worker

Anonymous == ""
Users == ToSet(SortedUsers)
RepoWide == "repo-wide"
Uids == Components \cup {RepoWide}
Statuses == {"proposed", "accepted", "superseded"}
InForce == {"accepted", "proposed"}

ASSUME OverlayAssumption ==
  /\ {Anonymous, "team", "hw1"} \cap Users = {}
  /\ RepoWide \notin Components
  /\ SortedUsers \in Seq(Users)
  /\ Legacy \in Seq([uid : Uids, text : Wordings])
  /\ Recorded \subseteq Statuses
  /\ MaxDecisions \in Nat
  /\ MaxTurns \in Nat

Decision ==
  [uid : Uids, text : Wordings, author : {"hw1"} \cup Users,
   visibility : {"team"} \cup Users, status : Statuses]

VARIABLES
  decisions,       \* the table decisions; a row's id is its place
  silences,        \* the table silences
  turn,            \* where the worker is, for whom, about what
  handed,          \* rows the turn's model was given
  import,          \* what each importer's check found missing
  imported,        \* an import has ended (history)
  contended,       \* two importers were at work at once (history)
  quiet,           \* turns that were decided to go unanswered (history)
  raised,          \* of those, the ones whose row could not be written (history)
  turns            \* turns so far (history)

overlayVars ==
  <<decisions, silences, turn, handed, import, imported, contended, quiet, raised, turns>>

NoTurn == [step |-> "idle", user |-> Anonymous, names |-> {}, uids |-> {}, withheld |-> {}]
NotImporting == 0

OverlayTypeOK ==
  /\ decisions \in Seq(Decision)
  /\ \A s \in ToSet(silences) :
       s.visibility \in Users /\ s.asker \in {Anonymous} \cup Users
  /\ turn.step \in {"idle", "asked", "silent", "speaking", "answering"}
  /\ turn.user \in {Anonymous} \cup Users
  /\ handed \subseteq DOMAIN decisions
  /\ import \in [Importers -> 0 .. Len(Legacy)]
  /\ quiet + raised <= 2 * turns

OverlayInit ==
  /\ decisions = <<>>
  /\ silences = <<>>
  /\ turn = NoTurn
  /\ handed = {}
  /\ import = [i \in Importers |-> NotImporting]
  /\ imported = FALSE
  /\ contended = FALSE
  /\ quiet = 0
  /\ raised = 0
  /\ turns = 0

-----------------------------------------------------------------------------
(* The queries. *)

VisibleTo(user) == {"team"} \cup ({user} \ {Anonymous})

(* Slip: the filter on the asker is left to the caller. *)
QueryUnfiltered(user, uids, repoWide) ==
  {d \in DOMAIN decisions :
     /\ decisions[d].status \in InForce
     /\ decisions[d].uid \in uids \cup (IF repoWide THEN {RepoWide} ELSE {})}

QueryDecisions(user, uids, repoWide) ==
  {d \in DOMAIN decisions :
     /\ decisions[d].visibility \in VisibleTo(user)
     /\ decisions[d].status \in InForce
     /\ decisions[d].uid \in uids \cup (IF repoWide THEN {RepoWide} ELSE {})}

DecisionsAcrossScopes(uids) ==
  {d \in DOMAIN decisions : decisions[d].uid \in uids /\ decisions[d].status \in InForce}

AllDecisionUids == {decisions[d].uid : d \in DOMAIN decisions} \ {RepoWide}

QuerySilences(user) == {i \in DOMAIN silences : silences[i].visibility \in VisibleTo(user)}

(* The components a message names, of those with decisions on file. *)
MentionedUids(names) == names \cap AllDecisionUids

-----------------------------------------------------------------------------
(* evaluate_silence *)

Owners(rows) == {decisions[d].visibility : d \in rows}

Silent(user, candidates) ==
  /\ candidates # {}
  /\ Owners(candidates) \cap VisibleTo(user) = {}
  /\ "team" \notin Owners(candidates)

(* The record is readable by the first of the owners. *)
FirstOwner(owners) == SortedUsers[Min({i \in DOMAIN SortedUsers : SortedUsers[i] \in owners})]

(* Slip: the record is for whoever asked. *)
AskerScope(user, rows) == IF user = Anonymous THEN FirstOwner(Owners(rows)) ELSE user

OwnerScope(user, rows) == FirstOwner(Owners(rows))

-----------------------------------------------------------------------------
(* The writers. *)

AppendRow(row) == decisions' = Append(decisions, row)

people == <<silences, import, imported, contended, quiet, raised, turns>>

(* append_decision_record: needs a session; superseding is not offered. *)
AppendDecisionRecord(author, uid, text, private, status) ==
  /\ author # Anonymous
  /\ uid # RepoWide
  /\ Len(decisions) < MaxDecisions
  /\ AppendRow([uid |-> uid, text |-> text, author |-> author, status |-> status,
                visibility |-> IF private THEN author ELSE "team"])
  /\ UNCHANGED <<turn, handed, people>>

OnFile(record) ==
  \E d \in DOMAIN decisions :
    decisions[d].uid = record.uid /\ decisions[d].text = record.text

MissingRecords == {r \in DOMAIN Legacy : ~OnFile(Legacy[r])}

FromLegacy(r) ==
  [uid |-> Legacy[r].uid, text |-> Legacy[r].text, author |-> "hw1", visibility |-> "team",
   status |-> "accepted"]

(* The first SELECTs, outside any transaction. *)
ImportCheck(i) ==
  /\ import[i] = NotImporting
  /\ MissingRecords # {}
  /\ import' = [import EXCEPT ![i] = Min(MissingRecords)]
  /\ contended' = (contended \/ \E j \in Importers : import[j] # NotImporting)
  /\ UNCHANGED <<decisions, silences, turn, handed, imported, quiet, raised, turns>>

(* Slip: only the first missing record is inserted. *)
ImportOne(i) == {import[i]}

(* The first INSERT locks the table; the rest are checked under the lock,   *)
(* where a record that repeats one before it is found on file.              *)
ImportRows(i) ==
  {import[i]} \cup {r \in MissingRecords :
                      /\ r > import[i]
                      /\ \A q \in import[i] .. r - 1 : Legacy[q] # Legacy[r]}

(* The members of a set of places, in order. *)
Orders(rows) ==
  {order \in [1 .. Cardinality(rows) -> rows] :
     \A m, n \in DOMAIN order : m < n => order[m] < order[n]}

ImportInsert(i) ==
  /\ import[i] # NotImporting
  /\ \E order \in Orders(ImportRows(i)) :
       decisions' = decisions \o [k \in DOMAIN order |-> FromLegacy(order[k])]
  /\ import' = [import EXCEPT ![i] = NotImporting]
  /\ imported' = TRUE
  /\ UNCHANGED <<silences, turn, handed, contended, quiet, raised, turns>>

-----------------------------------------------------------------------------
(* A turn of the worker that is neither a command nor a push. *)

unturned == <<decisions, import, imported, contended>>

(* resolve: an unmapped sender is anonymous.  The first query of the check. *)
Resolve(user, names) ==
  /\ turn.step = "idle"
  /\ turns < MaxTurns
  /\ turns' = turns + 1
  /\ turn' = [step |-> "asked", user |-> user, names |-> names,
              uids |-> MentionedUids(names), withheld |-> {}]
  /\ UNCHANGED <<silences, handed, quiet, raised, unturned>>

CheckSilence ==
  /\ turn.step = "asked"
  /\ LET candidates == DecisionsAcrossScopes(turn.uids)
     IN  IF Silent(turn.user, candidates)
           THEN /\ turn' = [turn EXCEPT !.step = "silent", !.withheld = candidates]
                /\ quiet' = quiet + 1
           ELSE turn' = [turn EXCEPT !.step = "speaking"] /\ UNCHANGED quiet
  /\ UNCHANGED <<silences, handed, raised, turns, unturned>>

(* No reply is sent. *)
RecordSilence ==
  /\ turn.step = "silent"
  /\ silences' = Append(silences,
       [visibility |-> OwnerScope(turn.user, turn.withheld), asker |-> turn.user,
        withheld |-> turn.withheld])
  /\ turn' = NoTurn
  /\ UNCHANGED <<handed, quiet, raised, turns, unturned>>

(* The table is locked for too long: on_handler_error. *)
RecordRaises ==
  /\ turn.step = "silent"
  /\ raised' = raised + 1
  /\ turn' = NoTurn
  /\ UNCHANGED <<silences, handed, quiet, turns, unturned>>

(* answer_question looks the message's components up again. *)
Assemble ==
  /\ turn.step = "speaking"
  /\ LET impact == MentionedUids(turn.names)
     IN  /\ turn' = [turn EXCEPT !.step = "answering", !.uids = impact]
         /\ handed' = IF impact = {} THEN {} ELSE QueryDecisions(turn.user, impact, TRUE)
  /\ UNCHANGED <<silences, quiet, raised, turns, unturned>>

(* retrieve_decisions, with any component the model thinks of. *)
RetrieveDecisions(uid, scope) ==
  /\ turn.step = "answering"
  /\ handed' = handed \cup
       QueryDecisions(turn.user, {uid} \ {RepoWide}, scope = "component_and_repo_wide")
  /\ UNCHANGED <<turn, silences, quiet, raised, turns, unturned>>

(* The model records what it was told to, as whoever asked. *)
RecordInTurn(uid, text, private, status) ==
  /\ turn.step = "answering"
  /\ AppendDecisionRecord(turn.user, uid, text, private, status)

Answer ==
  /\ turn.step = "answering"
  /\ turn' = NoTurn
  /\ handed' = {}
  /\ UNCHANGED <<silences, quiet, raised, turns, unturned>>

OverlayNext ==
  \/ \E a \in Users, u \in Components, t \in Wordings, p \in BOOLEAN, s \in Recorded :
       AppendDecisionRecord(a, u, t, p, s) \/ RecordInTurn(u, t, p, s)
  \/ \E i \in Importers : ImportCheck(i) \/ ImportInsert(i)
  \/ \E u \in {Anonymous} \cup Users, names \in SUBSET Components : Resolve(u, names)
  \/ CheckSilence \/ RecordSilence \/ RecordRaises \/ Assemble \/ Answer
  \/ \E u \in Uids, scope \in {"component", "component_and_repo_wide"} :
       RetrieveDecisions(u, scope)

OverlaySpec == OverlayInit /\ [][OverlayNext]_overlayVars

-----------------------------------------------------------------------------
(* A private decision reaches the model of nobody but its owner's turn; a   *)
(* turn that withheld some has a row on file unless the write failed; and   *)
(* the row can be read by the owner of a withheld decision and not by the   *)
(* asker, who could see none of them (visible_to, evaluate_silence).        *)
PrivateStaysPrivate ==
  /\ \A d \in handed : decisions[d].visibility \in VisibleTo(turn.user)
  /\ quiet = Len(silences) + raised + (IF turn.step = "silent" THEN 1 ELSE 0)
  /\ \A i \in DOMAIN silences :
       LET s == silences[i]
       IN  /\ i \notin QuerySilences(s.asker)
           /\ s.visibility \in Owners(s.withheld)
           /\ Owners(s.withheld) \cap VisibleTo(s.asker) = {}

(* Whatever an old graph file held is in the table once an import ended,    *)
(* and no record twice unless two imports were at work at once              *)
(* (import_legacy_decisions).                                               *)
ImportedOnce ==
  imported =>
    \A r \in DOMAIN Legacy :
      /\ OnFile(Legacy[r])
      /\ ~contended =>
           Cardinality({d \in DOMAIN decisions :
             /\ decisions[d].author = "hw1"
             /\ decisions[d].uid = Legacy[r].uid
             /\ decisions[d].text = Legacy[r].text}) <= 1
=============================================================================
