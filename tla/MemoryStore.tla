----------------------------- MODULE MemoryStore -----------------------------
(***************************************************************************)
(* overlay/memory.py and the tools of tools/memory_tools.py: every write   *)
(* loads the whole file, changes it, writes a .tmp file whose name is      *)
(* always the same and renames it over the old one.  The service, the      *)
(* command line and the demo application are processes with no lock        *)
(* between them.  tools/decisions.py saves the graph file the same way.    *)
(***************************************************************************)
EXTENDS Naturals, FiniteSets

CONSTANTS
  Writers,         \* processes
  People,          \* user ids
  Texts,           \* what may be remembered
  KindOfText,      \* "fact" or "rule"
  BoundTexts,      \* the texts about some component
  Cues,            \* cue terms
  Absent, Broken,  \* no file; a file that does not parse
  MaxSaves         \* bound: calls that change the store

ASSUME MemoryAssumption ==
  /\ KindOfText \in [Texts -> {"fact", "rule"}]
  /\ BoundTexts \subseteq Texts
  /\ MaxSaves \in Nat

Scopes == {"team"} \cup People
Keys == Texts \X Scopes
Records == [status : {"proposed", "accepted"}, cue : SUBSET Cues, used : BOOLEAN]

(* A file: at most one record of a text in a scope. *)
Store(file) == file \notin {Absent, Broken}
NoRecord == [status |-> "none", cue |-> {}, used |-> FALSE]
EmptyStore == [k \in Keys |-> NoRecord]

(* No file is not a torn one, and neither is a store. *)
ASSUME StoreAssumption ==
  /\ Absent # Broken
  /\ {Absent, Broken} \cap [Keys -> Records \cup {NoRecord}] = {}

VARIABLES
  file,            \* memory.json
  tmp,             \* memory.json.tmp
  step,            \* where each writer is: idle, loaded, open, written
  handle,          \* what a writer's open file is by now: tmp, file, gone
  draft,           \* the records a writer will save
  ack,             \* the key a writer is about to have saved
  found,           \* what a recall of a writer found and has not marked yet
  observed,        \* calls of save_memory for each key (history)
  vouched,         \* keys a person stated or confirmed (history)
  kept,            \* keys whose save returned (history)
  overlapped,      \* two writers were between load and rename at once (history)
  saves            \* calls so far (history)

memoryVars ==
  <<file, tmp, step, handle, draft, ack, found, observed, vouched, kept, overlapped, saves>>

MemoryTypeOK ==
  /\ file \in {Absent, Broken} \/ file \in [Keys -> Records \cup {NoRecord}]
  /\ tmp \in {Absent, Broken} \/ tmp \in [Keys -> Records \cup {NoRecord}]
  /\ step \in [Writers -> {"idle", "loaded", "open", "written"}]
  /\ handle \in [Writers -> {"tmp", "file", "gone"}]
  /\ draft \in [Writers -> [Keys -> Records \cup {NoRecord}]]
  /\ found \in [Writers -> SUBSET Keys]
  /\ observed \in [Keys -> 0 .. MaxSaves]
  /\ vouched \cup kept \subseteq Keys
  /\ overlapped \in BOOLEAN
  /\ saves \in 0 .. MaxSaves

MemoryInit ==
  /\ file = Absent
  /\ tmp = Absent
  /\ step = [w \in Writers |-> "idle"]
  /\ handle = [w \in Writers |-> "gone"]
  /\ draft = [w \in Writers |-> EmptyStore]
  /\ ack = [w \in Writers |-> {}]
  /\ found = [w \in Writers |-> {}]
  /\ observed = [k \in Keys |-> 0]
  /\ vouched = {}
  /\ kept = {}
  /\ overlapped = FALSE
  /\ saves = 0

-----------------------------------------------------------------------------
(* What the operations make of the records they loaded. *)

Loaded == IF file = Absent THEN EmptyStore ELSE file

(* Slip: the same text in any scope is the second observation. *)
TwinsInAnyScope(records, key) == {k \in Keys : k[1] = key[1] /\ records[k] # NoRecord}

Twins(records, key) == {key} \cap {k \in Keys : records[k] # NoRecord}

(* A second save promotes what was proposed and merges the cues. *)
SaveMemory(records, key, cue, stated) ==
  IF Twins(records, key) # {}
    THEN LET twin == CHOOSE k \in Twins(records, key) : TRUE
         IN  [records EXCEPT ![twin].status = "accepted", ![twin].cue = @ \cup cue]
    ELSE [records EXCEPT ![key] =
            [status |-> IF stated THEN "accepted" ELSE "proposed", cue |-> cue, used |-> FALSE]]

PromoteMemory(records, key) == [records EXCEPT ![key].status = "accepted"]

MarkUsed(records, keys) ==
  [k \in Keys |-> IF k \in keys /\ records[k] # NoRecord
                   THEN [records[k] EXCEPT !.used = TRUE] ELSE records[k]]

Visible(key, person) == key[2] \in {"team", person}

(* What a request brings: cue terms, words of the text, a component bound.  *)
Queries == [terms : SUBSET Cues, words : BOOLEAN, impact : BOOLEAN]

(* Three for each cue term, two for a component in the impact set, one for  *)
(* a word of the text; a rule that nothing binds always counts.             *)
Score(text, record, query) ==
  LET score == 3 * Cardinality(record.cue \cap query.terms)
                 + (IF text \in BoundTexts /\ query.impact THEN 2 ELSE 0)
                 + (IF query.words THEN 1 ELSE 0)
  IN  IF score = 0 /\ KindOfText[text] = "rule" /\ text \notin BoundTexts THEN 1 ELSE score

(* The best six of them; a store here never holds more. *)
RetrieveMemory(records, person, query, kinds) ==
  {k \in Keys :
     /\ records[k].status = "accepted"
     /\ KindOfText[k[1]] \in kinds
     /\ Visible(k, person)
     /\ Score(k[1], records[k], query) > 0}

-----------------------------------------------------------------------------
(* The file protocol. *)

Busy == {w \in Writers : step[w] # "idle"}

(* A call loads and will save; what an earlier recall found is forgotten.   *)
Begin(w, records, key) ==
  /\ step[w] = "idle"
  /\ saves < MaxSaves
  /\ file # Broken
  /\ saves' = saves + 1
  /\ draft' = [draft EXCEPT ![w] = records]
  /\ ack' = [ack EXCEPT ![w] = key]
  /\ found' = [found EXCEPT ![w] = {}]
  /\ step' = [step EXCEPT ![w] = "loaded"]
  /\ overlapped' = (overlapped \/ Busy # {})
  /\ UNCHANGED <<file, tmp, handle, kept>>

(* The tool's door: no session, an empty text and a fact nothing can bring  *)
(* back are refused.                                                        *)
Save(w, person, key, cue, stated) ==
  /\ key[2] \in {"team", person}
  /\ KindOfText[key[1]] = "fact" => cue # {} \/ key[1] \in BoundTexts
  /\ file # Broken
  /\ Begin(w, SaveMemory(Loaded, key, cue, stated), {key})
  /\ observed' = [observed EXCEPT ![key] = @ + 1]
  /\ vouched' = IF stated THEN vouched \cup {key} ELSE vouched

Confirm(w, key) ==
  /\ file # Broken
  /\ Loaded[key] # NoRecord
  /\ Begin(w, PromoteMemory(Loaded, key), {key})
  /\ vouched' = vouched \cup {key}
  /\ UNCHANGED observed

(* A retrieval loads the file once to find memories, *)
Recall(w, person, query, kinds) ==
  /\ step[w] = "idle"
  /\ file # Broken
  /\ found' = [found EXCEPT ![w] = RetrieveMemory(Loaded, person, query, kinds)]
  /\ UNCHANGED <<file, tmp, step, handle, draft, ack, observed, vouched, kept, overlapped, saves>>

(* and, if there are any, a second time to mark them, which writes the file *)
(* too, whether they are still in it or not.                                *)
MarkFound(w) ==
  /\ found[w] # {}
  /\ file # Broken
  /\ Begin(w, MarkUsed(Loaded, found[w]), {})
  /\ UNCHANGED <<observed, vouched>>

memoryBooks == <<found, observed, vouched, saves>>

(* Slip: the file itself is opened for writing. *)
OpenInPlace(w) ==
  /\ step[w] = "loaded"
  /\ file' = Broken
  /\ tmp' = Broken
  /\ step' = [step EXCEPT ![w] = "open"]
  /\ handle' = [handle EXCEPT ![w] = "tmp"]
  /\ UNCHANGED <<draft, ack, kept, overlapped, memoryBooks>>

(* Opening for writing truncates, another writer's half-done .tmp as well.  *)
Open(w) ==
  /\ step[w] = "loaded"
  /\ tmp' = Broken
  /\ step' = [step EXCEPT ![w] = "open"]
  /\ handle' = [handle EXCEPT ![w] = "tmp"]
  /\ UNCHANGED <<file, draft, ack, kept, overlapped, memoryBooks>>

(* Two writers of one file may leave a mix of both. *)
Mixed(w) == \E v \in Writers \ {w} : step[v] \in {"open", "written"}

Write(w) ==
  /\ step[w] = "open"
  /\ \E content \in {draft[w]} \cup (IF Mixed(w) THEN {Broken} ELSE {}) :
       /\ tmp' = IF handle[w] = "tmp" THEN content ELSE tmp
       /\ file' = IF handle[w] = "file" THEN content ELSE file
  /\ step' = [step EXCEPT ![w] = "written"]
  /\ UNCHANGED <<handle, draft, ack, kept, overlapped, memoryBooks>>

Done(w) ==
  /\ step' = [step EXCEPT ![w] = "idle"]
  /\ draft' = [draft EXCEPT ![w] = EmptyStore]
  /\ ack' = [ack EXCEPT ![w] = {}]

(* The rename: whoever still has the .tmp open now has the file open. *)
Rename(w) ==
  /\ step[w] = "written"
  /\ tmp # Absent
  /\ file' = tmp
  /\ tmp' = Absent
  /\ handle' = [v \in Writers |->
                  IF v = w \/ handle[v] # "tmp" THEN "gone" ELSE "file"]
  /\ kept' = kept \cup ack[w]
  /\ Done(w)
  /\ UNCHANGED <<overlapped, memoryBooks>>

(* Another writer renamed the .tmp away: FileNotFoundError. *)
RenameFails(w) ==
  /\ step[w] = "written"
  /\ tmp = Absent
  /\ handle' = [handle EXCEPT ![w] = "gone"]
  /\ Done(w)
  /\ UNCHANGED <<file, tmp, kept, overlapped, memoryBooks>>

(* The process dies between two steps, or within a write. *)
Die(w) ==
  /\ step[w] # "idle"
  /\ handle' = [handle EXCEPT ![w] = "gone"]
  /\ Done(w)
  /\ UNCHANGED <<file, tmp, kept, overlapped, memoryBooks>>

MemoryNext ==
  \E w \in Writers :
    \/ /\ step[w] = "idle"
       /\ \/ \E p \in People, k \in Keys, cue \in SUBSET Cues, stated \in BOOLEAN :
               Save(w, p, k, cue, stated)
          \/ \E k \in Keys : Confirm(w, k)
          \/ \E p \in People \cup {"anonymous"}, query \in Queries,
                kinds \in {{"fact"}, {"rule"}, {"fact", "rule"}} : Recall(w, p, query, kinds)
          \/ MarkFound(w)
    \/ Open(w) \/ Write(w) \/ Rename(w) \/ RenameFails(w) \/ Die(w)

MemorySpec == MemoryInit /\ [][MemoryNext]_memoryVars

-----------------------------------------------------------------------------
(* As long as no two writers were ever between their load and their rename  *)
(* at once, the file parses, wherever a writer died, and every memory whose *)
(* save returned is in it (_save: temp file and os.replace).                *)
NothingLostAlone ==
  ~overlapped =>
    /\ file # Broken
    /\ \A k \in kept : file # Absent /\ file[k] # NoRecord

(* A memory shapes behaviour only if a person stated or confirmed it or it  *)
(* was saved a second time, in that scope, whatever the writers did to each *)
(* other's files (save_memory, the two trust levels).                       *)
AcceptedIsEarned ==
  Store(file) =>
    \A k \in Keys : file[k].status = "accepted" => k \in vouched \/ observed[k] >= 2
=============================================================================
