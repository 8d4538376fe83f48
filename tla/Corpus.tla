------------------------------- MODULE Corpus -------------------------------
(***************************************************************************)
(* What search answers from: the summary cards overlay/summarize.py writes *)
(* one commit at a time, the index retrieval/index.py replaces wholesale   *)
(* in two, and a search that reads it twice.  Each is a process of its own *)
(* and may stop between any two commits.                                   *)
(***************************************************************************)
EXTENDS Naturals, SequencesExt, FiniteSetsExt

CONSTANTS
  Declared,        \* symbols the scanner found in the module
  Invented,        \* a name the scanner did not find
  Readers,         \* user ids
  Indexers,        \* processes that run the indexer
  KindSets,        \* the selections of kinds an indexer or a search may name
  MaxEdits,        \* bound: changes to the sources of the corpus
  MaxSummaries,    \* bound: runs of the summariser that call the model
  MaxBuilds,       \* bound: runs of the indexer
  MaxSearches      \* bound: searches

(* Rows of node_summaries for one module; the module card has its own row.  *)
Module == "module"
Cards == Declared \cup {Module, Invented}

ASSUME CorpusAssumption ==
  /\ Invented \notin Declared
  /\ Module \notin Declared \cup {Invented}
  /\ KindSets \subseteq SUBSET {"component", "decision", "doc"}
  /\ {MaxEdits, MaxSummaries, MaxBuilds, MaxSearches} \subseteq Nat

(* Besides the cards: a private decision and a section of a document.       *)
Authored == {"decision", "section"}
ChunkIds == Cards \cup Authored
KindOfChunk(c) ==
  IF c \in Cards THEN "component" ELSE IF c = "decision" THEN "decision" ELSE "doc"

None == 0  \* no such row; otherwise the version of its text

VARIABLES
  source,          \* version of the module's file
  authored,        \* decisions and sections as they are
  cards,           \* node_summaries: the version each card describes
  summary,         \* where the summariser is
  cutShort,        \* versions whose cards it, or the model's reply, left out (history)
  index,           \* table chunks: the version of each row
  build,           \* where each indexer is
  builtBy,         \* the build each row of the index came from (history)
  mixed,           \* two indexers were past their truncate at once (history)
  query,           \* where the search is
  shown,           \* users whose search found the private decision (history)
  edits, summaries, builds, searches  \* counters (history)

corpusBooks == <<edits, summaries, builds, searches>>
cardVars == <<cards, summary, cutShort>>
indexVars == <<index, build, builtBy, mixed>>
searchVars == <<query, shown>>
corpusVars == <<source, authored, cardVars, indexVars, searchVars, corpusBooks>>

Versions == 0 .. MaxEdits + 1
NotSummarising == [at |-> "idle", version |-> None, todo |-> {}]
NotBuilding == [at |-> "idle", rows |-> [c \in ChunkIds |-> None], number |-> 0]
NotSearching == [at |-> "idle", user |-> "", kinds |-> {}, corpus |-> {}]

CorpusTypeOK ==
  /\ source \in Versions
  /\ authored \in [Authored -> Versions]
  /\ cards \in [Cards -> Versions]
  /\ summary \in [at : {"idle", "module", "symbols"}, version : Versions, todo : SUBSET Cards]
  /\ cutShort \subseteq Versions
  /\ index \in [ChunkIds -> Versions]
  /\ build \in [Indexers -> [at : {"idle", "embedding", "truncated"},
                             rows : [ChunkIds -> Versions], number : 0 .. MaxBuilds]]
  /\ builtBy \in [ChunkIds -> 0 .. MaxBuilds]
  /\ mixed \in BOOLEAN
  /\ query.at \in {"idle", "lexical"} /\ query.corpus \subseteq ChunkIds
  /\ shown \subseteq Readers

CorpusInit ==
  /\ source = 1
  /\ authored = [a \in Authored |-> 1]
  /\ cards = [c \in Cards |-> None]
  /\ summary = NotSummarising
  /\ cutShort = {}
  /\ index = [c \in ChunkIds |-> None]
  /\ build = [i \in Indexers |-> NotBuilding]
  /\ builtBy = [c \in ChunkIds |-> 0]
  /\ mixed = FALSE
  /\ query = NotSearching
  /\ shown = {}
  /\ edits = 0 /\ summaries = 0 /\ builds = 0 /\ searches = 0

-----------------------------------------------------------------------------
(* The sources change. *)

CountEdit == edits < MaxEdits /\ edits' = edits + 1

EditSource ==
  /\ CountEdit
  /\ source' = source + 1
  /\ UNCHANGED <<authored, cardVars, indexVars, searchVars, summaries, builds, searches>>

(* A decision is superseded or a section removed. *)
Withdraw(a) ==
  /\ CountEdit
  /\ authored[a] # None
  /\ authored' = [authored EXCEPT ![a] = None]
  /\ UNCHANGED <<source, cardVars, indexVars, searchVars, summaries, builds, searches>>

-----------------------------------------------------------------------------
(* summarize.run, for one node. *)

unsummarised == <<source, authored, indexVars, searchVars, edits, builds, searches>>

(* Slip: any name the model gives is a card. *)
AnyEntry(entries) == entries

KnownEntries(entries) == entries \cap Declared

(* The file is read and the model asked, unless the module card is current; *)
(* a reply that does not parse is counted and left.                         *)
SummarizeNode(force, entries) ==
  /\ summary.at = "idle"
  /\ summaries < MaxSummaries
  /\ cards[Module] # source \/ force
  /\ summaries' = summaries + 1
  /\ summary' = [at |-> "module", version |-> source, todo |-> KnownEntries(entries)]
  /\ UNCHANGED <<cards, cutShort, unsummarised>>

(* The first commit: from now on the node counts as current. *)
UpsertModuleCard ==
  /\ summary.at = "module"
  /\ cards' = [cards EXCEPT ![Module] = summary.version]
  /\ cutShort' = IF Declared \subseteq summary.todo THEN cutShort \ {summary.version}
                  ELSE cutShort \cup {summary.version}
  /\ summary' = IF summary.todo = {} THEN NotSummarising
                ELSE [summary EXCEPT !.at = "symbols"]
  /\ UNCHANGED <<summaries, unsummarised>>

(* Slip: each card takes the hash of the file as it is by then. *)
UpsertWithNewHash ==
  /\ summary.at = "symbols"
  /\ \E c \in summary.todo :
       /\ cards' = [cards EXCEPT ![c] = source]
       /\ summary' = IF summary.todo = {c} THEN NotSummarising
                     ELSE [summary EXCEPT !.todo = @ \ {c}]
  /\ UNCHANGED <<cutShort, summaries, unsummarised>>

UpsertSymbolCard ==
  /\ summary.at = "symbols"
  /\ \E c \in summary.todo :
       /\ cards' = [cards EXCEPT ![c] = summary.version]
       /\ summary' = IF summary.todo = {c} THEN NotSummarising
                     ELSE [summary EXCEPT !.todo = @ \ {c}]
  /\ UNCHANGED <<cutShort, summaries, unsummarised>>

StopSummary ==
  /\ summary.at # "idle"
  /\ cutShort' = IF summary.at = "symbols" THEN cutShort \cup {summary.version} ELSE cutShort
  /\ summary' = NotSummarising
  /\ UNCHANGED <<cards, summaries, unsummarised>>

-----------------------------------------------------------------------------
(* The indexer. *)

unindexed == <<source, authored, cardVars, searchVars, edits, summaries, searches>>

BuildCorpus(kinds) ==
  [c \in ChunkIds |->
     IF KindOfChunk(c) \notin kinds THEN None
     ELSE IF c \in Cards THEN cards[c] ELSE authored[c]]

(* Read the stores; nothing to index ends it here. *)
StartBuild(i, kinds) ==
  /\ build[i].at = "idle"
  /\ builds < MaxBuilds
  /\ \E c \in ChunkIds : BuildCorpus(kinds)[c] # None
  /\ builds' = builds + 1
  /\ build' = [build EXCEPT ![i] =
                 [at |-> "embedding", rows |-> BuildCorpus(kinds), number |-> builds + 1]]
  /\ UNCHANGED <<index, builtBy, mixed, unindexed>>

EmptyIndex ==
  /\ index' = [c \in ChunkIds |-> None]
  /\ builtBy' = [c \in ChunkIds |-> 0]

Others(i) == Indexers \ {i}

(* Slip: new rows are merged into the old. *)
KeepRows(i) ==
  /\ build[i].at = "embedding"
  /\ UNCHANGED <<index, builtBy>>
  /\ build' = [build EXCEPT ![i].at = "truncated"]
  /\ mixed' = (mixed \/ \E j \in Others(i) : build[j].at = "truncated")
  /\ UNCHANGED <<builds, unindexed>>

(* Everything is embedded; TRUNCATE commits on its own. *)
Truncate(i) ==
  /\ build[i].at = "embedding"
  /\ EmptyIndex
  /\ build' = [build EXCEPT ![i].at = "truncated"]
  /\ mixed' = (mixed \/ \E j \in Others(i) : build[j].at = "truncated")
  /\ UNCHANGED <<builds, unindexed>>

UpsertChunks(i) ==
  /\ build[i].at = "truncated"
  /\ LET new == {c \in ChunkIds : build[i].rows[c] # None}
     IN  /\ index' = [c \in ChunkIds |-> IF c \in new THEN build[i].rows[c] ELSE index[c]]
         /\ builtBy' = [c \in ChunkIds |-> IF c \in new THEN build[i].number ELSE builtBy[c]]
  /\ build' = [build EXCEPT ![i] = NotBuilding]
  /\ UNCHANGED <<mixed, builds, unindexed>>

(* An embedding fails, Postgres goes away, the process is killed. *)
StopBuild(i) ==
  /\ build[i].at # "idle"
  /\ build' = [build EXCEPT ![i] = NotBuilding]
  /\ UNCHANGED <<index, builtBy, mixed, builds, unindexed>>

-----------------------------------------------------------------------------
(* search_corpus: two reads of the index; Ranking has what becomes of them. *)

unsearched == <<source, authored, cardVars, indexVars, edits, summaries, builds>>

(* Slip: the filter by kind is the only one. *)
ChunksOfKinds(user, kinds) == {c \in ChunkIds : index[c] # None /\ KindOfChunk(c) \in kinds}

VisibleChunks(user, kinds) ==
  {c \in ChunkIds : /\ index[c] # None
                    /\ KindOfChunk(c) \in kinds
                    /\ c = "decision" => user = "owner"}

(* AllChunks: with no visible row the search ends, in an empty result or,   *)
(* when no row of any kind is visible, in the error index_empty.            *)
ReadCorpus(user, kinds) ==
  /\ query.at = "idle"
  /\ searches < MaxSearches
  /\ searches' = searches + 1
  /\ LET corpus == VisibleChunks(user, kinds)
     IN  IF corpus # {}
           THEN query' = [at |-> "lexical", user |-> user, kinds |-> kinds, corpus |-> corpus]
           ELSE UNCHANGED query
  /\ UNCHANGED <<shown, unsearched>>

(* The dense arm reads the index again, or the embedding fails; the lexical *)
(* arm ranks the rows it saw or, when no term matches, none of them.        *)
SearchCorpus ==
  /\ query.at = "lexical"
  /\ \E dense \in {VisibleChunks(query.user, query.kinds), {}}, lexical \in {query.corpus, {}} :
       shown' = shown \cup (IF "decision" \in dense \cup lexical THEN {query.user} ELSE {})
  /\ query' = NotSearching
  /\ UNCHANGED <<searches, unsearched>>

CorpusNext ==
  \/ EditSource
  \/ \E a \in Authored : Withdraw(a)
  \/ \E force \in BOOLEAN, entries \in SUBSET (Cards \ {Module}) : SummarizeNode(force, entries)
  \/ UpsertModuleCard \/ UpsertSymbolCard \/ StopSummary
  \/ \E i \in Indexers :
       \/ \E kinds \in KindSets : StartBuild(i, kinds)
       \/ Truncate(i) \/ UpsertChunks(i) \/ StopBuild(i)
  \/ \E user \in Readers, kinds \in KindSets : ReadCorpus(user, kinds)
  \/ SearchCorpus

CorpusSpec == CorpusInit /\ [][CorpusNext]_corpusVars

-----------------------------------------------------------------------------
(* While the summariser rests, a module card says which version its symbol  *)
(* cards describe, unless the run that wrote it was cut short or the reply  *)
(* left one out; and no card is about a symbol the scanner did not find     *)
(* (summarize.run).                                                         *)
CardsComplete ==
  /\ cards[Invented] = None
  /\ summary.at = "idle" /\ cards[Module] \notin {None} \cup cutShort =>
       \A s \in Declared : cards[s] = cards[Module]

(* Every row of the index comes from one build, wherever a build stopped,   *)
(* unless two indexers were past their TRUNCATE at once (replace_all).      *)
IndexIsOneBuild ==
  ~mixed =>
    \A c, d \in ChunkIds : index[c] # None /\ index[d] # None => builtBy[c] = builtBy[d]

(* Neither arm hands a private decision to anyone but its owner, whatever   *)
(* the indexer did between the two reads (search_corpus, _where).           *)
AnswersArePrivate == shown \subseteq {"owner"}

(* What a search rests on: cards that agree with one another, an index that *)
(* is one build of them, and arms that see what the asker may see.          *)
CorpusIsCoherent == CardsComplete /\ IndexIsOneBuild /\ AnswersArePrivate
=============================================================================
