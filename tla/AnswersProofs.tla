---------------------------- MODULE AnswersProofs ----------------------------
(***************************************************************************)
(* Proofs about Knowledge, for every set of symbols, readers, components   *)
(* and decisions: what a search answers from, what a plan rests on, and    *)
(* what the judged evaluation counts.                                      *)
(***************************************************************************)
EXTENDS Knowledge, FiniteSetTheorems, TLAPS

SourcesAreVersions ==
  /\ edits \in 0 .. MaxEdits
  /\ source \in 1 .. edits + 1
  /\ authored \in [Authored -> Versions]

(* A run's cards: those still to do are the only ones not of its version,  *)
(* unless some were left out.                                              *)
Run == [at : {"idle", "module", "symbols"}, version : Versions, todo : SUBSET Cards]

CardsFollowTheRun ==
  /\ cards \in [Cards -> Versions] /\ summary \in Run /\ cutShort \subseteq Versions
  /\ cards[Invented] = None
  /\ summary.todo \subseteq Declared
  /\ summary.at # "symbols" /\ cards[Module] \notin {None} \cup cutShort =>
       \A s \in Declared : cards[s] = cards[Module]
  /\ summary.at = "symbols" =>
       /\ cards[Module] = summary.version
       /\ summary.version \notin cutShort =>
            \A s \in Declared \ summary.todo : cards[s] = summary.version

(* Past its TRUNCATE an indexer that is alone has an empty table before it.*)
EmptyWhenTruncated ==
  /\ index \in [ChunkIds -> Versions]
  /\ build \in [Indexers -> [at : {"idle", "embedding", "truncated"},
                             rows : [ChunkIds -> Versions], number : 0 .. MaxBuilds]]
  /\ builtBy \in [ChunkIds -> 0 .. MaxBuilds]
  /\ builds \in 0 .. MaxBuilds
  /\ mixed \in BOOLEAN
  /\ mixed = FALSE =>
       /\ IndexIsOneBuild
       /\ \A i, j \in Indexers :
            build[i].at = "truncated" /\ build[j].at = "truncated" => i = j
       /\ \A i \in Indexers : build[i].at = "truncated" => \A c \in ChunkIds : index[c] = None

(* What the lexical arm read is the asker's to read. *)
SearchReadsItsOwn ==
  /\ query.at \in {"idle", "lexical"}
  /\ query.corpus \subseteq ChunkIds
  /\ query.at = "lexical" => query.user \in Readers
  /\ "decision" \in query.corpus => query.user = "owner"
  /\ shown \subseteq Readers
  /\ shown \subseteq {"owner"}

CorpusInv ==
  SourcesAreVersions /\ CardsFollowTheRun /\ EmptyWhenTruncated /\ SearchReadsItsOwn

-----------------------------------------------------------------------------
LEMMA CorpusStart == CorpusInit => CorpusInv
  <1> SUFFICES ASSUME CorpusInit PROVE CorpusInv
    OBVIOUS
  <1> USE CorpusAssumption DEF CorpusInit
  <1>1. 0 \in Versions /\ 1 \in Versions
    BY DEF Versions
  <1>2. SourcesAreVersions
    BY <1>1 DEF SourcesAreVersions
  <1>3. CardsFollowTheRun
    BY <1>1 DEF CardsFollowTheRun, NotSummarising, None, Cards, Run
  <1>4. EmptyWhenTruncated
    <2>1. NotBuilding \in [at : {"idle", "embedding", "truncated"},
                           rows : [ChunkIds -> Versions], number : 0 .. MaxBuilds]
          /\ NotBuilding.at = "idle"
      BY <1>1 DEF NotBuilding, None
    <2>2. IndexIsOneBuild
      BY DEF IndexIsOneBuild
    <2>3. /\ index \in [ChunkIds -> Versions] /\ builtBy \in [ChunkIds -> 0 .. MaxBuilds]
          /\ builds \in 0 .. MaxBuilds
      BY <1>1 DEF None
    <2>4. \A i \in Indexers : build[i] = NotBuilding
      OBVIOUS
    <2>5. QED
      BY <2>1, <2>2, <2>3, <2>4 DEF EmptyWhenTruncated
  <1>5. SearchReadsItsOwn
    BY DEF SearchReadsItsOwn, NotSearching
  <1>6. QED
    BY <1>2, <1>3, <1>4, <1>5 DEF CorpusInv

LEMMA EditsKeepCorpusInv ==
  ASSUME CorpusInv, EditSource \/ \E a \in Authored : Withdraw(a)
  PROVE  CorpusInv'
  <1>0. SourcesAreVersions /\ CardsFollowTheRun /\ EmptyWhenTruncated /\ SearchReadsItsOwn
    BY DEF CorpusInv
  <1>1. UNCHANGED <<cardVars, indexVars, searchVars, builds>>
    BY DEF EditSource, Withdraw
  <1>2. CardsFollowTheRun' /\ EmptyWhenTruncated' /\ SearchReadsItsOwn'
    BY <1>0, <1>1 DEF CardsFollowTheRun, EmptyWhenTruncated, SearchReadsItsOwn, cardVars, indexVars,
                      searchVars, IndexIsOneBuild
  <1>3. SourcesAreVersions'
    BY <1>0, CorpusAssumption
    DEF SourcesAreVersions, EditSource, Withdraw, CountEdit, Versions, None
  <1>4. QED
    BY <1>2, <1>3 DEF CorpusInv

LEMMA SummariserKeepsCorpusInv ==
  ASSUME CorpusInv,
         \/ \E force \in BOOLEAN, entries \in SUBSET (Cards \ {Module}) :
              SummarizeNode(force, entries)
         \/ UpsertModuleCard \/ UpsertSymbolCard \/ StopSummary
  PROVE  CorpusInv'
  <1>0. SourcesAreVersions /\ CardsFollowTheRun /\ EmptyWhenTruncated /\ SearchReadsItsOwn
    BY DEF CorpusInv
  <1>1. UNCHANGED unsummarised
    BY DEF SummarizeNode, UpsertModuleCard, UpsertSymbolCard, StopSummary
  <1>2. SourcesAreVersions' /\ EmptyWhenTruncated' /\ SearchReadsItsOwn'
    BY <1>0, <1>1 DEF SourcesAreVersions, EmptyWhenTruncated, SearchReadsItsOwn, unsummarised,
                      indexVars, searchVars, IndexIsOneBuild
  <1>3. source \in Versions /\ 0 \in Versions
    BY <1>0, CorpusAssumption DEF SourcesAreVersions, Versions
  <1>4. Module \in Cards /\ Invented \in Cards /\ Declared \subseteq Cards
        /\ Module \notin Declared /\ Invented \notin Declared /\ Module # Invented
    BY CorpusAssumption DEF Cards
  <1>5. NotSummarising.at = "idle" /\ NotSummarising.todo = {}
        /\ NotSummarising \in Run
    BY <1>3 DEF NotSummarising, None, Run
  <1>6. ASSUME NEW force, NEW entries, SummarizeNode(force, entries)
        PROVE  CardsFollowTheRun'
    <2>1. KnownEntries(entries) \subseteq Declared
      BY DEF KnownEntries
    <2>2. /\ summary.at = "idle"
          /\ summary' = [at |-> "module", version |-> source, todo |-> KnownEntries(entries)]
          /\ cards' = cards /\ cutShort' = cutShort
      BY <1>6 DEF SummarizeNode
    <2>3. QED
      BY <1>0, <1>3, <1>4, <2>1, <2>2 DEF CardsFollowTheRun, Run
  <1>7. ASSUME UpsertModuleCard PROVE CardsFollowTheRun'
    <2>1. /\ summary.at = "module"
          /\ cards' = [cards EXCEPT ![Module] = summary.version]
          /\ cutShort' = IF Declared \subseteq summary.todo THEN cutShort \ {summary.version}
                         ELSE cutShort \cup {summary.version}
          /\ summary' = IF summary.todo = {} THEN NotSummarising
                        ELSE [summary EXCEPT !.at = "symbols"]
      BY <1>7 DEF UpsertModuleCard
    <2>2. /\ cards' \in [Cards -> Versions] /\ cutShort' \subseteq Versions
          /\ cards'[Invented] = None /\ cards'[Module] = summary.version
          /\ \A s \in Declared : cards'[s] = cards[s]
      BY <1>0, <1>4, <2>1 DEF CardsFollowTheRun, Run
    <2>3. CASE summary.todo = {}
      BY <1>0, <1>5, <2>1, <2>2, <2>3 DEF CardsFollowTheRun
    <2>4. CASE summary.todo # {}
      <3>1. /\ summary'.at = "symbols" /\ summary'.version = summary.version
            /\ summary'.todo = summary.todo
            /\ summary' \in Run
        BY <1>0, <2>1, <2>4 DEF CardsFollowTheRun, Run
      <3>2. QED
        BY <1>0, <2>1, <2>2, <3>1 DEF CardsFollowTheRun
    <2>5. QED
      BY <2>3, <2>4
  <1>8. ASSUME UpsertSymbolCard PROVE CardsFollowTheRun'
    <2>1. PICK c \in summary.todo :
            /\ cards' = [cards EXCEPT ![c] = summary.version]
            /\ summary' = IF summary.todo = {c} THEN NotSummarising
                          ELSE [summary EXCEPT !.todo = @ \ {c}]
      BY <1>8 DEF UpsertSymbolCard
    <2>2. summary.at = "symbols" /\ cutShort' = cutShort
      BY <1>8 DEF UpsertSymbolCard
    <2>3. /\ c \in Declared /\ cards' \in [Cards -> Versions]
          /\ cards'[Invented] = None /\ cards'[Module] = summary.version
          /\ cards'[c] = summary.version
          /\ \A s \in Declared : s # c => cards'[s] = cards[s]
      BY <1>0, <1>4, <2>1, <2>2 DEF CardsFollowTheRun, Run
    <2>4. CASE summary.todo = {c}
      BY <1>0, <1>5, <2>1, <2>2, <2>3, <2>4 DEF CardsFollowTheRun
    <2>5. CASE summary.todo # {c}
      <3>1. /\ summary'.at = "symbols" /\ summary'.version = summary.version
            /\ summary'.todo = summary.todo \ {c}
            /\ summary' \in Run
        BY <1>0, <2>1, <2>2, <2>5 DEF CardsFollowTheRun, Run
      <3>2. QED
        BY <1>0, <2>2, <2>3, <3>1 DEF CardsFollowTheRun
    <2>6. QED
      BY <2>4, <2>5
  <1>9. ASSUME StopSummary PROVE CardsFollowTheRun'
    <2>1. /\ summary.at # "idle" /\ cards' = cards /\ summary' = NotSummarising
          /\ cutShort' = IF summary.at = "symbols" THEN cutShort \cup {summary.version}
                         ELSE cutShort
      BY <1>9 DEF StopSummary
    <2>2. QED
      BY <1>0, <1>5, <2>1 DEF CardsFollowTheRun, Run
  <1>10. CardsFollowTheRun'
    BY <1>6, <1>7, <1>8, <1>9
  <1>11. QED
    BY <1>2, <1>10 DEF CorpusInv

LEMMA IndexerKeepsCorpusInv ==
  ASSUME CorpusInv, NEW i \in Indexers,
         \/ \E kinds \in KindSets : StartBuild(i, kinds)
         \/ Truncate(i) \/ UpsertChunks(i) \/ StopBuild(i)
  PROVE  CorpusInv'
  <1>0. SourcesAreVersions /\ CardsFollowTheRun /\ EmptyWhenTruncated /\ SearchReadsItsOwn
    BY DEF CorpusInv
  <1>1. UNCHANGED unindexed
    BY DEF StartBuild, Truncate, UpsertChunks, StopBuild
  <1>2. SourcesAreVersions' /\ CardsFollowTheRun' /\ SearchReadsItsOwn'
    BY <1>0, <1>1 DEF SourcesAreVersions, CardsFollowTheRun, SearchReadsItsOwn, unindexed,
                      cardVars, searchVars
  <1> DEFINE Build == [at : {"idle", "embedding", "truncated"}, rows : [ChunkIds -> Versions],
                       number : 0 .. MaxBuilds]
  <1>3. /\ MaxBuilds \in Nat /\ builds \in 0 .. MaxBuilds
        /\ index \in [ChunkIds -> Versions] /\ builtBy \in [ChunkIds -> 0 .. MaxBuilds]
        /\ build \in [Indexers -> Build] /\ mixed \in BOOLEAN
    BY <1>0, CorpusAssumption DEF EmptyWhenTruncated
  <1>4. 0 \in Versions
    BY CorpusAssumption DEF Versions
  <1>5. NotBuilding \in Build /\ NotBuilding.at = "idle"
    BY <1>3, <1>4 DEF NotBuilding, None
  <1>6. ASSUME NEW kinds, StartBuild(i, kinds)
        PROVE  EmptyWhenTruncated'
    <2> DEFINE new == [at |-> "embedding", rows |-> BuildCorpus(kinds), number |-> builds + 1]
    <2>1. /\ builds < MaxBuilds /\ builds' = builds + 1
          /\ build' = [build EXCEPT ![i] = new]
          /\ index' = index /\ builtBy' = builtBy /\ mixed' = mixed
      BY <1>6 DEF StartBuild
    <2>2. BuildCorpus(kinds) \in [ChunkIds -> Versions]
      <3>1. /\ cards \in [Cards -> Versions] /\ authored \in [Authored -> Versions]
        BY <1>0 DEF CardsFollowTheRun, SourcesAreVersions
      <3>2. \A c \in ChunkIds : c \in Cards \/ c \in Authored
        BY DEF ChunkIds
      <3>3. QED
        BY <1>4, <3>1, <3>2 DEF BuildCorpus, None
    <2>3. new \in Build /\ new.at = "embedding"
      BY <1>3, <2>1, <2>2
    <2> HIDE DEF new, Build
    <2>4. /\ build' \in [Indexers -> Build] /\ build'[i].at # "truncated"
          /\ \A j \in Indexers : j # i => build'[j] = build[j]
      BY <1>3, <2>1, <2>3
    <2>5. mixed' = FALSE =>
            /\ IndexIsOneBuild'
            /\ \A j, k \in Indexers :
                 build'[j].at = "truncated" /\ build'[k].at = "truncated" => j = k
            /\ \A j \in Indexers :
                 build'[j].at = "truncated" => \A c \in ChunkIds : index'[c] = None
      BY <1>0, <2>1, <2>4 DEF EmptyWhenTruncated, IndexIsOneBuild
    <2>6. builds' \in 0 .. MaxBuilds
      BY <1>3, <2>1
    <2>7. QED
      BY <1>3, <2>1, <2>4, <2>5, <2>6 DEF EmptyWhenTruncated, Build
  <1>7. ASSUME Truncate(i) PROVE EmptyWhenTruncated'
    <2>1. /\ index' = [c \in ChunkIds |-> None] /\ builtBy' = [c \in ChunkIds |-> 0]
          /\ build' = [build EXCEPT ![i].at = "truncated"]
          /\ mixed' = (mixed \/ \E j \in Others(i) : build[j].at = "truncated")
          /\ builds' = builds
      BY <1>7 DEF Truncate, EmptyIndex
    <2>2. /\ build' \in [Indexers -> Build]
          /\ \A j \in Indexers : j # i => build'[j] = build[j]
      BY <1>3, <2>1
    <2>3. index' \in [ChunkIds -> Versions] /\ builtBy' \in [ChunkIds -> 0 .. MaxBuilds]
      BY <1>3, <1>4, <2>1 DEF None
    <2>4. IndexIsOneBuild' /\ \A c \in ChunkIds : index'[c] = None
      BY <2>1 DEF IndexIsOneBuild
    <2>5. ASSUME mixed' = FALSE
          PROVE  \A j, k \in Indexers :
                   build'[j].at = "truncated" /\ build'[k].at = "truncated" => j = k
      <3>1. \A j \in Indexers : j # i => build[j].at # "truncated"
        BY <1>3, <2>1, <2>5 DEF Others
      <3>2. \A j \in Indexers : j # i => build'[j].at # "truncated"
        BY <2>2, <3>1
      <3>3. QED
        BY <3>2
    <2>6. mixed' \in BOOLEAN
      BY <1>3, <2>1
    <2>7. QED
      BY <1>3, <2>1, <2>2, <2>3, <2>4, <2>5, <2>6 DEF EmptyWhenTruncated
  <1>8. ASSUME UpsertChunks(i) PROVE EmptyWhenTruncated'
    <2> DEFINE new == {c \in ChunkIds : build[i].rows[c] # None}
    <2>1. /\ build[i].at = "truncated"
          /\ index' = [c \in ChunkIds |-> IF c \in new THEN build[i].rows[c] ELSE index[c]]
          /\ builtBy' = [c \in ChunkIds |-> IF c \in new THEN build[i].number ELSE builtBy[c]]
          /\ build' = [build EXCEPT ![i] = NotBuilding]
          /\ mixed' = mixed /\ builds' = builds
      BY <1>8 DEF UpsertChunks
    <2> HIDE DEF new
    <2>2. build[i].rows \in [ChunkIds -> Versions] /\ build[i].number \in 0 .. MaxBuilds
      BY <1>3
    <2>3. index' \in [ChunkIds -> Versions] /\ builtBy' \in [ChunkIds -> 0 .. MaxBuilds]
      BY <1>3, <2>1, <2>2
    <2> HIDE DEF Build
    <2>4. /\ build' \in [Indexers -> Build] /\ build'[i].at = "idle"
          /\ \A j \in Indexers : j # i => build'[j] = build[j]
      BY <1>3, <1>5, <2>1
    <2>5. ASSUME mixed' = FALSE
          PROVE  /\ IndexIsOneBuild'
                 /\ \A j \in Indexers : build'[j].at # "truncated"
      <3>1. /\ \A c \in ChunkIds : index[c] = None
            /\ \A j \in Indexers : j # i => build[j].at # "truncated"
        BY <1>0, <2>1, <2>5 DEF EmptyWhenTruncated
      <3>2. \A c \in ChunkIds : index'[c] # None => builtBy'[c] = build[i].number
        BY <2>1, <3>1
      <3>3. QED
        BY <2>4, <3>1, <3>2 DEF IndexIsOneBuild
    <2>6. QED
      BY <1>3, <2>1, <2>3, <2>4, <2>5 DEF EmptyWhenTruncated, Build
  <1>9. ASSUME StopBuild(i) PROVE EmptyWhenTruncated'
    <2>1. /\ build' = [build EXCEPT ![i] = NotBuilding]
          /\ index' = index /\ builtBy' = builtBy /\ mixed' = mixed /\ builds' = builds
      BY <1>9 DEF StopBuild
    <2> HIDE DEF Build
    <2>2. /\ build' \in [Indexers -> Build] /\ build'[i].at = "idle"
          /\ \A j \in Indexers : j # i => build'[j] = build[j]
      BY <1>3, <1>5, <2>1
    <2>3. mixed' = FALSE =>
            /\ IndexIsOneBuild'
            /\ \A j, k \in Indexers :
                 build'[j].at = "truncated" /\ build'[k].at = "truncated" => j = k
            /\ \A j \in Indexers :
                 build'[j].at = "truncated" => \A c \in ChunkIds : index'[c] = None
      BY <1>0, <2>1, <2>2 DEF EmptyWhenTruncated, IndexIsOneBuild
    <2>4. QED
      BY <1>3, <2>1, <2>2, <2>3 DEF EmptyWhenTruncated, Build
  <1>10. EmptyWhenTruncated'
    BY <1>6, <1>7, <1>8, <1>9
  <1>11. QED
    BY <1>2, <1>10 DEF CorpusInv

LEMMA SearchKeepsCorpusInv ==
  ASSUME CorpusInv,
         (\E user \in Readers, kinds \in KindSets : ReadCorpus(user, kinds)) \/ SearchCorpus
  PROVE  CorpusInv'
  <1>0. SourcesAreVersions /\ CardsFollowTheRun /\ EmptyWhenTruncated /\ SearchReadsItsOwn
    BY DEF CorpusInv
  <1>1. UNCHANGED unsearched
    BY DEF ReadCorpus, SearchCorpus
  <1>2. SourcesAreVersions' /\ CardsFollowTheRun' /\ EmptyWhenTruncated'
    BY <1>0, <1>1 DEF SourcesAreVersions, CardsFollowTheRun, EmptyWhenTruncated, unsearched,
                      cardVars, indexVars, IndexIsOneBuild
  <1>3. \A user, kinds :
          /\ VisibleChunks(user, kinds) \subseteq ChunkIds
          /\ "decision" \in VisibleChunks(user, kinds) => user = "owner"
    BY DEF VisibleChunks
  <1>4. ASSUME NEW user \in Readers, NEW kinds \in KindSets, ReadCorpus(user, kinds)
        PROVE  SearchReadsItsOwn'
    <2> DEFINE corpus == VisibleChunks(user, kinds)
    <2>1. /\ shown' = shown
          /\ \/ query' = [at |-> "lexical", user |-> user, kinds |-> kinds, corpus |-> corpus]
             \/ query' = query
      BY <1>4 DEF ReadCorpus
    <2>2. corpus \subseteq ChunkIds /\ ("decision" \in corpus => user = "owner")
      BY <1>3
    <2> HIDE DEF corpus
    <2>3. QED
      BY <1>0, <2>1, <2>2 DEF SearchReadsItsOwn
  <1>5. ASSUME SearchCorpus PROVE SearchReadsItsOwn'
    <2>1. PICK dense \in {VisibleChunks(query.user, query.kinds), {}},
               lexical \in {query.corpus, {}} :
            shown' = shown \cup (IF "decision" \in dense \cup lexical THEN {query.user} ELSE {})
      BY <1>5 DEF SearchCorpus
    <2>2. query.at = "lexical" /\ query' = NotSearching
      BY <1>5 DEF SearchCorpus
    <2>3. "decision" \in dense \cup lexical => query.user = "owner" /\ query.user \in Readers
      BY <1>0, <1>3, <2>1, <2>2 DEF SearchReadsItsOwn
    <2>4. QED
      BY <1>0, <2>1, <2>2, <2>3 DEF SearchReadsItsOwn, NotSearching
  <1>6. SearchReadsItsOwn'
    BY <1>4, <1>5
  <1>7. QED
    BY <1>2, <1>6 DEF CorpusInv

LEMMA CorpusStepKeepsInv == CorpusInv /\ [CorpusNext]_corpusVars => CorpusInv'
  <1> SUFFICES ASSUME CorpusInv, [CorpusNext]_corpusVars PROVE CorpusInv'
    OBVIOUS
  <1>1. CASE CorpusNext
    BY <1>1, EditsKeepCorpusInv, SummariserKeepsCorpusInv, IndexerKeepsCorpusInv,
       SearchKeepsCorpusInv DEF CorpusNext
  <1>2. CASE UNCHANGED corpusVars
    BY <1>2 DEF corpusVars, cardVars, indexVars, searchVars, corpusBooks, CorpusInv,
                SourcesAreVersions, CardsFollowTheRun, EmptyWhenTruncated, SearchReadsItsOwn,
                IndexIsOneBuild
  <1>3. QED
    BY <1>1, <1>2

LEMMA CorpusInvShows == CorpusInv => CorpusTypeOK /\ CorpusIsCoherent
  <1> SUFFICES ASSUME CorpusInv PROVE CorpusTypeOK /\ CorpusIsCoherent
    OBVIOUS
  <1>1. CorpusTypeOK
    <2>1. source \in Versions
      BY CorpusAssumption DEF CorpusInv, SourcesAreVersions, Versions
    <2>2. QED
      BY <2>1 DEF CorpusTypeOK, CorpusInv, SourcesAreVersions, CardsFollowTheRun, Run,
                  EmptyWhenTruncated, SearchReadsItsOwn
  <1>2. CorpusIsCoherent
    BY DEF CorpusInv, CardsFollowTheRun, EmptyWhenTruncated, SearchReadsItsOwn,
           CorpusIsCoherent, CardsComplete, IndexIsOneBuild, AnswersArePrivate
  <1>3. QED
    BY <1>1, <1>2
-----------------------------------------------------------------------------
(* Some graph file knows the component and says who imports it.            *)
Edge(graphs, component, importer) ==
  \E g \in graphs : component \in g.nodes /\ <<importer, component>> \in g.edges

LEMMA ReachStarts ==
  ASSUME NEW graphs, NEW seed \in Nodes, NEW k \in Nat
  PROVE  seed \in WithinHops(graphs, seed, k)
  <1> DEFINE path == [i \in 0 .. 0 |-> seed]
  <1>1. 0 \in 0 .. k /\ path \in [0 .. 0 -> Nodes] /\ path[0] = seed /\ 0 .. 0 - 1 = {}
    OBVIOUS
  <1> HIDE DEF path
  <1>2. QED
    BY <1>1 DEF WithinHops

LEMMA ReachGrows ==
  ASSUME NEW graphs, NEW more, graphs \subseteq more, NEW seed,
         NEW k \in Nat, NEW l \in Nat, k <= l
  PROVE  WithinHops(graphs, seed, k) \subseteq WithinHops(more, seed, l)
  <1>1. 0 .. k \subseteq 0 .. l
    OBVIOUS
  <1>2. QED
    BY <1>1 DEF WithinHops

LEMMA ReachExtends ==
  ASSUME NEW graphs, NEW seed, NEW k \in Nat, NEW c \in WithinHops(graphs, seed, k),
         NEW n \in Nodes, Edge(graphs, c, n)
  PROVE  n \in WithinHops(graphs, seed, k + 1)
  <1>1. PICK j \in 0 .. k : \E path \in [0 .. j -> Nodes] :
          /\ path[0] = seed /\ path[j] = c
          /\ \A i \in 0 .. j - 1 : Edge(graphs, path[i], path[i + 1])
    BY DEF WithinHops, Edge
  <1>2. PICK path \in [0 .. j -> Nodes] :
          /\ path[0] = seed /\ path[j] = c
          /\ \A i \in 0 .. j - 1 : Edge(graphs, path[i], path[i + 1])
    BY <1>1
  <1> DEFINE longer == [i \in 0 .. j + 1 |-> IF i = j + 1 THEN n ELSE path[i]]
  <1>3. /\ longer \in [0 .. j + 1 -> Nodes] /\ longer[j + 1] = n
        /\ \A i \in 0 .. j : longer[i] = path[i]
    OBVIOUS
  <1> HIDE DEF longer
  <1>4. longer[0] = seed
    BY <1>2, <1>3
  <1>5. ASSUME NEW i \in 0 .. (j + 1) - 1 PROVE Edge(graphs, longer[i], longer[i + 1])
    <2>1. CASE i = j
      BY <1>2, <1>3, <2>1
    <2>2. CASE i # j
      <3>1. i \in 0 .. j - 1 /\ i \in 0 .. j /\ i + 1 \in 0 .. j
        BY <2>2
      <3>2. QED
        BY <1>2, <1>3, <3>1
    <2>3. QED
      BY <2>1, <2>2
  <1>6. j + 1 \in 0 .. k + 1
    OBVIOUS
  <1>7. QED
    BY <1>3, <1>4, <1>5, <1>6 DEF WithinHops, Edge

LEMMA ReachUnfolds ==
  ASSUME NEW graphs, NEW seed, NEW k \in Nat, NEW n \in WithinHops(graphs, seed, k + 1)
  PROVE  \/ n \in WithinHops(graphs, seed, k)
         \/ \E c \in WithinHops(graphs, seed, k) : Edge(graphs, c, n)
  <1>1. PICK j \in 0 .. k + 1 : \E path \in [0 .. j -> Nodes] :
          /\ path[0] = seed /\ path[j] = n
          /\ \A i \in 0 .. j - 1 : Edge(graphs, path[i], path[i + 1])
    BY DEF WithinHops, Edge
  <1>2. PICK path \in [0 .. j -> Nodes] :
          /\ path[0] = seed /\ path[j] = n
          /\ \A i \in 0 .. j - 1 : Edge(graphs, path[i], path[i + 1])
    BY <1>1
  <1>3. n \in Nodes
    BY DEF WithinHops
  <1>4. CASE j <= k
    <2>1. j \in 0 .. k
      BY <1>4
    <2>2. QED
      BY <1>2, <1>3, <2>1 DEF WithinHops, Edge
  <1>5. CASE j = k + 1
    <2> DEFINE shorter == [i \in 0 .. k |-> path[i]]
    <2>1. /\ shorter \in [0 .. k -> Nodes] /\ shorter[0] = path[0]
          /\ \A i \in 0 .. k : shorter[i] = path[i]
      BY <1>5
    <2> HIDE DEF shorter
    <2>2. \A i \in 0 .. k - 1 : Edge(graphs, shorter[i], shorter[i + 1])
      <3>1. ASSUME NEW i \in 0 .. k - 1 PROVE Edge(graphs, shorter[i], shorter[i + 1])
        <4>1. i \in 0 .. k /\ i + 1 \in 0 .. k /\ i \in 0 .. j - 1
          BY <1>5
        <4>2. QED
          BY <1>2, <2>1, <4>1
      <3>2. QED
        BY <3>1
    <2>3. path[k] \in Nodes /\ shorter[k] = path[k] /\ k \in 0 .. k
      BY <1>5, <2>1
    <2>4. path[k] \in WithinHops(graphs, seed, k)
      BY <1>2, <2>1, <2>2, <2>3 DEF WithinHops, Edge
    <2>5. Edge(graphs, path[k], n)
      <3>1. k \in 0 .. j - 1 /\ path[k + 1] = n
        BY <1>2, <1>5
      <3>2. QED
        BY <1>2, <3>1
    <2>6. QED
      BY <2>4, <2>5
  <1>6. QED
    BY <1>4, <1>5

(* A chain that starts in a set the edges do not leave stays in it.        *)
LEMMA ReachStaysInside ==
  ASSUME NEW graphs, NEW seed, NEW k \in Nat, NEW inside, seed \in inside,
         \A c \in inside, n \in Nodes : Edge(graphs, c, n) => n \in inside
  PROVE  WithinHops(graphs, seed, k) \subseteq inside
  <1> SUFFICES ASSUME NEW n \in WithinHops(graphs, seed, k), n \notin inside PROVE FALSE
    OBVIOUS
  <1>1. PICK j \in 0 .. k : \E path \in [0 .. j -> Nodes] :
          /\ path[0] = seed /\ path[j] = n
          /\ \A i \in 0 .. j - 1 : Edge(graphs, path[i], path[i + 1])
    BY DEF WithinHops, Edge
  <1>2. PICK path \in [0 .. j -> Nodes] :
          /\ path[0] = seed /\ path[j] = n
          /\ \A i \in 0 .. j - 1 : Edge(graphs, path[i], path[i + 1])
    BY <1>1
  <1> DEFINE astray == {i \in 0 .. j : path[i] \notin inside}
             lt == {p \in Nat \X Nat : p[1] < p[2]}
  <1>3. IsWellFoundedOn(lt, Nat)
    BY NatLessThanWellFounded DEF OpToRel
  <1>4. astray \subseteq Nat /\ j \in astray
    BY <1>2
  <1>5. \E m \in astray : \A i \in astray : <<i, m>> \notin lt
    <2> HIDE DEF lt, astray
    <2>1. QED
      BY <1>3, <1>4, WFMin
  <1>6. PICK m \in astray : \A i \in astray : <<i, m>> \notin lt
    BY <1>5
  <1>7. ASSUME NEW i \in astray, i < m PROVE FALSE
    <2>1. <<i, m>> \in Nat \X Nat /\ <<i, m>>[1] < <<i, m>>[2]
      BY <1>4, <1>7
    <2>2. QED
      BY <1>6, <2>1
  <1>8. m \in 0 .. j /\ m # 0 /\ m - 1 \in 0 .. j - 1 /\ m - 1 \notin astray
    <2>1. m \in 0 .. j /\ m # 0
      BY <1>2
    <2>2. m - 1 \in 0 .. j - 1
      BY <2>1
    <2>3. QED
      BY <1>7, <2>1, <2>2
  <1>9. path[m - 1] \in inside /\ path[m] \in Nodes /\ Edge(graphs, path[m - 1], path[m])
    <2>1. (m - 1) + 1 = m /\ m - 1 \in 0 .. j
      BY <1>8
    <2>2. QED
      BY <1>2, <1>8, <2>1
  <1>10. QED
    BY <1>9
-----------------------------------------------------------------------------
(* The graph files of the run that parse, and what they reach in k hops.   *)
Readable == charts \ {Unreadable}
Within(k) == WithinHops(Readable, plan.seed, k)

PlanRecord ==
  [at : {"idle", "seeded", "walking", "joining"}, asker : Askers \cup {Nothing},
   seed : Nodes \cup {Unknown}, cap : Nat, hop : Nat, impacted : SUBSET (Nodes \cup {Unknown}),
   frontier : SUBSET (Nodes \cup {Unknown}), next : SUBSET (Nodes \cup {Unknown}),
   unread : SUBSET (Nodes \cup {Unknown}), constraints : SUBSET Rulings, asks : BOOLEAN,
   found : BOOLEAN, outcome : {"none", "ok", "needs_input", "failed", "raised"}]

PlanTypes ==
  /\ chart \in Drafts \cup {Unreadable} /\ charts \subseteq Drafts \cup {Unreadable}
  /\ ledger \subseteq Rulings /\ onFile \subseteq ledger
  /\ plan \in PlanRecord
  /\ plan.frontier \cup plan.next \cup plan.unread \subseteq plan.impacted
  /\ plan.constraints \subseteq ledger
  /\ plan.hop <= plan.cap + 1
  /\ plan.at # "idle" => plan.outcome = "none"
  /\ plan.at # "idle" \/ plan.outcome # "none" => chart \in charts
  /\ plan.found = TRUE => plan.seed \in Nodes /\ Readable # {}

NothingYet ==
  /\ plan.impacted = {} /\ plan.constraints = {} /\ plan.asks = FALSE /\ plan.found = FALSE

(* The hops before this one are complete, and whoever imports what was     *)
(* expanded is impacted, when the graph file has not changed.              *)
WalkSoFar ==
  /\ plan.found = TRUE /\ plan.asks = FALSE /\ plan.constraints = {}
  /\ plan.hop >= 1 /\ plan.unread = plan.impacted /\ plan.seed \in plan.impacted
  /\ plan.frontier \cap plan.next = {}
  /\ plan.hop = plan.cap + 1 => plan.next = {}
  /\ plan.impacted \ plan.next \subseteq Within(plan.hop - 1)
  /\ plan.next \subseteq Within(plan.hop)
  /\ charts = {chart} =>
       /\ Within(plan.hop - 1) \subseteq plan.impacted \ plan.next
       /\ \A c \in plan.impacted \ (plan.frontier \cup plan.next), n \in Nodes :
            Edge(Readable, c, n) => n \in plan.impacted

ImpactIsKnown ==
  IF plan.found
    THEN /\ plan.seed \in plan.impacted /\ plan.impacted \subseteq Within(plan.cap)
         /\ charts = {chart} => Within(plan.cap) \subseteq plan.impacted
    ELSE plan.impacted = {plan.seed} /\ plan.asks = TRUE

Clear(c) ==
  LET records == RetrieveRulings(onFile, plan.asker, c)
  IN  /\ records \subseteq plan.constraints
      /\ plan.asks = FALSE =>
           ~ \E a, b \in records : a # b /\ a.takes = b.rejects /\ a.takes # Nothing

RulingsAreRead == \A c \in plan.impacted \ plan.unread : Clear(c)

PlanInv ==
  /\ PlanTypes
  /\ plan.at = "seeded" => NothingYet
  /\ plan.at = "walking" => WalkSoFar
  /\ plan.at = "joining" => ImpactIsKnown /\ RulingsAreRead
  /\ plan.at = "idle" => PlanIsSound

LEMMA PlanStart == PlannerInit => PlanInv
  <1> SUFFICES ASSUME PlannerInit PROVE PlanInv
    OBVIOUS
  <1>1. plan = NoPlan /\ charts = {} /\ ledger = {} /\ onFile = {} /\ chart \in Drafts
    BY DEF PlannerInit
  <1>2. /\ plan.at = "idle" /\ plan.outcome = "none" /\ plan.found = FALSE
        /\ plan.frontier = {} /\ plan.next = {} /\ plan.unread = {} /\ plan.constraints = {}
        /\ plan.hop = 0 /\ plan.cap = 0
    BY <1>1 DEF NoPlan
  <1>3. plan \in PlanRecord
    BY <1>1 DEF NoPlan, PlanRecord
  <1>4. PlanTypes
    BY <1>1, <1>2, <1>3 DEF PlanTypes
  <1>5. PlanIsSound
    BY <1>2 DEF PlanIsSound, ImpactIsReach, ClearToAct
  <1>6. QED
    BY <1>2, <1>4, <1>5 DEF PlanInv

LEMMA RunPlannerKeepsInv ==
  ASSUME PlanInv, NEW user \in Askers, NEW limit \in HopCaps,
         NEW hint \in Nodes \cup {Unknown, Nothing},
         NEW reply \in Nodes \cup {Unknown, Nothing, "truncated", "unparseable"},
         NEW candidate \in Nodes \cup {Unknown, Nothing},
         RunPlanner(user, limit, hint, reply, candidate)
  PROVE  PlanInv'
  <1> DEFINE start == ChooseSeed(hint, reply, candidate)
  <1>1. start # Nothing => start \in Nodes \cup {Unknown}
    BY DEF ChooseSeed
  <1>2. /\ charts' = {chart} /\ onFile' = ledger /\ chart' = chart /\ ledger' = ledger
        /\ plan' = IF start = Nothing
                     THEN [NoPlan EXCEPT !.outcome = "failed"]
                     ELSE [NoPlan EXCEPT !.at = "seeded", !.asker = user, !.cap = limit,
                                         !.seed = start]
    BY DEF RunPlanner, files
  <1> HIDE DEF start
  <1>3. /\ plan' \in PlanRecord /\ plan'.impacted = {} /\ plan'.constraints = {}
        /\ plan'.frontier = {} /\ plan'.next = {} /\ plan'.unread = {}
        /\ plan'.asks = FALSE /\ plan'.found = FALSE /\ plan'.hop = 0
        /\ \/ plan'.at = "seeded" /\ plan'.outcome = "none"
           \/ plan'.at = "idle" /\ plan'.outcome = "failed"
    BY <1>1, <1>2, PlannerAssumption DEF NoPlan, PlanRecord
  <1>4. PlanTypes'
    <2>1. chart \in Drafts \cup {Unreadable} /\ ledger \subseteq Rulings
      BY DEF PlanInv, PlanTypes
    <2>2. plan'.hop <= plan'.cap + 1
      BY <1>3 DEF PlanRecord
    <2>3. QED
      BY <1>2, <1>3, <2>1, <2>2 DEF PlanTypes
  <1>5. plan'.at = "idle" => PlanIsSound'
    BY <1>3 DEF PlanIsSound, ImpactIsReach, ClearToAct
  <1>6. QED
    BY <1>3, <1>4, <1>5 DEF PlanInv, NothingYet

(* An end of the run: what it answers is all that is left to say. *)
LEMMA EndKeepsInv ==
  ASSUME PlanInv, NEW outcome \in {"ok", "needs_input", "failed", "raised"}, plan.at # "idle",
         Fail(outcome), UNCHANGED <<chart, ledger, charts, onFile>>, PlanIsSound'
  PROVE  PlanInv'
  <1>1. /\ plan' \in PlanRecord /\ plan'.at = "idle" /\ plan'.hop = plan.hop
        /\ plan'.cap = plan.cap /\ plan'.impacted = plan.impacted
        /\ plan'.frontier = plan.frontier /\ plan'.next = plan.next
        /\ plan'.unread = plan.unread /\ plan'.constraints = plan.constraints
        /\ plan'.found = plan.found /\ plan'.seed = plan.seed
    BY DEF PlanInv, PlanTypes, Fail, PlanRecord
  <1>2. PlanTypes'
    BY <1>1 DEF PlanInv, PlanTypes, Readable
  <1>3. QED
    BY <1>1, <1>2 DEF PlanInv

LEMMA VerifySeedKeepsInv ==
  ASSUME PlanInv, VerifySeed
  PROVE  PlanInv'
  <1>0. /\ plan.at = "seeded" /\ PlanTypes /\ NothingYet
        /\ UNCHANGED <<chart, ledger, charts, onFile>>
    BY DEF PlanInv, VerifySeed, files, era
  <1>1. plan \in PlanRecord /\ chart \in charts /\ plan.outcome = "none"
    BY <1>0 DEF PlanTypes
  <1>2. CASE chart = Unreadable
    <2>1. Fail("failed")
      BY <1>2 DEF VerifySeed
    <2>2. plan'.outcome = "failed"
      BY <1>1, <2>1 DEF Fail, PlanRecord
    <2>3. PlanIsSound'
      BY <2>2 DEF PlanIsSound, ImpactIsReach, ClearToAct
    <2>4. QED
      BY <1>0, <2>1, <2>3, EndKeepsInv
  <1>3. CASE chart # Unreadable /\ Found(plan.seed)
    <2>1. plan' = [plan EXCEPT !.impacted = {plan.seed}, !.unread = {plan.seed},
                               !.at = "walking", !.found = TRUE, !.frontier = {plan.seed},
                               !.hop = 1]
      BY <1>1, <1>3 DEF VerifySeed, PlanRecord
    <2>2. plan.seed \in Nodes
      BY <1>0, <1>3, PlannerAssumption DEF Found, PlanTypes
    <2>3. /\ plan' \in PlanRecord /\ plan'.at = "walking" /\ plan'.outcome = "none"
          /\ plan'.impacted = {plan.seed} /\ plan'.unread = {plan.seed}
          /\ plan'.frontier = {plan.seed} /\ plan'.next = plan.next /\ plan'.hop = 1
          /\ plan'.cap = plan.cap /\ plan'.found = TRUE /\ plan'.seed = plan.seed
          /\ plan'.constraints = plan.constraints /\ plan'.asks = plan.asks
      BY <1>1, <2>1, <2>2 DEF PlanRecord
    <2>4. plan.next = {} /\ plan.cap \in Nat
      BY <1>0, <1>1 DEF PlanTypes, NothingYet, PlanRecord
    <2>5. Readable' = Readable /\ Readable # {}
      BY <1>0, <1>1, <1>3 DEF Readable
    <2>6. PlanTypes'
      BY <1>0, <2>2, <2>3, <2>4, <2>5 DEF PlanTypes
    <2>7. WithinHops(Readable, plan.seed, 0) \subseteq {plan.seed}
      BY DEF WithinHops
    <2>8. plan.seed \in WithinHops(Readable, plan.seed, 0)
      BY <2>2, ReachStarts
    <2>9. Within(plan.hop - 1)' = WithinHops(Readable, plan.seed, 0)
      BY <2>3, <2>5 DEF Within
    <2>10. WalkSoFar'
      BY <1>0, <2>3, <2>4, <2>7, <2>8, <2>9 DEF WalkSoFar, NothingYet
    <2>11. QED
      BY <2>3, <2>6, <2>10 DEF PlanInv
  <1>4. CASE chart # Unreadable /\ ~Found(plan.seed)
    <2>1. plan' = [plan EXCEPT !.impacted = {plan.seed}, !.unread = {plan.seed},
                               !.at = "joining", !.asks = TRUE]
      BY <1>1, <1>4 DEF VerifySeed, PlanRecord
    <2>2. /\ plan' \in PlanRecord /\ plan'.at = "joining" /\ plan'.outcome = "none"
          /\ plan'.impacted = {plan.seed} /\ plan'.unread = {plan.seed}
          /\ plan'.frontier = plan.frontier /\ plan'.next = plan.next /\ plan'.hop = plan.hop
          /\ plan'.cap = plan.cap /\ plan'.found = plan.found /\ plan'.seed = plan.seed
          /\ plan'.constraints = plan.constraints /\ plan'.asks = TRUE
      BY <1>1, <2>1 DEF PlanRecord
    <2>3. plan.next = {} /\ plan.frontier = {} /\ plan.found = FALSE
      BY <1>0 DEF PlanTypes, NothingYet
    <2>4. PlanTypes'
      BY <1>0, <2>2, <2>3 DEF PlanTypes
    <2>5. ImpactIsKnown' /\ RulingsAreRead'
      BY <2>2, <2>3 DEF ImpactIsKnown, RulingsAreRead
    <2>6. QED
      BY <2>2, <2>4, <2>5 DEF PlanInv
  <1>5. QED
    BY <1>2, <1>3, <1>4

LEMMA ExpandKeepsInv ==
  ASSUME PlanInv, NEW c, Expand(c)
  PROVE  PlanInv'
  <1> DEFINE fresh == (IF Found(c) THEN ImportedBy(c) ELSE {}) \ plan.impacted
  <1>0. /\ plan.at = "walking" /\ plan.hop <= plan.cap /\ c \in plan.frontier
        /\ PlanTypes /\ WalkSoFar /\ UNCHANGED <<chart, ledger, charts, onFile>>
    BY DEF PlanInv, Expand, HopsLeft, files, era
  <1>1. plan' = [plan EXCEPT !.frontier = @ \ {c}, !.next = @ \cup fresh,
                             !.impacted = @ \cup fresh, !.unread = @ \cup fresh]
    BY DEF Expand
  <1>2. /\ fresh \subseteq Nodes /\ fresh \cap plan.impacted = {}
        /\ \A n \in fresh : Edge(Readable, c, n)
        /\ charts = {chart} => \A n \in Nodes : Edge(Readable, c, n) =>
             n \in plan.impacted \cup fresh
    <2>1. chart \in charts
      BY <1>0 DEF PlanTypes
    <2>2. fresh \subseteq Nodes /\ fresh \cap plan.impacted = {}
      BY DEF ImportedBy
    <2>3. \A n \in fresh : Edge(Readable, c, n)
      BY <2>1 DEF ImportedBy, Found, Edge, Readable
    <2>4. ASSUME charts = {chart}, NEW n \in Nodes, Edge(Readable, c, n)
          PROVE  n \in plan.impacted \cup fresh
      <3>1. chart # Unreadable /\ c \in chart.nodes /\ <<n, c>> \in chart.edges
        BY <2>4 DEF Edge, Readable
      <3>2. QED
        BY <3>1 DEF Found, ImportedBy
    <2>5. QED
      BY <2>2, <2>3, <2>4
  <1> HIDE DEF fresh
  <1>3. /\ plan \in PlanRecord /\ plan.hop \in Nat /\ plan.hop >= 1
    BY <1>0 DEF PlanTypes, WalkSoFar, PlanRecord
  <1>4. /\ plan' \in PlanRecord /\ plan'.at = plan.at /\ plan'.outcome = plan.outcome
        /\ plan'.impacted = plan.impacted \cup fresh /\ plan'.unread = plan.unread \cup fresh
        /\ plan'.frontier = plan.frontier \ {c} /\ plan'.next = plan.next \cup fresh
        /\ plan'.hop = plan.hop /\ plan'.cap = plan.cap /\ plan'.found = plan.found
        /\ plan'.seed = plan.seed /\ plan'.constraints = plan.constraints
        /\ plan'.asks = plan.asks
    BY <1>1, <1>2, <1>3 DEF PlanRecord
  <1>5. Readable' = Readable /\ \A k : Within(k)' = WithinHops(Readable, plan.seed, k)
    BY <1>0, <1>4 DEF Readable, Within
  <1>6. PlanTypes'
    BY <1>0, <1>4, <1>5 DEF PlanTypes
  <1>7. fresh \subseteq WithinHops(Readable, plan.seed, plan.hop)
    <2>1. c \in WithinHops(Readable, plan.seed, plan.hop - 1)
      BY <1>0 DEF PlanTypes, WalkSoFar, Within
    <2>2. plan.hop - 1 \in Nat /\ (plan.hop - 1) + 1 = plan.hop
      BY <1>3
    <2>3. ASSUME NEW n \in fresh PROVE n \in WithinHops(Readable, plan.seed, (plan.hop - 1) + 1)
      BY <1>2, <2>1, <2>2, ReachExtends
    <2>4. QED
      BY <2>2, <2>3
  <1>8. WalkSoFar'
    <2>1. plan'.hop # plan'.cap + 1 /\ plan.frontier \subseteq plan.impacted
      BY <1>0, <1>3, <1>4 DEF PlanTypes, PlanRecord
    <2>2. /\ plan'.impacted \ plan'.next = plan.impacted \ plan.next
          /\ plan'.frontier \cap plan'.next = {} /\ plan'.unread = plan'.impacted
          /\ plan'.seed \in plan'.impacted
      BY <1>0, <1>2, <1>4, <2>1 DEF WalkSoFar
    <2>3. /\ plan'.impacted \ plan'.next \subseteq Within(plan.hop - 1)'
          /\ plan'.next \subseteq Within(plan.hop)'
      BY <1>0, <1>4, <1>5, <1>7, <2>2 DEF WalkSoFar, Within
    <2>4. ASSUME charts' = {chart'}
          PROVE  /\ Within(plan.hop - 1)' \subseteq plan'.impacted \ plan'.next
                 /\ \A d \in plan'.impacted \ (plan'.frontier \cup plan'.next), n \in Nodes :
                      Edge(Readable', d, n) => n \in plan'.impacted
      <3>1. Within(plan.hop - 1)' \subseteq plan'.impacted \ plan'.next
        BY <1>0, <1>4, <1>5, <2>2, <2>4 DEF WalkSoFar, Within
      <3>2. ASSUME NEW d \in plan'.impacted \ (plan'.frontier \cup plan'.next), NEW n \in Nodes,
                   Edge(Readable, d, n)
            PROVE  n \in plan.impacted \cup fresh
        <4>1. d = c \/ d \in plan.impacted \ (plan.frontier \cup plan.next)
          BY <1>4, <3>2
        <4>2. QED
          BY <1>0, <1>2, <2>4, <3>2, <4>1 DEF WalkSoFar
      <3>3. QED
        BY <1>4, <1>5, <3>1, <3>2
    <2>5. QED
      BY <1>0, <1>4, <2>1, <2>2, <2>3, <2>4 DEF WalkSoFar
  <1>9. QED
    BY <1>0, <1>4, <1>6, <1>8 DEF PlanInv

LEMMA NextHopKeepsInv ==
  ASSUME PlanInv, NextHop
  PROVE  PlanInv'
  <1>0. /\ plan.at = "walking" /\ (plan.frontier = {} \/ ~(plan.hop <= plan.cap))
        /\ PlanTypes /\ WalkSoFar /\ UNCHANGED <<chart, ledger, charts, onFile>>
        /\ plan' = IF plan.next = {} \/ ~(plan.hop <= plan.cap)
                     THEN [plan EXCEPT !.frontier = {}, !.next = {}, !.at = "joining"]
                     ELSE [plan EXCEPT !.frontier = plan.next, !.next = {}, !.hop = @ + 1]
    BY DEF PlanInv, NextHop, HopsLeft, files, era
  <1>1. /\ plan \in PlanRecord /\ plan.hop \in Nat /\ plan.hop >= 1 /\ plan.cap \in Nat
        /\ plan.hop - 1 \in Nat /\ (plan.hop - 1) + 1 = plan.hop
        /\ plan.hop <= plan.cap + 1
    BY <1>0 DEF PlanTypes, WalkSoFar, PlanRecord
  <1>2. CASE plan.next = {} \/ ~(plan.hop <= plan.cap)
    <2>1. /\ plan' \in PlanRecord /\ plan'.at = "joining" /\ plan'.outcome = plan.outcome
          /\ plan'.impacted = plan.impacted /\ plan'.unread = plan.unread
          /\ plan'.frontier = {} /\ plan'.next = {} /\ plan'.hop = plan.hop
          /\ plan'.cap = plan.cap /\ plan'.found = plan.found /\ plan'.seed = plan.seed
          /\ plan'.constraints = plan.constraints
      BY <1>0, <1>1, <1>2 DEF PlanRecord
    <2>2. Readable' = Readable /\ \A k : Within(k)' = Within(k)
      BY <1>0, <2>1 DEF Readable, Within
    <2>3. PlanTypes'
      BY <1>0, <2>1, <2>2 DEF PlanTypes
    <2>4. plan.next = {}
      BY <1>0, <1>1, <1>2 DEF WalkSoFar
    <2>5. Within(plan.hop - 1) \subseteq Within(plan.cap)
      <3>1. plan.hop - 1 <= plan.cap
        BY <1>1
      <3>2. QED
        BY <1>1, <3>1, ReachGrows DEF Within
    <2>6. ASSUME charts = {chart} PROVE Within(plan.cap) \subseteq plan.impacted
      <3>1. CASE plan.frontier = {}
        <4>1. /\ plan.seed \in plan.impacted
              /\ \A d \in plan.impacted, n \in Nodes :
                   Edge(Readable, d, n) => n \in plan.impacted
          BY <1>0, <2>4, <2>6, <3>1 DEF WalkSoFar
        <4>2. QED
          BY <1>1, <4>1, ReachStaysInside DEF Within
      <3>2. CASE ~(plan.hop <= plan.cap)
        <4>1. plan.hop - 1 = plan.cap
          BY <1>1, <3>2
        <4>2. QED
          BY <1>0, <2>6, <4>1 DEF WalkSoFar
      <3>3. QED
        BY <1>0, <3>1, <3>2
    <2>7. ImpactIsKnown'
      BY <1>0, <2>1, <2>2, <2>4, <2>5, <2>6 DEF ImpactIsKnown, WalkSoFar
    <2>8. RulingsAreRead'
      BY <1>0, <2>1 DEF RulingsAreRead, WalkSoFar
    <2>9. QED
      BY <2>1, <2>3, <2>7, <2>8 DEF PlanInv
  <1>3. CASE plan.next # {} /\ plan.hop <= plan.cap
    <2>0. plan' = [plan EXCEPT !.frontier = plan.next, !.next = {}, !.hop = @ + 1]
      BY <1>0, <1>3
    <2>1. /\ plan' \in PlanRecord /\ plan'.at = "walking" /\ plan'.outcome = plan.outcome
          /\ plan'.impacted = plan.impacted /\ plan'.unread = plan.unread
          /\ plan'.frontier = plan.next /\ plan'.next = {} /\ plan'.hop = plan.hop + 1
          /\ plan'.cap = plan.cap /\ plan'.found = plan.found /\ plan'.seed = plan.seed
          /\ plan'.constraints = plan.constraints /\ plan'.asks = plan.asks
      <3>1. plan.hop + 1 \in Nat /\ plan.next \in SUBSET (Nodes \cup {Unknown})
        BY <1>1 DEF PlanRecord
      <3>2. QED
        BY <1>0, <1>1, <2>0, <3>1 DEF PlanRecord
    <2>2. Readable' = Readable /\ \A k : Within(k)' = Within(k)
      BY <1>0, <2>1 DEF Readable, Within
    <2>3. plan.frontier = {}
      BY <1>0, <1>3
    <2>4. PlanTypes'
      <3>1. plan'.hop <= plan'.cap + 1
        BY <1>1, <1>3, <2>1
      <3>2. QED
        BY <1>0, <2>1, <2>2, <3>1 DEF PlanTypes
    <2>5. plan'.hop - 1 = plan.hop /\ plan'.hop >= 1
      BY <1>1, <2>1
    <2>6. Within(plan.hop - 1) \subseteq Within(plan.hop)
      BY <1>1, ReachGrows DEF Within
    <2>7. plan.impacted \subseteq Within(plan.hop)
      BY <1>0, <2>6 DEF WalkSoFar
    <2>8. ASSUME charts = {chart}
          PROVE  /\ Within(plan.hop) \subseteq plan.impacted
                 /\ \A d \in plan.impacted \ plan.next, n \in Nodes :
                      Edge(Readable, d, n) => n \in plan.impacted
      <3>1. \A d \in plan.impacted \ plan.next, n \in Nodes :
              Edge(Readable, d, n) => n \in plan.impacted
        BY <1>0, <2>3, <2>8 DEF WalkSoFar
      <3>2. ASSUME NEW n \in Within(plan.hop) PROVE n \in plan.impacted
        <4>1. /\ n \in WithinHops(Readable, plan.seed, (plan.hop - 1) + 1) /\ n \in Nodes
          BY <1>1, <3>2 DEF Within, WithinHops
        <4>2. \/ n \in Within(plan.hop - 1)
              \/ \E d \in Within(plan.hop - 1) : Edge(Readable, d, n)
          BY <1>1, <4>1, ReachUnfolds DEF Within
        <4>3. Within(plan.hop - 1) \subseteq plan.impacted \ plan.next
          BY <1>0, <2>8 DEF WalkSoFar
        <4>4. QED
          BY <3>1, <4>1, <4>2, <4>3
      <3>3. QED
        BY <3>1, <3>2
    <2>9. WalkSoFar'
      BY <1>0, <2>1, <2>2, <2>5, <2>7, <2>8 DEF WalkSoFar
    <2>10. QED
      BY <2>1, <2>4, <2>9 DEF PlanInv
  <1>4. QED
    BY <1>2, <1>3

LEMMA ReadDecisionsKeepsInv ==
  ASSUME PlanInv, NEW c, ReadDecisions(c)
  PROVE  PlanInv'
  <1>0. /\ plan.at = "joining" /\ c \in plan.unread
        /\ PlanTypes /\ ImpactIsKnown /\ RulingsAreRead
        /\ UNCHANGED <<chart, ledger, charts, onFile>>
    BY DEF PlanInv, ReadDecisions, files, era
  <1>1. plan \in PlanRecord /\ plan.outcome = "none" /\ ledger \subseteq Rulings
    BY <1>0 DEF PlanTypes
  <1>2. CASE Fail("raised")
    <2>1. plan'.outcome = "raised"
      BY <1>1, <1>2 DEF Fail, PlanRecord
    <2>2. PlanIsSound'
      BY <2>1 DEF PlanIsSound, ImpactIsReach, ClearToAct
    <2>3. QED
      BY <1>0, <1>2, <2>2, EndKeepsInv
  <1> DEFINE records == RetrieveRulings(ledger, plan.asker, c)
  <1>3. CASE plan' = [plan EXCEPT !.unread = @ \ {c}, !.constraints = @ \cup records,
                                  !.asks = @ \/ DetectConflicts(records)]
    <2>1. /\ records \subseteq ledger
          /\ RetrieveRulings(onFile, plan.asker, c) \subseteq records
      BY <1>0 DEF RetrieveRulings, PlanTypes
    <2>2. ~DetectConflicts(records) =>
            ~ \E a, b \in RetrieveRulings(onFile, plan.asker, c) :
                a # b /\ a.takes = b.rejects /\ a.takes # Nothing
      BY <2>1 DEF DetectConflicts
    <2>3. DetectConflicts(records) \in BOOLEAN
      BY DEF DetectConflicts
    <2> HIDE DEF records
    <2>4. /\ plan' \in PlanRecord /\ plan'.at = "joining" /\ plan'.outcome = plan.outcome
          /\ plan'.impacted = plan.impacted /\ plan'.unread = plan.unread \ {c}
          /\ plan'.frontier = plan.frontier /\ plan'.next = plan.next /\ plan'.hop = plan.hop
          /\ plan'.cap = plan.cap /\ plan'.found = plan.found /\ plan'.seed = plan.seed
          /\ plan'.constraints = plan.constraints \cup records /\ plan'.asker = plan.asker
      BY <1>0, <1>1, <1>3, <2>1, <2>3 DEF PlanRecord
    <2>5. plan'.asks = FALSE => plan.asks = FALSE /\ ~DetectConflicts(records)
      BY <1>1, <1>3, <2>3 DEF PlanRecord
    <2>6. plan.asks = TRUE => plan'.asks = TRUE
      BY <1>1, <1>3, <2>3 DEF PlanRecord
    <2>7. Readable' = Readable /\ Within(plan.cap)' = Within(plan.cap)
      BY <1>0, <2>4 DEF Readable, Within
    <2>8. PlanTypes'
      BY <1>0, <2>1, <2>4, <2>7 DEF PlanTypes
    <2>9. ImpactIsKnown'
      BY <1>0, <2>4, <2>6, <2>7 DEF ImpactIsKnown
    <2>10. ASSUME NEW d \in plan.impacted \ plan.unread' PROVE Clear(d)'
      <3>1. CASE d = c
        BY <1>0, <2>1, <2>2, <2>4, <2>5, <3>1 DEF Clear, RetrieveRulings
      <3>2. CASE d # c
        BY <1>0, <2>4, <2>5, <2>10, <3>2 DEF Clear, RulingsAreRead, RetrieveRulings
      <3>3. QED
        BY <3>1, <3>2
    <2>11. QED
      BY <2>4, <2>8, <2>9, <2>10 DEF PlanInv, RulingsAreRead
  <1>4. QED
    BY <1>2, <1>3 DEF ReadDecisions

LEMMA AssemblePlanKeepsInv ==
  ASSUME PlanInv, AssemblePlan
  PROVE  PlanInv'
  <1>0. /\ plan.at = "joining" /\ plan.unread = {}
        /\ Fail(IF plan.asks THEN "needs_input" ELSE "ok")
        /\ PlanTypes /\ ImpactIsKnown /\ RulingsAreRead
        /\ UNCHANGED <<chart, ledger, charts, onFile>>
    BY DEF PlanInv, AssemblePlan, files, era
  <1>1. plan \in PlanRecord /\ plan.asks \in BOOLEAN /\ chart \in charts
    BY <1>0 DEF PlanTypes, PlanRecord
  <1>2. /\ plan'.outcome = IF plan.asks THEN "needs_input" ELSE "ok"
        /\ plan'.impacted = plan.impacted /\ plan'.constraints = plan.constraints
        /\ plan'.found = plan.found /\ plan'.seed = plan.seed /\ plan'.cap = plan.cap
        /\ plan'.asker = plan.asker
    BY <1>0, <1>1 DEF Fail, PlanRecord
  <1>3. ImpactIsReach'
    <2>1. CASE plan.found
      <3>1. charts = {chart} => Readable = charts
        BY <1>0, <1>1, <2>1 DEF PlanTypes, Readable
      <3>2. QED
        BY <1>0, <1>2, <2>1, <3>1 DEF ImpactIsReach, ImpactIsKnown, Within, Readable
    <2>2. CASE ~plan.found
      BY <1>0, <1>2, <2>2 DEF ImpactIsReach, ImpactIsKnown
    <2>3. QED
      BY <2>1, <2>2
  <1>4. ClearToAct'
    <2>1. plan'.outcome = "ok" => plan.asks = FALSE
      BY <1>1, <1>2
    <2>2. QED
      BY <1>0, <1>2, <2>1 DEF ClearToAct, RulingsAreRead, Clear
  <1>5. QED
    BY <1>0, <1>3, <1>4, EndKeepsInv DEF PlanIsSound

(* A rescan: the run's files are more than one, and reach no less.         *)
LEMMA RescanKeepsInv ==
  ASSUME PlanInv, Rescan
  PROVE  PlanInv'
  <1>0. PlanTypes /\ UNCHANGED <<ledger, plan, onFile>>
    BY DEF PlanInv, Rescan
  <1>1. PICK g \in Drafts \cup {Unreadable} :
          g # chart /\ chart' = g /\ charts' = charts \cup {g}
    BY DEF Rescan
  <1>2. Readable \subseteq Readable'
    BY <1>1 DEF Readable
  <1>3. PlanTypes'
    BY <1>0, <1>1, <1>2 DEF PlanTypes
  <1>4. chart \in charts => charts' # {chart'}
    BY <1>1
  <1>5. \A k \in Nat : Within(k) \subseteq Within(k)'
    BY <1>0, <1>2, ReachGrows DEF Within
  <1>6. plan \in PlanRecord /\ plan.cap \in Nat /\ plan.hop \in Nat
    BY <1>0 DEF PlanTypes, PlanRecord
  <1>7. ASSUME plan.at = "walking" PROVE WalkSoFar'
    <2>1. WalkSoFar /\ charts' # {chart'}
      BY <1>0, <1>4, <1>7 DEF PlanInv, PlanTypes
    <2>2. plan.hop - 1 \in Nat
      BY <1>6, <2>1 DEF WalkSoFar
    <2>3. /\ Within(plan.hop - 1) \subseteq Within(plan.hop - 1)'
          /\ Within(plan.hop) \subseteq Within(plan.hop)'
      BY <1>0, <1>5, <1>6, <2>2
    <2>4. QED
      BY <1>0, <2>1, <2>3 DEF WalkSoFar
  <1>8. ASSUME plan.at = "joining" PROVE ImpactIsKnown' /\ RulingsAreRead'
    <2>1. ImpactIsKnown /\ RulingsAreRead /\ charts' # {chart'}
      BY <1>0, <1>4, <1>8 DEF PlanInv, PlanTypes
    <2>2. Within(plan.cap) \subseteq Within(plan.cap)'
      BY <1>0, <1>5, <1>6
    <2>3. QED
      BY <1>0, <2>1, <2>2 DEF ImpactIsKnown, RulingsAreRead, Clear
  <1>9. ASSUME plan.at = "idle" PROVE PlanIsSound'
    <2>1. ImpactIsReach /\ ClearToAct
      BY <1>9 DEF PlanInv, PlanIsSound
    <2>2. ClearToAct'
      BY <1>0, <2>1 DEF ClearToAct
    <2>3. Within(plan.cap) \subseteq Within(plan.cap)'
      BY <1>0, <1>5, <1>6
    <2>4. plan.outcome # "none" => charts' # {chart'}
      BY <1>0, <1>4 DEF PlanTypes
    <2>5. ImpactIsReach'
      BY <1>0, <2>1, <2>3, <2>4 DEF ImpactIsReach, Within, Readable
    <2>6. QED
      BY <2>2, <2>5 DEF PlanIsSound
  <1>10. plan.at = "seeded" => NothingYet'
    BY <1>0 DEF PlanInv, NothingYet
  <1>11. QED
    BY <1>0, <1>3, <1>7, <1>8, <1>9, <1>10 DEF PlanInv

LEMMA RecordRulingKeepsInv ==
  ASSUME PlanInv, NEW r \in Rulings, RecordRuling(r)
  PROVE  PlanInv'
  <1>1. UNCHANGED <<chart, plan, charts, onFile>> /\ ledger' = ledger \cup {r}
    BY DEF RecordRuling, era
  <1>2. PlanTypes'
    BY <1>1 DEF PlanInv, PlanTypes, Readable
  <1>3. Readable' = Readable /\ \A k : Within(k)' = Within(k)
    BY <1>1 DEF Readable, Within
  <1>4. NothingYet' = NothingYet /\ WalkSoFar' = WalkSoFar
    BY <1>1, <1>3 DEF NothingYet, WalkSoFar
  <1>5. ImpactIsKnown' = ImpactIsKnown /\ RulingsAreRead' = RulingsAreRead
    <2>1. ImpactIsKnown' = ImpactIsKnown
      BY <1>1, <1>3 DEF ImpactIsKnown
    <2>2. \A c : Clear(c)' = Clear(c)
      BY <1>1 DEF Clear
    <2>3. RulingsAreRead' = RulingsAreRead
      BY <1>1, <2>2 DEF RulingsAreRead
    <2>4. QED
      BY <2>1, <2>3
  <1>6. PlanIsSound' = PlanIsSound
    BY <1>1 DEF PlanIsSound, ImpactIsReach, ClearToAct
  <1>7. QED
    BY <1>1, <1>2, <1>4, <1>5, <1>6 DEF PlanInv

LEMMA PlanStepKeepsInv == PlanInv /\ [PlannerNext]_plannerVars => PlanInv'
  <1> SUFFICES ASSUME PlanInv, [PlannerNext]_plannerVars PROVE PlanInv'
    OBVIOUS
  <1>1. CASE PlannerNext
    BY <1>1, RunPlannerKeepsInv, VerifySeedKeepsInv, ExpandKeepsInv, NextHopKeepsInv,
       ReadDecisionsKeepsInv, AssemblePlanKeepsInv, RescanKeepsInv, RecordRulingKeepsInv
    DEF PlannerNext
  <1>2. CASE UNCHANGED plannerVars
    <2>1. UNCHANGED <<chart, ledger, plan, charts, onFile>>
      BY <1>2 DEF plannerVars
    <2>2. Readable' = Readable /\ \A k : Within(k)' = Within(k)
      BY <2>1 DEF Readable, Within
    <2>3. PlanTypes' = PlanTypes /\ NothingYet' = NothingYet /\ WalkSoFar' = WalkSoFar
      BY <2>1, <2>2 DEF PlanTypes, NothingYet, WalkSoFar
    <2>4. ImpactIsKnown' = ImpactIsKnown /\ RulingsAreRead' = RulingsAreRead
      <3>1. ImpactIsKnown' = ImpactIsKnown
        BY <2>1, <2>2 DEF ImpactIsKnown
      <3>2. \A c : Clear(c)' = Clear(c)
        BY <2>1 DEF Clear
      <3>3. RulingsAreRead' = RulingsAreRead
        BY <2>1, <3>2 DEF RulingsAreRead
      <3>4. QED
        BY <3>1, <3>3
    <2>5. PlanIsSound' = PlanIsSound
      BY <2>1 DEF PlanIsSound, ImpactIsReach, ClearToAct
    <2>6. QED
      BY <2>1, <2>3, <2>4, <2>5 DEF PlanInv
  <1>3. QED
    BY <1>1, <1>2

LEMMA PlanInvShows == PlanInv => PlannerTypeOK /\ PlanIsSound
  <1> SUFFICES ASSUME PlanInv PROVE PlannerTypeOK /\ PlanIsSound
    OBVIOUS
  <1>1. PlannerTypeOK
    BY DEF PlanInv, PlanTypes, PlanRecord, PlannerTypeOK
  <1>2. plan.at # "idle" => PlanIsSound
    BY DEF PlanInv, PlanTypes, PlanIsSound, ImpactIsReach, ClearToAct
  <1>3. QED
    BY <1>1, <1>2 DEF PlanInv
-----------------------------------------------------------------------------
Judged == Kinds \ {"answer"}

CaseRecord ==
  [at : Kinds \cup {"idle"}, metric : Kinds \cup {"none"}, asked : BOOLEAN, covered : BOOLEAN,
   cache : BOOLEAN, hits : Seq(Passages \X (1 .. MaxVersions)),
   answer : AnswerTexts \cup {NoLabel}]

ReplyRecord ==
  [form : {"truncated", "garbled", "verdict"}, text : AnswerTexts \cup {NoLabel},
   claims : SUBSET Claim, label : {"band", NoLabel}, reason : BOOLEAN,
   lines : Seq(PassageLabels \cup {NoLabel})]

CasesFollowTheScript ==
  /\ case \in [Evaluators -> CaseRecord]
  /\ \A e \in Evaluators :
       IF case[e].at = "idle" THEN case[e].asked = FALSE ELSE case[e].metric \in Judged

(* A stored judgement of passages has a label for each one it was shown,   *)
(* and is kept under their ids.                                            *)
FiledUnderItsPassages(k, entry) ==
  \A ids : k = <<"context_precision", ids>> /\ entry.reply.form = "verdict" =>
    /\ ids = IdsOf(entry.prompt.seen)
    /\ DOMAIN entry.reply.lines = DOMAIN entry.prompt.seen

CacheIsFiled ==
  \A k \in DOMAIN calls :
    /\ k[1] \in Kinds
    /\ calls[k].reply \in ReplyRecord
    /\ FiledUnderItsPassages(k, calls[k])

JudgingInv ==
  /\ version \in 1 .. MaxVersions /\ cases \in 0 .. MaxCases
  /\ CasesFollowTheScript
  /\ CacheIsFiled
  /\ last.downgraded \subseteq Claim
  /\ VerdictsAreChecked

LEMMA NothingIsChecked ==
  ASSUME last' = NoVerdict
  PROVE  last'.downgraded \subseteq Claim /\ VerdictsAreChecked'
  BY DEF NoVerdict, VerdictsAreChecked

LEMMA JudgingStart == JudgingInit => JudgingInv
  <1> SUFFICES ASSUME JudgingInit PROVE JudgingInv
    OBVIOUS
  <1>1. NoCase \in CaseRecord /\ NoCase.at = "idle" /\ NoCase.asked = FALSE
    <2>1. <<>> \in Seq(Passages \X (1 .. MaxVersions))
      OBVIOUS
    <2>2. QED
      BY <2>1 DEF NoCase, CaseRecord, Kinds, NoLabel
  <1>2. CasesFollowTheScript
    BY <1>1 DEF JudgingInit, CasesFollowTheScript
  <1>3. CacheIsFiled
    BY DEF JudgingInit, CacheIsFiled
  <1>4. last = NoVerdict /\ version = 1 /\ cases = 0
    BY DEF JudgingInit
  <1>5. last.downgraded \subseteq Claim /\ VerdictsAreChecked
    BY <1>4 DEF NoVerdict, VerdictsAreChecked
  <1>6. QED
    BY <1>2, <1>3, <1>4, <1>5, JudgingAssumption DEF JudgingInv

LEMMA FunctionIsSeq ==
  ASSUME NEW S, NEW n \in Nat, NEW f \in [1 .. n -> S]
  PROVE  f \in Seq(S)
  OBVIOUS

LEMMA ReplyShape ==
  ASSUME NEW kind \in Kinds, NEW c \in CaseRecord, NEW reply \in Replies(kind, c)
  PROVE  /\ reply \in ReplyRecord
         /\ kind = "context_precision" /\ reply.form = "verdict" =>
              DOMAIN reply.lines = DOMAIN c.hits
  <1> DEFINE Labels == PassageLabels \cup {NoLabel}
  <1>1. c.hits \in Seq(Passages \X (1 .. MaxVersions)) /\ DOMAIN c.hits = 1 .. Len(c.hits)
        /\ Len(c.hits) \in Nat
    BY DEF CaseRecord
  <1>2. <<>> \in Seq(Labels)
    OBVIOUS
  <1>3. \A r \in Unfinished : r \in ReplyRecord /\ r.form # "verdict"
    BY <1>2 DEF Unfinished, NoReply, ReplyRecord
  <1>4. \A r \in Answers : r \in ReplyRecord
    <2>1. ASSUME NEW f \in {"verdict", "truncated"}, NEW t \in AnswerTexts
          PROVE  Written(f, t) \in ReplyRecord
      BY <1>2 DEF Written, NoReply, ReplyRecord
    <2>2. QED
      BY <2>1 DEF Answers
  <1>5. \A r \in ClaimReplies : r \in ReplyRecord
    <2>1. ASSUME NEW list \in ClaimLists
          PROVE  [NoReply EXCEPT !.form = "verdict", !.claims = list] \in ReplyRecord
      <3>1. list \in SUBSET Claim
        BY JudgingAssumption
      <3>2. QED
        BY <1>2, <3>1 DEF NoReply, ReplyRecord
    <2>2. QED
      BY <2>1, Zenon DEF ClaimReplies
  <1>6. \A r \in BandReplies : r \in ReplyRecord
    <2>1. ASSUME NEW b \in {"band", NoLabel}, NEW r \in BOOLEAN
          PROVE  Banded(b, r) \in ReplyRecord
      BY <1>2 DEF Banded, NoReply, ReplyRecord
    <2>2. QED
      BY <2>1 DEF BandReplies
  <1>7. \A r \in PassageReplies(c) : r \in ReplyRecord /\ DOMAIN r.lines = DOMAIN c.hits
    <2>1. ASSUME NEW l \in [DOMAIN c.hits -> Labels]
          PROVE  /\ [NoReply EXCEPT !.form = "verdict", !.lines = l] \in ReplyRecord
                 /\ [NoReply EXCEPT !.form = "verdict", !.lines = l].lines = l
                 /\ DOMAIN l = DOMAIN c.hits
      <3> HIDE DEF Labels
      <3>1. l \in [1 .. Len(c.hits) -> Labels] /\ DOMAIN l = DOMAIN c.hits
        BY <1>1 DEF Labels
      <3>2. l \in Seq(Labels)
        BY <1>1, <3>1, FunctionIsSeq
      <3>3. QED
        BY <3>1, <3>2 DEF NoReply, ReplyRecord, Labels
    <2>2. QED
      BY <2>1, Zenon DEF PassageReplies
  <1>8. \/ kind = "answer" /\ Replies(kind, c) = Unfinished \cup Answers
        \/ kind \in ClaimKinds /\ Replies(kind, c) = Unfinished \cup ClaimReplies
        \/ kind \in BandKinds /\ Replies(kind, c) = Unfinished \cup BandReplies
        \/ kind = "context_precision" /\ Replies(kind, c) = Unfinished \cup PassageReplies(c)
    BY DEF Replies, Kinds, ClaimKinds, BandKinds
  <1>9. kind = "context_precision" => kind \notin ClaimKinds \cup BandKinds
    BY DEF ClaimKinds, BandKinds
  <1>10. QED
    BY <1>3, <1>4, <1>5, <1>6, <1>7, <1>8, <1>9

(* What the grading keeps of a judge's claims. *)
LEMMA GradedClaims ==
  ASSUME NEW kind \in ClaimKinds, NEW claims \in SUBSET Claim, NEW haystack
  PROVE  LET graded == GradeClaims(kind, claims, haystack)
         IN  /\ graded.downgraded \subseteq Claim
             /\ \A c \in graded.kept :
                  /\ c.label = Positive(kind) => c.quote \in haystack
                  /\ c.label = "contradicted" => c \in claims
  <1> DEFINE known == {c \in claims : c.named /\ c.label \in Vocabulary(kind)}
             unbacked == {c \in known : c.label = Positive(kind) /\ c.quote \notin haystack}
             relabelled == {[c EXCEPT !.label = Negative(kind)] : c \in unbacked}
  <1>1. /\ GradeClaims(kind, claims, haystack).kept = (known \ unbacked) \cup relabelled
        /\ GradeClaims(kind, claims, haystack).downgraded = unbacked
    BY DEF GradeClaims
  <1>2. /\ Negative(kind) # Positive(kind) /\ Negative(kind) # "contradicted"
        /\ Negative(kind) \in {"unsupported", "absent"}
    BY DEF Negative, Positive, ClaimKinds
  <1>3. \A c \in relabelled : c.label = Negative(kind)
    <2>1. \A c \in unbacked : [c EXCEPT !.label = Negative(kind)].label = Negative(kind)
      BY DEF Claim
    <2> HIDE DEF unbacked
    <2>2. QED
      BY <2>1, Zenon
  <1>4. \A c \in known \ unbacked : c \in claims /\ (c.label = Positive(kind) => c.quote \in haystack)
    OBVIOUS
  <1>5. unbacked \subseteq Claim
    OBVIOUS
  <1> HIDE DEF known, unbacked, relabelled
  <1>6. QED
    BY <1>1, <1>2, <1>3, <1>4, <1>5

(* What a verdict says, whoever produced the reply. *)
LEMMA VerdictIsChecked ==
  ASSUME NEW kind \in Judged, NEW c \in CaseRecord, NEW reply \in ReplyRecord, NEW prompt,
         kind = "context_precision" /\ reply.form = "verdict" =>
           /\ DOMAIN reply.lines = DOMAIN c.hits
           /\ \A i \in DOMAIN c.hits : prompt.seen[i][1] = Shown(c.hits)[i][1],
         last' = Verdict(kind, c, reply, prompt)
  PROVE  /\ last'.downgraded \subseteq Claim
         /\ \A k \in last'.claims :
              /\ k.label = Positive(last'.kind) => k.quote \in ToSet(last'.hits)
              /\ k.label = "contradicted" => k \in last'.reply.claims
         /\ \A p \in last'.passages :
              /\ last'.prompt.seen[p.shownAt][1] = last'.hits[p.rank][1]
              /\ p.label = last'.reply.lines[p.shownAt]
         /\ last'.gradeable => reply.form = "verdict"
         /\ last'.reply = reply /\ last'.cache = c.cache /\ last'.now.key = Key(kind, c)
  <1> DEFINE base == [NoVerdict EXCEPT !.kind = kind, !.reply = reply, !.prompt = prompt,
                        !.now = Prompt(kind, c), !.cache = c.cache, !.hits = c.hits]
  <1>1. last' = IF reply.form # "verdict" THEN base
                ELSE IF kind \in ClaimKinds THEN ClaimVerdict(base, reply.claims)
                ELSE IF kind \in BandKinds THEN BandVerdict(base, reply.label, reply.reason)
                ELSE PassageVerdict(base, reply.lines)
    BY DEF Verdict, Judged, Kinds, ClaimKinds, BandKinds
  <1>2. /\ base = [x \in {"kind", "claims", "downgraded", "passages", "score", "gradeable",
                          "reply", "prompt", "now", "cache", "hits"} |-> base[x]]
        /\ base.kind = kind /\ base.reply = reply /\ base.prompt = prompt
        /\ base.now = Prompt(kind, c) /\ base.cache = c.cache /\ base.hits = c.hits
        /\ base.claims = {} /\ base.downgraded = {} /\ base.passages = {}
        /\ base.gradeable = FALSE
    <2> HIDE DEF base
    <2>1. base = [NoVerdict EXCEPT !.kind = kind, !.reply = reply, !.prompt = prompt,
                    !.now = Prompt(kind, c), !.cache = c.cache, !.hits = c.hits]
      BY DEF base
    <2>2. QED
      BY <2>1 DEF NoVerdict
  <1>3. Prompt(kind, c).key = Key(kind, c)
    BY DEF Prompt
  <1> HIDE DEF base
  <1>4. CASE reply.form # "verdict"
    BY <1>1, <1>2, <1>3, <1>4
  <1>5. CASE reply.form = "verdict" /\ kind \in ClaimKinds
    <2> DEFINE graded == GradeClaims(kind, reply.claims, ToSet(c.hits))
    <2>1. /\ graded.downgraded \subseteq Claim
          /\ \A k \in graded.kept :
               /\ k.label = Positive(kind) => k.quote \in ToSet(c.hits)
               /\ k.label = "contradicted" => k \in reply.claims
      BY <1>5, GradedClaims DEF ReplyRecord
    <2>2. last' = [base EXCEPT !.gradeable = TRUE, !.claims = graded.kept,
                               !.downgraded = graded.downgraded,
                               !.score = Ratio(graded.kept, Positive(kind))]
      BY <1>1, <1>2, <1>5 DEF ClaimVerdict
    <2> HIDE DEF graded
    <2>3. QED
      BY <1>2, <1>3, <1>5, <2>1, <2>2
  <1>6. CASE reply.form = "verdict" /\ kind \in BandKinds
    <2>1. kind \notin ClaimKinds
      BY <1>6 DEF ClaimKinds, BandKinds
    <2>2. last' = [base EXCEPT !.gradeable = reply.label # NoLabel
                                             /\ (reply.reason \/ kind = "abstention")]
      BY <1>1, <1>2, <1>6, <2>1 DEF BandVerdict
    <2>3. QED
      BY <1>2, <1>3, <1>6, <2>2
  <1>7. CASE reply.form = "verdict" /\ kind \notin ClaimKinds \cup BandKinds
    <2>1. kind = "context_precision"
      BY <1>7 DEF Judged, Kinds
    <2>2. last' = [base EXCEPT !.gradeable = ReadLines(reply.lines) # {},
                               !.passages = ReadLines(reply.lines),
                               !.score = Ratio(ReadLines(reply.lines), "relevant")]
      BY <1>1, <1>7 DEF PassageVerdict
    <2>3. ASSUME NEW p \in ReadLines(reply.lines)
          PROVE  prompt.seen[p.shownAt][1] = c.hits[p.rank][1] /\ p.label = reply.lines[p.shownAt]
      <3>1. PICK i \in DOMAIN reply.lines :
              p = [rank |-> RankOf(i, Len(reply.lines)), shownAt |-> i, label |-> reply.lines[i]]
        BY <2>3 DEF ReadLines
      <3>2. DOMAIN c.hits = 1 .. Len(c.hits) /\ DOMAIN reply.lines = 1 .. Len(reply.lines)
            /\ Len(c.hits) \in Nat /\ Len(reply.lines) \in Nat
        BY DEF CaseRecord, ReplyRecord
      <3>3. Len(reply.lines) = Len(c.hits)
        BY <1>7, <2>1, <3>2
      <3>4. Shown(c.hits)[i] = c.hits[RankOf(i, Len(c.hits))]
        BY <1>7, <2>1 DEF Shown, RankOf
      <3>5. QED
        BY <1>7, <2>1, <3>1, <3>3, <3>4
    <2>4. QED
      BY <1>2, <1>3, <1>7, <2>2, <2>3
  <1>8. QED
    BY <1>4, <1>5, <1>6, <1>7

LEMMA KeyShape ==
  ASSUME NEW kind \in Kinds, NEW c
  PROVE  /\ Key(kind, c)[1] = kind
         /\ kind = "context_precision" => Key(kind, c) = <<kind, IdsOf(Shown(c.hits))>>
         /\ \A ids : Key(kind, c) = <<"context_precision", ids>> =>
              kind = "context_precision" /\ ids = IdsOf(Shown(c.hits))
  <1>1. /\ kind = "context_precision" => Key(kind, c) = <<kind, IdsOf(Shown(c.hits))>>
        /\ Key(kind, c)[1] = kind
    BY DEF Key, Kinds, ClaimKinds, BandKinds
  <1>2. ASSUME NEW ids, Key(kind, c) = <<"context_precision", ids>>
        PROVE  kind = "context_precision" /\ ids = IdsOf(Shown(c.hits))
    <2>1. kind = "context_precision"
      BY <1>1, <1>2
    <2>2. <<kind, IdsOf(Shown(c.hits))>> = <<"context_precision", ids>>
      BY <1>1, <1>2, <2>1
    <2>3. QED
      BY <2>1, <2>2
  <1>3. QED
    BY <1>1, <1>2

LEMMA NoCaseShape == NoCase \in CaseRecord /\ NoCase.at = "idle" /\ NoCase.asked = FALSE
  <1>1. <<>> \in Seq(Passages \X (1 .. MaxVersions))
    OBVIOUS
  <1>2. QED
    BY <1>1 DEF NoCase, CaseRecord, Kinds, NoLabel

LEMMA ProceedKeepsScript ==
  ASSUME CasesFollowTheScript, NEW e \in Evaluators, NEW c \in CaseRecord, c.metric \in Judged,
         Proceed(e, c)
  PROVE  CasesFollowTheScript'
  <1> DEFINE then == IF c.at = c.metric THEN NoCase
                     ELSE [c EXCEPT !.at = c.metric, !.asked = FALSE]
  <1>1. case' = [case EXCEPT ![e] = then]
    BY DEF Proceed
  <1>2. /\ then \in CaseRecord
        /\ IF then.at = "idle" THEN then.asked = FALSE ELSE then.metric \in Judged
    <2>1. c.metric \in Kinds
      BY DEF Judged
    <2>2. CASE c.at = c.metric
      BY <2>2, NoCaseShape
    <2>3. CASE c.at # c.metric
      <3>1. [c EXCEPT !.at = c.metric, !.asked = FALSE] \in CaseRecord
            /\ [c EXCEPT !.at = c.metric, !.asked = FALSE].metric = c.metric
            /\ [c EXCEPT !.at = c.metric, !.asked = FALSE].asked = FALSE
        BY <2>1 DEF CaseRecord
      <3>2. QED
        BY <2>3, <3>1
    <2>4. QED
      BY <2>2, <2>3
  <1> HIDE DEF then
  <1>3. QED
    BY <1>1, <1>2 DEF CasesFollowTheScript

LEMMA SettleKeepsScript ==
  ASSUME CasesFollowTheScript, NEW e \in Evaluators, case[e].at # "idle",
         NEW reply \in ReplyRecord, NEW prompt, Settle(e, reply, prompt)
  PROVE  /\ CasesFollowTheScript'
         /\ \/ case[e].at = "answer" /\ last' = NoVerdict
            \/ case[e].at \in Judged /\ last' = Verdict(case[e].at, case[e], reply, prompt)
  <1>1. case[e] \in CaseRecord /\ case[e].metric \in Judged
    BY DEF CasesFollowTheScript
  <1>2. CASE case[e].at = "answer"
    <2>1. Proceed(e, [case[e] EXCEPT !.answer = reply.text]) /\ last' = NoVerdict
      BY <1>2 DEF Settle
    <2>2. /\ [case[e] EXCEPT !.answer = reply.text] \in CaseRecord
          /\ [case[e] EXCEPT !.answer = reply.text].metric = case[e].metric
      BY <1>1 DEF CaseRecord, ReplyRecord
    <2>3. CasesFollowTheScript'
      BY <1>1, <2>1, <2>2, ProceedKeepsScript
    <2>4. QED
      BY <1>2, <2>1, <2>3
  <1>3. CASE case[e].at # "answer"
    <2>1. /\ Proceed(e, case[e])
          /\ last' = Verdict(case[e].at, case[e], reply, prompt)
      BY <1>3 DEF Settle
    <2>2. case[e].at \in Judged
      BY <1>1, <1>3 DEF CaseRecord, Judged
    <2>3. CasesFollowTheScript'
      BY <1>1, <2>1, ProceedKeepsScript
    <2>4. QED
      BY <2>1, <2>2, <2>3
  <1>4. QED
    BY <1>2, <1>3

LEMMA StartKeepsJudgingInv ==
  ASSUME JudgingInv, NEW e \in Evaluators, NEW covered \in BOOLEAN, NEW cache \in CacheFlags,
         NEW ids \in Retrieved, NEW metric \in Metrics(covered),
         RunCase(e, covered, metric, cache, ids)
  PROVE  JudgingInv'
  <1> DEFINE retrieved == [i \in DOMAIN ids |-> <<ids[i], version>>]
             new == [NoCase EXCEPT !.at = "answer", !.metric = metric, !.covered = covered,
                                   !.cache = cache, !.hits = retrieved]
  <1>1. /\ cases < MaxCases /\ cases' = cases + 1 /\ version' = version /\ calls' = calls
        /\ last' = NoVerdict /\ case' = [case EXCEPT ![e] = new]
    BY DEF RunCase
  <1>2. version \in 1 .. MaxVersions /\ cases \in 0 .. MaxCases /\ MaxCases \in Nat
    BY JudgingAssumption DEF JudgingInv
  <1>3. retrieved \in Seq(Passages \X (1 .. MaxVersions))
    <2>1. ids \in Seq(Passages)
      BY JudgingAssumption
    <2>2. /\ Len(ids) \in Nat /\ DOMAIN ids = 1 .. Len(ids)
          /\ \A i \in 1 .. Len(ids) : ids[i] \in Passages
      BY <2>1
    <2>3. retrieved \in [1 .. Len(ids) -> Passages \X (1 .. MaxVersions)]
      BY <1>2, <2>2
    <2>4. QED
      BY <2>2, <2>3, FunctionIsSeq
  <1> HIDE DEF retrieved
  <1>4. metric \in Judged /\ metric \in Kinds /\ "answer" \in Kinds /\ cache \in BOOLEAN
    BY JudgingAssumption DEF Metrics, Judged, Kinds, BandKinds
  <1>5. new \in CaseRecord /\ new.metric = metric /\ new.at = "answer"
    BY <1>3, <1>4, NoCaseShape DEF CaseRecord
  <1> HIDE DEF new
  <1>6. CasesFollowTheScript'
    BY <1>1, <1>4, <1>5 DEF JudgingInv, CasesFollowTheScript
  <1>7. CacheIsFiled'
    BY <1>1 DEF JudgingInv, CacheIsFiled
  <1>8. QED
    BY <1>1, <1>2, <1>6, <1>7, NothingIsChecked DEF JudgingInv

LEMMA QuietKeepsJudgingInv ==
  ASSUME JudgingInv, Reindex \/ \E e \in Evaluators : Ask(e) \/ StopCase(e)
  PROVE  JudgingInv'
  <1>1. last' = NoVerdict /\ calls' = calls /\ cases' = cases
    BY DEF Reindex, Ask, StopCase
  <1>2. version' \in 1 .. MaxVersions
    BY JudgingAssumption DEF JudgingInv, Reindex, Ask, StopCase
  <1>3. CacheIsFiled'
    BY <1>1 DEF JudgingInv, CacheIsFiled
  <1>4. CasesFollowTheScript'
    <2>1. CASE case' = case
      BY <2>1 DEF JudgingInv, CasesFollowTheScript
    <2>2. ASSUME NEW e \in Evaluators, case[e].at # "idle",
                 case' = [case EXCEPT ![e].asked = TRUE]
          PROVE  CasesFollowTheScript'
      <3>1. case[e] \in CaseRecord
        BY DEF JudgingInv, CasesFollowTheScript
      <3>2. /\ [case[e] EXCEPT !.asked = TRUE] \in CaseRecord
            /\ [case[e] EXCEPT !.asked = TRUE].at = case[e].at
            /\ [case[e] EXCEPT !.asked = TRUE].metric = case[e].metric
        BY <3>1 DEF CaseRecord
      <3>3. case' = [case EXCEPT ![e] = [case[e] EXCEPT !.asked = TRUE]]
        BY <2>2
      <3>4. QED
        BY <2>2, <3>2, <3>3 DEF JudgingInv, CasesFollowTheScript
    <2>3. ASSUME NEW e \in Evaluators, case' = [case EXCEPT ![e] = NoCase]
          PROVE  CasesFollowTheScript'
      BY <2>3, NoCaseShape DEF JudgingInv, CasesFollowTheScript
    <2>4. QED
      BY <2>1, <2>2, <2>3 DEF Reindex, Ask, StopCase, NeedsCall, AtCall
  <1>5. QED
    BY <1>1, <1>2, <1>3, <1>4, NothingIsChecked DEF JudgingInv

LEMMA UndefinedKeepsJudgingInv ==
  ASSUME JudgingInv, NEW e \in Evaluators, Undefined(e)
  PROVE  JudgingInv'
  <1>1. /\ UNCHANGED <<version, calls, cases>> /\ Proceed(e, case[e])
        /\ case[e].at \in {"context_precision", "context_recall"}
    BY DEF Undefined
  <1>2. case[e] \in CaseRecord /\ case[e].metric \in Judged
    BY <1>1 DEF JudgingInv, CasesFollowTheScript
  <1>3. CasesFollowTheScript'
    BY <1>1, <1>2, ProceedKeepsScript DEF JudgingInv
  <1>4. CacheIsFiled'
    BY <1>1 DEF JudgingInv, CacheIsFiled
  <1>5. /\ last'.claims = {} /\ last'.downgraded = {} /\ last'.passages = {}
        /\ last'.cache = FALSE
    BY DEF Undefined, NoVerdict
  <1>6. VerdictsAreChecked' /\ last'.downgraded \subseteq Claim
    BY <1>5 DEF VerdictsAreChecked
  <1>7. QED
    BY <1>1, <1>3, <1>4, <1>6 DEF JudgingInv

(* A call whose reply is at hand, from the cache or the model. *)
LEMMA SettleKeepsJudgingInv ==
  ASSUME JudgingInv, NEW e \in Evaluators, case[e].at # "idle",
         NEW reply \in ReplyRecord, NEW prompt, Settle(e, reply, prompt),
         UNCHANGED <<version, cases>>, CacheIsFiled',
         case[e].at = "context_precision" /\ reply.form = "verdict" =>
           /\ DOMAIN reply.lines = DOMAIN case[e].hits
           /\ \A i \in DOMAIN case[e].hits : prompt.seen[i][1] = Shown(case[e].hits)[i][1],
         case[e].at # "answer" /\ case[e].cache /\ reply.form = "verdict" =>
           calls'[KeyNow(e)].reply = reply
  PROVE  JudgingInv'
  <1>1. /\ CasesFollowTheScript'
        /\ \/ case[e].at = "answer" /\ last' = NoVerdict
           \/ case[e].at \in Judged /\ last' = Verdict(case[e].at, case[e], reply, prompt)
    BY SettleKeepsScript DEF JudgingInv
  <1>2. last'.downgraded \subseteq Claim /\ VerdictsAreChecked'
    <2>1. CASE last' = NoVerdict
      BY <2>1, NothingIsChecked
    <2>2. CASE case[e].at \in Judged /\ last' = Verdict(case[e].at, case[e], reply, prompt)
      <3>1. case[e] \in CaseRecord
        BY DEF JudgingInv, CasesFollowTheScript
      <3>2. /\ last'.downgraded \subseteq Claim
            /\ \A k \in last'.claims :
                 /\ k.label = Positive(last'.kind) => k.quote \in ToSet(last'.hits)
                 /\ k.label = "contradicted" => k \in last'.reply.claims
            /\ \A p \in last'.passages :
                 /\ last'.prompt.seen[p.shownAt][1] = last'.hits[p.rank][1]
                 /\ p.label = last'.reply.lines[p.shownAt]
            /\ last'.gradeable => reply.form = "verdict"
            /\ last'.reply = reply /\ last'.cache = case[e].cache
            /\ last'.now.key = KeyNow(e)
        BY <2>2, <3>1, VerdictIsChecked DEF KeyNow
      <3>2a. case[e].at # "answer"
        BY <2>2 DEF Judged
      <3>3. last'.cache /\ last'.gradeable => calls'[last'.now.key].reply = last'.reply
        BY <3>2, <3>2a
      <3>4. VerdictsAreChecked'
        BY <3>2, <3>3 DEF VerdictsAreChecked
      <3>5. QED
        BY <3>2, <3>4
    <2>3. QED
      BY <1>1, <2>1, <2>2
  <1>3. QED
    BY <1>1, <1>2 DEF JudgingInv

LEMMA GetCallKeepsJudgingInv ==
  ASSUME JudgingInv, NEW e \in Evaluators, GetCall(e)
  PROVE  JudgingInv'
  <1> DEFINE entry == calls[KeyNow(e)]
  <1>1. /\ KeyNow(e) \in DOMAIN calls /\ case[e].at # "idle"
        /\ Settle(e, entry.reply, entry.prompt) /\ UNCHANGED <<version, calls, cases>>
    BY DEF GetCall, NeedsCall, AtCall
  <1>2. entry.reply \in ReplyRecord /\ FiledUnderItsPassages(KeyNow(e), entry)
    BY <1>1 DEF JudgingInv, CacheIsFiled
  <1>3. case[e] \in CaseRecord /\ case[e].at \in Kinds
    BY <1>1 DEF JudgingInv, CasesFollowTheScript, CaseRecord
  <1>4. ASSUME case[e].at = "context_precision", entry.reply.form = "verdict"
        PROVE  /\ DOMAIN entry.reply.lines = DOMAIN case[e].hits
               /\ \A i \in DOMAIN case[e].hits :
                    entry.prompt.seen[i][1] = Shown(case[e].hits)[i][1]
    <2>1. KeyNow(e) = <<"context_precision", IdsOf(Shown(case[e].hits))>>
      BY <1>3, <1>4, KeyShape DEF KeyNow
    <2>2. /\ IdsOf(Shown(case[e].hits)) = IdsOf(entry.prompt.seen)
          /\ DOMAIN entry.reply.lines = DOMAIN entry.prompt.seen
      BY <1>2, <1>4, <2>1 DEF FiledUnderItsPassages
    <2>3. DOMAIN Shown(case[e].hits) = DOMAIN case[e].hits
      BY DEF Shown
    <2> HIDE DEF entry
    <2>4. DOMAIN entry.prompt.seen = DOMAIN case[e].hits
      BY <2>2, <2>3 DEF IdsOf
    <2>5. ASSUME NEW i \in DOMAIN case[e].hits
          PROVE  entry.prompt.seen[i][1] = Shown(case[e].hits)[i][1]
      <3>1. /\ IdsOf(entry.prompt.seen)[i] = entry.prompt.seen[i][1]
            /\ IdsOf(Shown(case[e].hits))[i] = Shown(case[e].hits)[i][1]
        BY <2>3, <2>4 DEF IdsOf
      <3>2. QED
        BY <2>2, <3>1
    <2>6. QED
      BY <2>2, <2>4, <2>5
  <1>5. CacheIsFiled' /\ calls'[KeyNow(e)].reply = entry.reply
    BY <1>1 DEF JudgingInv, CacheIsFiled
  <1> HIDE DEF entry
  <1>6. QED
    BY <1>1, <1>2, <1>4, <1>5, SettleKeepsJudgingInv

LEMMA ReceiveKeepsJudgingInv ==
  ASSUME JudgingInv, NEW e \in Evaluators, case[e].at # "idle", NEW reply, Receive(e, reply)
  PROVE  JudgingInv'
  <1> DEFINE entry == [reply |-> reply, prompt |-> Prompt(case[e].at, case[e])]
  <1>1. /\ reply \in Replies(case[e].at, case[e]) /\ UNCHANGED <<version, cases>>
        /\ calls' = IF case[e].cache /\ Stored(case[e].at, reply)
                      THEN [k \in DOMAIN calls \cup {KeyNow(e)} |->
                              IF k = KeyNow(e) THEN entry ELSE calls[k]]
                      ELSE calls
        /\ Settle(e, reply, entry.prompt)
    BY DEF Receive
  <1>2. entry.reply = reply /\ entry.prompt = Prompt(case[e].at, case[e])
    OBVIOUS
  <1> HIDE DEF entry
  <1>3. case[e] \in CaseRecord /\ case[e].at \in Kinds
    BY DEF JudgingInv, CasesFollowTheScript, CaseRecord
  <1>4. /\ reply \in ReplyRecord
        /\ case[e].at = "context_precision" /\ reply.form = "verdict" =>
             DOMAIN reply.lines = DOMAIN case[e].hits
    BY <1>1, <1>3, ReplyShape
  <1>5. case[e].at = "context_precision" => entry.prompt.seen = Shown(case[e].hits)
    BY <1>2 DEF Prompt, BandKinds
  <1>6. DOMAIN Shown(case[e].hits) = DOMAIN case[e].hits
    BY DEF Shown
  <1>7. FiledUnderItsPassages(KeyNow(e), entry)
    BY <1>2, <1>3, <1>4, <1>5, <1>6, KeyShape DEF FiledUnderItsPassages, KeyNow
  <1>8. KeyNow(e)[1] \in Kinds
    BY <1>3, KeyShape DEF KeyNow
  <1>9. CacheIsFiled'
    <2>1. CASE calls' = calls
      BY <2>1 DEF JudgingInv, CacheIsFiled
    <2>2. CASE calls' = [k \in DOMAIN calls \cup {KeyNow(e)} |->
                           IF k = KeyNow(e) THEN entry ELSE calls[k]]
      <3>1. ASSUME NEW k \in DOMAIN calls'
            PROVE  \/ k = KeyNow(e) /\ calls'[k] = entry
                   \/ k \in DOMAIN calls /\ calls'[k] = calls[k]
        BY <2>2
      <3>2. QED
        BY <1>2, <1>4, <1>7, <1>8, <3>1 DEF JudgingInv, CacheIsFiled
    <2>3. QED
      BY <1>1, <2>1, <2>2
  <1>10. case[e].at # "answer" /\ case[e].cache /\ reply.form = "verdict" =>
           calls'[KeyNow(e)].reply = reply
    BY <1>1, <1>2 DEF Stored
  <1>11. QED
    BY <1>1, <1>4, <1>5, <1>9, <1>10, SettleKeepsJudgingInv

LEMMA JudgingStepKeepsInv == JudgingInv /\ [JudgingNext]_judgingVars => JudgingInv'
  <1> SUFFICES ASSUME JudgingInv, [JudgingNext]_judgingVars PROVE JudgingInv'
    OBVIOUS
  <1>1. ASSUME NEW e \in Evaluators, NEW reply, Receive(e, reply)
        PROVE  case[e].at # "idle"
    BY <1>1 DEF Receive, JudgingInv, CasesFollowTheScript
  <1>2. CASE JudgingNext
    BY <1>1, <1>2, StartKeepsJudgingInv, QuietKeepsJudgingInv, UndefinedKeepsJudgingInv,
       GetCallKeepsJudgingInv, ReceiveKeepsJudgingInv DEF JudgingNext
  <1>3. CASE UNCHANGED judgingVars
    BY <1>3 DEF judgingVars, JudgingInv, CasesFollowTheScript, CacheIsFiled, VerdictsAreChecked
  <1>4. QED
    BY <1>2, <1>3

LEMMA JudgingInvShows == JudgingInv => JudgingTypeOK /\ VerdictsAreChecked
  <1> SUFFICES ASSUME JudgingInv PROVE JudgingTypeOK /\ VerdictsAreChecked
    OBVIOUS
  <1>1. \A e \in Evaluators : /\ case[e].at \in Kinds \cup {"idle"}
                              /\ case[e].hits \in Seq(Passages \X (1 .. MaxVersions))
    BY DEF JudgingInv, CasesFollowTheScript, CaseRecord
  <1>2. \A k \in DOMAIN calls : k[1] \in Kinds /\ calls[k].reply.text \in AnswerTexts \cup {NoLabel}
    BY DEF JudgingInv, CacheIsFiled, ReplyRecord
  <1>3. QED
    BY <1>1, <1>2 DEF JudgingInv, JudgingTypeOK
-----------------------------------------------------------------------------
(* A behaviour follows one part and leaves the others where they began.    *)
AnswersInv == CorpusInv /\ PlanInv /\ JudgingInv

LEMMA AnswersStart == Init => AnswersInv
  BY CorpusStart, PlanStart, JudgingStart DEF Init, AnswersInv

LEMMA AnswersPartsStep ==
  [Next]_vars =>
    [CorpusNext]_corpusVars /\ [PlannerNext]_plannerVars /\ [JudgingNext]_judgingVars
  BY DEF Next, vars

LEMMA AnswersStep == AnswersInv /\ [Next]_vars => AnswersInv'
  BY AnswersPartsStep, CorpusStepKeepsInv, PlanStepKeepsInv, JudgingStepKeepsInv DEF AnswersInv

(* The inductive invariant of the corpus, the planner and the evaluation. *)
THEOREM AnswersInvariant == Spec => []AnswersInv
  BY AnswersStart, AnswersStep, PTL DEF Spec

(* Their variables keep their types, whatever the number of components,    *)
(* readers and evaluators.                                                 *)
THEOREM AnswersTypes == Spec => [](CorpusTypeOK /\ PlannerTypeOK /\ JudgingTypeOK)
  <1>1. AnswersInv => CorpusTypeOK /\ PlannerTypeOK /\ JudgingTypeOK
    BY CorpusInvShows, PlanInvShows, JudgingInvShows DEF AnswersInv
  <1>2. QED
    BY <1>1, AnswersInvariant, PTL

(* A summary no run cut short is of one version of the source, an index    *)
(* nobody built twice at once is of one build, and a private decision is   *)
(* shown to its owner alone (summarize_node, build_index, search_corpus).  *)
THEOREM AnswersAreCoherent == Spec => []CorpusIsCoherent
  <1>1. AnswersInv => CorpusIsCoherent
    BY CorpusInvShows DEF AnswersInv
  <1>2. QED
    BY <1>1, AnswersInvariant, PTL

(* Whatever the graph, the number of hops and what other processes do to   *)
(* the file meanwhile, a plan holds nothing the seed does not reach within *)
(* the cap and, on a file left alone, nothing less; and the executor is    *)
(* not sent where decisions on file contradict (run_planner).              *)
THEOREM PlansAreSound == Spec => []PlanIsSound
  <1>1. AnswersInv => PlanIsSound
    BY PlanInvShows DEF AnswersInv
  <1>2. QED
    BY <1>1, AnswersInvariant, PTL

(* No verdict credits a claim that the passages of its case do not back or *)
(* a passage with another's label, whatever came out of the cache          *)
(* (_grade_claims, context_precision, _ask).                               *)
THEOREM VerdictsHoldUp == Spec => []VerdictsAreChecked
  <1>1. AnswersInv => VerdictsAreChecked
    BY JudgingInvShows DEF AnswersInv
  <1>2. QED
    BY <1>1, AnswersInvariant, PTL
=============================================================================
