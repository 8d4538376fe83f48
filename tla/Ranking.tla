------------------------------- MODULE Ranking -------------------------------
(***************************************************************************)
(* Hybrid search: a dense and a lexical ranking are fused by position, a   *)
(* model may re-rank the head of the list, its verdicts are kept, and the  *)
(* metrics read the order (retrieval/search.py, fuse.py, rerank.py,        *)
(* cache.py, eval/retrieval_metrics.py).                                   *)
(***************************************************************************)
EXTENDS Integers, SequencesExt, FiniteSetsExt

CONSTANTS
  DocIds,          \* numbers, in the order their texts sort
  Depth,           \* candidates: what each arm returns, and what is re-ranked
  Cuts,            \* values of k
  ArmWeights,      \* weights of the two arms
  Given,           \* bands the re-ranker gives here
  RrfUnit,         \* a number that 60 + position divides for every position
  MaxQueries       \* bound: searches

Bands == {"answers", "related", "unrelated"}

ASSUME RankingAssumption ==
  /\ DocIds \subseteq Nat /\ IsFiniteSet(DocIds)
  /\ Depth \in Nat \ {0} /\ Cuts \subseteq Nat
  /\ ArmWeights \subseteq Nat \X Nat
  /\ Given \subseteq Bands
  /\ RrfUnit \in Nat \ {0} /\ \A p \in 1 .. Depth : RrfUnit % (60 + p) = 0
  /\ MaxQueries \in Nat

VARIABLES
  search,          \* the search in progress, as far as it got
  reranks,         \* cached verdicts by key, with what was said of whom (history)
  queries          \* searches so far (history)

rankingVars == <<search, reranks, queries>>

Rankings == {r \in SeqOf(DocIds, Depth) : IsInjective(r)}
NoVerdicts == [i \in {} |-> "none"]

NoSearch ==
  [at |-> "idle", k |-> 1, rerank |-> FALSE, weights |-> <<1, 1>>, dense |-> <<>>,
   lexical |-> <<>>, fused |-> <<>>, hits |-> <<>>, said |-> NoVerdicts]

Verdicts == Bands \cup {"none"}
Hit == [chunk : DocIds, rank : Nat \ {0}]
Search ==
  [at : {"idle", "dense", "lexical", "rerank", "done", "index_empty"}, k : Nat, rerank : BOOLEAN,
   weights : Nat \X Nat, dense : Rankings, lexical : Rankings, fused : Seq(DocIds),
   hits : Seq(Hit), said : UNION {[ids -> Verdicts] : ids \in SUBSET DocIds}]

RankingTypeOK ==
  /\ search \in Search
  /\ \A key \in DOMAIN reranks : reranks[key].verdicts \in Seq(Verdicts)
  /\ queries \in 0 .. MaxQueries

RankingInit ==
  /\ search = NoSearch
  /\ reranks = [key \in {} |-> NoVerdicts]
  /\ queries = 0

-----------------------------------------------------------------------------
(* Fusion by position. *)

(* Exact, for the positions an arm has. *)
Share(position) == RrfUnit \div (60 + position)

(* Slip: absent from an arm is last in it. *)
LastIfAbsent(ranking, weight, id) ==
  IF weight = 0 THEN 0
  ELSE IF id \in ToSet(ranking) THEN Share(CHOOSE i \in DOMAIN ranking : ranking[i] = id)
  ELSE IF ranking = <<>> THEN 0
  ELSE -Share(1)

(* An arm that did not return a chunk gives it nothing. *)
ArmScore(ranking, weight, id) ==
  IF weight # 0 /\ id \in ToSet(ranking)
    THEN weight * Share(CHOOSE i \in DOMAIN ranking : ranking[i] = id)
    ELSE 0

(* The members of a set in a sequence, each before those it is above. *)
Ordered(S, above) ==
  CHOOSE s \in [1 .. Cardinality(S) -> S] :
    \A i, j \in DOMAIN s : i < j => <<s[i], s[j]>> \in above

(* rrf: the higher sum first, then the smaller id. *)
Fuse(dense, lexical, weights) ==
  LET score == [id \in ToSet(dense) \cup ToSet(lexical) |->
                  ArmScore(dense, weights[1], id) + ArmScore(lexical, weights[2], id)]
      present == {id \in DOMAIN score : score[id] # 0}
  IN  Ordered(present, {p \in present \X present :
                          \/ score[p[1]] > score[p[2]]
                          \/ score[p[1]] = score[p[2]] /\ p[1] < p[2]})

Least(m, n) == IF m < n THEN m ELSE n
Upto(seq, n) == [i \in 1 .. Least(n, Len(seq)) |-> seq[i]]

(* Re-ranking. *)

BandScore(band) == CASE band = "answers" -> 2 [] band = "related" -> 1 [] OTHER -> 0

(* Across bands by verdict, within a band in fused order. *)
ByVerdict(places, verdicts) ==
  Ordered(places, {p \in places \X places :
                     \/ BandScore(verdicts[p[1]]) > BandScore(verdicts[p[2]])
                     \/ BandScore(verdicts[p[1]]) = BandScore(verdicts[p[2]]) /\ p[1] < p[2]})

(* Slip: a candidate without a verdict disappears. *)
DropUnjudged(pool, verdicts) ==
  LET order == ByVerdict({i \in DOMAIN pool : verdicts[i] # "none"}, verdicts)
  IN  [n \in DOMAIN order |-> pool[order[n]]]

(* A candidate with no verdict is in the lowest band. *)
Reorder(pool, verdicts) ==
  LET order == ByVerdict(DOMAIN pool, verdicts)
  IN  [n \in DOMAIN order |-> pool[order[n]]]

(* Slip: the candidates are hashed in no order. *)
KeyOfSet(pool) ==
  Ordered(ToSet(pool), {p \in ToSet(pool) \X ToSet(pool) : p[1] < p[2]})

RerankKey(pool) == pool

Hits(ids, k) == [i \in DOMAIN Upto(ids, k) |-> [chunk |-> ids[i], rank |-> i]]

-----------------------------------------------------------------------------
(* One search. *)

(* No visible chunk of the kind asked for: nothing, or an empty index. *)
Start(k, rerank, weights, visible) ==
  /\ search.at \in {"idle", "done", "index_empty"}
  /\ queries < MaxQueries
  /\ queries' = queries + 1
  /\ search' = [NoSearch EXCEPT !.at = visible, !.k = k, !.rerank = rerank, !.weights = weights]
  /\ UNCHANGED reranks

(* The nearest are as many as there are, or the embeddings endpoint is down *)
(* and the arm is empty; the lexical arm leaves out what matches no word.   *)
DenseArm(ranking) ==
  /\ search.at = "dense"
  /\ ranking \in Rankings
  /\ ranking # <<>> => Len(ranking) = Least(Cardinality(DocIds), Depth)
  /\ search' = [search EXCEPT !.at = "lexical", !.dense = ranking]
  /\ UNCHANGED <<reranks, queries>>

LexicalArm(ranking) ==
  /\ search.at = "lexical"
  /\ ranking \in Rankings
  /\ LET fused == Fuse(search.dense, ranking, search.weights)
     IN  search' = [search EXCEPT !.lexical = ranking, !.fused = fused,
                      !.at = IF search.rerank /\ fused # <<>> THEN "rerank" ELSE "done",
                      !.hits = IF search.rerank THEN <<>> ELSE Hits(fused, search.k)]
  /\ UNCHANGED <<reranks, queries>>

Pool == Upto(search.fused, Depth)

SaidOf(pool, verdicts) ==
  [id \in ToSet(pool) |-> verdicts[CHOOSE i \in DOMAIN pool : pool[i] = id]]

Ranked(entry) ==
  search' = [search EXCEPT !.at = "done", !.said = entry.said,
               !.hits = Hits(Reorder(Pool, entry.verdicts), search.k)]

GetRerank ==
  /\ search.at = "rerank"
  /\ RerankKey(Pool) \in DOMAIN reranks
  /\ Ranked(reranks[RerankKey(Pool)])
  /\ UNCHANGED <<reranks, queries>>

(* The model's bands, some lines possibly missing, are stored and used. *)
CallReranker(verdicts) ==
  /\ search.at = "rerank"
  /\ RerankKey(Pool) \notin DOMAIN reranks
  /\ verdicts \in [DOMAIN Pool -> Given \cup {"none"}]
  /\ LET entry == [verdicts |-> verdicts, said |-> SaidOf(Pool, verdicts)]
     IN  /\ reranks' = [key \in DOMAIN reranks \cup {RerankKey(Pool)} |->
                          IF key = RerankKey(Pool) THEN entry ELSE reranks[key]]
         /\ Ranked(entry)
  /\ UNCHANGED queries

(* The cache or the call fails: the fused order stands. *)
RerankFails ==
  /\ search.at = "rerank"
  /\ search' = [search EXCEPT !.at = "done", !.hits = Hits(search.fused, search.k)]
  /\ UNCHANGED <<reranks, queries>>

RankingNext ==
  \/ \E k \in Cuts, rerank \in BOOLEAN, w \in ArmWeights,
        visible \in {"dense", "done", "index_empty"} : Start(k, rerank, w, visible)
  \/ \E r \in Rankings : DenseArm(r) \/ LexicalArm(r)
  \/ GetRerank \/ RerankFails
  \/ search.at = "rerank" /\ \E v \in [DOMAIN Pool -> Given \cup {"none"}] : CallReranker(v)

RankingSpec == RankingInit /\ [][RankingNext]_rankingVars

-----------------------------------------------------------------------------
(* What reads the hits. *)

(* pack_for_llm: the strongest first and last. *)
PackForLlm(hits) ==
  LET half == (Len(hits) + 1) \div 2
  IN  IF Len(hits) < 3 THEN hits
      ELSE [n \in DOMAIN hits |-> IF n <= half THEN hits[2 * n - 1]
                                 ELSE hits[2 * (Len(hits) - n + 1)]]

(* Slip: the order of the list is taken for the ranking. *)
ListOrder(hits) == [i \in DOMAIN hits |-> hits[i].chunk]

RankedIds(hits) ==
  LET places == DOMAIN hits
      order == Ordered(places, {p \in places \X places :
                 \/ hits[p[1]].rank < hits[p[2]].rank
                 \/ hits[p[1]].rank = hits[p[2]].rank /\ hits[p[1]].chunk < hits[p[2]].chunk})
  IN  [n \in DOMAIN order |-> hits[order[n]].chunk]

(* The five metrics at k, as what each is computed from: is there a hit,    *)
(* how many of how many returned, how many of the golden, the first one's   *)
(* position, all their positions; with no golden chunk none is defined.     *)
MetricsForCase(ranked, golden, k) ==
  LET top == Upto(ranked, k)
      found == {i \in DOMAIN top : top[i] \in golden}
  IN  IF golden = {} THEN <<>>
      ELSE <<found # {}, <<Cardinality(found), Len(top)>>,
             <<Cardinality(found), Cardinality(golden)>>,
             IF found = {} THEN 0 ELSE CHOOSE i \in found : \A j \in found : i <= j, found>>

(* The rankings of the arms that count. *)
Arms ==
  {arm[1] : arm \in {a \in {<<search.dense, search.weights[1]>>,
                           <<search.lexical, search.weights[2]>>} : a[2] # 0}}

(* a is above b in every arm that counts and has b, and b in none above a.  *)
Dominates(a, b) ==
  \A arm \in Arms : b \in ToSet(arm) =>
    \E i, j \in DOMAIN arm : i < j /\ arm[i] = a /\ arm[j] = b

Band(id) == IF id \in DOMAIN search.said THEN BandScore(search.said[id]) ELSE 0

(* A finished search returns each chunk once and as many as it can, never   *)
(* one before another that a better band or, in the same band, both arms    *)
(* put above it, whichever was left out included; a failed re-ranking, a    *)
(* missing line or a dead arm loses nothing; and packing for the model's    *)
(* context moves no metric (_search_with, rrf, rerank, pack_for_llm,        *)
(* ranked_ids_from_hits).                                                   *)
SearchIsFaithful ==
  search.at = "done" =>
    LET hits == search.hits
        found == [i \in DOMAIN hits |-> hits[i].chunk]
        packed == RankedIds(PackForLlm(hits))
        place(id) == IF \E i \in DOMAIN hits : hits[i].chunk = id
                       THEN CHOOSE i \in DOMAIN hits : hits[i].chunk = id
                       ELSE Len(hits) + 1
        counted == UNION {ToSet(arm) : arm \in Arms}
        head == IF search.said = NoVerdicts THEN Cardinality(counted) ELSE Depth
    IN  /\ \A i, j \in DOMAIN hits : i # j => hits[i].chunk # hits[j].chunk
        /\ Len(hits) = Least(Least(Cardinality(counted), head), search.k)
        /\ \A a \in counted, i \in DOMAIN hits :
             LET b == hits[i].chunk
             IN  a # b /\ Dominates(a, b) /\ Band(a) >= Band(b) => place(a) < i
        /\ \A i, j \in DOMAIN hits : Band(hits[i].chunk) > Band(hits[j].chunk) => i < j
        /\ \A golden \in SUBSET DocIds, k \in Cuts :
             MetricsForCase(packed, golden, k) = MetricsForCase(found, golden, k)
=============================================================================
