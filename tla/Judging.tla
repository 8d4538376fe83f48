------------------------------- MODULE Judging -------------------------------
(***************************************************************************)
(* The judged half of the evaluation: retrieve, answer, and ask a model    *)
(* about the answer, one cached call after another (eval/run_gen_eval.py,  *)
(* eval/answer.py, eval/generation_metrics.py, eval/cache.py).  The model  *)
(* proposes labels; the code decides what they are worth.  Runs share the  *)
(* cache, and the corpus is re-indexed between and during them.            *)
(***************************************************************************)
EXTENDS Naturals, SequencesExt, FiniteSetsExt

CONSTANTS
  Passages,        \* chunk ids: they say where a text is from, not what it says
  Retrieved,       \* what a search may return, as ids in retriever order
  Shuffle,         \* _shuffled_order of the question, for each number of passages
  AnswerTexts,     \* what the answering model may write
  ClaimLists,      \* sets of claims the judge may reply with
  PassageLabels,   \* labels it may give a passage
  Evaluators,      \* processes that run the evaluation
  CacheFlags,      \* values of use_cache
  MaxCases,        \* bound: cases they start
  MaxVersions      \* bound: versions of the corpus

NoQuote == <<>>
NoLabel == "none"

(* A claim: whether it has a text, its label, and where its quote is from.  *)
Claim ==
  [named : BOOLEAN, label : {"supported", "contradicted", "unsupported", "present", "absent"},
   quote : (Passages \X (1 .. MaxVersions)) \cup {NoQuote}]

ASSUME JudgingAssumption ==
  /\ \A ids \in Retrieved : ids \in Seq(Passages) /\ Cardinality(ToSet(ids)) = Len(ids)
  /\ \A ids \in Retrieved :
       /\ Shuffle[Len(ids)] \in [DOMAIN ids -> DOMAIN ids]
       /\ \A i, j \in DOMAIN ids : i # j => Shuffle[Len(ids)][i] # Shuffle[Len(ids)][j]
  /\ ClaimLists \subseteq SUBSET Claim
  /\ PassageLabels \subseteq {"relevant", "irrelevant"}
  /\ CacheFlags \subseteq BOOLEAN
  /\ MaxCases \in Nat /\ MaxVersions \in Nat \ {0}

VARIABLES
  version,         \* of the passages' texts
  calls,           \* the cache: the reply stored under a key, and its prompt (history)
  case,            \* each evaluator's case: the call it is at, the metric it is for
  last,            \* the verdict this step reached, if it did (history)
  contested,       \* keys two evaluators were asking for at once (history)
  cases            \* cases so far (history)

judgingVars == <<version, calls, case, last, contested, cases>>

NoReply ==
  [form |-> "none", text |-> NoLabel, claims |-> {}, label |-> NoLabel, reason |-> FALSE,
   lines |-> <<>>]
NoPrompt == [key |-> <<>>, seen |-> <<>>]
NoCase ==
  [at |-> "idle", metric |-> "none", asked |-> FALSE, covered |-> FALSE, cache |-> FALSE,
   hits |-> <<>>, answer |-> NoLabel]
NoVerdict ==
  [kind |-> "none", claims |-> {}, downgraded |-> {}, passages |-> {}, score |-> <<>>,
   gradeable |-> FALSE, reply |-> NoReply, prompt |-> NoPrompt, now |-> NoPrompt,
   cache |-> FALSE, hits |-> <<>>]

ClaimKinds == {"faithfulness", "context_recall"}
BandKinds == {"answer_relevance", "abstention"}
Kinds == ClaimKinds \cup BandKinds \cup {"answer", "context_precision"}

JudgingTypeOK ==
  /\ version \in 1 .. MaxVersions
  /\ \A k \in DOMAIN calls : k[1] \in Kinds /\ calls[k].reply.text \in AnswerTexts \cup {NoLabel}
  /\ \A e \in Evaluators :
       /\ case[e].at \in Kinds \cup {"idle"}
       /\ \A i \in DOMAIN case[e].hits : case[e].hits[i] \in Passages \X (1 .. MaxVersions)
  /\ last.downgraded \subseteq Claim
  /\ cases \in 0 .. MaxCases

JudgingInit ==
  /\ version = 1
  /\ calls = [k \in {} |-> NoReply]
  /\ case = [e \in Evaluators |-> NoCase]
  /\ last = NoVerdict
  /\ contested = {}
  /\ cases = 0

-----------------------------------------------------------------------------
(* What is asked, and under which key the reply is kept. *)

IdsOf(hits) == [i \in DOMAIN hits |-> hits[i][1]]

(* The passages in the order the judge of context_precision sees them. *)
Shown(hits) == [i \in DOMAIN hits |-> hits[Shuffle[Len(hits)][i]]]

Key(kind, c) ==
  CASE kind = "answer" -> <<kind, c.covered, IdsOf(c.hits)>>
    [] kind = "faithfulness" -> <<kind, c.answer, IdsOf(c.hits)>>
    [] kind \in BandKinds -> <<kind, c.covered, c.answer>>
    [] kind = "context_precision" -> <<kind, IdsOf(Shown(c.hits))>>
    [] kind = "context_recall" -> <<kind, IdsOf(c.hits)>>

Prompt(kind, c) ==
  [key |-> Key(kind, c),
   seen |-> IF kind \in BandKinds THEN <<>>
            ELSE IF kind = "context_precision" THEN Shown(c.hits) ELSE c.hits]

(* What may come back: nothing finished, text that does not parse, or text  *)
(* that does; which band a label names does not matter here.                *)
Unfinished == {[NoReply EXCEPT !.form = f] : f \in {"truncated", "garbled"}}
Written(form, text) == [NoReply EXCEPT !.form = form, !.text = text]
Answers == {Written(f, t) : f \in {"verdict", "truncated"}, t \in AnswerTexts}
ClaimReplies == {[NoReply EXCEPT !.form = "verdict", !.claims = list] : list \in ClaimLists}
Banded(band, rationale) ==
  [NoReply EXCEPT !.form = "verdict", !.label = band, !.reason = rationale]
BandReplies == {Banded(b, r) : b \in {"band", NoLabel}, r \in BOOLEAN}
PassageReplies(c) ==
  {[NoReply EXCEPT !.form = "verdict", !.lines = l] :
     l \in [DOMAIN c.hits -> PassageLabels \cup {NoLabel}]}

Replies(kind, c) ==
  Unfinished \cup
  CASE kind = "answer" -> Answers
    [] kind \in ClaimKinds -> ClaimReplies
    [] kind \in BandKinds -> BandReplies
    [] kind = "context_precision" -> PassageReplies(c)

(* An unfinished verdict is not stored; an unfinished answer is. *)
Stored(kind, reply) ==
  IF kind = "answer" THEN reply.text # NoLabel ELSE reply.form \in {"verdict", "garbled"}

-----------------------------------------------------------------------------
(* What a reply is worth. *)

Positive(kind) == IF kind = "faithfulness" THEN "supported" ELSE "present"
Negative(kind) == IF kind = "faithfulness" THEN "unsupported" ELSE "absent"
Vocabulary(kind) ==
  {Positive(kind), Negative(kind)} \cup (IF kind = "faithfulness" THEN {"contradicted"} ELSE {})

(* Slip: the judge is believed about its quotes. *)
BelieveQuotes(kind, claims, haystack) ==
  [kept |-> {c \in claims : c.named /\ c.label \in Vocabulary(kind)}, downgraded |-> {}]

(* A positive label needs a quote that is in the passages. *)
GradeClaims(kind, claims, haystack) ==
  LET known == {c \in claims : c.named /\ c.label \in Vocabulary(kind)}
      unbacked == {c \in known : c.label = Positive(kind) /\ c.quote \notin haystack}
  IN  [kept |-> (known \ unbacked) \cup {[c EXCEPT !.label = Negative(kind)] : c \in unbacked},
       downgraded |-> unbacked]

(* Slip: the shuffle is not undone. *)
RankAsShown(position, n) == position

RankOf(position, n) == Shuffle[n][position]

(* A passage the judge said nothing of is left out. *)
ReadLines(lines) ==
  {[rank |-> RankOf(i, Len(lines)), shownAt |-> i, label |-> lines[i]] :
     i \in {i \in DOMAIN lines : lines[i] # NoLabel}}

(* The mean of what was kept, as a fraction; of nothing it is undefined. *)
Ratio(kept, good) ==
  IF kept = {} THEN <<>> ELSE <<Cardinality({k \in kept : k.label = good}), Cardinality(kept)>>

(* faithfulness, context_recall *)
ClaimVerdict(base, claims) ==
  LET graded == GradeClaims(base.kind, claims, ToSet(base.hits))
  IN  [base EXCEPT !.gradeable = TRUE, !.claims = graded.kept, !.downgraded = graded.downgraded,
                   !.score = Ratio(graded.kept, Positive(base.kind))]

(* answer_relevance discards a band without a rationale, abstention does not*)
BandVerdict(base, band, rationale) ==
  [base EXCEPT !.gradeable = band # NoLabel /\ (rationale \/ base.kind = "abstention")]

(* context_precision *)
PassageVerdict(base, lines) ==
  [base EXCEPT !.gradeable = ReadLines(lines) # {}, !.passages = ReadLines(lines),
               !.score = Ratio(ReadLines(lines), "relevant")]

Verdict(kind, c, reply, prompt) ==
  LET base == [NoVerdict EXCEPT !.kind = kind, !.reply = reply, !.prompt = prompt,
                 !.now = Prompt(kind, c), !.cache = c.cache, !.hits = c.hits]
  IN  IF reply.form # "verdict" THEN base
      ELSE CASE kind \in ClaimKinds -> ClaimVerdict(base, reply.claims)
             [] kind \in BandKinds -> BandVerdict(base, reply.label, reply.reason)
             [] kind = "context_precision" -> PassageVerdict(base, reply.lines)

-----------------------------------------------------------------------------
(* One case after another. *)

(* score_case: abstention alone for a question the corpus does not cover.   *)
Metrics(covered) == IF covered THEN Kinds \ {"answer", "abstention"} ELSE {"abstention"}

(* The search's hits are taken by rank, with the text they have now.  The   *)
(* metrics of a case share no key, so we follow its answer and one of them. *)
RunCase(e, covered, metric, cache, ids) ==
  /\ case[e].at = "idle"
  /\ cases < MaxCases
  /\ cases' = cases + 1
  /\ case' = [case EXCEPT ![e] =
               [NoCase EXCEPT !.at = "answer", !.metric = metric, !.covered = covered,
                  !.cache = cache, !.hits = [i \in DOMAIN ids |-> <<ids[i], version>>]]]
  /\ last' = NoVerdict
  /\ UNCHANGED <<version, calls, contested>>

Proceed(e, c) ==
  case' = [case EXCEPT ![e] =
             IF c.at = c.metric THEN NoCase ELSE [c EXCEPT !.at = c.metric, !.asked = FALSE]]

Settle(e, reply, prompt) ==
  LET c == case[e]
  IN  IF c.at = "answer"
        THEN Proceed(e, [c EXCEPT !.answer = reply.text]) /\ last' = NoVerdict
        ELSE Proceed(e, c) /\ last' = Verdict(c.at, c, reply, prompt)

AtCall(e) == case[e].at # "idle" /\ ~case[e].asked

(* Nothing retrieved: no passage to judge, undefined; no claim covered, 0.  *)
Undefined(e) ==
  /\ AtCall(e)
  /\ case[e].at \in {"context_precision", "context_recall"}
  /\ case[e].hits = <<>>
  /\ last' = [NoVerdict EXCEPT !.kind = case[e].at, !.gradeable = TRUE,
                !.score = IF case[e].at = "context_recall" THEN <<0, 1>> ELSE <<>>]
  /\ Proceed(e, case[e])
  /\ UNCHANGED <<version, calls, contested, cases>>

NeedsCall(e) ==
  AtCall(e) /\ (case[e].at \in {"context_precision", "context_recall"} => case[e].hits # <<>>)

KeyNow(e) == Key(case[e].at, case[e])

GetCall(e) ==
  /\ NeedsCall(e)
  /\ case[e].cache
  /\ KeyNow(e) \in DOMAIN calls
  /\ Settle(e, calls[KeyNow(e)].reply, calls[KeyNow(e)].prompt)
  /\ UNCHANGED <<version, calls, contested, cases>>

Ask(e) ==
  /\ NeedsCall(e)
  /\ case[e].cache => KeyNow(e) \notin DOMAIN calls
  /\ case' = [case EXCEPT ![e].asked = TRUE]
  /\ contested' = contested \cup
       ({KeyNow(e)} \cap {KeyNow(f) : f \in {f \in Evaluators : case[f].asked}})
  /\ last' = NoVerdict
  /\ UNCHANGED <<version, calls, cases>>

(* The reply, stored unless the cache is off; a later one replaces it. *)
Receive(e, reply) ==
  /\ case[e].asked
  /\ reply \in Replies(case[e].at, case[e])
  /\ LET entry == [reply |-> reply, prompt |-> Prompt(case[e].at, case[e])]
     IN  /\ calls' = IF case[e].cache /\ Stored(case[e].at, reply)
                       THEN [k \in DOMAIN calls \cup {KeyNow(e)} |->
                               IF k = KeyNow(e) THEN entry ELSE calls[k]]
                       ELSE calls
         /\ Settle(e, reply, entry.prompt)
  /\ UNCHANGED <<version, contested, cases>>

(* The call raises, or the process is stopped. *)
StopCase(e) ==
  /\ case[e].at # "idle"
  /\ case' = [case EXCEPT ![e] = NoCase]
  /\ last' = NoVerdict
  /\ UNCHANGED <<version, calls, contested, cases>>

(* The sources are summarised again and indexed: a chunk keeps its id. *)
Reindex ==
  /\ version < MaxVersions
  /\ version' = version + 1
  /\ last' = NoVerdict
  /\ UNCHANGED <<calls, case, contested, cases>>

JudgingNext ==
  \/ Reindex
  \/ \E e \in Evaluators :
       \/ \E covered \in BOOLEAN, cache \in CacheFlags, ids \in Retrieved :
            \E metric \in Metrics(covered) : RunCase(e, covered, metric, cache, ids)
       \/ Undefined(e) \/ GetCall(e) \/ Ask(e) \/ StopCase(e)
       \/ case[e].asked /\ \E reply \in Replies(case[e].at, case[e]) : Receive(e, reply)

JudgingSpec == JudgingInit /\ [][JudgingNext]_judgingVars

-----------------------------------------------------------------------------
(* Whoever produced a reply and whenever: no claim counts as supported by   *)
(* the passages of this case without a quote from them, none as             *)
(* contradicted that the judge did not call so, and a passage's label is    *)
(* what the judge said of that passage; and what the cache holds is what    *)
(* was scored, unless two evaluators were asking at once (_grade_claims,    *)
(* context_precision, _ask).                                                *)
VerdictsAreChecked ==
  /\ \A c \in last.claims :
       /\ c.label = Positive(last.kind) => c.quote \in ToSet(last.hits)
       /\ c.label = "contradicted" => c \in last.reply.claims
  /\ \A p \in last.passages :
       /\ last.prompt.seen[p.shownAt][1] = last.hits[p.rank][1]
       /\ p.label = last.reply.lines[p.shownAt]
  /\ last.cache /\ last.gradeable /\ last.now.key \notin contested =>
       calls[last.now.key].reply = last.reply

(* A replayed verdict is about the passages and the answer of this case.    *)
VerdictIsForThisText == last.prompt = last.now
=============================================================================
