-------------------------------- MODULE KGW --------------------------------
(***************************************************************************)
(* The KGW watermark on token identifiers: the scorer, in the two classes of *)
(* the package, the controlled simulation, and the two generators.          *)
(*                                                                         *)
(* A configuration c holds the fields of the dataclass; gamma is a fraction *)
(* <<a, b>>. A generator of permutations g yields prf, the permutation of    *)
(* the hash key, and perm, that of every seed. The oracle o holds what the   *)
(* generators random and torch yield, and mark, the pairs of seed and token *)
(* whose stable hash is below gamma.                                       *)
(***************************************************************************)
EXTENDS Integers, Sequences, FiniteSets, SequencesExt

CONSTANTS VocabSize, None

ASSUME KGWAssumption == VocabSize \in Nat /\ VocabSize >= 2

Vocabulary == 0..(VocabSize - 1)
Schemes == {"time", "additive", "skip", "min"}

\* The window t[i - n], ..., t[i - 1] before position i, and the n last tokens.
Before(t, i, n) == SubSeq(t, i - n, i - 1)
LastOf(t, n) == SubSeq(t, Len(t) - n + 1, Len(t))
Product(s) == FoldLeft(LAMBDA a, b : a * b, 1, s)
Total(s) == FoldLeft(LAMBDA a, b : a + b, 0, s)
Least(S) == CHOOSE m \in S : \A n \in S : m <= n

\* num / sqrt(den) >= bound, in integers; den > 0, bound >= 0.
AtLeast(num, den, bound) == num >= 0 /\ num * num >= bound * bound * den
\* (green - gamma n) / sqrt(n gamma (1 - gamma)), as numerator and squared denominator
z_score(c, green, n) ==
    [num |-> c.gamma[2] * green - c.gamma[1] * n,
     den |-> n * c.gamma[1] * (c.gamma[2] - c.gamma[1])]

validate(c) ==
    /\ 0 < c.gamma[1] /\ c.gamma[1] < c.gamma[2]
    /\ c.delta >= 0
    /\ c.prefix_length >= 1
    /\ c.min_scored_tokens >= 1
    /\ c.f_scheme \in Schemes

-----------------------------------------------------------------------------
(* The scorer: every position with a whole context, its n-gram, its colour *)

greenlist_size(c) == (VocabSize * c.gamma[1]) \div c.gamma[2]

_f(c, g, context) ==
    LET p == LastOf(context, c.prefix_length) IN
    CASE c.f_scheme = "time" -> g.prf[(Product(p) % VocabSize) + 1]
      [] c.f_scheme = "additive" -> g.prf[(Total(p) % VocabSize) + 1]
      [] c.f_scheme = "skip" -> g.prf[p[1] + 1]
      [] OTHER -> Least({g.prf[p[i] + 1] : i \in DOMAIN p})

greenlist_ids(c, g, context) ==
    LET order == g.perm[(c.hash_key * _f(c, g, context)) % VocabSize]
    IN  {order[i] : i \in 1..greenlist_size(c)}

is_green_token(c, g, context, token) == token \in greenlist_ids(c, g, context)

\* A context that is too short is not biased.
bias_logits(c, g, context, logits) ==
    IF Len(context) < c.prefix_length THEN logits
    ELSE [t \in Vocabulary |->
            IF t \in greenlist_ids(c, g, context) THEN logits[t] + c.delta ELSE logits[t]]

NoScore == [scored |-> 0, green |-> 0, ignored |-> 0, mask |-> <<>>, seen |-> {}]

\* Mutant: a repeated n-gram is counted as ignored and scored all the same.
MutScoreRepeats(c, g, t) ==
    LET Step(s, i) ==
            LET context == Before(t, i, c.prefix_length)
                ngram == Append(context, t[i])
                green == is_green_token(c, g, context, t[i])
            IN  [s EXCEPT !.seen = @ \cup {ngram}, !.mask = Append(@, green), !.scored = @ + 1,
                          !.green = IF green THEN @ + 1 ELSE @,
                          !.ignored = IF c.ignore_repeated_ngrams /\ ngram \in s.seen
                                      THEN @ + 1 ELSE @]
    IN  FoldLeft(Step, NoScore, [k \in 1..(Len(t) - c.prefix_length) |-> k + c.prefix_length])

score_token_ids(c, g, t) ==
    LET Step(s, i) ==
            LET context == Before(t, i, c.prefix_length)
                ngram == Append(context, t[i])
                green == is_green_token(c, g, context, t[i])
            IN  IF c.ignore_repeated_ngrams /\ ngram \in s.seen
                THEN [s EXCEPT !.ignored = @ + 1, !.mask = Append(@, None)]
                ELSE [s EXCEPT !.seen = @ \cup {ngram}, !.mask = Append(@, green),
                               !.scored = @ + 1, !.green = IF green THEN @ + 1 ELSE @]
    IN  FoldLeft(Step, NoScore, [k \in 1..(Len(t) - c.prefix_length) |-> k + c.prefix_length])

\* p_value <= 1e-6 is z >= 4.7534, whose square is 22.595.
_confidence(z, detected) ==
    CASE detected /\ 1000 * z.num * z.num >= 22595 * z.den -> "high"
      [] detected -> "medium"
      [] z.num <= 0 -> "low"
      [] OTHER -> "insufficient_evidence"

NotEnough == [status |-> "insufficient_text", detected |-> None,
              confidence |-> "insufficient_evidence"]

detect(c, g, t) ==
    LET s == score_token_ids(c, g, t)
        z == z_score(c, s.green, s.scored)
        detected == AtLeast(z.num, z.den, c.z_threshold)
    IN  IF s.scored < c.min_scored_tokens THEN NotEnough
        ELSE [status |-> "ok", detected |-> detected, confidence |-> _confidence(z, detected)]

-----------------------------------------------------------------------------
(* The two generators of permutations. The class for MarkLLM repeats the one above line by *)
(* line and draws with torch.randperm where that one shuffles with Python's random, so the *)
(* two draw other lists from one context.                                                *)

KGWReferenceScorer(o) == o.random
KGWMarkLLMScorer(o) == o.torch

-----------------------------------------------------------------------------
(* Generation from the logits of a model *)

\* The highest logit, the lowest token of those that have it.
Argmax(logits) ==
    CHOOSE t \in Vocabulary : \A u \in Vocabulary :
        logits[u] < logits[t] \/ (logits[u] = logits[t] /\ t <= u)
\* The k tokens that sort first by falling logit, ties in the order of the tokens.
TopK(logits, k) ==
    {t \in Vocabulary : Cardinality({u \in Vocabulary :
        logits[u] > logits[t] \/ (logits[u] = logits[t] /\ u < t)}) < k}

\* The tokens that can be sampled. Every candidate has a positive weight, and some
\* top_p keeps them all.
sample_from_logits(logits, greedy, top_k) ==
    CASE greedy -> {Argmax(logits)}
      [] ~greedy /\ top_k # None -> TopK(logits, top_k)
      [] OTHER -> Vocabulary

\* Mutant: the context is that of the prompt, not of what has been generated.
MutGenerateStale(c, g, t, logits, watermarked, greedy, top_k) ==
    sample_from_logits(
        IF watermarked /\ Len(t) >= c.prefix_length
        THEN bias_logits(c, g, SubSeq(t, 1, c.prefix_length), logits) ELSE logits, greedy, top_k)

\* One round of the loop: the tokens it may append to t.
generate_kgw_token_ids(c, g, t, logits, watermarked, greedy, top_k) ==
    sample_from_logits(IF watermarked THEN bias_logits(c, g, t, logits) ELSE logits, greedy, top_k)

-----------------------------------------------------------------------------
(* The controlled simulation *)

SimF(c, context) ==
    CASE c.f_scheme = "additive" -> Total(context)
      [] c.f_scheme = "time" -> Product([i \in DOMAIN context |->
                                            IF context[i] < 1 THEN 1 ELSE context[i]])
      [] c.f_scheme = "skip" -> context[1]
      [] OTHER -> Least({context[i] : i \in DOMAIN context})

SimGreen(c, o, context, token) == <<SimF(c, context), token>> \in o.mark

\* The tokens select_token chooses from by a stable hash.
select_token(c, o, context, prefer_green) ==
    LET preferred == {t \in Vocabulary : SimGreen(c, o, context, t) = prefer_green}
    IN  IF preferred = {} THEN Vocabulary ELSE preferred

generate_controlled_kgw_text(c, o, t, watermarked) ==
    select_token(c, o, LastOf(t, c.prefix_length), watermarked)

SimConfidence(c, z, detected) ==
    CASE detected /\ AtLeast(z.num, z.den, c.z_threshold + 2) -> "high"
      [] detected -> "medium"
      [] z.num <= 0 -> "low"
      [] OTHER -> "insufficient_evidence"

SimDetect(c, o, t) ==
    LET scored == IF Len(t) > c.prefix_length THEN Len(t) - c.prefix_length ELSE 0
        green == {i \in (c.prefix_length + 1)..Len(t) :
                     SimGreen(c, o, Before(t, i, c.prefix_length), t[i])}
        z == z_score(c, Cardinality(green), scored)
        detected == AtLeast(z.num, z.den, c.z_threshold)
    IN  IF scored < c.min_scored_tokens THEN NotEnough
        ELSE [status |-> "ok", detected |-> detected, confidence |-> SimConfidence(c, z, detected)]

SimValidate(c) == validate(c) /\ VocabSize >= 2
=============================================================================
