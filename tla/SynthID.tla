------------------------------ MODULE SynthID ------------------------------
(***************************************************************************)
(* SynthID-Text by weighted mean: the reference detector with its hash, the *)
(* controlled simulation, and the generators. A configuration c holds the   *)
(* fields of the dataclass; a score is a fraction [num, den].              *)
(*                                                                         *)
(* The hash is the reference's generator at a smaller width: words of       *)
(* WordSize instead of 2^64, the multiplier and the bit of the g-value       *)
(* taken to fit. g is the table of the g-values of every n-gram.           *)
(***************************************************************************)
EXTENDS KGW

CONSTANTS
    WordSize, Multiplier, Increment,   \* of the linear congruential generator
    Rounds, Shift, GBit,               \* 12, 2^5 and 2^30 in the code
    HashIv                             \* sha256 of the keys

ASSUME SynthIDAssumption ==
    /\ {WordSize, Multiplier, Increment, Rounds, Shift, GBit, HashIv} \subseteq Nat
    /\ WordSize > 0 /\ Shift > 0 /\ GBit > 0

accumulate_hash(h, data) ==
    FoldLeft(LAMBDA a, v : (((a + v) % WordSize) * Multiplier + Increment) % WordSize,
             h % WordSize, data)

_to_signed(v) == IF v >= WordSize \div 2 THEN v - WordSize ELSE v
\* An arithmetic shift, which rounds down; back to an unsigned word.
_signed_right_shift(v) == (_to_signed(v) \div Shift) % WordSize

_g_value_for_ngram(ngram, key) ==
    LET h == accumulate_hash(accumulate_hash(HashIv, ngram), <<key>>)
        Round(a, i) == _signed_right_shift(accumulate_hash(a, <<1>>))
    IN  (FoldLeft(Round, h, [i \in 1..Rounds |-> i]) \div GBit) % 2

Ngrams(n) == [1..n -> Vocabulary]
NgramAt(t, i, n) == SubSeq(t, i - n + 1, i)
\* The table of the reference, which the simulation replaces by a stable hash.
GTable(c) == [x \in Ngrams(c.ngram_len) |->
                [d \in DOMAIN c.keys |-> _g_value_for_ngram(x, c.keys[d])]]

\* Zeros where the n-gram is not complete.
_compute_g_values(c, g, t) ==
    [i \in DOMAIN t |-> IF i < c.ngram_len THEN [d \in DOMAIN c.keys |-> 0]
                        ELSE g[NgramAt(t, i, c.ngram_len)]]

\* Mutant: the history is never shortened.
MutMaskForgetsNothing(c, t) ==
    LET Step(s, i) ==
            IF i < c.ngram_len THEN [s EXCEPT !.mask = Append(@, FALSE)]
            ELSE LET h == accumulate_hash(HashIv, Before(t, i, c.ngram_len - 1)) IN
                 [mask |-> Append(s.mask, h \notin ToSet(s.history)),
                  history |-> Append(s.history, h)]
    IN  FoldLeft(Step, [mask |-> <<>>, history |-> <<>>], [i \in DOMAIN t |-> i]).mask

\* Usable are the positions whose context of n - 1 tokens is not in the history,
\* which holds the last context_history_size hashes.
_compute_context_repetition_mask(c, t) ==
    LET Step(s, i) ==
            IF i < c.ngram_len THEN [s EXCEPT !.mask = Append(@, FALSE)]
            ELSE LET h == accumulate_hash(HashIv, Before(t, i, c.ngram_len - 1))
                     full == Append(s.history, h)
                 IN  [mask |-> Append(s.mask, h \notin ToSet(s.history)),
                      history |-> IF Len(full) > c.context_history_size THEN Tail(full) ELSE full]
    IN  FoldLeft(Step, [mask |-> <<>>, history |-> <<>>], [i \in DOMAIN t |-> i]).mask

\* 10 falling to 1 in equal steps, times depth - 1; the sum of weights that is
\* the depth after normalization.
_default_weights(depth) ==
    IF depth <= 1 THEN [w |-> <<1>>, sum |-> 1]
    ELSE LET w == [i \in 1..depth |-> 10 * (depth - 1) - 9 * (i - 1)] IN [w |-> w, sum |-> Total(w)]
\* Weights of the configuration are taken as they are: they sum to the depth or not.
Weights(c) == IF c.weights # None THEN [w |-> c.weights, sum |-> Len(c.keys)]
              ELSE _default_weights(Len(c.keys))
\* The simulation normalizes both.
_normalized_weights(c) ==
    IF c.weights # None THEN [w |-> c.weights, sum |-> Total(c.weights)]
    ELSE _default_weights(Len(c.keys))

Value(weights, gs) == Total([d \in DOMAIN gs |-> gs[d] * weights.w[d]])

Usable(mask) == {i \in DOMAIN mask : mask[i]}

_weighted_mean_score(weights, gs, mask) ==
    IF Usable(mask) = {} THEN [num |-> 0, den |-> 1]
    ELSE [num |-> Total([i \in DOMAIN mask |-> IF mask[i] THEN Value(weights, gs[i]) ELSE 0]),
          den |-> weights.sum * Cardinality(Usable(mask))]

SynthIDValidate(c) ==
    /\ c.ngram_len >= 2
    /\ c.keys # <<>>
    /\ c.weights # None => Len(c.weights) = Len(c.keys)
    /\ c.min_usable_tokens >= 1
    /\ 0 <= c.threshold /\ c.threshold <= 100

\* The threshold and the margins are hundredths.
SynthIDConfidence(c, s, detected) ==
    LET margin == LET m == 100 * s.num - c.threshold * s.den IN IF m < 0 THEN -m ELSE m IN
    CASE detected /\ margin >= 15 * s.den -> "high"
      [] detected -> "medium"
      [] margin < 5 * s.den -> "insufficient_evidence"
      [] OTHER -> "low"

Verdict(c, s, mask) ==
    LET detected == 100 * s.num >= c.threshold * s.den IN
    IF Cardinality(Usable(mask)) < c.min_usable_tokens THEN NotEnough
    ELSE [status |-> "ok", detected |-> detected, confidence |-> SynthIDConfidence(c, s, detected)]

SynthIDScore(c, g, t) ==
    _weighted_mean_score(Weights(c), _compute_g_values(c, g, t),
                         _compute_context_repetition_mask(c, t))
SynthIDDetect(c, g, t) ==
    Verdict(c, SynthIDScore(c, g, t), _compute_context_repetition_mask(c, t))

-----------------------------------------------------------------------------
(* Generation *)

\* The values the candidates would have after t; too short a context has none.
Candidate(c, weights, g, t, token) ==
    IF Len(t) < c.ngram_len - 1 THEN 0
    ELSE Value(weights, g[Append(LastOf(t, c.ngram_len - 1), token)])

Best(S, Score(_), high) ==
    {t \in S : \A u \in S : IF high THEN Score(u) <= Score(t) ELSE Score(t) <= Score(u)}

\* Mutant: the context is one token too old.
MutContextLags(c, g, t, watermarked) ==
    Best(Vocabulary, LAMBDA x : Candidate(c, Weights(c), g, Front(t), x), watermarked)

\* One round: a token of the best value (or the worst), ties by a stable hash.
generate_reference_synthid_text(c, g, t, watermarked) ==
    Best(Vocabulary, LAMBDA x : Candidate(c, Weights(c), g, t, x), watermarked)

\* The logits of the top candidates are replaced by their scores; all in units of one
\* over the sum of the weights.
SynthIDLogitsProcessor(c, g, t, logits, top) ==
    [x \in Vocabulary |->
        IF Len(t) >= c.ngram_len - 1 /\ x \in TopK(logits, top) THEN Candidate(c, Weights(c), g, t, x)
        ELSE Weights(c).sum * logits[x]]

generate_synthid_token_ids(c, g, t, logits, top, watermarked, greedy) ==
    sample_from_logits(IF watermarked THEN SynthIDLogitsProcessor(c, g, t, logits, top) ELSE logits,
                       greedy, None)

-----------------------------------------------------------------------------
(* The controlled simulation *)

candidate_weighted_value(c, g, t, token) ==
    IF Len(t) + 1 < c.ngram_len THEN 0
    ELSE Value(_normalized_weights(c), g[LastOf(Append(t, token), c.ngram_len)])

\* select_token, for one more round of the loop
generate_controlled_synthid_text(c, g, t, watermarked) ==
    Best(Vocabulary, LAMBDA x : candidate_weighted_value(c, g, t, x), watermarked)

\* The simulation looks for the whole n-gram, in a slice seen[-size:] that is all of
\* the list when the size is 0.
_g_values_and_mask(c, t) ==
    [i \in DOMAIN t |->
        /\ i >= c.ngram_len
        /\ \A j \in c.ngram_len..(i - 1) :
              c.context_history_size = 0 \/ i - j <= c.context_history_size
                => NgramAt(t, j, c.ngram_len) # NgramAt(t, i, c.ngram_len)]

SimSynthIDScore(c, g, t) ==
    _weighted_mean_score(_normalized_weights(c), _compute_g_values(c, g, t), _g_values_and_mask(c, t))
SimSynthIDDetect(c, g, t) == Verdict(c, SimSynthIDScore(c, g, t), _g_values_and_mask(c, t))
=============================================================================
