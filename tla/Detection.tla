----------------------------- MODULE Detection -----------------------------
(***************************************************************************)
(* A text of tokens that grows by one token at a time, as the generators     *)
(* write it, and the detectors that read it: KGW from the logits of a model,  *)
(* with either of its scorers, the controlled KGW simulation, the SynthID    *)
(* reference (without a model and over its logits) and the SynthID           *)
(* simulation. A text without a watermark written over free logits is any    *)
(* text at all.                                                            *)
(***************************************************************************)
EXTENDS SynthID

CONSTANTS
    KGWConfigs, Oracles,        \* the configurations and generators tried for KGW
    SynthIDConfigs, SimTables(_), \* the configurations of SynthID, the g-values of its simulation
    MaxLogit,                   \* a model's logits are in 0..MaxLogit
    Top,                        \* watermark_top_k
    MaxTokens                   \* bound on the length of the text

\* The fields' types; a KGW detector is only made for a valid configuration with a green
\* list that is not empty, and the permutations are of the vocabulary's tokens.
ASSUME DetectionAssumption ==
    /\ None \notin BOOLEAN /\ MaxLogit \in Nat
    /\ \A x \in KGWConfigs :
          /\ {x.gamma[1], x.gamma[2], x.delta, x.hash_key, x.prefix_length} \subseteq Nat
          /\ x.ignore_repeated_ngrams \in BOOLEAN
          /\ validate(x) /\ greenlist_size(x) >= 1
    /\ \A x \in Oracles : \A g \in {x.random, x.torch} :
          /\ g.prf \in [1..VocabSize -> Vocabulary]
          /\ g.perm \in [Vocabulary -> [1..VocabSize -> Vocabulary]]
    /\ \A x \in SynthIDConfigs :
          /\ x.ngram_len \in Nat /\ x.context_history_size \in Nat /\ x.keys \in Seq(Nat)
          /\ x.weights = None \/ x.weights \in Seq(Int)
          /\ SimTables(x) \subseteq [Ngrams(x.ngram_len) -> [DOMAIN x.keys -> 0..1]]

VARIABLES
    part,     \* the generator at work
    c, o,     \* its configuration and its oracle, or its table of g-values
    marked,   \* whether it watermarks
    greedy,   \* temperature 0
    prompt,   \* the length of the prompt
    t         \* the prompt and what has been generated

vars == <<part, c, o, marked, greedy, prompt, t>>
setting == <<part, c, o, marked, greedy, prompt>>

KGWModelParts == {"kgw", "kgw-markllm"}
KGWParts == KGWModelParts \cup {"kgw-sim"}
SynthIDParts == {"synthid", "synthid-model", "synthid-sim"}
Logits == [Vocabulary -> 0..MaxLogit]

\* The scorer whose bias the model's text is written under and that its detector reads with.
scorer == IF part = "kgw" THEN KGWReferenceScorer(o) ELSE KGWMarkLLMScorer(o)

\* The prompt of a model is any; the others start with the vocabulary's first tokens.
FirstTokens(n) == [i \in 1..n |-> (i - 1) % VocabSize]
Prompts == UNION {[1..n -> Vocabulary] : n \in 0..1}

InitKGW ==
    /\ part \in KGWParts
    /\ c \in KGWConfigs
    /\ o \in Oracles
    /\ greedy \in BOOLEAN /\ (greedy => part \in KGWModelParts)
    /\ IF part \in KGWModelParts THEN t \in Prompts ELSE t = FirstTokens(c.prefix_length)

InitSynthID ==
    /\ part \in SynthIDParts
    /\ c \in {x \in SynthIDConfigs : SynthIDValidate(x)}
    /\ IF part = "synthid-sim" THEN o \in SimTables(c) ELSE o = GTable(c)
    /\ greedy \in {FALSE, part = "synthid-model"}
    /\ IF part = "synthid-model" THEN t \in Prompts ELSE t = FirstTokens(c.ngram_len - 1)

Init ==
    /\ marked \in BOOLEAN
    /\ InitKGW \/ InitSynthID
    /\ prompt = Len(t)

Generates(tokens) == \E x \in tokens : t' = Append(t, x)
Grows(p) == part = p /\ Len(t) < MaxTokens /\ UNCHANGED setting

KGWModel ==
    /\ part \in KGWModelParts /\ Grows(part)
    /\ \E logits \in Logits, top_k \in {None, 1} :
          Generates(generate_kgw_token_ids(c, scorer, t, logits, marked, greedy, top_k))
KGWControlled ==
    Grows("kgw-sim") /\ Generates(generate_controlled_kgw_text(c, o, t, marked))
SynthIDText ==
    Grows("synthid") /\ Generates(generate_reference_synthid_text(c, o, t, marked))
SynthIDModel ==
    /\ Grows("synthid-model")
    /\ \E logits \in Logits : Generates(generate_synthid_token_ids(c, o, t, logits, Top, marked, greedy))
SynthIDControlled ==
    Grows("synthid-sim") /\ Generates(generate_controlled_synthid_text(c, o, t, marked))

Next == KGWModel \/ KGWControlled \/ SynthIDText \/ SynthIDModel \/ SynthIDControlled
Spec == Init /\ [][Next]_vars

-----------------------------------------------------------------------------
(* Properties *)

\* The loop of a KGW scorer, with its set of n-grams seen, counts what the text says. Every
\* position with a whole context has its place in the mask. It is scored unless the
\* configuration leaves repetitions out and its n-gram occurred before, and then its colour
\* is that of the list of its context; the verdict is given over those positions alone
\* (score_token_ids and detect in reference/kgw.py and reference/kgw_markllm.py). Nothing is
\* said of the two scorers' colours on one text: their lists differ.
KgwCounts ==
    part \in KGWModelParts =>
        LET n == c.prefix_length
            Ngram(i) == SubSeq(t, i - n, i)
            counted == {i \in (n + 1)..Len(t) : c.ignore_repeated_ngrams =>
                          \A j \in (n + 1)..(i - 1) : Ngram(j) # Ngram(i)}
            green == {i \in counted : is_green_token(c, scorer, Before(t, i, n), t[i])}
            s == score_token_ids(c, scorer, t)
        IN  /\ s.scored = Cardinality(counted) /\ s.green = Cardinality(green)
            /\ s.ignored = Cardinality(((n + 1)..Len(t)) \ counted)
            /\ Len(s.mask) = s.scored + s.ignored
            /\ \A i \in (n + 1)..Len(t) : s.mask[i - n] = IF i \in counted THEN i \in green ELSE None
            /\ detect(c, scorer, t).detected = None <=> Cardinality(counted) < c.min_scored_tokens

\* The detector reads the mark where the generator left it, when both use the one scorer: a
\* watermark written greedily, with a delta above the spread of the logits, is green at every
\* position scored after the prompt; the controlled simulation writes green wherever its
\* context has a green token, and red wherever it has a red one (generation/kgw.py,
\* simulated/kgw.py).
MarkIsRead ==
    /\ part \in KGWModelParts /\ marked /\ greedy /\ c.delta > MaxLogit =>
          LET mask == score_token_ids(c, scorer, t).mask
              n == c.prefix_length
          IN  \A i \in DOMAIN mask : i + n > prompt => mask[i] # FALSE
    /\ part = "kgw-sim" =>
          \A i \in (prompt + 1)..Len(t) :
             LET context == Before(t, i, c.prefix_length) IN
             SimGreen(c, o, context, t[i]) # marked =>
                \A x \in Vocabulary : SimGreen(c, o, context, x) # marked

\* What a SynthID generator chose by its own window of the text has, at its position, the
\* value the detector computes there, and no other token would have had a higher one when
\* it watermarks, or a lower one when it does not (generate_reference_synthid_text,
\* select_token against _compute_g_values and _g_values_and_mask).
ChosenIsScored ==
    part \in {"synthid", "synthid-sim"} =>
        LET weights == IF part = "synthid" THEN Weights(c) ELSE _normalized_weights(c)
            At(i, x) == Value(weights, _compute_g_values(c, o, [t EXCEPT ![i] = x])[i])
        IN  \A i \in (prompt + 1)..Len(t), x \in Vocabulary :
               IF marked THEN At(i, x) <= At(i, t[i]) ELSE At(i, t[i]) <= At(i, x)

\* A position counts in the reference's SynthID score exactly when its context is none of
\* those of the context_history_size positions before it, so a text that repeats itself
\* cannot raise its score by that, and its score is a mean: with the weights the detector
\* makes itself it lies in [0, 1], the range validate allows for the threshold.
RepeatsDoNotCount ==
    part \in SynthIDParts =>
        LET mask == _compute_context_repetition_mask(c, t)
            n == c.ngram_len
            s == SynthIDScore(c, o, t)
        IN  /\ \A i \in DOMAIN t :
                  mask[i] <=> /\ i >= n
                              /\ \A j \in n..(i - 1) : i - j <= c.context_history_size =>
                                    Before(t, j, n - 1) # Before(t, i, n - 1)
            /\ c.weights = None => 0 <= s.num /\ s.num <= s.den
            /\ LET sim == SimSynthIDScore(c, o, t) IN 0 <= sim.num /\ sim.num <= sim.den

\* "adds the score as a logit bias to favour watermarked tokens" (SynthIDLogitsProcessor).
\* What is added is not negative, so a candidate of the top stays above every other token.
BiasFavours ==
    part = "synthid-model" /\ marked =>
        \A logits \in Logits, x, y \in Vocabulary :
            LET biased == SynthIDLogitsProcessor(c, o, t, logits, Top) IN
            x \in TopK(logits, Top) /\ y \notin TopK(logits, Top) => biased[y] <= biased[x]
=============================================================================
