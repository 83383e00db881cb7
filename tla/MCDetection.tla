---------------------------- MODULE MCDetection ----------------------------
(* Detection with small vocabularies, configurations and generators for TLC. *)
EXTENDS Detection

\* gamma 1/3 and 2/3 give green lists of one and of two tokens out of three.
MCKGWConfigs ==
    {x \in [gamma : {<<1, 3>>, <<2, 3>>}, delta : {1, 2}, hash_key : {2}, z_threshold : {1},
            prefix_length : {1, 2}, f_scheme : Schemes, min_scored_tokens : {2},
            ignore_repeated_ngrams : BOOLEAN] : validate(x)}

\* Python's generator permutes by rotations and torch's by reflections; marks are all of a
\* context's tokens, none, or one.
MCOracles ==
    {[random |-> [prf |-> f[1], perm |-> [s \in Vocabulary |-> [i \in 1..VocabSize |-> (s + i) % VocabSize]]],
      torch |-> [prf |-> f[2],
                 perm |-> [s \in Vocabulary |-> [i \in 1..VocabSize |-> (s + VocabSize - i) % VocabSize]]],
      mark |-> {<<v, x>> \in (0..9) \X Vocabulary : v % 3 = 0 \/ (v % 3 = 1 /\ x = 1)}] :
        f \in {<<<<0, 1, 2>>, <<1, 0, 2>>>>, <<<<2, 0, 1>>, <<0, 2, 1>>>>}}

MCSynthIDConfigs ==
    {x \in [ngram_len : {2, 3}, keys : {<<5>>, <<5, 9>>}, weights : {None, <<1, 3>>},
            context_history_size : {0, 1, 3}, threshold : {50}, min_usable_tokens : {2}] :
        /\ x.ngram_len = 3 => Len(x.keys) = 2
        /\ x.weights # None => x.context_history_size = 1}

\* Two tables for the simulation: a value by the token's parity, and by its distance.
MCSimTables(conf) ==
    {[x \in Ngrams(conf.ngram_len) |-> [d \in DOMAIN conf.keys |-> (Total(x) + d) % 2]],
     [x \in Ngrams(conf.ngram_len) |->
        [d \in DOMAIN conf.keys |-> IF x[conf.ngram_len] = (x[1] + d) % VocabSize THEN 1 ELSE 0]]}
=============================================================================
