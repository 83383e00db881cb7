----------------------------- MODULE Transforms -----------------------------
(***************************************************************************)
(* The text transformations of the robustness evaluation (the baseline ones *)
(* of transforms.py, the ones by category of advanced_transforms.py), the   *)
(* simple tokenizer and the inspection for Unicode artefacts.              *)
(*                                                                         *)
(* A text is a sequence of characters, one of Chars per kind the code tells *)
(* apart: letters with their cases, one whose capital is two letters, one    *)
(* that decomposes, its combining mark, the white space, an invisible       *)
(* character, and punctuation.                                             *)
(***************************************************************************)
EXTENDS Integers, Sequences, SequencesExt, FiniteSetsExt

CONSTANTS
    Synonyms,      \* the words of the synonym map, each with its alternatives
    Contractions,  \* pairs of a contraction and its expansion, in the map's order
    Choice         \* Choice[seed, i, n]: the alternative drawn among n at word i

CapitalOf == [a |-> "A", b |-> "B", c |-> "C", e |-> "E", s |-> "S", eacute |-> "Eacute"]
Small == DOMAIN CapitalOf
Capital == {CapitalOf[c] : c \in Small}
\* The sharp s is a small letter whose capital is two letters, which do not go back to it.
Letters == Small \cup Capital \cup {"eszett"}
Spaces == {"sp", "tab", "nl", "nbsp"}
Stops == {".", ",", "!", "?"}
Chars == Letters \cup Spaces \cup Stops
            \cup {"acute", "zwsp", "bidi", "-", "'", "curly", "dash", "dots"}

small(c) == IF c \in Capital THEN CHOOSE x \in Small : CapitalOf[x] = c ELSE c
capital(c) == IF c \in Small THEN CapitalOf[c] ELSE c
\* The upper case of a character, and its title case.
Upper(c) == IF c = "eszett" THEN <<"S", "S">> ELSE <<capital(c)>>
Title(c) == IF c = "eszett" THEN <<"S", "s">> ELSE <<capital(c)>>

\* The characters at the positions that satisfy P; every character replaced by f.
Keep(t, P(_)) == FlattenSeq([i \in DOMAIN t |-> IF P(i) THEN <<t[i]>> ELSE <<>>])
Rewrite(t, f(_)) == FlattenSeq([i \in DOMAIN t |-> f(t[i])])
Each(t, f(_)) == [i \in DOMAIN t |-> f(t[i])]

\* A run of more than k characters c is cut to k of them.
Shorten(t, c, k) == Keep(t, LAMBDA i : ~(i > k /\ \A j \in (i - k)..i : t[j] = c))

Strip(t) ==
    LET solid == {i \in DOMAIN t : t[i] \notin Spaces}
    IN  IF solid = {} THEN <<>> ELSE SubSeq(t, Min(solid), Max(solid))

Split(t, c) ==
    FoldLeft(LAMBDA parts, x : IF x = c THEN Append(parts, <<>>)
                               ELSE [parts EXCEPT ![Len(parts)] = Append(@, x)],
             << <<>> >>, t)
Join(parts, glue) ==
    FlattenSeq([i \in DOMAIN parts |-> IF i = 1 THEN parts[i] ELSE glue \o parts[i]])

-----------------------------------------------------------------------------
(* The simple tokenizer: words, and every other visible character by itself *)

IsWord(token) == token[1] \in Letters

\* A character of category C, like an invisible one, is no token of its own.
simple_tokenize(t) ==
    LET Read(tokens, i) ==
            CASE t[i] \in Spaces \cup {"zwsp", "bidi"} -> tokens
              [] t[i] \in Letters /\ i > 1 /\ t[i - 1] \in Letters ->
                    [tokens EXCEPT ![Len(tokens)] = Append(@, t[i])]
              [] OTHER -> Append(tokens, <<t[i]>>)
    IN  FoldLeft(Read, <<>>, [i \in DOMAIN t |-> i])

\* What the simulated detectors see: token ids, which forget the case by default.
encode(t, case_sensitive) ==
    simple_tokenize(IF case_sensitive THEN t ELSE Each(t, small))

-----------------------------------------------------------------------------
(* Unicode artefacts *)

_finding_for(c) ==
    CASE c = "bidi" -> "bidi_control"
      [] c = "zwsp" -> "zero_width"
      [] c = "nbsp" -> "unusual_whitespace"
      [] OTHER -> "none"

analyze_unicode(t) ==
    Keep(Each(t, _finding_for), LAMBDA i : _finding_for(t[i]) # "none")

\* The verdict, the score and the confidence of the detector of artefacts.
UnicodeArtifactDetector(t) ==
    LET findings == analyze_unicode(t) IN
    [detected |-> findings # <<>>, score |-> Len(findings),
     confidence |-> CASE Contains(findings, "bidi_control") -> "high"
                      [] findings # <<>> -> "medium"
                      [] OTHER -> "none"]

-----------------------------------------------------------------------------
(* White space and layout *)

_identity(t) == t

\* Mutant: any white space is doubled.
MutExpandEverySpace(t) == Rewrite(t, LAMBDA c : IF c \in Spaces THEN <<c, c>> ELSE <<c>>)

_whitespace_expand(t) == Rewrite(t, LAMBDA c : IF c = "sp" THEN <<"sp", "sp">> ELSE <<c>>)
_double_spaces(t) == _whitespace_expand(t)
_leading_trailing_whitespace(t) == <<"sp", "sp">> \o t \o <<"sp", "sp">>

\* Mutant: the tabs become spaces after the runs were cut.
MutCollapseTabsLast(t) ==
    Each(Shorten(t, "sp", 1), LAMBDA c : IF c = "tab" THEN "sp" ELSE c)

_whitespace_collapse(t) ==
    Shorten(Each(t, LAMBDA c : IF c = "tab" THEN "sp" ELSE c), "sp", 1)

_whitespace_normalization(t) == Strip(Shorten(_whitespace_collapse(t), "nl", 2))
_blank_line_normalize(t) == Strip(Shorten(t, "nl", 2))

\* The separator of paragraphs takes a run of white space from its first to its last
\* line break, so what remains is every line stripped and blank lines cut to one.
_paragraph_reflow(t) ==
    Shorten(Join(Each(Split(Strip(t), "nl"), Strip), <<"nl">>), "nl", 2)

\* Mutant: the lines that remain are joined by nothing.
MutStripJoinsLines(t) ==
    LET lines == Split(t, "nl")
    IN  FlattenSeq(Keep(lines, LAMBDA i : Strip(lines[i]) # <<>>))

_strip_blank_lines(t) ==
    LET lines == Split(t, "nl")
    IN  Join(Keep(lines, LAMBDA i : Strip(lines[i]) # <<>>), <<"nl">>)

TabWidth == 4
_tab_space_normalize(t) ==
    LET Column(s) == Len(Last(Split(s, "nl")))
        Put(s, c) == IF c # "tab" THEN Append(s, c)
                     ELSE s \o [i \in 1..(TabWidth - (Column(s) % TabWidth)) |-> "sp"]
    IN  FoldLeft(Put, <<>>, t)

\* A paragraph's lines are joined by a space, and by nothing once a line of it ended
\* with a hyphen: that holds for the next line only if that one has no hyphen.
_line_wrap_normalize(t) ==
    LET Add(s, raw) ==
            LET line == Strip(raw) IN
            CASE line = <<>> ->
                    [out |-> (IF s.open THEN Append(s.out, s.text) ELSE s.out) \o << <<>> >>,
                     open |-> FALSE, text |-> <<>>, hyphenated |-> FALSE]
              [] line # <<>> /\ Last(line) = "-" ->
                    [s EXCEPT !.open = TRUE, !.text = @ \o Front(line), !.hyphenated = TRUE]
              [] OTHER ->
                    [s EXCEPT !.open = TRUE, !.hyphenated = FALSE,
                              !.text = (IF s.open /\ ~s.hyphenated THEN Append(@, "sp") ELSE @)
                                            \o line]
        end == FoldLeft(Add, [out |-> <<>>, open |-> FALSE, text |-> <<>>, hyphenated |-> FALSE],
                        Split(t, "nl"))
    IN  Strip(Join(IF end.open THEN Append(end.out, end.text) ELSE end.out, <<"nl">>))

-----------------------------------------------------------------------------
(* Unicode forms and punctuation *)

Decompose(c) ==
    CASE c = "eacute" -> <<"e", "acute">>
      [] c = "Eacute" -> <<"E", "acute">>
      [] OTHER -> <<c>>
_unicode_nfd(t) == Rewrite(t, Decompose)
_unicode_nfkd(t) ==
    Rewrite(t, LAMBDA c : CASE c = "nbsp" -> <<"sp">>
                            [] c = "dots" -> <<".", ".", ".">>
                            [] OTHER -> Decompose(c))
_unicode_nfc(t) ==
    LET Compose(s, c) ==
            IF c = "acute" /\ s # <<>> /\ Last(s) \in {"e", "E"}
            THEN Append(Front(s), IF Last(s) = "e" THEN "eacute" ELSE "Eacute")
            ELSE Append(s, c)
    IN  FoldLeft(Compose, <<>>, t)

_unicode_punctuation_normalize(t) ==
    Rewrite(t, LAMBDA c : CASE c = "curly" -> <<"'">>
                            [] c = "dash" -> <<"-">>
                            [] c = "dots" -> <<".", ".", ".">>
                            [] c = "nbsp" -> <<"sp">>
                            [] c = "zwsp" -> <<>>
                            [] OTHER -> <<c>>)
_punctuation_normalization(t) == _unicode_punctuation_normalize(t)
_punctuation_normalize(t) == _unicode_punctuation_normalize(t)

_repeated_punctuation_normalize(t) ==
    Shorten(Shorten(Shorten(t, "!", 1), "?", 1), ".", 3)

-----------------------------------------------------------------------------
(* Cases and words *)

_lowercase(t) == Each(t, small)
_uppercase(t) == Rewrite(t, Upper)
\* A letter after anything that has no case, a combining mark too, is a capital.
_title_case(t) ==
    FlattenSeq([i \in DOMAIN t |->
        IF i > 1 /\ t[i - 1] \in Letters THEN <<small(t[i])>> ELSE Title(t[i])])
Capitalized(w) == [i \in DOMAIN w |-> IF i = 1 THEN capital(w[i]) ELSE small(w[i])]

\* A known word gives way to the alternative that is drawn for its place; what follows
\* is the text of the word from the length of its letters on.
_conservative_synonym_substitution(t, seed) ==
    LET words == Split(t, "sp")
        Substitute(i) ==
            LET w == words[i]
                letters == Each(Keep(w, LAMBDA k : w[k] \in Letters), small)
            IN  IF letters \notin DOMAIN Synonyms THEN w
                ELSE LET other == Synonyms[letters]
                         new == other[(Choice[seed, i - 1] % Len(other)) + 1]
                     IN  (IF w[1] \in Capital THEN Capitalized(new) ELSE new)
                            \o SubSeq(w, Len(letters) + 1, Len(w))
    IN  Join([i \in DOMAIN words |-> Substitute(i)], <<"sp">>)

\* From left to right, At(i) characters from i on are replaced by New(i); 0: none are.
Substituted(t, At(_), New(_)) ==
    LET Step(s, i) ==
            CASE s.skip > 0 -> [s EXCEPT !.skip = @ - 1]
              [] At(i) > 0 -> [out |-> s.out \o New(i), skip |-> At(i) - 1]
              [] OTHER -> [s EXCEPT !.out = Append(@, t[i])]
    IN  FoldLeft(Step, [out |-> <<>>, skip |-> 0], [i \in DOMAIN t |-> i]).out

\* The pairs are applied one after the other, wherever the letters stand in a word.
_contraction_expansion(t) ==
    LET Expand(u, pair) ==
            LET n == Len(pair[1])
                At(i) == IF i + n - 1 <= Len(u) /\ Each(SubSeq(u, i, i + n - 1), small) = pair[1]
                         THEN n ELSE 0
                New(i) == IF u[i] \in Capital THEN <<capital(pair[2][1])>> \o Tail(pair[2])
                          ELSE pair[2]
            IN  Substituted(u, At, New)
    IN  FoldLeft(Expand, t, Contractions)

-----------------------------------------------------------------------------
(* Boundaries of tokens *)

_insert_formatting_boundaries(t) ==
    LET At(i) == IF t[i] \in Stops /\ i < Len(t) /\ t[i + 1] \notin Spaces THEN 2 ELSE 0
        New(i) == <<t[i], "sp", t[i + 1]>>
    IN  Substituted(t, At, New)

_remove_formatting_boundaries(t) ==
    Keep(t, LAMBDA i : ~\E j \in (i + 1)..Len(t) :
                            t[j] \in Stops /\ \A k \in i..(j - 1) : t[k] \in Spaces)

-----------------------------------------------------------------------------
(* Names, profiles and the choice of an experiment *)

ALL_TRANSFORMS ==
    <<"identity", "whitespace_normalization", "unicode_normalization_nfc",
      "unicode_normalization_nfd", "lowercase", "uppercase", "punctuation_normalization",
      "strip_blank_lines", "add_leading_trailing_whitespace", "double_spaces">>

ProfileOf ==
    [formatting |-> <<"paragraph_reflow", "line_wrap_normalize", "blank_line_normalize">>,
     unicode |-> <<"unicode_nfc", "unicode_nfd", "unicode_nfkd",
                   "unicode_punctuation_normalize">>,
     whitespace |-> <<"whitespace_collapse", "whitespace_expand", "tab_space_normalize",
                      "double_spaces">>,
     casing |-> <<"lowercase", "uppercase", "title_case">>,
     punctuation |-> <<"punctuation_normalize", "repeated_punctuation_normalize">>,
     lexical |-> <<"conservative_synonym_substitution", "contraction_expansion">>,
     tokenization_sensitive |-> <<"insert_formatting_boundaries",
                                  "remove_formatting_boundaries">>]

\* The profile all_safe has the transformations of all the others.
PROFILES ==
    [all_safe |-> ProfileOf.formatting \o ProfileOf.whitespace \o ProfileOf.unicode
                    \o ProfileOf.casing \o ProfileOf.punctuation \o ProfileOf.lexical
                    \o ProfileOf.tokenization_sensitive] @@ ProfileOf

ADVANCED_TRANSFORMS ==
    UNION {{PROFILES[p][i] : i \in DOMAIN PROFILES[p]} : p \in DOMAIN PROFILES}
        \cup {"leading_trailing_whitespace"}

apply(name, t, seed) ==
    CASE name = "identity" -> t
      [] name = "whitespace_normalization" -> _whitespace_normalization(t)
      [] name \in {"unicode_nfc", "unicode_normalization_nfc"} -> _unicode_nfc(t)
      [] name \in {"unicode_nfd", "unicode_normalization_nfd"} -> _unicode_nfd(t)
      [] name = "unicode_nfkd" -> _unicode_nfkd(t)
      [] name = "lowercase" -> _lowercase(t)
      [] name = "uppercase" -> _uppercase(t)
      [] name = "title_case" -> _title_case(t)
      [] name = "punctuation_normalization" -> _punctuation_normalization(t)
      [] name = "punctuation_normalize" -> _punctuation_normalize(t)
      [] name = "unicode_punctuation_normalize" -> _unicode_punctuation_normalize(t)
      [] name = "repeated_punctuation_normalize" -> _repeated_punctuation_normalize(t)
      [] name = "strip_blank_lines" -> _strip_blank_lines(t)
      [] name \in {"leading_trailing_whitespace", "add_leading_trailing_whitespace"} ->
            _leading_trailing_whitespace(t)
      [] name = "double_spaces" -> _double_spaces(t)
      [] name = "whitespace_expand" -> _whitespace_expand(t)
      [] name = "whitespace_collapse" -> _whitespace_collapse(t)
      [] name = "tab_space_normalize" -> _tab_space_normalize(t)
      [] name = "paragraph_reflow" -> _paragraph_reflow(t)
      [] name = "line_wrap_normalize" -> _line_wrap_normalize(t)
      [] name = "blank_line_normalize" -> _blank_line_normalize(t)
      [] name = "conservative_synonym_substitution" ->
            _conservative_synonym_substitution(t, seed)
      [] name = "contraction_expansion" -> _contraction_expansion(t)
      [] name = "insert_formatting_boundaries" -> _insert_formatting_boundaries(t)
      [] OTHER -> _remove_formatting_boundaries(t)
=============================================================================
