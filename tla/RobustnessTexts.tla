-------------------------- MODULE RobustnessTexts --------------------------
(***************************************************************************)
(* `benchmark robustness --text`: one text, one detector, and the           *)
(* transformations of a profile. The text is any sequence of the characters *)
(* of a family; the detectors are the one of Unicode artefacts and one that *)
(* reads the simple tokenizer, whose score is any function of its tokens    *)
(* and stands here for the tokens themselves.                              *)
(***************************************************************************)
EXTENDS Transforms

CONSTANTS
    Families,    \* sets of characters a text is written with
    MaxLength,   \* bound: the characters of a text
    Seeds,       \* the seeds of the command
    None

ASSUME TextsAssumption ==
    /\ \A f \in Families : f \subseteq Chars
    /\ MaxLength \in Nat
    /\ None \notin Nat

VARIABLES
    family,      \* the characters of this text
    text,
    command,     \* [detector, profile, seed] once the command has run, else None
    records,     \* what evaluate_robustness returned
    statistics   \* what compute_statistics made of it

vars == <<family, text, command, records, statistics>>

-----------------------------------------------------------------------------
Detectors == {"unicode", "simulated"}

\* A simulated detector has no verdict of its own here: None.
detect(detector, t) ==
    IF detector = "unicode" THEN UnicodeArtifactDetector(t)
    ELSE [detected |-> None, score |-> encode(t, FALSE), confidence |-> "none"]

\* The command takes a profile's transformations, or all the baseline ones.
chosen(profile) == IF profile = None THEN ALL_TRANSFORMS ELSE PROFILES[profile]

evaluate_single(t, detector, name, seed) ==
    LET result == detect(detector, apply(name, t, seed)) IN
    [transform_name |-> name, detected |-> result.detected, score |-> result.score]

evaluate_robustness(t, detector, names, seed) ==
    [i \in DOMAIN names |-> evaluate_single(t, detector, names[i], seed)]

\* Sums stand for the averages. Without an identity record there is no baseline.
compute_statistics(rs) ==
    LET of(name) == SelectSeq(rs, LAMBDA r : r.transform_name = name)
        detected(s) == Len(SelectSeq(s, LAMBDA r : r.detected = TRUE))
        names == {rs[i].transform_name : i \in DOMAIN rs}
        baseline == of("identity")
    IN  [overall |-> detected(rs),
         baseline_detected |-> IF baseline = <<>> THEN None ELSE baseline[1].detected,
         baseline_score |-> IF baseline = <<>> THEN None ELSE baseline[1].score,
         transforms |->
            [name \in names |->
                [total |-> Len(of(name)), detected |-> detected(of(name)),
                 score |-> FoldLeft(LAMBDA a, r : a + r.score, 0, of(name))]]]

-----------------------------------------------------------------------------
Init ==
    /\ family \in Families
    /\ text = <<>>
    /\ command = None
    /\ records = <<>>
    /\ statistics = None

\* The file holds one more character.
Write(c) ==
    /\ command = None
    /\ Len(text) < MaxLength
    /\ text' = Append(text, c)
    /\ UNCHANGED <<family, command, records, statistics>>

_benchmark_robustness_text(detector, profile, seed) ==
    /\ command = None
    /\ command' = [detector |-> detector, profile |-> profile, seed |-> seed]
    /\ records' = evaluate_robustness(text, detector, chosen(profile), seed)
    /\ statistics' = IF detector = "unicode" THEN compute_statistics(records') ELSE None
    /\ UNCHANGED <<family, text>>

Next ==
    \/ \E c \in family : Write(c)
    \/ \E detector \in Detectors, profile \in DOMAIN PROFILES \cup {None}, seed \in Seeds :
            _benchmark_robustness_text(detector, profile, seed)

Spec == Init /\ [][Next]_vars

-----------------------------------------------------------------------------
(* Properties *)

\* The transformations that move white space, cases and the space around punctuation.
TokenKeepers ==
    {"identity", "whitespace_normalization", "blank_line_normalize", "paragraph_reflow",
     "strip_blank_lines", "whitespace_collapse", "whitespace_expand", "double_spaces",
     "tab_space_normalize", "add_leading_trailing_whitespace", "lowercase", "uppercase",
     "title_case", "insert_formatting_boundaries", "remove_formatting_boundaries"}

\* The letters that a change of case spells with others: a sharp s in capitals, or at the
\* head of a title's word.
Respelled(name) ==
    {i \in DOMAIN text : /\ text[i] = "eszett"
                         /\ \/ name = "uppercase"
                            \/ name = "title_case" /\ (i = 1 \/ text[i - 1] \notin Letters)}

\* A transformation that moves white space, cases or boundaries leaves a detector over
\* the simple tokenizer exactly the tokens it had, so its score and verdict, unless it
\* spells a letter with others, and then it does not: any other flip in the robustness
\* report is never the harness's own doing. (Joining lines, Unicode forms and punctuation
\* are meant to change tokens, and do.)
VerdictKept ==
    command # None /\ command.detector = "simulated" =>
        \A i \in DOMAIN records :
            LET name == records[i].transform_name IN
            name \in TokenKeepers =>
                (records[i].score = encode(text, FALSE) <=> Respelled(name) = {})

\* No transformation brings an artefact into a text: none scores above the original, and
\* nothing is detected in any version of a text the detector finds clean.
NoNewArtefacts ==
    command # None /\ command.detector = "unicode" =>
        LET clean == analyze_unicode(text) = <<>> IN
        /\ \A name \in DOMAIN statistics.transforms :
              LET s == statistics.transforms[name] IN
              s.score <= s.total * Len(analyze_unicode(text))
        /\ clean => statistics.overall = 0
        /\ statistics.baseline_detected # None => statistics.baseline_detected = ~clean

\* The transformations whose names promise a normal form.
Normalizers ==
    {"whitespace_normalization", "whitespace_collapse", "blank_line_normalize",
     "paragraph_reflow", "strip_blank_lines", "tab_space_normalize", "lowercase", "uppercase",
     "title_case", "unicode_nfc", "unicode_nfd", "unicode_nfkd", "punctuation_normalization",
     "repeated_punctuation_normalize", "remove_formatting_boundaries"}

\* Normalizing a normalized text changes nothing, though the patterns are applied once
\* from left to right, and one after the other; and the two canonical forms agree.
NormalFormsAreStable ==
    /\ \A name \in Normalizers :
          LET once == apply(name, text, 0) IN apply(name, once, 0) = once
    /\ _unicode_nfc(_unicode_nfd(text)) = _unicode_nfc(text)
    /\ _unicode_nfd(_unicode_nfc(text)) = _unicode_nfd(text)

\* What the comment at advanced_transforms.py:143 says of a hyphenated line break: it
\* joins two halves of a word, so it leaves as many words as a space would, or one less.
HyphensJoinTwoLines ==
    LET words(t) == Len(SelectSeq(simple_tokenize(t), IsWord))
        breaks == Cardinality({i \in DOMAIN text : i > 1 /\ text[i] = "nl"
                                                    /\ text[i - 1] = "-"})
    IN  words(_line_wrap_normalize(text)) >= words(text) - breaks
=============================================================================
