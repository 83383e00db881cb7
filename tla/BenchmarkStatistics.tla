------------------------ MODULE BenchmarkStatistics ------------------------
(***************************************************************************)
(* The statistics of `provenance benchmark kgw` and `benchmark synthid`:   *)
(* rates at thresholds, the ROC curve and its area, and the report's       *)
(* tables. Scores and thresholds are integers; a rate is the pair of its   *)
(* hits and of what they are out of, so nothing is rounded before the code *)
(* rounds. A mean is the sum it divides.                                    *)
(***************************************************************************)
EXTENDS Integers, Sequences, SequencesExt, FiniteSetsExt, Functions

CONSTANTS
    None,
    ValueError,   \* what a Wilson interval raises
    Z2            \* bound: the square of the normal quantile, as an even integer

\* An exception is not a rate.
ASSUME StatisticsAssumption == ValueError \notin [successes : Nat, n_samples : Nat]

\* The sum of f over the members of a sequence, or of a part of one.
Total(s, f(_)) == SumFunction([i \in DOMAIN s |-> f(s[i])])

\* The interval of a proportion exists only for a number of successes out of n.
rate_estimate(successes, n) ==
    IF n > 0 /\ successes \notin 0..n THEN ValueError
    ELSE [successes |-> successes, n_samples |-> n]

\* Whether a/b lies between the ends: at most the margin away from the center. Both
\* sides are squared and multiplied by the denominators.
wilson_interval(rate, a, b) ==
    LET n == rate.n_samples
        s == rate.successes
        offset == a * (n + Z2) - b * s - b * (Z2 \div 2)
    IN  n * offset * offset <= b * b * Z2 * (s * (n - s) + (Z2 * n) \div 4)

-----------------------------------------------------------------------------
(* Rates and groups of records: [target_length, watermarked, score, detected] *)

_filter(records, watermarked, length) ==
    SelectSeq(records, LAMBDA r : /\ watermarked \in {None, r.watermarked}
                                  /\ length \in {None, r.target_length})

summarize_group(records, watermarked, length) ==
    LET group == _filter(records, watermarked, length)
        scores == {group[i].score : i \in DOMAIN group}
    IN  [n_samples |-> Len(group),
         score |-> Total(group, LAMBDA r : r.score),
         min_score |-> IF group = <<>> THEN 0 ELSE Min(scores),
         max_score |-> IF group = <<>> THEN 0 ELSE Max(scores),
         detected |-> Len(SelectSeq(group, LAMBDA r : r.detected))]

RateOf(records, watermarked, threshold) ==
    LET group == _filter(records, watermarked, None)
    IN  [hits |-> Len(SelectSeq(group, LAMBDA r : r.score >= threshold)), of |-> Len(group)]
true_positive_rate(records, threshold) == RateOf(records, TRUE, threshold)
false_positive_rate(records, threshold) == RateOf(records, FALSE, threshold)

threshold_analysis(records, thresholds, length) ==
    LET subset == _filter(records, None, length) IN
    [i \in DOMAIN thresholds |->
        [threshold |-> thresholds[i],
         tpr |-> true_positive_rate(subset, thresholds[i]),
         fpr |-> false_positive_rate(subset, thresholds[i]),
         n_watermarked |-> Len(_filter(subset, TRUE, None)),
         n_unwatermarked |-> Len(_filter(subset, FALSE, None))]]

\* The successes are recovered: the rate times the number of samples, rounded.
calibrated_threshold(point) ==
    LET Recovered(rate, n) ==
            IF rate.of = 0 THEN 0 ELSE (2 * rate.hits * n + rate.of) \div (2 * rate.of)
    IN  [threshold |-> point.threshold,
         tpr |-> rate_estimate(Recovered(point.tpr, point.n_watermarked), point.n_watermarked),
         fpr |-> rate_estimate(Recovered(point.fpr, point.n_unwatermarked),
                               point.n_unwatermarked)]

observed_lengths(records) ==
    SetToSortSeq({records[i].target_length : i \in DOMAIN records}, <)

length_effect(records) ==
    LET lengths == observed_lengths(records) IN
    [i \in DOMAIN lengths |->
        [target_length |-> lengths[i],
         watermarked |-> summarize_group(records, TRUE, lengths[i]),
         unwatermarked |-> summarize_group(records, FALSE, lengths[i])]]

-----------------------------------------------------------------------------
(* The ROC curve *)

_split_scores(records, length) ==
    LET scores(watermarked) ==
            LET group == _filter(records, watermarked, length)
            IN  [i \in DOMAIN group |-> group[i].score]
    IN  [wm |-> scores(TRUE), un |-> scores(FALSE)]

\* The area as a fraction of 2 * |wm| * |un|: a win counts two, a tie one.
roc_auc(records, length) ==
    LET split == _split_scores(records, length) IN
    IF split.wm = <<>> \/ split.un = <<>> THEN None
    ELSE Total(split.wm, LAMBDA a :
            Total(split.un, LAMBDA b : IF a > b THEN 2 ELSE IF a = b THEN 1 ELSE 0))

\* The points as hits in both conditions, from above every score down to the lowest.
roc_curve(records, length) ==
    LET split == _split_scores(records, length)
        thresholds == SetToSortSeq(ToSet(split.wm) \cup ToSet(split.un), >)
        Hits(scores, t) == Len(SelectSeq(scores, LAMBDA s : s >= t))
    IN  IF split.wm = <<>> \/ split.un = <<>> THEN <<>>
        ELSE <<[fpr |-> 0, tpr |-> 0]>> \o
             [i \in DOMAIN thresholds |-> [fpr |-> Hits(split.un, thresholds[i]),
                                           tpr |-> Hits(split.wm, thresholds[i])]]

roc_summary(records, length) ==
    [auc |-> roc_auc(records, length), points |-> roc_curve(records, length)]

-----------------------------------------------------------------------------
(* The report *)

Table(records, thresholds, length) ==
    LET points == threshold_analysis(records, thresholds, length) IN
    [target_length |-> length,
     watermarked |-> summarize_group(records, TRUE, length),
     unwatermarked |-> summarize_group(records, FALSE, length),
     thresholds |-> [i \in DOMAIN points |-> calibrated_threshold(points[i])],
     roc |-> roc_summary(records, length)]

build_report(records, thresholds) ==
    LET lengths == observed_lengths(records) IN
    [total |-> Len(records),
     watermarked |-> Len(_filter(records, TRUE, None)),
     by_length |-> [i \in DOMAIN lengths |-> Table(records, thresholds, lengths[i])],
     overall |-> Table(records, thresholds, None),
     length_effect |-> length_effect(records)]
=============================================================================
