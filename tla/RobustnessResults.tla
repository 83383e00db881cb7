------------------------- MODULE RobustnessResults -------------------------
(***************************************************************************)
(* What the robustness benchmark computes: the samples of a specification, *)
(* a record for each sample and transformation, the result lines that are  *)
(* stored for each transformation and length, and the reports made of the  *)
(* lines. Verdicts are TRUE, FALSE or None (too little text).              *)
(***************************************************************************)
EXTENDS BenchmarkStatistics

CONSTANTS
    Stride,      \* _SEED_LENGTH_STRIDE
    Profiles,    \* the transformations of each profile
    Baseline,    \* the names of the baseline transformations
    CategoryOf   \* the category of a transformation

\* The members of a sequence that pass a test, at their places, and how many do.
Those(s, Test(_)) == Restrict(s, {i \in DOMAIN s : Test(s[i])})
Count(s, Test(_)) == Cardinality(DOMAIN Those(s, Test))

-----------------------------------------------------------------------------
(* Samples and records *)

derive_seed(base_seed, length, index) == base_seed + length * Stride + index

generate_watermark_samples(spec) ==
    FlattenSeq([k \in DOMAIN spec.lengths |->
        [i \in 1..spec.samples |->
            [sample_seed |-> derive_seed(spec.seed, spec.lengths[k], i - 1),
             length |-> spec.lengths[k]]]])

\* Names that were given, or else those of the profile, or else the baseline.
resolve_experiment_transforms(spec) ==
    CASE spec.transforms # <<>> -> spec.transforms
      [] spec.transforms = <<>> /\ spec.profile # None -> Profiles[spec.profile]
      [] OTHER -> Baseline

\* original[s] is the verdict on sample s, after[s, name] the one on its transform.
evaluate_robustness_experiment(samples, names, original, after) ==
    FlattenSeq([i \in DOMAIN samples |->
        [j \in DOMAIN names |->
            [transform_name |-> names[j],
             original_detected |-> original[samples[i]],
             transformed_detected |-> after[samples[i], names[j]],
             detection_changed |->
                 (original[samples[i]] = TRUE) # (after[samples[i], names[j]] = TRUE),
             metadata |-> samples[i]]]])

-----------------------------------------------------------------------------
(* Stored lines *)

Original(r) == r.original_detected = TRUE
Transformed(r) == r.transformed_detected = TRUE

\* The robustness rate is taken over the samples that were detected before.
build_benchmark_result(spec, name, length, records) ==
    LET positive == Those(records, Original) IN
    [detector_name |-> spec.detector, config_identifier |-> spec.config,
     transform_name |-> name, text_length |-> length, sample_count |-> Cardinality(DOMAIN records),
     baseline_detected |-> Cardinality(DOMAIN positive),
     transformed_detected |-> Count(records, Transformed),
     detection_change_count |-> Count(records, LAMBDA r : r.detection_changed),
     robustness |-> IF DOMAIN positive # {}
                    THEN rate_estimate(Count(positive, Transformed),
                                       Cardinality(DOMAIN positive))
                    ELSE rate_estimate(0, Cardinality(DOMAIN records)),
     run_id |-> None]

\* A line for each name and length, sorted.
benchmark_results(spec, records) ==
    LET groups == {<<records[i].transform_name, records[i].metadata.length>> :
                        i \in DOMAIN records}
        lines == {build_benchmark_result(spec, g[1], g[2],
                        Those(records, LAMBDA r : /\ r.transform_name = g[1]
                                                  /\ r.metadata.length = g[2])) :
                        g \in groups}
    IN  SetToSeq(lines)

-----------------------------------------------------------------------------
(* The report printed with an experiment *)

compute_robustness_report(records) ==
    LET identity == Those(records, LAMBDA r : r.transform_name = "identity")
        others == Those(records, LAMBDA r : r.transform_name # "identity")
        positive == {identity[i].metadata :
                        i \in {k \in DOMAIN identity : Original(identity[k])}}
        matched == Those(others, LAMBDA r : r.metadata \in positive)
    IN  [baseline |-> rate_estimate(Count(identity, Original), Cardinality(DOMAIN identity)),
         transformed |-> rate_estimate(Count(others, Transformed), Cardinality(DOMAIN others)),
         robustness |-> rate_estimate(Count(matched, Transformed), Cardinality(DOMAIN matched)),
         per_transform |-> [x \in {records[i].transform_name : i \in DOMAIN records} |->
            LET own == Those(records, LAMBDA r : r.transform_name = x)
            IN  [hits |-> IF x = "identity" THEN Count(own, Original) ELSE Count(own, Transformed),
                 of |-> Cardinality(DOMAIN own)]]]

\* The ratio printed for a transformation: its rate over that of identity, pairing nothing.
render_robustness_report(report) ==
    LET rates == report.per_transform
        Ratio(rate, baseline) == [hits |-> rate.hits * baseline.of,
                                  of |-> rate.of * baseline.hits]
    IN  [report EXCEPT !.per_transform =
            [x \in DOMAIN rates \ {"identity"} |->
                IF "identity" \in DOMAIN rates /\ rates["identity"].hits > 0
                THEN Ratio(rates[x], rates["identity"])
                ELSE [hits |-> 0, of |-> 1]]]

-----------------------------------------------------------------------------
(* Reports made of stored lines *)

Least(m, n) == IF m <= n THEN m ELSE n
Samples(lines) == Total(lines, LAMBDA r : r.sample_count)
BaselineDetected(lines) == Total(lines, LAMBDA r : r.baseline_detected)
TransformedDetected(lines) == Total(lines, LAMBDA r : r.transformed_detected)

\* The lines of each value of a key.
GroupBy(lines, key(_)) ==
    [k \in {key(lines[i]) : i \in DOMAIN lines} |-> Those(lines, LAMBDA r : key(r) = k)]

\* Mutant: the ratio is taken without its bound.
MutRatioUnbounded(lines) ==
    LET b == BaselineDetected(lines) IN
    IF b > 0 THEN rate_estimate(TransformedDetected(lines), b)
    ELSE rate_estimate(0, Samples(lines))

\* Only counts survive, so the ratio may exceed one: it is bounded.
ClampedRate(lines) ==
    LET b == BaselineDetected(lines) IN
    IF b > 0 THEN rate_estimate(Least(TransformedDetected(lines), b), b)
    ELSE rate_estimate(0, Samples(lines))

\* The categories and the comparison take the same ratio, and out of nothing where the
\* baseline has no detection.
PreservedRate(lines) ==
    IF BaselineDetected(lines) > 0 THEN ClampedRate(lines) ELSE rate_estimate(0, 0)

Summary(lines, rate) ==
    [total_samples |-> Samples(lines),
     baseline |-> rate_estimate(BaselineDetected(lines), Samples(lines)),
     transformed |-> rate_estimate(TransformedDetected(lines), Samples(lines)),
     total_detection_changes |-> Total(lines, LAMBDA r : r.detection_change_count),
     robustness |-> rate]

aggregate_results(lines) ==
    LET groups == GroupBy(lines, LAMBDA r :
                        <<r.detector_name, r.config_identifier, r.transform_name>>)
    IN  [k \in DOMAIN groups |-> Summary(groups[k], ClampedRate(groups[k]))]

\* The cells' keys have no configuration: of several the last one stays.
build_robustness_matrix(aggregated) ==
    LET cells == {<<k[1], k[3]>> : k \in DOMAIN aggregated}
        LastConfig(cell) == Max({k[2] : k \in {x \in DOMAIN aggregated : <<x[1], x[3]>> = cell}})
    IN  [cell \in cells |-> aggregated[<<cell[1], LastConfig(cell), cell[2]>>]]

\* Only the dashboard passes the categories.
build_programmatic_report(lines) ==
    LET aggregated == aggregate_results(lines)
        categories == GroupBy(lines, LAMBDA r :
                        <<r.detector_name, r.config_identifier, CategoryOf[r.transform_name]>>)
    IN  [total_results |-> Len(lines), aggregated |-> aggregated,
         matrix |-> build_robustness_matrix(aggregated),
         category_aggregation |-> [k \in DOMAIN categories |->
            Summary(categories[k], PreservedRate(categories[k]))]]

\* Mutant: of the rows of one length the last one is kept.
MutKeepsLastOfLength(lines) ==
    LET View(key(_)) == LET groups == GroupBy(lines, key)
                        IN  [k \in DOMAIN groups |-> Summary(groups[k], PreservedRate(groups[k]))]
        lengths == GroupBy(lines, LAMBDA r : r.text_length)
    IN  [rows |-> [i \in DOMAIN lines |-> Summary(<<lines[i]>>, PreservedRate(<<lines[i]>>))],
         by_model |-> View(LAMBDA r : r.config_identifier),
         by_transform |-> View(LAMBDA r : r.transform_name),
         by_category |-> View(LAMBDA r : CategoryOf[r.transform_name]),
         by_length |-> [k \in DOMAIN lengths |->
                            LET kept == <<lengths[k][Max(DOMAIN lengths[k])]>>
                            IN  Summary(kept, PreservedRate(kept))]]

build_comparison_report(lines) ==
    LET View(key(_)) == LET groups == GroupBy(lines, key)
                        IN  [k \in DOMAIN groups |-> Summary(groups[k], PreservedRate(groups[k]))]
    IN  [rows |-> [i \in DOMAIN lines |-> Summary(<<lines[i]>>, PreservedRate(<<lines[i]>>))],
         by_model |-> View(LAMBDA r : r.config_identifier),
         by_transform |-> View(LAMBDA r : r.transform_name),
         by_category |-> View(LAMBDA r : CategoryOf[r.transform_name]),
         by_length |-> View(LAMBDA r : r.text_length)]
=============================================================================
