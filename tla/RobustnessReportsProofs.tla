---------------------- MODULE RobustnessReportsProofs ----------------------
(***************************************************************************)
(* For every specification, every verdict and every number of repetitions, *)
(* kills and readers: a run whose row is completed has all its results on  *)
(* disk, under its id; and a stored line is one of paired samples, whose   *)
(* rate the reports bound and the printed report repeats where it can; a   *)
(* report counts the samples asked for, and its groupings add up.          *)
(***************************************************************************)
EXTENDS RobustnessReports, FiniteSetTheorems, WellFoundedInduction, TLAPS

RunNames == ToSet(resolve_experiment_transforms(RunSpec))
RunLengths == ToSet(RunSpec.lengths)

\* Lines of every transformation and length of the run and of no other run.
Complete(lines) ==
    /\ \A i \in DOMAIN lines :
          /\ {"transform_name", "text_length", "run_id"} \subseteq DOMAIN lines[i]
          /\ lines[i].run_id \in {None, Run}
    /\ {<<lines[i].transform_name, lines[i].text_length>> : i \in DOMAIN lines}
          = RunNames \X RunLengths
HasId(lines) == \A i \in DOMAIN lines : lines[i].run_id = Run

IsFile(f) == f = [lines |-> f.lines, state |-> f.state]
FilesShaped ==
    /\ files = [p \in ToSet(Paths) |-> files[p]]
    /\ \A p \in ToSet(Paths) : IsFile(files[p])
WorkerShaped == worker = [pc |-> worker.pc, lines |-> worker.lines]

\* The worker has all lines until it has written them; from then on they are in the
\* file, which nobody else writes, with the run's id once it was stamped. Only a stamping
\* that failed or was killed can lose them.
Filed ==
    LET file == files[RunResults] IN
    /\ worker.pc \in {"evaluated", "results"} => Complete(worker.lines) /\ manifest # "completed"
    /\ worker.pc = "results" => file = [lines |-> worker.lines, state |-> "open"]
    /\ manifest = "completed" /\ ~stampFailed =>
          /\ Complete(file.lines)
          /\ file.state = IF worker.pc = "stamping" THEN "open" ELSE "whole"
          /\ worker.pc \in {"stamping", "stamped"} => HasId(file.lines)
    /\ row = "completed" =>
          /\ manifest = "completed" /\ worker.pc = "idle"
          /\ ~stampFailed => HasId(file.lines)

FileInv == FilesShaped /\ WorkerShaped /\ Filed

-----------------------------------------------------------------------------
(* Sequences of sequences *)

\* The order of the natural numbers is well founded as a set of pairs.
LessOnNat == {p \in Nat \X Nat : p[1] < p[2]}

LEMMA LessIsOrder == OpToRel(<, Nat) = LessOnNat
  BY Zenon DEF OpToRel, LessOnNat

\* Induction over the indices of a sequence: T is the set of those that have the property.
LEMMA AllIndices ==
    ASSUME NEW n \in Nat, NEW T \in SUBSET (1..n), n >= 1 => 1 \in T,
           \A m \in T : m < n => m + 1 \in T
    PROVE  T = 1..n
<1>. DEFINE Rest == (1..n) \ T
<1>. SUFFICES ASSUME Rest # {} PROVE FALSE
  OBVIOUS
<1>1. IsWellFoundedOn(LessOnNat, Nat)
  BY LessIsOrder, NatLessThanWellFounded, Zenon
<1>2. PICK x \in Rest : \A y \in Rest : ~(<<y, x>> \in LessOnNat)
  <2>1. Rest \subseteq Nat
    OBVIOUS
  <2>. QED  BY <1>1, <2>1, WFMin
<1>3. x \in 1..n /\ x # 1 /\ x - 1 \in 1..n
  BY <1>2
<1>4. x - 1 \notin Rest
  <2>1. x \in Nat /\ x - 1 \in Nat /\ x - 1 < x
    BY <1>3
  <2>2. <<x - 1, x>> \in LessOnNat
    BY <2>1 DEF LessOnNat
  <2>. QED  BY <1>2, <2>2, Zenon
<1>5. x - 1 < n /\ (x - 1) + 1 = x
  BY <1>3
<1>6. x - 1 \in T
  BY <1>3, <1>4
<1>7. (x - 1) + 1 \in T
  BY <1>5, <1>6
<1>. QED  BY <1>2, <1>5, <1>7

\* The recursive definition in FlattenSeq.
Flattens(seqs, n, g) == g = [i \in 1..n |-> IF i = 1 THEN seqs[i] ELSE g[i - 1] \o seqs[i]]

LEMMA FlattenExists ==
    ASSUME NEW n \in Nat, NEW seqs
    PROVE  \A m \in 1..n : \E g : Flattens(seqs, m, g)
<1>. DEFINE T == {m \in 1..n : \E g : Flattens(seqs, m, g)}
<1>1. n >= 1 => 1 \in T
  <2>1. Flattens(seqs, 1, [i \in 1..1 |-> seqs[1]])
    BY DEF Flattens
  <2>. QED  BY <2>1
<1>2. ASSUME NEW m \in T, m < n PROVE m + 1 \in T
  <2>1. PICK g : Flattens(seqs, m, g)
    OBVIOUS
  <2>. DEFINE h == [i \in 1..(m + 1) |-> IF i = m + 1 THEN g[m] \o seqs[i] ELSE g[i]]
  <2>0. m \in Nat /\ m \in 1..n /\ m >= 1 /\ m \in 1..m /\ m + 1 \in 1..n /\ m + 1 # 1
    BY <1>2
  <2>2. \A i \in 1..m : g[i] = IF i = 1 THEN seqs[i] ELSE g[i - 1] \o seqs[i]
    BY <2>1, Zenon DEF Flattens
  <2>3. \A i \in 1..(m + 1) : h[i] = IF i = 1 THEN seqs[i] ELSE h[i - 1] \o seqs[i]
    <3>. SUFFICES ASSUME NEW i \in 1..(m + 1)
                  PROVE  h[i] = IF i = 1 THEN seqs[i] ELSE h[i - 1] \o seqs[i]
      BY Zenon
    <3>1. CASE i = m + 1
      <4>1. i - 1 = m /\ i # 1 /\ m # m + 1 /\ m \in 1..(m + 1)
        BY <2>0, <3>1
      <4>2. h[i] = g[m] \o seqs[i] /\ h[m] = g[m]
        BY <3>1, <4>1, Zenon
      <4>. QED  BY <4>1, <4>2
    <3>2. CASE i # m + 1
      <4>1. i \in 1..m
        BY <2>0, <3>2
      <4>2. h[i] = g[i]
        BY <3>2, Zenon
      <4>3. i # 1 => i - 1 \in 1..(m + 1) /\ i - 1 # m + 1
        BY <2>0, <4>1
      <4>4. i # 1 => h[i - 1] = g[i - 1]
        BY <4>3, Zenon
      <4>. QED  BY <2>2, <4>1, <4>2, <4>4
    <3>. QED  BY <3>1, <3>2
  <2>4. h = [i \in 1..(m + 1) |-> h[i]]
    OBVIOUS
  <2>. HIDE DEF h
  <2>5. Flattens(seqs, m + 1, h)
    BY <2>3, <2>4 DEF Flattens
  <2>. QED  BY <2>0, <2>5, Zenon
<1>. HIDE DEF T
<1>3. T \in SUBSET (1..n)
  BY DEF T
<1>4. T = 1..n
  BY <1>1, <1>2, <1>3, AllIndices, Zenon
<1>. QED  BY <1>4 DEF T

\* FlattenSeq(seqs) is a sequence of the elements of the members of seqs, and of no others.
Elements(s) == {s[i] : i \in 1..Len(s)}

LEMMA ConcatElements ==
    ASSUME NEW S, NEW s \in Seq(S), NEW t \in Seq(S)
    PROVE  s \o t \in Seq(S) /\ Elements(s \o t) = Elements(s) \cup Elements(t)
<1>1. /\ s \o t \in Seq(S) /\ Len(s) \in Nat /\ Len(t) \in Nat
      /\ Len(s \o t) = Len(s) + Len(t)
      /\ \A i \in 1..(Len(s) + Len(t)) : (s \o t)[i] = IF i <= Len(s) THEN s[i] ELSE t[i - Len(s)]
  OBVIOUS
<1>2. ASSUME NEW i \in 1..Len(s \o t) PROVE (s \o t)[i] \in Elements(s) \cup Elements(t)
  <2>1. CASE i <= Len(s)
    BY <1>1, <2>1 DEF Elements
  <2>2. CASE ~(i <= Len(s))
    <3>1. i - Len(s) \in 1..Len(t)
      BY <1>1, <2>2
    <3>. QED  BY <1>1, <2>2, <3>1 DEF Elements
  <2>. QED  BY <2>1, <2>2
<1>3. ASSUME NEW i \in 1..Len(s) PROVE s[i] \in Elements(s \o t)
  <2>1. i \in 1..Len(s \o t) /\ (s \o t)[i] = s[i]
    BY <1>1
  <2>. QED  BY <2>1 DEF Elements
<1>4. ASSUME NEW i \in 1..Len(t) PROVE t[i] \in Elements(s \o t)
  <2>1. i + Len(s) \in 1..Len(s \o t) /\ (s \o t)[i + Len(s)] = t[i]
    BY <1>1
  <2>. QED  BY <2>1 DEF Elements
<1>. QED  BY <1>1, <1>2, <1>3, <1>4 DEF Elements

LEMMA FlattenElements ==
    ASSUME NEW S, NEW n \in Nat, NEW seqs \in [1..n -> Seq(S)]
    PROVE  /\ FlattenSeq(seqs) \in Seq(S)
           /\ Elements(FlattenSeq(seqs)) = UNION {Elements(seqs[k]) : k \in 1..n}
<1>0. Len(seqs) = n
  OBVIOUS
<1>1. CASE n = 0
  <2>1. FlattenSeq(seqs) = seqs /\ seqs = <<>>
    BY <1>0, <1>1 DEF FlattenSeq
  <2>. QED  BY <1>1, <2>1 DEF Elements
<1>2. CASE n # 0
  <2>1. PICK g : Flattens(seqs, n, g) /\ FlattenSeq(seqs) = g[n]
    <3>0. n \in 1..n
      BY <1>2
    <3>1. \E g : Flattens(seqs, n, g)
      BY <3>0, FlattenExists, Zenon
    <3>2. Flattens(seqs, n, CHOOSE g : Flattens(seqs, n, g))
      BY <3>1, Zenon
    <3>3. FlattenSeq(seqs) = (CHOOSE g : Flattens(seqs, n, g))[n]
      BY <1>0, <1>2 DEF FlattenSeq, Flattens
    <3>. QED  BY <3>2, <3>3
  <2>2. /\ g[1] = seqs[1]
        /\ \A i \in 1..n : i < n => g[i + 1] = g[i] \o seqs[i + 1]
    <3>1. \A i \in 1..n : g[i] = IF i = 1 THEN seqs[i] ELSE g[i - 1] \o seqs[i]
      BY <2>1, Zenon DEF Flattens
    <3>2. 1 \in 1..n /\ \A i \in 1..n : i < n =>
            i + 1 \in 1..n /\ i + 1 # 1 /\ (i + 1) - 1 = i
      BY <1>2
    <3>. QED  BY <3>1, <3>2
  <2>. DEFINE Upto(m) == UNION {Elements(seqs[k]) : k \in 1..m}
              T == {m \in 1..n : g[m] \in Seq(S) /\ Elements(g[m]) = Upto(m)}
  <2>3. 1 \in T
    <3>1. 1 \in 1..n /\ 1..1 = {1}
      BY <1>2
    <3>2. g[1] \in Seq(S) /\ Upto(1) = Elements(seqs[1])
      BY <2>2, <3>1
    <3>. QED  BY <2>2, <3>1, <3>2
  <2>4. ASSUME NEW m \in T, m < n PROVE m + 1 \in T
    <3>0. m \in 1..n /\ m + 1 \in 1..n
      BY <2>4
    <3>1. seqs[m + 1] \in Seq(S) /\ g[m + 1] = g[m] \o seqs[m + 1]
      BY <2>2, <2>4, <3>0
    <3>2. g[m + 1] \in Seq(S) /\ Elements(g[m + 1]) = Upto(m) \cup Elements(seqs[m + 1])
      BY <3>1, ConcatElements
    <3>3. 1..(m + 1) = (1..m) \cup {m + 1}
      OBVIOUS
    <3>4. Upto(m + 1) = Upto(m) \cup Elements(seqs[m + 1])
      BY <3>3
    <3>. QED  BY <3>0, <3>2, <3>4
  <2>5. T \in SUBSET (1..n)
    OBVIOUS
  <2>. HIDE DEF T
  <2>6. T = 1..n
    BY <2>3, <2>4, <2>5, AllIndices
  <2>. USE DEF T
  <2>7. n \in 1..n
    BY <1>2
  <2>. QED  BY <2>1, <2>6, <2>7
<1>. QED  BY <1>1, <1>2

\* SetToSeq lists a finite set without repetition, and completely.
LEMMA SetToSeqElements ==
    ASSUME NEW S, IsFiniteSet(S)
    PROVE  LET s == SetToSeq(S)
           IN  /\ s \in Seq(S) /\ {s[i] : i \in DOMAIN s} = S
               /\ \A i, j \in DOMAIN s : i # j => s[i] # s[j]
<1>. DEFINE n == Cardinality(S)
            Lists(f) == f \in [1..n -> S] /\ IsInjective(f)
<1>1. n \in Nat /\ ExistsBijection(1..n, S)
  BY FS_CardinalityType, Zenon
<1>2. PICK f : f \in Bijection(1..n, S)
  BY <1>1 DEF ExistsBijection
<1>3. Lists(f)
  BY <1>2 DEF Bijection, Injection, IsInjective
<1>4. Lists(SetToSeq(S))
  <2>1. Lists(CHOOSE g \in [1..n -> S] : IsInjective(g))
    BY <1>3
  <2>. QED  BY <2>1 DEF SetToSeq
<1>. DEFINE s == SetToSeq(S)
<1>. HIDE DEF s
<1>5. s \in Injection(1..n, S)
  BY <1>4 DEF s, Injection, IsInjective
<1>6. Cardinality(1..n) = n
  BY <1>1, FS_Interval
<1>7. s \in Surjection(1..n, S)
  BY <1>5, <1>6, FS_Injection
<1>8. {s[i] : i \in DOMAIN s} = S
  BY <1>7 DEF Surjection
<1>9. s \in Seq(S) /\ \A i, j \in DOMAIN s : i # j => s[i] # s[j]
  BY <1>1, <1>5 DEF Injection, IsInjective
<1>. QED  BY <1>8, <1>9 DEF s

-----------------------------------------------------------------------------
(* The results of an experiment *)

\* A sequence of rows of one width, flattened, has the entries of the rows.
LEMMA RowsElements ==
    ASSUME NEW S, NEW n \in Nat, NEW m \in Nat, NEW rows \in [1..n -> [1..m -> S]]
    PROVE  /\ FlattenSeq(rows) \in Seq(S)
           /\ \A x \in ToSet(FlattenSeq(rows)) : \E k \in 1..n, i \in 1..m : x = rows[k][i]
           /\ \A k \in 1..n, i \in 1..m : rows[k][i] \in ToSet(FlattenSeq(rows))
<1>1. ASSUME NEW k \in 1..n
      PROVE  rows[k] \in Seq(S) /\ Elements(rows[k]) = {rows[k][i] : i \in 1..m}
  <2>1. rows[k] \in [1..m -> S]
    OBVIOUS
  <2>2. rows[k] \in Seq(S) /\ Len(rows[k]) = m
    BY <2>1
  <2>. QED  BY <2>2 DEF Elements
<1>2. rows \in [1..n -> Seq(S)]
  BY <1>1
<1>. DEFINE flat == FlattenSeq(rows)
<1>3. flat \in Seq(S) /\ Elements(flat) = UNION {Elements(rows[k]) : k \in 1..n}
  BY <1>2, FlattenElements, Zenon
<1>. HIDE DEF flat
<1>4. ToSet(flat) = Elements(flat)
  BY <1>3 DEF ToSet, Elements
<1>5. \A x : x \in ToSet(flat) <=> \E k \in 1..n, i \in 1..m : x = rows[k][i]
  BY <1>1, <1>3, <1>4
<1>. QED  BY <1>3, <1>5 DEF flat

\* The specifications, the names that they test and the lengths of their samples.
Specs == {CliSpec, RunSpec}
Names(spec) == ToSet(resolve_experiment_transforms(spec))
SamplesOf(spec) == ToSet(generate_watermark_samples(spec))

LEMMA SpecTypes ==
    ASSUME NEW spec \in Specs
    PROVE  /\ spec.samples \in Nat /\ spec.samples >= 1
           /\ spec.lengths \in Seq(Nat) /\ spec.lengths # <<>>
           /\ resolve_experiment_transforms(spec) \in Seq(DOMAIN CategoryOf)
           /\ spec.config \in Nat
<1>. DEFINE names(x) == resolve_experiment_transforms(x)
<1>. HIDE DEF names
<1>1. \A x \in {CliSpec, RunSpec} :
          /\ x.config \in Nat
          /\ x.samples \in Nat \ {0} /\ x.lengths \in Seq(Nat) \ {<<>>}
          /\ names(x) \in Seq(DOMAIN CategoryOf)
  BY ReportsAssumption DEF names
<1>2. /\ spec.config \in Nat
      /\ spec.samples \in Nat \ {0} /\ spec.lengths \in Seq(Nat) \ {<<>>}
      /\ names(spec) \in Seq(DOMAIN CategoryOf)
  BY <1>1, Zenon DEF Specs
<1>3. spec.samples \in Nat /\ spec.samples >= 1
  BY <1>2
<1>. QED  BY <1>2, <1>3 DEF names

\* The lengths of the samples are those of the specification.
LEMMA SampleLengths ==
    ASSUME NEW spec \in Specs
    PROVE  LET samples == generate_watermark_samples(spec)
           IN  /\ samples \in Seq(ToSet(samples))
               /\ {samples[i].length : i \in DOMAIN samples} = ToSet(spec.lengths)
<1>. DEFINE n == Len(spec.lengths)
            m == spec.samples
            sample(k, i) == [sample_seed |-> derive_seed(spec.seed, spec.lengths[k], i - 1),
                             length |-> spec.lengths[k]]
            S == UNION {{sample(k, i) : i \in 1..m} : k \in 1..n}
            rows == [k \in 1..n |-> [i \in 1..m |-> sample(k, i)]]
            samples == generate_watermark_samples(spec)
<1>1. m \in Nat /\ m >= 1 /\ n \in Nat /\ DOMAIN spec.lengths = 1..n
  BY SpecTypes
<1>2. samples = FlattenSeq(rows)
  BY <1>1 DEF generate_watermark_samples
<1>3. \A k \in 1..n, i \in 1..m : sample(k, i) \in S /\ sample(k, i).length = spec.lengths[k]
  <2>1. \A k \in 1..n, i \in 1..m : sample(k, i) \in S
    <3>. HIDE DEF sample
    <3>. QED  OBVIOUS
  <2>. QED  BY <2>1
<1>4. rows \in [1..n -> [1..m -> S]] /\ \A k \in 1..n, i \in 1..m : rows[k][i] = sample(k, i)
  <2>. HIDE DEF sample, S
  <2>. QED  BY <1>3
<1>. HIDE DEF sample, S, rows, samples, n, m
<1>5. /\ samples \in Seq(S)
      /\ \A x \in ToSet(samples) : \E k \in 1..n, i \in 1..m : x = rows[k][i]
      /\ \A k \in 1..n, i \in 1..m : rows[k][i] \in ToSet(samples)
  <2>1. LET flat == FlattenSeq(rows)
        IN  /\ flat \in Seq(S)
            /\ \A x \in ToSet(flat) : \E k \in 1..n, i \in 1..m : x = rows[k][i]
            /\ \A k \in 1..n, i \in 1..m : rows[k][i] \in ToSet(flat)
    BY <1>1, <1>4, RowsElements, Zenon
  <2>. QED  BY <1>2, <2>1, Zenon
<1>6. samples \in Seq(ToSet(samples))
  BY <1>5 DEF ToSet
<1>7. {samples[i].length : i \in DOMAIN samples} = {x.length : x \in ToSet(samples)}
  BY DEF ToSet
<1>8. {x.length : x \in ToSet(samples)} = {spec.lengths[k] : k \in 1..n}
  <2>1. 1 \in 1..m
    BY <1>1
  <2>. QED  BY <1>3, <1>4, <1>5, <2>1
<1>9. ToSet(spec.lengths) = {spec.lengths[k] : k \in 1..n}
  BY <1>1 DEF ToSet
<1>. QED  BY <1>6, <1>7, <1>8, <1>9 DEF samples

\* The record of a sample under the transformation of a name.
RecordOf(outcome, sample, name) ==
    [transform_name |-> name,
     original_detected |-> outcome.original[sample],
     transformed_detected |-> outcome.after[sample, name],
     detection_changed |->
         (outcome.original[sample] = TRUE) # (outcome.after[sample, name] = TRUE),
     metadata |-> sample]

\* The records are those of every sample under every name, and no others.
LEMMA RecordsMade ==
    ASSUME NEW spec \in Specs, NEW outcome
    PROVE  LET records == Evaluated(spec, outcome)
           IN  /\ records \in Seq(ToSet(records))
               /\ ToSet(records)
                    = {RecordOf(outcome, x[1], x[2]) : x \in SamplesOf(spec) \X Names(spec)}
<1>. DEFINE samples == generate_watermark_samples(spec)
            names == resolve_experiment_transforms(spec)
            record(i, j) == RecordOf(outcome, samples[i], names[j])
            n == Len(samples)
            m == Len(names)
            S == UNION {{record(i, j) : j \in 1..m} : i \in 1..n}
            rows == [i \in 1..n |-> [j \in 1..m |-> record(i, j)]]
            records == Evaluated(spec, outcome)
<1>1. n \in Nat /\ DOMAIN samples = 1..n /\ SamplesOf(spec) = {samples[i] : i \in 1..n}
  <2>. HIDE DEF samples
  <2>1. samples \in Seq(ToSet(samples))
    BY SampleLengths, Zenon DEF samples
  <2>2. n \in Nat /\ DOMAIN samples = 1..n
    BY <2>1
  <2>. QED  BY <2>2 DEF SamplesOf, ToSet, samples
<1>2. m \in Nat /\ DOMAIN names = 1..m /\ Names(spec) = {names[j] : j \in 1..m}
  <2>. HIDE DEF names
  <2>1. names \in Seq(DOMAIN CategoryOf)
    BY SpecTypes, Zenon DEF names
  <2>2. m \in Nat /\ DOMAIN names = 1..m
    BY <2>1
  <2>. QED  BY <2>2 DEF Names, ToSet, names
<1>3. records = FlattenSeq(rows)
  <2>. QED  BY <1>1, <1>2, Zenon DEF Evaluated, evaluate_robustness_experiment, RecordOf
<1>. HIDE DEF samples, names, records, n, m, record
<1>4. \A i \in 1..n, j \in 1..m : record(i, j) \in S
  OBVIOUS
<1>5. rows \in [1..n -> [1..m -> S]] /\ \A i \in 1..n, j \in 1..m : rows[i][j] = record(i, j)
  <2>. HIDE DEF S
  <2>. QED  BY <1>4
<1>. HIDE DEF S, rows
<1>6. /\ records \in Seq(S)
      /\ \A r \in ToSet(records) : \E i \in 1..n, j \in 1..m : r = rows[i][j]
      /\ \A i \in 1..n, j \in 1..m : rows[i][j] \in ToSet(records)
  <2>1. LET flat == FlattenSeq(rows)
        IN  /\ flat \in Seq(S)
            /\ \A x \in ToSet(flat) : \E i \in 1..n, j \in 1..m : x = rows[i][j]
            /\ \A i \in 1..n, j \in 1..m : rows[i][j] \in ToSet(flat)
    BY <1>1, <1>2, <1>5, RowsElements, Zenon
  <2>. QED  BY <1>3, <2>1, Zenon
<1>7. records \in Seq(ToSet(records))
  BY <1>6 DEF ToSet
<1>8. \A r : r \in ToSet(records) <=> \E i \in 1..n, j \in 1..m : r = record(i, j)
  BY <1>5, <1>6
<1>9. ASSUME NEW i \in 1..n, NEW j \in 1..m
      PROVE  \E x \in SamplesOf(spec) \X Names(spec) :
                record(i, j) = RecordOf(outcome, x[1], x[2])
  <2>1. <<samples[i], names[j]>> \in SamplesOf(spec) \X Names(spec)
    BY <1>1, <1>2
  <2>2. record(i, j) = RecordOf(outcome, <<samples[i], names[j]>>[1], <<samples[i], names[j]>>[2])
    BY DEF record
  <2>. QED  BY <2>1, <2>2, Zenon
<1>10. ASSUME NEW x \in SamplesOf(spec) \X Names(spec)
       PROVE  \E i \in 1..n, j \in 1..m : RecordOf(outcome, x[1], x[2]) = record(i, j)
  <2>1. x[1] \in SamplesOf(spec) /\ x[2] \in Names(spec)
    OBVIOUS
  <2>2. PICK i \in 1..n, j \in 1..m : x[1] = samples[i] /\ x[2] = names[j]
    BY <1>1, <1>2, <2>1
  <2>. QED  BY <2>2 DEF record
<1>11. ToSet(records) = {RecordOf(outcome, x[1], x[2]) : x \in SamplesOf(spec) \X Names(spec)}
  BY <1>8, <1>9, <1>10
<1>. QED  BY <1>7, <1>11 DEF records

Groups(records) == {<<records[i].transform_name, records[i].metadata.length>> :
                        i \in DOMAIN records}

\* The records are of every transformation and every length.
LEMMA RecordsComplete ==
    ASSUME NEW outcome
    PROVE  Groups(Evaluated(RunSpec, outcome)) = RunNames \X RunLengths
<1>. DEFINE samples == generate_watermark_samples(RunSpec)
            records == Evaluated(RunSpec, outcome)
            record(s, x) == RecordOf(outcome, s, x)
<1>1. RunLengths = {s.length : s \in SamplesOf(RunSpec)}
  <2>. HIDE DEF samples
  <2>1. {samples[i].length : i \in DOMAIN samples} = ToSet(RunSpec.lengths)
    BY SampleLengths, Zenon DEF samples, Specs
  <2>2. {samples[i].length : i \in DOMAIN samples} = {s.length : s \in ToSet(samples)}
    BY DEF ToSet
  <2>. QED  BY <2>1, <2>2 DEF RunLengths, SamplesOf, samples
<1>2. ToSet(records) = {record(x[1], x[2]) : x \in SamplesOf(RunSpec) \X RunNames}
  BY RecordsMade, Zenon DEF Specs, RunNames, Names
<1>3. \A s, x : record(s, x).transform_name = x /\ record(s, x).metadata = s
  BY DEF RecordOf
<1>. HIDE DEF record, records, samples
<1>4. Groups(records) = {<<r.transform_name, r.metadata.length>> : r \in ToSet(records)}
  BY DEF Groups, ToSet
<1>5. ASSUME NEW r \in ToSet(records)
      PROVE  <<r.transform_name, r.metadata.length>> \in RunNames \X RunLengths
  BY <1>1, <1>2, <1>3
<1>6. ASSUME NEW name \in RunNames, NEW length \in RunLengths
      PROVE  \E r \in ToSet(records) : r.transform_name = name /\ r.metadata.length = length
  <2>1. PICK s \in SamplesOf(RunSpec) : s.length = length
    BY <1>1
  <2>2. <<s, name>> \in SamplesOf(RunSpec) \X RunNames
    OBVIOUS
  <2>3. record(s, name) \in ToSet(records)
    BY <1>2, <2>2
  <2>. QED  BY <1>3, <2>1, <2>3
<1>. QED  BY <1>4, <1>5, <1>6 DEF records

LEMMA BuiltLine ==
    ASSUME NEW spec, NEW name, NEW length, NEW records
    PROVE  LET line == build_benchmark_result(spec, name, length, records)
           IN  /\ {"transform_name", "text_length", "run_id"} \subseteq DOMAIN line
               /\ line.transform_name = name /\ line.text_length = length
               /\ line.run_id = None /\ line.config_identifier = spec.config
               /\ line.sample_count = Cardinality(DOMAIN records)
  BY DEF build_benchmark_result

\* What a run writes is complete, whatever its detector says.
LEMMA ResultsComplete ==
    ASSUME NEW outcome
    PROVE  Complete(benchmark_results(RunSpec, Evaluated(RunSpec, outcome)))
<1>. DEFINE records == Evaluated(RunSpec, outcome)
            Chosen(g) == Those(records, LAMBDA r : /\ r.transform_name = g[1]
                                                   /\ r.metadata.length = g[2])
            Line(g) == build_benchmark_result(RunSpec, g[1], g[2], Chosen(g))
            groups == RunNames \X RunLengths
            S == {Line(g) : g \in groups}
            results == benchmark_results(RunSpec, records)
<1>1. results = SetToSeq(S)
  <2>1. Groups(records) = groups
    BY RecordsComplete
  <2>2. results = SetToSeq({Line(g) : g \in Groups(records)})
    BY Zenon DEF benchmark_results, Groups
  <2>. HIDE DEF Line, groups, records, results
  <2>. QED  BY <2>1, <2>2
<1>2. \A g : /\ {"transform_name", "text_length", "run_id"} \subseteq DOMAIN Line(g)
             /\ Line(g).transform_name = g[1] /\ Line(g).text_length = g[2]
             /\ Line(g).run_id = None
  <2>. HIDE DEF Chosen
  <2>. QED  BY BuiltLine
<1>. HIDE DEF Line, records, results
<1>3. IsFiniteSet(groups)
  <2>1. ASSUME NEW X, NEW s \in Seq(X) PROVE IsFiniteSet(ToSet(s))
    <3>1. IsFiniteSet(1..Len(s))
      BY FS_Interval
    <3>2. [i \in 1..Len(s) |-> s[i]] \in Surjection(1..Len(s), ToSet(s))
      BY DEF Surjection, ToSet
    <3>. QED  BY <3>1, <3>2, FS_Surjection, Zenon
  <2>2. IsFiniteSet(RunNames) /\ IsFiniteSet(RunLengths)
    BY <2>1, SpecTypes, Zenon DEF RunNames, RunLengths, Specs
  <2>. QED  BY <2>2, FS_Product, Zenon
<1>4. IsFiniteSet(S)
  <2>1. [g \in groups |-> Line(g)] \in Surjection(groups, S)
    <3>. HIDE DEF groups
    <3>. QED  BY DEF Surjection
  <2>. QED  BY <1>3, <2>1, FS_Surjection, Zenon
<1>. HIDE DEF S
<1>5. {results[i] : i \in DOMAIN results} = S
  BY <1>1, <1>4, SetToSeqElements
<1>6. \A i \in DOMAIN results : \E g \in groups : results[i] = Line(g)
  BY <1>5 DEF S
<1>7. \A g \in groups : \E i \in DOMAIN results : results[i] = Line(g)
  BY <1>5 DEF S
<1>8. \A g \in groups : g = <<g[1], g[2]>>
  OBVIOUS
<1>. HIDE DEF groups
<1>9. {<<results[i].transform_name, results[i].text_length>> : i \in DOMAIN results} = groups
  BY <1>2, <1>6, <1>7, <1>8
<1>10. \A i \in DOMAIN results :
          /\ {"transform_name", "text_length", "run_id"} \subseteq DOMAIN results[i]
          /\ results[i].run_id = None
  BY <1>2, <1>6
<1>. QED  BY <1>9, <1>10 DEF Complete, results, records, groups

\* Stamping keeps what a line is of, and gives it the run's id.
LEMMA StampedComplete ==
    ASSUME NEW lines, Complete(lines)
    PROVE  Complete(Stamped(lines)) /\ HasId(Stamped(lines))
<1>. DEFINE stamped == Stamped(lines)
<1>1. DOMAIN stamped = DOMAIN lines
  BY DEF Stamped
<1>2. \A i \in DOMAIN lines :
        /\ {"transform_name", "text_length", "run_id"} \subseteq DOMAIN lines[i]
        /\ lines[i].run_id \in {None, Run}
  BY DEF Complete
<1>3. ASSUME NEW i \in DOMAIN lines
      PROVE  /\ {"transform_name", "text_length", "run_id"} \subseteq DOMAIN stamped[i]
             /\ stamped[i].run_id = Run
             /\ stamped[i].transform_name = lines[i].transform_name
             /\ stamped[i].text_length = lines[i].text_length
  <2>1. stamped[i] = [lines[i] EXCEPT !.run_id = IF @ = None THEN Run ELSE @]
    BY DEF Stamped
  <2>. HIDE DEF stamped
  <2>. QED  BY <1>2, <2>1
<1>. HIDE DEF stamped
<1>4. {<<stamped[i].transform_name, stamped[i].text_length>> : i \in DOMAIN stamped}
        = {<<lines[i].transform_name, lines[i].text_length>> : i \in DOMAIN lines}
  BY <1>1, <1>3
<1>. QED  BY <1>1, <1>3, <1>4 DEF Complete, HasId, stamped
-----------------------------------------------------------------------------
(* The steps *)

\* A file is written without another one being touched.
LEMMA WriteOf ==
    ASSUME NEW path \in ToSet(Paths), NEW f, IsFile(f), FilesShaped,
           files' = [files EXCEPT ![path] = f]
    PROVE  /\ FilesShaped' /\ files'[path] = f
           /\ \A p \in ToSet(Paths) : p # path => files'[p] = files[p]
<1>1. DOMAIN files = ToSet(Paths) /\ \A p \in ToSet(Paths) : IsFile(files[p])
  BY DEF FilesShaped
<1>2. files' = [p \in ToSet(Paths) |-> IF p = path THEN f ELSE files[p]]
  BY <1>1
<1>. QED  BY <1>1, <1>2 DEF FilesShaped, IsFile

LEMMA Opened ==
    ASSUME NEW path \in ToSet(Paths), NEW lines, FilesShaped, OpenForWriting(path, lines)
    PROVE  /\ FilesShaped' /\ files'[path] = [lines |-> lines, state |-> "open"]
           /\ \A p \in ToSet(Paths) : p # path => files'[p] = files[p]
  BY WriteOf DEF OpenForWriting, IsFile

LEMMA Closed ==
    ASSUME NEW path \in ToSet(Paths), FilesShaped, Close(path)
    PROVE  /\ FilesShaped'
           /\ files'[path] = [lines |-> files[path].lines, state |-> "whole"]
           /\ \A p \in ToSet(Paths) : p # path => files'[p] = files[p]
<1>. DEFINE f == [lines |-> files[path].lines, state |-> "whole"]
<1>1. files[path] = [lines |-> files[path].lines, state |-> files[path].state]
  BY DEF FilesShaped, IsFile
<1>2. [files[path] EXCEPT !.state = "whole"] = f
  BY <1>1
<1>3. files' = [files EXCEPT ![path] = f]
  BY <1>2 DEF Close
<1>. QED  BY <1>3, WriteOf DEF IsFile

LEMMA Killed ==
    ASSUME NEW path \in ToSet(Paths), FilesShaped, CutShort(path)
    PROVE  FilesShaped' /\ \A p \in ToSet(Paths) : p # path => files'[p] = files[p]
<1>1. PICK kept \in Prefixes(files[path].lines), state \in {"whole", "torn"} :
          files' = [files EXCEPT ![path] = [lines |-> kept, state |-> state]]
  BY Zenon DEF CutShort
<1>. QED  BY <1>1, WriteOf DEF IsFile

LEMMA ThreePaths ==
    /\ CliResults \in ToSet(Paths) /\ CliRecords \in ToSet(Paths)
    /\ RunResults \in ToSet(Paths)
    /\ CliResults # RunResults /\ CliRecords # RunResults
<1>1. Paths = <<CliResults, CliRecords, RunResults>> /\ DOMAIN Paths = 1..3
  BY DEF Paths, CliResults, CliRecords, RunResults
<1>2. 1 \in 1..3 /\ 2 \in 1..3 /\ 3 \in 1..3
  OBVIOUS
<1>. QED  BY <1>1, <1>2 DEF ToSet, Paths, CliResults, CliRecords, RunResults

LEMMA InitFiled == Init => FileInv
<1>. SUFFICES ASSUME Init PROVE FileInv
  OBVIOUS
<1>1. FilesShaped /\ WorkerShaped
  BY DEF Init, FilesShaped, WorkerShaped, IsFile, Absent
<1>2. Filed
  BY DEF Init, Filed
<1>. QED  BY <1>1, <1>2 DEF FileInv

\* What the run's file, its row and its worker have nothing to do with.
LEMMA RunUntouched ==
    ASSUME FileInv, FilesShaped', files'[RunResults] = files[RunResults],
           UNCHANGED <<worker, manifest, row, stampFailed>>
    PROVE  FileInv'
  BY DEF FileInv, Filed, WorkerShaped

LEMMA CliFiled ==
    ASSUME FileInv, CliFrame,
           \/ UNCHANGED files
           \/ \E path \in {CliResults, CliRecords} :
                \/ \E lines : OpenForWriting(path, lines)
                \/ Close(path)
                \/ CutShort(path)
    PROVE  FileInv'
<1>0. FilesShaped
  BY DEF FileInv
<1>1. CASE UNCHANGED files
  <2>1. FilesShaped'
    BY <1>0, <1>1 DEF FilesShaped
  <2>. QED  BY <1>1, <2>1, RunUntouched DEF CliFrame
<1>2. ASSUME NEW path \in {CliResults, CliRecords},
             \/ \E lines : OpenForWriting(path, lines)
             \/ Close(path)
             \/ CutShort(path)
      PROVE  FileInv'
  <2>1. path \in ToSet(Paths) /\ RunResults \in ToSet(Paths) /\ path # RunResults
    BY ThreePaths
  <2>2. FilesShaped' /\ files'[RunResults] = files[RunResults]
    <3>1. CASE \E lines : OpenForWriting(path, lines)
      BY <1>0, <2>1, <3>1, Opened
    <3>2. CASE Close(path)
      BY <1>0, <2>1, <3>2, Closed
    <3>3. CASE CutShort(path)
      BY <1>0, <2>1, <3>3, Killed
    <3>. QED  BY <1>2, <3>1, <3>2, <3>3
  <2>. QED  BY <2>2, RunUntouched DEF CliFrame
<1>. QED  BY <1>1, <1>2

LEMMA ExecuteFiled ==
    ASSUME FileInv, NEW outcome, _execute_run(outcome)
    PROVE  FileInv'
<1>1. FilesShaped' /\ files' = files /\ stampFailed' = stampFailed
  BY DEF FileInv, FilesShaped, _execute_run
<1>2. CASE manifest = "completed"
  <2>1. worker' = [pc |-> "stamp", lines |-> <<>>] /\ manifest' = manifest
    BY <1>2 DEF _execute_run
  <2>2. row' = "running" /\ worker.pc = "idle"
    BY DEF _execute_run
  <2>3. WorkerShaped'
    BY <2>1 DEF WorkerShaped
  <2>4. Filed'
    BY <1>1, <1>2, <2>1, <2>2 DEF FileInv, Filed
  <2>. QED  BY <1>1, <2>3, <2>4 DEF FileInv
<1>3. CASE manifest # "completed"
  <2>. DEFINE results == benchmark_results(RunSpec, Evaluated(RunSpec, outcome))
  <2>1. worker' = [pc |-> "evaluated", lines |-> results] /\ manifest' = "running"
    BY <1>3, Zenon DEF _execute_run
  <2>2. row' = "running"
    BY DEF _execute_run
  <2>3. Complete(results)
    BY ResultsComplete, Zenon
  <2>. HIDE DEF results
  <2>4. WorkerShaped'
    BY <2>1 DEF WorkerShaped
  <2>5. Filed'
    BY <2>1, <2>2, <2>3 DEF Filed
  <2>. QED  BY <1>1, <2>4, <2>5 DEF FileInv
<1>. QED  BY <1>2, <1>3

LEMMA PlanFiled ==
    ASSUME FileInv, run_plan_experiment
    PROVE  FileInv'
<1>0. FilesShaped /\ WorkerShaped /\ Filed /\ RunResults \in ToSet(Paths)
  BY ThreePaths DEF FileInv
<1>1. row' = row /\ stampFailed' = stampFailed
  BY DEF run_plan_experiment
<1>2. CASE /\ worker.pc = "evaluated"
           /\ OpenForWriting(RunResults, worker.lines)
           /\ worker' = [worker EXCEPT !.pc = "results"]
           /\ UNCHANGED manifest
  <2>1. FilesShaped' /\ files'[RunResults] = [lines |-> worker.lines, state |-> "open"]
    BY <1>0, <1>2, Opened
  <2>2. worker' = [pc |-> "results", lines |-> worker.lines]
    BY <1>0, <1>2 DEF WorkerShaped
  <2>3. WorkerShaped'
    BY <2>2 DEF WorkerShaped
  <2>4. Filed'
    BY <1>0, <1>1, <1>2, <2>1, <2>2 DEF Filed
  <2>. QED  BY <2>1, <2>3, <2>4 DEF FileInv
<1>3. CASE /\ worker.pc = "results"
           /\ Close(RunResults)
           /\ worker' = [worker EXCEPT !.pc = "stamp"]
           /\ manifest' = "completed"
  <2>1. /\ FilesShaped'
        /\ files'[RunResults] = [lines |-> files[RunResults].lines, state |-> "whole"]
    BY <1>0, <1>3, Closed
  <2>2. worker' = [pc |-> "stamp", lines |-> worker.lines]
    BY <1>0, <1>3 DEF WorkerShaped
  <2>3. WorkerShaped'
    BY <2>2 DEF WorkerShaped
  <2>4. Filed'
    BY <1>0, <1>1, <1>3, <2>1, <2>2 DEF Filed
  <2>. QED  BY <2>1, <2>3, <2>4 DEF FileInv
<1>. QED  BY <1>2, <1>3 DEF run_plan_experiment

\* An exception leaves the file as it was, or a part of it.
LEMMA FailShaped ==
    ASSUME FilesShaped, UNCHANGED files \/ CutShort(RunResults)
    PROVE  FilesShaped'
<1>1. CASE UNCHANGED files
  BY <1>1 DEF FilesShaped
<1>2. CASE CutShort(RunResults)
  BY <1>2, ThreePaths, Killed
<1>. QED  BY <1>1, <1>2

LEMMA FailFiled ==
    ASSUME FileInv, FailExperiment
    PROVE  FileInv'
<1>1. UNCHANGED files \/ CutShort(RunResults)
  BY Zenon DEF FailExperiment
<1>2. FilesShaped'
  BY <1>1, FailShaped DEF FileInv
<1>3. /\ row' = row /\ row # "completed"
      /\ manifest' = "failed" /\ worker' = [pc |-> "stamp", lines |-> <<>>]
  BY DEF FileInv, Filed, FailExperiment
<1>4. WorkerShaped'
  BY <1>3 DEF WorkerShaped
<1>5. Filed'
  BY <1>3 DEF Filed
<1>. QED  BY <1>2, <1>4, <1>5 DEF FileInv

LEMMA FailStampFiled ==
    ASSUME FileInv, FailStamp
    PROVE  FileInv'
<1>1. UNCHANGED files \/ CutShort(RunResults)
  BY Zenon DEF FailStamp
<1>2. FilesShaped'
  BY <1>1, FailShaped DEF FileInv
<1>3. /\ row' = row /\ row # "completed" /\ stampFailed' = TRUE
      /\ worker' = [pc |-> "stamped", lines |-> worker.lines]
  BY DEF FileInv, Filed, WorkerShaped, FailStamp
<1>4. WorkerShaped'
  BY <1>3 DEF WorkerShaped
<1>5. Filed'
  BY <1>3 DEF Filed
<1>. QED  BY <1>2, <1>4, <1>5 DEF FileInv

LEMMA StampFiled ==
    ASSUME FileInv, _stamp_run_metadata
    PROVE  FileInv'
<1>0. FilesShaped /\ WorkerShaped /\ Filed /\ RunResults \in ToSet(Paths)
  BY ThreePaths DEF FileInv
<1>1. /\ worker.pc = "stamp" /\ manifest' = manifest /\ row' = row
      /\ stampFailed' = stampFailed
  BY DEF _stamp_run_metadata
<1>2. row # "completed"
  BY <1>0, <1>1 DEF Filed
<1>3. CASE files[RunResults].state = "whole"
  <2>. DEFINE stamped == Stamped(files[RunResults].lines)
  <2>1. OpenForWriting(RunResults, stamped) /\ worker' = [worker EXCEPT !.pc = "stamping"]
    BY <1>3 DEF _stamp_run_metadata
  <2>2. Complete(files[RunResults].lines) => Complete(stamped) /\ HasId(stamped)
    BY StampedComplete, Zenon
  <2>. HIDE DEF stamped
  <2>3. FilesShaped' /\ files'[RunResults] = [lines |-> stamped, state |-> "open"]
    BY <1>0, <2>1, Opened
  <2>4. worker' = [pc |-> "stamping", lines |-> worker.lines]
    BY <1>0, <2>1 DEF WorkerShaped
  <2>5. WorkerShaped'
    BY <2>4 DEF WorkerShaped
  <2>6. Filed'
    BY <1>0, <1>1, <1>2, <2>2, <2>3, <2>4 DEF Filed
  <2>. QED  BY <2>3, <2>5, <2>6 DEF FileInv
<1>4. CASE files[RunResults].state # "whole"
  <2>1. files' = files /\ worker' = [worker EXCEPT !.pc = "stamped"]
    BY <1>4 DEF _stamp_run_metadata
  <2>2. worker' = [pc |-> "stamped", lines |-> worker.lines]
    BY <1>0, <2>1 DEF WorkerShaped
  <2>3. FilesShaped' /\ WorkerShaped'
    BY <1>0, <2>1, <2>2 DEF FilesShaped, WorkerShaped
  <2>4. ~(manifest = "completed" /\ ~stampFailed)
    BY <1>0, <1>1, <1>4 DEF Filed
  <2>5. Filed'
    BY <1>1, <1>2, <2>1, <2>2, <2>4 DEF Filed
  <2>. QED  BY <2>3, <2>5 DEF FileInv
<1>. QED  BY <1>3, <1>4

LEMMA FinishFiled ==
    ASSUME FileInv, FinishRun
    PROVE  FileInv'
<1>0. FilesShaped /\ WorkerShaped /\ Filed /\ RunResults \in ToSet(Paths)
  BY ThreePaths DEF FileInv
<1>1. manifest' = manifest /\ stampFailed' = stampFailed
  BY DEF FinishRun
<1>2. CASE /\ worker.pc = "stamping"
           /\ Close(RunResults)
           /\ worker' = [worker EXCEPT !.pc = "stamped"]
           /\ UNCHANGED row
  <2>1. /\ FilesShaped'
        /\ files'[RunResults] = [lines |-> files[RunResults].lines, state |-> "whole"]
    BY <1>0, <1>2, Closed
  <2>2. worker' = [pc |-> "stamped", lines |-> worker.lines]
    BY <1>0, <1>2 DEF WorkerShaped
  <2>3. WorkerShaped'
    BY <2>2 DEF WorkerShaped
  <2>4. Filed'
    BY <1>0, <1>1, <1>2, <2>1, <2>2 DEF Filed
  <2>. QED  BY <2>1, <2>3, <2>4 DEF FileInv
<1>3. CASE /\ worker.pc = "stamped"
           /\ row' = IF manifest = "completed" THEN "completed" ELSE "failed"
           /\ worker' = [pc |-> "idle", lines |-> <<>>]
           /\ UNCHANGED files
  <2>1. FilesShaped' /\ WorkerShaped'
    BY <1>0, <1>3 DEF FilesShaped, WorkerShaped
  <2>2. Filed'
    BY <1>0, <1>1, <1>3 DEF Filed
  <2>. QED  BY <2>1, <2>2 DEF FileInv
<1>. QED  BY <1>2, <1>3 DEF FinishRun

LEMMA KillFiled ==
    ASSUME FileInv, KillServer
    PROVE  FileInv'
<1>0. FilesShaped /\ WorkerShaped /\ Filed /\ RunResults \in ToSet(Paths)
  BY ThreePaths DEF FileInv
<1>1. /\ worker.pc # "idle" /\ stampFailed' = (stampFailed \/ worker.pc = "stamping")
      /\ worker' = [pc |-> "idle", lines |-> <<>>] /\ row' = "failed"
      /\ manifest' = manifest
  BY DEF KillServer
<1>2. WorkerShaped'
  BY <1>1 DEF WorkerShaped
<1>3. CASE worker.pc \in {"results", "stamping"}
  <2>1. FilesShaped'
    BY <1>0, <1>3, Killed DEF KillServer
  <2>2. ~(manifest' = "completed" /\ ~stampFailed')
    BY <1>0, <1>1, <1>3 DEF Filed
  <2>3. Filed'
    BY <1>1, <2>2 DEF Filed
  <2>. QED  BY <1>2, <2>1, <2>3 DEF FileInv
<1>4. CASE ~(worker.pc \in {"results", "stamping"})
  <2>1. files' = files
    BY <1>4 DEF KillServer
  <2>2. FilesShaped'
    BY <1>0, <2>1 DEF FilesShaped
  <2>3. Filed'
    BY <1>0, <1>1, <1>4, <2>1 DEF Filed
  <2>. QED  BY <1>2, <2>2, <2>3 DEF FileInv
<1>. QED  BY <1>3, <1>4

-----------------------------------------------------------------------------
LEMMA FileStep == FileInv /\ [Next]_vars => FileInv'
<1>. SUFFICES ASSUME FileInv, [Next]_vars PROVE FileInv'
  OBVIOUS
<1>1. CASE \E outcome \in CliOutcomes : _benchmark_robustness_watermark(outcome)
  BY <1>1, CliFiled DEF _benchmark_robustness_watermark
<1>2. CASE WriteEvaluationRecords
  BY <1>2, CliFiled DEF WriteEvaluationRecords
<1>3. CASE write_watermark_benchmark_results
  BY <1>3, CliFiled DEF write_watermark_benchmark_results
<1>4. CASE KillCli
  <2>1. CliFrame
    BY <1>4 DEF KillCli
  <2>2. \/ UNCHANGED files
        \/ \E path \in {CliResults, CliRecords} : CutShort(path)
    BY <1>4, Zenon DEF KillCli
  <2>. QED  BY <2>1, <2>2, CliFiled
<1>5. CASE \E outcome \in RunOutcomes : _execute_run(outcome)
  BY <1>5, ExecuteFiled
<1>6. CASE run_plan_experiment
  BY <1>6, PlanFiled
<1>7. CASE FailExperiment
  BY <1>7, FailFiled
<1>8. CASE _stamp_run_metadata
  BY <1>8, StampFiled
<1>9. CASE FinishRun
  BY <1>9, FinishFiled
<1>10. CASE KillServer
  BY <1>10, KillFiled
<1>17. CASE FailStamp
  BY <1>17, FailStampFiled
<1>11. CASE UNCHANGED <<files, worker, manifest, row, stampFailed>>
  <2>1. FilesShaped'
    BY <1>11 DEF FileInv, FilesShaped
  <2>. QED  BY <1>11, <2>1, RunUntouched
<1>12. CASE \E r \in Readers : StartReport(r) \/ AnswerReport(r) \/ EndReport(r)
  BY <1>11, <1>12 DEF StartReport, AnswerReport, EndReport, ReaderFrame
<1>13. CASE load_results_from_directory
  BY <1>11, <1>13 DEF load_results_from_directory, ReaderFrame
<1>14. CASE load_robustness_results
  BY <1>11, <1>14 DEF load_robustness_results, ReaderFrame
<1>15. CASE run_benchmark
  BY <1>11, <1>15, Zenon DEF run_benchmark
<1>16. CASE UNCHANGED vars
  BY <1>11, <1>16 DEF vars
<1>. QED
  BY <1>1, <1>2, <1>3, <1>4, <1>5, <1>6, <1>7, <1>8, <1>9, <1>10, <1>12, <1>13, <1>14,
     <1>15, <1>16, <1>17, Zenon DEF Next

\* The results of a completed run are whole on disk, every transformation and length of
\* its specification and under its id, unless their stamping failed or was killed:
\* whatever the commands, the readers, other kills and exceptions and retries did meanwhile.
THEOREM CompletedReported == Spec => []CompletedIsReported
<1>1. FileInv => CompletedIsReported
  BY DEF FileInv, Filed, CompletedIsReported, Reported, HasId, Complete, RunNames, RunLengths
<1>. QED  BY <1>1, InitFiled, FileStep, PTL DEF Spec

-----------------------------------------------------------------------------
(* Sums *)

\* Induction over the subsets of a finite set: T is the set of those that have the
\* property.
LEMMA AllSubsets ==
    ASSUME NEW D, IsFiniteSet(D), NEW T \in SUBSET (SUBSET D), {} \in T,
           \A s \in SUBSET D : s # {} /\ (\A x \in s : s \ {x} \in T) => s \in T
    PROVE  T = SUBSET D
<1>. DEFINE Rest == (SUBSET D) \ T
<1>. SUFFICES ASSUME Rest # {} PROVE FALSE
  OBVIOUS
<1>1. IsWellFoundedOn(StrictSubsetOrdering(D), SUBSET D)
  <2>1. IsWellFoundedOn(StrictSubsetOrdering(D), FiniteSubsetsOf(D))
    BY FS_StrictSubsetOrderingWellFounded, Zenon
  <2>2. FiniteSubsetsOf(D) = SUBSET D
    BY FS_FiniteSubsetsOfFinite, Zenon
  <2>. QED  BY <2>1, <2>2
<1>2. PICK s \in Rest : \A y \in Rest : ~(<<y, s>> \in StrictSubsetOrdering(D))
  <2>. DEFINE R == StrictSubsetOrdering(D)
              U == SUBSET D
  <2>1. IsWellFoundedOn(R, U) /\ Rest \subseteq U /\ Rest # {}
    BY <1>1
  <2>. HIDE DEF R, U, Rest
  <2>2. \E s \in Rest : \A y \in Rest : ~(<<y, s>> \in R)
    BY <2>1, WFMin
  <2>. QED  BY <2>2 DEF R
<1>3. ASSUME NEW x \in s PROVE s \ {x} \in T
  <2>1. s \ {x} \in SUBSET D /\ s \in SUBSET D /\ s \ {x} \subseteq s /\ s \ {x} # s
    BY <1>2
  <2>2. <<s \ {x}, s>> \in StrictSubsetOrdering(D)
    BY <2>1 DEF StrictSubsetOrdering
  <2>. QED  BY <1>2, <2>1, <2>2
<1>. QED  BY <1>2, <1>3

\* The recursion in the library's definition of a sum.
SumRecursion(g, f) ==
    g = [s \in SUBSET (DOMAIN f) |->
            IF s = {} THEN 0 ELSE LET x == CHOOSE x \in s : TRUE IN f[x] + g[s \ {x}]]

LEMMA SumIsRecursive ==
    ASSUME NEW f
    PROVE  SumFunction(f) = (CHOOSE g : SumRecursion(g, f))[DOMAIN f]
  BY Zenon DEF SumFunction, SumFunctionOnSet, FoldFunctionOnSet, MapThenFoldSet, SumRecursion

Parts(A, s) == UNION {A[i] : i \in s}

\* A sum of the sizes of disjoint sets is the size of all of them together.
LEMMA SumOfParts ==
    ASSUME NEW D, IsFiniteSet(D), NEW A, \A i \in D : IsFiniteSet(A[i]),
           \A i, j \in D : i # j => A[i] \cap A[j] = {}
    PROVE  LET f == [i \in D |-> Cardinality(A[i])]
           IN  IsFiniteSet(Parts(A, D)) /\ SumFunction(f) = Cardinality(Parts(A, D))
<1>. DEFINE f == [i \in D |-> Cardinality(A[i])]
            g == [s \in SUBSET D |-> Cardinality(Parts(A, s))]
            first(s) == CHOOSE x \in s : TRUE
<1>0. DOMAIN f = D /\ \A i \in D : f[i] = Cardinality(A[i])
  OBVIOUS
<1>1. ASSUME NEW s \in SUBSET D PROVE IsFiniteSet(Parts(A, s))
  <2>1. IsFiniteSet(s)
    BY FS_Subset, Zenon
  <2>2. IsFiniteSet({A[i] : i \in s})
    <3>1. [i \in s |-> A[i]] \in Surjection(s, {A[i] : i \in s})
      BY DEF Surjection
    <3>. QED  BY <2>1, <3>1, FS_Surjection, Zenon
  <2>3. \A X \in {A[i] : i \in s} : IsFiniteSet(X)
    OBVIOUS
  <2>. QED  BY <2>2, <2>3, FS_UNION, Zenon DEF Parts
<1>2. Parts(A, {}) = {} /\ Cardinality(Parts(A, {})) = 0
  <2>1. Parts(A, {}) = {}
    BY DEF Parts
  <2>. QED  BY <2>1, FS_EmptySet, Zenon
<1>3. ASSUME NEW s \in SUBSET D, NEW x \in s
      PROVE  Cardinality(Parts(A, s)) = f[x] + Cardinality(Parts(A, s \ {x}))
  <2>1. Parts(A, s) = A[x] \cup Parts(A, s \ {x}) /\ A[x] \cap Parts(A, s \ {x}) = {}
    BY DEF Parts
  <2>2. IsFiniteSet(A[x]) /\ IsFiniteSet(Parts(A, s \ {x})) /\ f[x] = Cardinality(A[x])
    BY <1>1
  <2>. DEFINE P == Parts(A, s \ {x})
  <2>3. Cardinality(A[x] \cup P) = Cardinality(A[x]) + Cardinality(P) - Cardinality(A[x] \cap P)
    BY <2>2, FS_Union, Zenon
  <2>4. Cardinality(A[x] \cap P) = 0
    BY <2>1, FS_EmptySet
  <2>5. Cardinality(A[x]) \in Nat /\ Cardinality(P) \in Nat
    BY <2>2, FS_CardinalityType
  <2>. HIDE DEF P, f
  <2>6. Cardinality(A[x] \cup P) = f[x] + Cardinality(P)
    BY <2>2, <2>3, <2>4, <2>5
  <2>. QED  BY <2>1, <2>6 DEF P
<1>4. \A s \in SUBSET D : s # {} => first(s) \in s
  OBVIOUS
<1>. HIDE DEF f, first
<1>5. SumRecursion(g, f)
  <2>1. \A s \in SUBSET D :
          g[s] = IF s = {} THEN 0 ELSE LET x == first(s) IN f[x] + g[s \ {x}]
    BY <1>2, <1>3, <1>4
  <2>. QED  BY <1>0, <2>1 DEF SumRecursion, first
<1>. DEFINE h == CHOOSE q : SumRecursion(q, f)
<1>6. SumRecursion(h, f)
  BY <1>5, Zenon
<1>7. SumFunction(f) = h[D]
  BY <1>0, SumIsRecursive
<1>. HIDE DEF h
<1>8. \A s \in SUBSET D : h[s] = IF s = {} THEN 0 ELSE f[first(s)] + h[s \ {first(s)}]
  BY <1>0, <1>6 DEF SumRecursion, first
<1>. DEFINE T == {s \in SUBSET D : h[s] = Cardinality(Parts(A, s))}
<1>9. {} \in T
  BY <1>2, <1>8
<1>10. ASSUME NEW s \in SUBSET D, s # {}, \A x \in s : s \ {x} \in T PROVE s \in T
  <2>1. first(s) \in s /\ s \ {first(s)} \in T
    BY <1>4, <1>10
  <2>. QED  BY <1>3, <1>8, <1>10, <2>1
<1>. HIDE DEF T
<1>11. T \in SUBSET (SUBSET D)
  BY DEF T
<1>12. T = SUBSET D
  BY <1>9, <1>10, <1>11, AllSubsets, Zenon
<1>13. D \in T
  BY <1>12
<1>. QED  BY <1>1, <1>7, <1>13 DEF T, f

\* A sum of natural numbers counts their units, so it grows with each of them.
Units(f) == [i \in DOMAIN f |-> {i} \X (1..f[i])]

LEMMA SumOfUnits ==
    ASSUME NEW D, IsFiniteSet(D), NEW f \in [D -> Nat]
    PROVE  /\ IsFiniteSet(Parts(Units(f), D))
           /\ SumFunction(f) = Cardinality(Parts(Units(f), D))
           /\ SumFunction(f) \in Nat
<1>. DEFINE A == Units(f)
<1>1. ASSUME NEW i \in D PROVE IsFiniteSet(A[i]) /\ Cardinality(A[i]) = f[i]
  <2>1. f[i] \in Nat /\ A[i] = {i} \X (1..f[i])
    BY DEF Units
  <2>2. IsFiniteSet({i}) /\ Cardinality({i}) = 1
    BY FS_Singleton
  <2>3. IsFiniteSet(1..f[i]) /\ Cardinality(1..f[i]) = f[i]
    BY <2>1, FS_Interval
  <2>4. /\ IsFiniteSet({i} \X (1..f[i]))
        /\ Cardinality({i} \X (1..f[i])) = Cardinality({i}) * Cardinality(1..f[i])
    BY <2>2, <2>3, FS_Product, Zenon
  <2>. QED  BY <2>1, <2>2, <2>3, <2>4
<1>2. \A i, j \in D : i # j => A[i] \cap A[j] = {}
  BY DEF Units
<1>. HIDE DEF A
<1>3. /\ IsFiniteSet(Parts(A, D))
      /\ SumFunction([i \in D |-> Cardinality(A[i])]) = Cardinality(Parts(A, D))
  BY <1>1, <1>2, SumOfParts, Zenon
<1>4. f = [i \in D |-> Cardinality(A[i])]
  BY <1>1
<1>5. Cardinality(Parts(A, D)) \in Nat
  BY <1>3, FS_CardinalityType
<1>. QED  BY <1>3, <1>4, <1>5 DEF A

LEMMA SumGrows ==
    ASSUME NEW D, IsFiniteSet(D), NEW f \in [D -> Nat], NEW g \in [D -> Nat],
           \A i \in D : f[i] <= g[i]
    PROVE  SumFunction(f) \in Nat /\ SumFunction(g) \in Nat /\ SumFunction(f) <= SumFunction(g)
<1>1. /\ SumFunction(f) = Cardinality(Parts(Units(f), D)) /\ SumFunction(f) \in Nat
  BY SumOfUnits
<1>2. /\ IsFiniteSet(Parts(Units(g), D))
      /\ SumFunction(g) = Cardinality(Parts(Units(g), D)) /\ SumFunction(g) \in Nat
  BY SumOfUnits
<1>3. Parts(Units(f), D) \subseteq Parts(Units(g), D)
  <2>1. \A i \in D : Units(f)[i] \subseteq Units(g)[i]
    <3>1. \A i \in D : f[i] \in Nat /\ g[i] \in Nat /\ f[i] <= g[i]
      OBVIOUS
    <3>2. \A i \in D : 1..f[i] \subseteq 1..g[i]
      BY <3>1
    <3>. QED  BY <3>2 DEF Units
  <2>. QED  BY <2>1 DEF Parts
<1>4. Cardinality(Parts(Units(f), D)) <= Cardinality(Parts(Units(g), D))
  BY <1>2, <1>3, FS_Subset, Zenon
<1>. QED  BY <1>1, <1>2, <1>4

-----------------------------------------------------------------------------
(* Rates of paired samples *)

\* Of the samples of a line, O were detected before and T after its transformation.
LEMMA PairCounts ==
    ASSUME NEW D, IsFiniteSet(D), NEW O \in SUBSET D, NEW T \in SUBSET D
    PROVE  /\ Cardinality(D) \in Nat /\ Cardinality(O) \in Nat /\ Cardinality(T) \in Nat
           /\ Cardinality(O \cap T) \in Nat /\ Cardinality((O \ T) \cup (T \ O)) \in Nat
           /\ Cardinality(O) <= Cardinality(D) /\ Cardinality(T) <= Cardinality(D)
           /\ Cardinality(O \cap T) <= Cardinality(O)
           /\ Cardinality(O \cap T) <= Cardinality(T)
           /\ 2 * Cardinality(O \cap T)
                = Cardinality(O) + Cardinality(T) - Cardinality((O \ T) \cup (T \ O))
<1>1. /\ IsFiniteSet(O) /\ IsFiniteSet(T)
      /\ Cardinality(O) <= Cardinality(D) /\ Cardinality(T) <= Cardinality(D)
  BY FS_Subset
<1>2. IsFiniteSet(O \cap T) /\ IsFiniteSet(O \ T) /\ IsFiniteSet(T \ O)
  <2>1. O \cap T \in SUBSET O /\ O \ T \in SUBSET O /\ T \ O \in SUBSET T
    OBVIOUS
  <2>. QED  BY <1>1, <2>1, FS_Subset
<1>3. /\ Cardinality(O \ T) = Cardinality(O) - Cardinality(O \cap T)
      /\ Cardinality(T \ O) = Cardinality(T) - Cardinality(T \cap O)
  BY <1>1, FS_Difference, Zenon
<1>4. T \cap O = O \cap T /\ (O \ T) \cap (T \ O) = {}
  OBVIOUS
<1>5. /\ IsFiniteSet((O \ T) \cup (T \ O))
      /\ Cardinality((O \ T) \cup (T \ O))
           = Cardinality(O \ T) + Cardinality(T \ O) - Cardinality((O \ T) \cap (T \ O))
  BY <1>2, FS_Union, Zenon
<1>6. Cardinality((O \ T) \cap (T \ O)) = 0
  BY <1>4, FS_EmptySet
<1>. DEFINE a == Cardinality(O)
            b == Cardinality(T)
            c == Cardinality(O \cap T)
            d == Cardinality(O \ T)
            e == Cardinality(T \ O)
            f == Cardinality((O \ T) \cup (T \ O))
<1>7. a \in Nat /\ b \in Nat /\ c \in Nat /\ d \in Nat /\ e \in Nat /\ f \in Nat
      /\ Cardinality(D) \in Nat
  BY <1>1, <1>2, <1>5, FS_CardinalityType
<1>8. d = a - c /\ e = b - c /\ f = d + e - 0
  BY <1>3, <1>4, <1>5, <1>6
<1>. HIDE DEF a, b, c, d, e, f
<1>9. c <= a /\ c <= b /\ 2 * c = a + b - f
  BY <1>7, <1>8
<1>. QED  BY <1>1, <1>7, <1>9 DEF a, b, c, f

\* A line whose counts are those of pairs: its counts are ordered, and what is still
\* detected follows from them.
IsLine(r) == r = [detector_name |-> r.detector_name, config_identifier |-> r.config_identifier,
                  transform_name |-> r.transform_name, text_length |-> r.text_length,
                  sample_count |-> r.sample_count, baseline_detected |-> r.baseline_detected,
                  transformed_detected |-> r.transformed_detected,
                  detection_change_count |-> r.detection_change_count,
                  robustness |-> r.robustness, run_id |-> r.run_id]

PairedLine(r) ==
    /\ IsLine(r)
    /\ r.config_identifier \in {CliSpec.config, RunSpec.config}
    /\ r.sample_count \in Nat /\ r.baseline_detected \in Nat
    /\ r.transformed_detected \in Nat /\ Still(r) \in Nat
    /\ r.baseline_detected <= r.sample_count /\ r.transformed_detected <= r.sample_count
    /\ Still(r) <= r.baseline_detected /\ Still(r) <= r.transformed_detected
    /\ LineIsPaired(r)

DetectedBefore(group) == {i \in DOMAIN group : Original(group[i])}
DetectedAfter(group) == {i \in DOMAIN group : Transformed(group[i])}
IsPairing(group) ==
    /\ IsFiniteSet(DOMAIN group)
    /\ \A i \in DOMAIN group :
          group[i].detection_changed <=> ~(Original(group[i]) <=> Transformed(group[i]))

\* A rate of some of n is no exception.
LEMMA RateOrZero ==
    ASSUME NEW s \in Nat, NEW n \in Nat, s <= n
    PROVE  /\ rate_estimate(s, n) = [successes |-> s, n_samples |-> n]
           /\ rate_estimate(s, n) # ValueError
<1>1. s \in 0..n
  OBVIOUS
<1>2. rate_estimate(s, n) = [successes |-> s, n_samples |-> n]
  BY <1>1 DEF rate_estimate
<1>3. [successes |-> s, n_samples |-> n] \in [successes : Nat, n_samples : Nat]
  OBVIOUS
<1>. QED  BY <1>2, <1>3, StatisticsAssumption

\* The line of a group counts its pairs.
BuiltFrom(line, name, length, group) ==
    /\ PairedLine(line)
    /\ line.transform_name = name /\ line.text_length = length
    /\ line.baseline_detected = Cardinality(DetectedBefore(group))
    /\ Still(line) = Cardinality(DetectedBefore(group) \cap DetectedAfter(group))

LEMMA BuiltLineIsPaired ==
    ASSUME NEW spec \in Specs, NEW name, NEW length, NEW group, IsPairing(group)
    PROVE  BuiltFrom(build_benchmark_result(spec, name, length, group), name, length, group)
<1>. DEFINE D == DOMAIN group
            O == DetectedBefore(group)
            T == DetectedAfter(group)
            C == {i \in D : group[i].detection_changed}
            positive == Those(group, Original)
            line == build_benchmark_result(spec, name, length, group)
            robustness == IF O # {} THEN rate_estimate(Cardinality(O \cap T), Cardinality(O))
                          ELSE rate_estimate(0, Cardinality(D))
<1>1. DOMAIN positive = O /\ \A i \in O : positive[i] = group[i]
  BY DEF Those, Restrict, DetectedBefore
<1>2. /\ Count(group, Transformed) = Cardinality(T)
      /\ Count(group, LAMBDA r : r.detection_changed) = Cardinality(C)
  BY DEF Count, Those, Restrict, DetectedAfter
<1>3. Count(positive, Transformed) = Cardinality(O \cap T)
  <2>. HIDE DEF positive
  <2>1. DOMAIN Those(positive, Transformed) = {i \in O : Transformed(positive[i])}
    BY <1>1 DEF Those, Restrict
  <2>2. {i \in O : Transformed(positive[i])} = O \cap T
    BY <1>1 DEF DetectedBefore, DetectedAfter
  <2>. QED  BY <2>1, <2>2 DEF Count
<1>4. C = (O \ T) \cup (T \ O)
  <2>1. \A i \in D : group[i].detection_changed <=> ~(i \in O <=> i \in T)
    BY Zenon DEF IsPairing, DetectedBefore, DetectedAfter
  <2>2. O \subseteq D /\ T \subseteq D
    BY Zenon DEF DetectedBefore, DetectedAfter
  <2>. HIDE DEF D, O, T
  <2>. QED  BY <2>1, <2>2
<1>5. line = [detector_name |-> spec.detector, config_identifier |-> spec.config,
              transform_name |-> name, text_length |-> length,
              sample_count |-> Cardinality(D), baseline_detected |-> Cardinality(O),
              transformed_detected |-> Cardinality(T),
              detection_change_count |-> Cardinality(C),
              robustness |-> robustness, run_id |-> None]
  <2>. HIDE DEF positive
  <2>1. line = [detector_name |-> spec.detector, config_identifier |-> spec.config,
              transform_name |-> name, text_length |-> length,
              sample_count |-> Cardinality(D), baseline_detected |-> Cardinality(DOMAIN positive),
              transformed_detected |-> Count(group, Transformed),
              detection_change_count |-> Count(group, LAMBDA r : r.detection_changed),
              robustness |-> IF DOMAIN positive # {}
                    THEN rate_estimate(Count(positive, Transformed),
                                       Cardinality(DOMAIN positive))
                    ELSE rate_estimate(0, Cardinality(DOMAIN group)),
              run_id |-> None]
    BY Zenon DEF build_benchmark_result, positive
  <2>. HIDE DEF line, C, O, T
  <2>. QED  BY <1>1, <1>2, <1>3, <2>1
<1>6. /\ IsFiniteSet(D) /\ O \in SUBSET D /\ T \in SUBSET D
  BY DEF IsPairing, DetectedBefore, DetectedAfter
<1>. DEFINE a == Cardinality(O)
            b == Cardinality(T)
            c == Cardinality(O \cap T)
            d == Cardinality(D)
            e == Cardinality(C)
<1>7. /\ d \in Nat /\ a \in Nat /\ b \in Nat /\ c \in Nat /\ e \in Nat
      /\ a <= d /\ b <= d /\ c <= a /\ c <= b /\ 2 * c = a + b - e
  <2>. HIDE DEF D, O, T, C
  <2>. QED  BY <1>4, <1>6, PairCounts
<1>8. O # {} <=> a # 0
  <2>1. IsFiniteSet(O)
    BY <1>6, FS_Subset
  <2>. QED  BY <2>1, FS_EmptySet
<1>9. /\ robustness # ValueError
      /\ a = 0 => c = 0
      /\ a # 0 => robustness.successes = c
  <2>1. O # {} => robustness = rate_estimate(c, a)
    OBVIOUS
  <2>2. O = {} => robustness = rate_estimate(0, d)
    OBVIOUS
  <2>. HIDE DEF a, b, c, d, e, robustness, O
  <2>3. /\ rate_estimate(c, a) = [successes |-> c, n_samples |-> a]
        /\ rate_estimate(c, a) # ValueError
    BY <1>7, RateOrZero
  <2>4. rate_estimate(0, d) # ValueError
    BY <1>7, RateOrZero
  <2>. QED  BY <1>7, <1>8, <2>1, <2>2, <2>3, <2>4
<1>. HIDE DEF a, b, c, d, e, robustness, O, T, C, D, line
<1>10. /\ IsLine(line) /\ line.config_identifier = spec.config
       /\ line.transform_name = name /\ line.text_length = length
       /\ line.sample_count = d /\ line.baseline_detected = a
       /\ line.transformed_detected = b /\ line.detection_change_count = e
       /\ line.robustness = robustness
  BY <1>5 DEF IsLine, a, b, d, e
<1>11. Still(line) = c
  BY <1>7, <1>9, <1>10 DEF Still
<1>12. LineIsPaired(line)
  BY <1>7, <1>9, <1>10, <1>11 DEF LineIsPaired
<1>13. PairedLine(line)
  BY <1>7, <1>10, <1>11, <1>12 DEF PairedLine, Specs
<1>. QED  BY <1>10, <1>11, <1>13 DEF BuiltFrom, line, a, c, O, T

\* The records of an experiment pair the verdicts of a sample.
PairsVerdicts(r, outcome, sample, name) ==
    /\ r.detection_changed <=> ~(Original(r) <=> Transformed(r))
    /\ Original(r) <=> (outcome.original[sample] = TRUE)
    /\ r.transform_name = name /\ r.metadata = sample

LEMMA RecordOfPairs ==
    ASSUME NEW outcome, NEW sample, NEW name
    PROVE  PairsVerdicts(RecordOf(outcome, sample, name), outcome, sample, name)
<1>. DEFINE p == outcome.original[sample]
            q == outcome.after[sample, name]
            r == RecordOf(outcome, sample, name)
<1>1. r = [transform_name |-> name, original_detected |-> p, transformed_detected |-> q,
           detection_changed |-> (p = TRUE) # (q = TRUE), metadata |-> sample]
  BY Zenon DEF RecordOf
<1>. HIDE DEF p, q, r
<1>2. r.transform_name = name /\ r.metadata = sample
  BY <1>1
<1>3. /\ r.detection_changed <=> ~(Original(r) <=> Transformed(r))
      /\ Original(r) <=> p = TRUE
  BY <1>1 DEF Original, Transformed
<1>. QED  BY <1>2, <1>3 DEF PairsVerdicts, r, p

ChosenOf(records, g) == Those(records, LAMBDA r : /\ r.transform_name = g[1]
                                                  /\ r.metadata.length = g[2])
IsLines(s) == s \in Seq(ToSet(s)) /\ \A i \in DOMAIN s : PairedLine(s[i])

\* The lines that are stored are those of the groups, one of each.
LinesOf(spec, records, results, G) ==
    /\ IsLines(results)
    /\ G \in [DOMAIN results -> Groups(records)]
    /\ \A i, j \in DOMAIN results : i # j => G[i] # G[j]
    /\ \A g \in Groups(records) : \E i \in DOMAIN results : G[i] = g
    /\ \A i \in DOMAIN results :
          LET group == ChosenOf(records, G[i]) IN
          /\ results[i] = build_benchmark_result(spec, G[i][1], G[i][2], group)
          /\ results[i].transform_name = G[i][1]
          /\ results[i].baseline_detected = Cardinality(DetectedBefore(group))
          /\ Still(results[i]) = Cardinality(DetectedBefore(group) \cap DetectedAfter(group))

\* The records of one transformation and length.
IsChosen(group, records, g) ==
    /\ IsPairing(group)
    /\ DOMAIN group = {i \in DOMAIN records : /\ records[i].transform_name = g[1]
                                              /\ records[i].metadata.length = g[2]}
    /\ \A i \in DOMAIN group : group[i] = records[i]

LEMMA ChosenPairs ==
    ASSUME NEW spec \in Specs, NEW outcome, NEW g
    PROVE  IsChosen(ChosenOf(Evaluated(spec, outcome), g), Evaluated(spec, outcome), g)
<1>. DEFINE records == Evaluated(spec, outcome)
            group == ChosenOf(records, g)
            D == {i \in DOMAIN records : /\ records[i].transform_name = g[1]
                                         /\ records[i].metadata.length = g[2]}
<1>1. DOMAIN group = D /\ \A i \in D : group[i] = records[i]
  <2>. HIDE DEF records
  <2>. QED  BY DEF ChosenOf, Those, Restrict
<1>2. /\ records \in Seq(ToSet(records))
      /\ ToSet(records)
            = {RecordOf(outcome, x[1], x[2]) : x \in SamplesOf(spec) \X Names(spec)}
  BY RecordsMade, Zenon
<1>. HIDE DEF records, group
<1>3. IsFiniteSet(D)
  <2>1. DOMAIN records = 1..Len(records) /\ Len(records) \in Nat
    BY <1>2
  <2>2. IsFiniteSet(1..Len(records))
    BY <2>1, FS_Interval
  <2>3. D \in SUBSET (1..Len(records))
    BY <2>1
  <2>. QED  BY <2>2, <2>3, FS_Subset
<1>4. ASSUME NEW i \in D
      PROVE  group[i].detection_changed <=> ~(Original(group[i]) <=> Transformed(group[i]))
  <2>1. records[i] \in ToSet(records)
    BY DEF ToSet
  <2>2. PICK x \in SamplesOf(spec) \X Names(spec) : records[i] = RecordOf(outcome, x[1], x[2])
    BY <1>2, <2>1, Zenon
  <2>3. PairsVerdicts(records[i], outcome, x[1], x[2])
    BY <2>2, RecordOfPairs, Zenon
  <2>. QED  BY <1>1, <2>3, Zenon DEF PairsVerdicts
<1>5. IsPairing(group)
  BY <1>1, <1>3, <1>4, Zenon DEF IsPairing
<1>. QED  BY <1>1, <1>5 DEF IsChosen, records, group

LEMMA ResultsPaired ==
    ASSUME NEW spec \in Specs, NEW outcome
    PROVE  LET records == Evaluated(spec, outcome)
               results == benchmark_results(spec, records)
           IN  \E G : LinesOf(spec, records, results, G)
<1>. DEFINE records == Evaluated(spec, outcome)
            groups == Groups(records)
            Line(g) == build_benchmark_result(spec, g[1], g[2], ChosenOf(records, g))
            S == {Line(g) : g \in groups}
            results == benchmark_results(spec, records)
<1>1. results = SetToSeq(S)
  BY Zenon DEF benchmark_results, Groups, ChosenOf
<1>2. \A g : BuiltFrom(Line(g), g[1], g[2], ChosenOf(records, g))
  <2>. SUFFICES ASSUME NEW g PROVE BuiltFrom(Line(g), g[1], g[2], ChosenOf(records, g))
    OBVIOUS
  <2>1. IsPairing(ChosenOf(records, g))
    BY ChosenPairs, Zenon DEF IsChosen
  <2>. QED  BY <2>1, BuiltLineIsPaired, Zenon
<1>. HIDE DEF Line
<1>3. IsFiniteSet(groups)
  <2>1. records \in Seq(ToSet(records))
    BY RecordsMade, Zenon
  <2>. HIDE DEF records
  <2>2. IsFiniteSet(DOMAIN records)
    <3>1. DOMAIN records = 1..Len(records) /\ Len(records) \in Nat
      BY <2>1
    <3>. QED  BY <3>1, FS_Interval
  <2>3. [i \in DOMAIN records |-> <<records[i].transform_name, records[i].metadata.length>>]
            \in Surjection(DOMAIN records, groups)
    BY DEF Surjection, Groups
  <2>. QED  BY <2>2, <2>3, FS_Surjection, Zenon
<1>. HIDE DEF groups, records, results
<1>4. IsFiniteSet(S)
  <2>1. [g \in groups |-> Line(g)] \in Surjection(groups, S)
    BY DEF Surjection
  <2>. QED  BY <1>3, <2>1, FS_Surjection, Zenon
<1>. HIDE DEF S
<1>5. /\ results \in Seq(S) /\ {results[i] : i \in DOMAIN results} = S
      /\ \A i, j \in DOMAIN results : i # j => results[i] # results[j]
  <2>1. LET s == SetToSeq(S)
        IN  /\ s \in Seq(S) /\ {s[i] : i \in DOMAIN s} = S
            /\ \A i, j \in DOMAIN s : i # j => s[i] # s[j]
    BY <1>4, SetToSeqElements, Zenon
  <2>. QED  BY <1>1, <2>1, Zenon
<1>. DEFINE G == [i \in DOMAIN results |-> CHOOSE g \in groups : results[i] = Line(g)]
<1>6. ASSUME NEW i \in DOMAIN results PROVE G[i] \in groups /\ results[i] = Line(G[i])
  <2>1. \E g \in groups : results[i] = Line(g)
    BY <1>5 DEF S
  <2>. QED  BY <2>1
<1>7. DOMAIN G = DOMAIN results
  OBVIOUS
<1>8. G \in [DOMAIN results -> groups]
  BY <1>6
<1>. HIDE DEF G
<1>9. \A i, j \in DOMAIN results : i # j => G[i] # G[j]
  BY <1>5, <1>6
<1>10. IsLines(results)
  <2>1. results \in Seq(ToSet(results))
    BY <1>5 DEF ToSet
  <2>2. \A i \in DOMAIN results : PairedLine(results[i])
    BY <1>2, <1>6 DEF BuiltFrom
  <2>. QED  BY <2>1, <2>2 DEF IsLines
<1>11. \A i \in DOMAIN results :
          LET group == ChosenOf(records, G[i]) IN
          /\ results[i] = build_benchmark_result(spec, G[i][1], G[i][2], group)
          /\ results[i].transform_name = G[i][1]
          /\ results[i].baseline_detected = Cardinality(DetectedBefore(group))
          /\ Still(results[i]) = Cardinality(DetectedBefore(group) \cap DetectedAfter(group))
  BY <1>2, <1>6, Zenon DEF BuiltFrom, Line
<1>12. ASSUME NEW g \in groups PROVE \E i \in DOMAIN results : G[i] = g
  <2>1. PICK i \in DOMAIN results : results[i] = Line(g)
    BY <1>5 DEF S
  <2>2. G[i] \in groups /\ Line(G[i]) = Line(g)
    BY <1>6, <2>1
  <2>3. \A x \in groups : x = <<x[1], x[2]>>
    BY DEF groups, Groups
  <2>4. G[i][1] = g[1] /\ G[i][2] = g[2]
    BY <1>2, <2>2 DEF BuiltFrom
  <2>. QED  BY <2>2, <2>3, <2>4
<1>. QED  BY <1>8, <1>9, <1>10, <1>11, <1>12, Zenon DEF LinesOf, records, groups, results

-----------------------------------------------------------------------------
(* Places *)

\* In a sequence of rows of one width, flattened, an index tells the row and the place.
LEMMA NextRow ==
    ASSUME NEW k \in Nat, NEW m \in Nat
    PROVE  (k + 1) * m = k * m + m /\ k * m \in Nat /\ 1 * m = m /\ 0 * m = 0
  OBVIOUS

\* Where the entries of a concatenation come from.
LEMMA ConcatPlaces ==
    ASSUME NEW S, NEW s \in Seq(S), NEW t \in Seq(S), NEW a, Len(s) = a
    PROVE  /\ s \o t \in Seq(S) /\ Len(s \o t) = a + Len(t)
           /\ \A x \in 1..(a + Len(t)) : (s \o t)[x] = IF x <= a THEN s[x] ELSE t[x - a]
  OBVIOUS

HasPlaces(flat, rows, n, m) ==
    \A x \in DOMAIN flat : \E k \in 1..n, i \in 1..m :
        x = (k - 1) * m + i /\ flat[x] = rows[k][i]

\* Every place of the flattened rows is one of a row, and holds its entry.
LEMMA FlattenPlaces ==
    ASSUME NEW S, NEW n \in Nat, NEW m \in Nat, NEW rows \in [1..n -> [1..m -> S]]
    PROVE  /\ FlattenSeq(rows) \in Seq(S) /\ Len(FlattenSeq(rows)) = n * m
           /\ HasPlaces(FlattenSeq(rows), rows, n, m)
<1>0. Len(rows) = n
  OBVIOUS
<1>1. CASE n = 0
  <2>1. FlattenSeq(rows) = rows /\ rows = <<>>
    BY <1>0, <1>1 DEF FlattenSeq
  <2>2. n * m = 0
    BY <1>1, NextRow
  <2>. QED  BY <1>1, <2>1, <2>2 DEF HasPlaces
<1>2. CASE n # 0
  <2>0. 1 \in 1..n /\ n \in 1..n
    BY <1>2
  <2>1. PICK g : Flattens(rows, n, g) /\ FlattenSeq(rows) = g[n]
    <3>1. \E g : Flattens(rows, n, g)
      BY <2>0, FlattenExists, Zenon
    <3>2. Flattens(rows, n, CHOOSE g : Flattens(rows, n, g))
      BY <3>1, Zenon
    <3>3. FlattenSeq(rows) = (CHOOSE g : Flattens(rows, n, g))[n]
      BY <1>0, <1>2 DEF FlattenSeq, Flattens
    <3>. QED  BY <3>2, <3>3
  <2>2. /\ g[1] = rows[1]
        /\ \A q \in 1..n : q < n => g[q + 1] = g[q] \o rows[q + 1]
    <3>1. \A q \in 1..n : g[q] = IF q = 1 THEN rows[q] ELSE g[q - 1] \o rows[q]
      BY <2>1, Zenon DEF Flattens
    <3>2. \A q \in 1..n : q < n => q + 1 \in 1..n /\ q + 1 # 1 /\ (q + 1) - 1 = q
      OBVIOUS
    <3>. QED  BY <2>0, <3>1, <3>2
  <2>3. \A q \in 1..n : /\ rows[q] \in Seq(S) /\ Len(rows[q]) = m
                        /\ DOMAIN rows[q] = 1..m
    <3>. SUFFICES ASSUME NEW q \in 1..n
                  PROVE  rows[q] \in Seq(S) /\ Len(rows[q]) = m /\ DOMAIN rows[q] = 1..m
      OBVIOUS
    <3>1. rows[q] \in [1..m -> S]
      OBVIOUS
    <3>. QED  BY <3>1
  <2>. DEFINE Placed(q) == \A x \in 1..Len(g[q]) : \E k \in 1..q, i \in 1..m :
                               x = (k - 1) * m + i /\ g[q][x] = rows[k][i]
              T == {q \in 1..n : g[q] \in Seq(S) /\ Len(g[q]) = q * m /\ Placed(q)}
  <2>4. 1 \in T
    <3>1. /\ g[1] \in Seq(S) /\ Len(g[1]) = 1 * m
          /\ \A x \in 1..m : x = (1 - 1) * m + x
      BY <2>0, <2>2, <2>3, NextRow
    <3>2. 1 \in 1..1 /\ Len(g[1]) = m
      BY <2>0, <2>2, <2>3
    <3>. QED  BY <2>0, <2>2, <3>1, <3>2
  <2>5. ASSUME NEW q \in T, q < n PROVE q + 1 \in T
    <3>0. q \in Nat /\ q + 1 \in 1..n /\ q \in 1..n
      BY <2>5
    <3>1. /\ g[q] \in Seq(S) /\ Len(g[q]) = q * m /\ Placed(q)
          /\ rows[q + 1] \in Seq(S) /\ Len(rows[q + 1]) = m
          /\ g[q + 1] = g[q] \o rows[q + 1]
      BY <2>2, <2>3, <2>5, <3>0
    <3>. DEFINE h == g[q + 1]
                a == q * m
    <3>2. a \in Nat /\ (q + 1) * m = a + m
      BY <3>0, NextRow
    <3>3. /\ h \in Seq(S) /\ Len(h) = a + m
          /\ \A x \in 1..(a + m) : h[x] = IF x <= a THEN g[q][x] ELSE rows[q + 1][x - a]
      <4>. HIDE DEF Placed
      <4>2. h = g[q] \o rows[q + 1] /\ Len(rows[q + 1]) = m
        BY <3>1
      <4>. DEFINE s == g[q]
                  t == rows[q + 1]
      <4>1. s \in Seq(S) /\ t \in Seq(S) /\ Len(s) = a
        BY <3>1
      <4>. HIDE DEF a, h, s, t
      <4>3. /\ s \o t \in Seq(S) /\ Len(s \o t) = a + Len(t)
            /\ \A x \in 1..(a + Len(t)) : (s \o t)[x] = IF x <= a THEN s[x] ELSE t[x - a]
        BY <4>1, ConcatPlaces
      <4>. QED  BY <4>2, <4>3 DEF s, t
    <3>4. ASSUME NEW x \in 1..(a + m)
          PROVE  \E k \in 1..(q + 1), i \in 1..m : x = (k - 1) * m + i /\ h[x] = rows[k][i]
      <4>1. CASE x <= a
        <5>1. x \in 1..Len(g[q])
          BY <3>1, <3>2, <4>1
        <5>2. PICK k \in 1..q, i \in 1..m : x = (k - 1) * m + i /\ g[q][x] = rows[k][i]
          BY <3>1, <5>1
        <5>3. k \in 1..(q + 1) /\ h[x] = rows[k][i]
          BY <3>0, <3>3, <4>1, <5>2
        <5>. QED  BY <5>2, <5>3
      <4>2. CASE ~(x <= a)
        <5>1. x - a \in 1..m /\ x = a + (x - a) /\ (q + 1) - 1 = q /\ q + 1 \in 1..(q + 1)
          BY <3>0, <3>2, <4>2
        <5>2. h[x] = rows[q + 1][x - a]
          BY <3>3, <4>2
        <5>3. x = ((q + 1) - 1) * m + (x - a)
          BY <5>1
        <5>. HIDE DEF h, a
        <5>. QED  BY <5>1, <5>2, <5>3
      <4>. QED  BY <4>1, <4>2
    <3>. HIDE DEF a
    <3>5. Placed(q + 1)
      BY <3>3, <3>4
    <3>. HIDE DEF h, Placed
    <3>. QED  BY <3>0, <3>2, <3>3, <3>5 DEF h
  <2>. HIDE DEF Placed
  <2>6. T \in SUBSET (1..n)
    OBVIOUS
  <2>. HIDE DEF T
  <2>7. T = 1..n
    BY <2>4, <2>5, <2>6, AllIndices
  <2>8. g[n] \in Seq(S) /\ Len(g[n]) = n * m /\ Placed(n)
    BY <2>0, <2>7 DEF T
  <2>9. DOMAIN g[n] = 1..Len(g[n])
    BY <2>8
  <2>10. HasPlaces(g[n], rows, n, m)
    BY <2>8, <2>9 DEF Placed, HasPlaces
  <2>. QED  BY <2>1, <2>8, <2>10, Zenon
<1>. QED  BY <1>1, <1>2

SampleAt(spec, y, k, s) ==
    /\ y = (k - 1) * spec.samples + s
    /\ generate_watermark_samples(spec)[y].length = spec.lengths[k]

\* Each generated sample has the length and the number of its place.
LEMMA SamplePlaces ==
    ASSUME NEW spec \in Specs
    PROVE  \A y \in DOMAIN generate_watermark_samples(spec) :
               \E k \in DOMAIN spec.lengths, s \in 1..spec.samples : SampleAt(spec, y, k, s)
<1>. DEFINE n == Len(spec.lengths)
            m == spec.samples
            sample(k, i) == [sample_seed |-> derive_seed(spec.seed, spec.lengths[k], i - 1),
                             length |-> spec.lengths[k]]
            S == UNION {{sample(k, i) : i \in 1..m} : k \in 1..n}
            rows == [k \in 1..n |-> [i \in 1..m |-> sample(k, i)]]
            samples == generate_watermark_samples(spec)
<1>1. m \in Nat /\ n \in Nat /\ DOMAIN spec.lengths = 1..n
  BY SpecTypes
<1>2. samples = FlattenSeq(rows)
  BY <1>1 DEF generate_watermark_samples
<1>3. \A k \in 1..n, i \in 1..m : sample(k, i) \in S
  <2>. HIDE DEF sample
  <2>. QED  OBVIOUS
<1>4. \A k, i : sample(k, i).length = spec.lengths[k]
  OBVIOUS
<1>5. rows \in [1..n -> [1..m -> S]] /\ \A k \in 1..n, i \in 1..m : rows[k][i] = sample(k, i)
  <2>. HIDE DEF sample, S
  <2>. QED  BY <1>3
<1>. HIDE DEF sample, S, rows, samples, n, m
<1>6. \A x \in DOMAIN samples : \E k \in 1..n, i \in 1..m :
          x = (k - 1) * m + i /\ samples[x] = rows[k][i]
  <2>1. HasPlaces(FlattenSeq(rows), rows, n, m)
    BY <1>1, <1>5, FlattenPlaces, Zenon
  <2>. QED  BY <1>2, <2>1, Zenon DEF HasPlaces
<1>7. \A x \in DOMAIN samples : \E k \in 1..n, i \in 1..m :
          x = (k - 1) * m + i /\ samples[x].length = spec.lengths[k]
  BY <1>4, <1>5, <1>6
<1>. QED  BY <1>1, <1>7, Zenon DEF SampleAt, samples, m

RecordAt(spec, outcome, x, y, j) ==
    LET record == Evaluated(spec, outcome)[x]
        names == resolve_experiment_transforms(spec)
    IN  /\ x = (y - 1) * Len(names) + j
        /\ record.transform_name = names[j]
        /\ record.metadata = generate_watermark_samples(spec)[y]

\* Each record is of the sample and the transformation of its place.
LEMMA RecordPlaces ==
    ASSUME NEW spec \in Specs, NEW outcome
    PROVE  \A x \in DOMAIN Evaluated(spec, outcome) :
               \E y \in DOMAIN generate_watermark_samples(spec),
                  j \in DOMAIN resolve_experiment_transforms(spec) :
                   RecordAt(spec, outcome, x, y, j)
<1>. DEFINE samples == generate_watermark_samples(spec)
            names == resolve_experiment_transforms(spec)
            record(i, j) == RecordOf(outcome, samples[i], names[j])
            n == Len(samples)
            m == Len(names)
            S == UNION {{record(i, j) : j \in 1..m} : i \in 1..n}
            rows == [i \in 1..n |-> [j \in 1..m |-> record(i, j)]]
            records == Evaluated(spec, outcome)
<1>1. n \in Nat /\ DOMAIN samples = 1..n
  <2>. HIDE DEF samples
  <2>1. samples \in Seq(ToSet(samples))
    BY SampleLengths, Zenon DEF samples
  <2>. QED  BY <2>1
<1>2. m \in Nat /\ DOMAIN names = 1..m
  <2>. HIDE DEF names
  <2>1. names \in Seq(DOMAIN CategoryOf)
    BY SpecTypes, Zenon DEF names
  <2>. QED  BY <2>1
<1>3. records = FlattenSeq(rows)
  BY <1>1, <1>2, Zenon DEF Evaluated, evaluate_robustness_experiment, RecordOf
<1>4. \A i, j : record(i, j).transform_name = names[j] /\ record(i, j).metadata = samples[i]
  <2>. HIDE DEF samples, names
  <2>1. \A s, x : /\ RecordOf(outcome, s, x).transform_name = x
                  /\ RecordOf(outcome, s, x).metadata = s
    BY DEF RecordOf
  <2>. QED  BY <2>1, Zenon
<1>. HIDE DEF samples, names, records, n, m, record
<1>5. \A i \in 1..n, j \in 1..m : record(i, j) \in S
  OBVIOUS
<1>6. rows \in [1..n -> [1..m -> S]] /\ \A i \in 1..n, j \in 1..m : rows[i][j] = record(i, j)
  <2>. HIDE DEF S
  <2>. QED  BY <1>5
<1>. HIDE DEF S, rows
<1>7. \A x \in DOMAIN records : \E i \in 1..n, j \in 1..m :
          x = (i - 1) * m + j /\ records[x] = rows[i][j]
  <2>1. HasPlaces(FlattenSeq(rows), rows, n, m)
    BY <1>1, <1>2, <1>6, FlattenPlaces, Zenon
  <2>. QED  BY <1>3, <2>1, Zenon DEF HasPlaces
<1>8. \A x \in DOMAIN records : \E i \in 1..n, j \in 1..m :
          /\ x = (i - 1) * m + j /\ records[x].transform_name = names[j]
          /\ records[x].metadata = samples[i]
  BY <1>4, <1>6, <1>7
<1>. QED  BY <1>1, <1>2, <1>8, Zenon DEF RecordAt, samples, names, records, m

\* Seeds with a stride between the lengths: equal ones are of one length and sample.
LEMMA SeedsDiffer ==
    ASSUME NEW t \in Nat, NEW a \in Int, NEW b \in Int, NEW i \in 0..(t - 1),
           NEW j \in 0..(t - 1), a * t + i = b * t + j
    PROVE  a = b /\ i = j
<1>1. ASSUME NEW d \in Nat, d >= 1 PROVE d * t >= t
  <2>1. d * t = (d - 1) * t + t /\ (d - 1) * t >= 0
    BY <1>1
  <2>. QED  BY <1>1, <2>1
<1>2. ASSUME NEW x \in Int, NEW y \in Int, x < y PROVE y * t >= x * t + t
  <2>1. y - x \in Nat /\ y - x >= 1 /\ y * t = x * t + (y - x) * t
    BY <1>2
  <2>2. (y - x) * t >= t
    BY <1>1, <2>1
  <2>. QED  BY <2>1, <2>2
<1>3. a * t \in Int /\ b * t \in Int /\ i >= 0 /\ j >= 0 /\ i < t /\ j < t
  OBVIOUS
<1>4. ~(a < b)
  <2>. SUFFICES ASSUME a < b PROVE FALSE
    OBVIOUS
  <2>1. b * t >= a * t + t
    BY <1>2
  <2>. DEFINE u == a * t
              v == b * t
  <2>2. u \in Int /\ v \in Int /\ v >= u + t /\ u + i = v + j
    BY <1>3, <2>1
  <2>. HIDE DEF u, v
  <2>. QED  BY <1>3, <2>2
<1>5. ~(b < a)
  <2>. SUFFICES ASSUME b < a PROVE FALSE
    OBVIOUS
  <2>1. a * t >= b * t + t
    BY <1>2
  <2>. DEFINE u == a * t
              v == b * t
  <2>2. u \in Int /\ v \in Int /\ u >= v + t /\ u + i = v + j
    BY <1>3, <2>1
  <2>. HIDE DEF u, v
  <2>. QED  BY <1>3, <2>2
<1>6. a = b
  BY <1>4, <1>5
<1>. QED  BY <1>3, <1>6

\* A place is one of one row and one column.
LEMMA OnePlace ==
    ASSUME NEW n \in Nat, NEW m \in Nat, NEW y \in 1..n, NEW z \in 1..n,
           NEW j \in 1..m, NEW i \in 1..m, (y - 1) * m + j = (z - 1) * m + i
    PROVE  y = z /\ j = i
<1>. DEFINE u == (y - 1) * m
            v == (z - 1) * m
<1>1. u \in Int /\ v \in Int /\ u + j = v + i
  OBVIOUS
<1>. HIDE DEF u, v
<1>2. u + (j - 1) = v + (i - 1) /\ j - 1 \in 0..(m - 1) /\ i - 1 \in 0..(m - 1)
  BY <1>1
<1>3. (y - 1) * m + (j - 1) = (z - 1) * m + (i - 1) /\ y - 1 \in Int /\ z - 1 \in Int
  BY <1>2 DEF u, v
<1>4. y - 1 = z - 1 /\ j - 1 = i - 1
  BY <1>2, <1>3, SeedsDiffer
<1>. QED  BY <1>4

\* Every place of a sample and a name is one of the records.
LEMMA RecordDomain ==
    ASSUME NEW spec \in Specs, NEW outcome
    PROVE  \A y \in DOMAIN generate_watermark_samples(spec),
              j \in DOMAIN resolve_experiment_transforms(spec) :
               (y - 1) * Len(resolve_experiment_transforms(spec)) + j
                   \in DOMAIN Evaluated(spec, outcome)
<1>. DEFINE samples == generate_watermark_samples(spec)
            names == resolve_experiment_transforms(spec)
            record(i, j) == RecordOf(outcome, samples[i], names[j])
            n == Len(samples)
            m == Len(names)
            S == UNION {{record(i, j) : j \in 1..m} : i \in 1..n}
            rows == [i \in 1..n |-> [j \in 1..m |-> record(i, j)]]
            records == Evaluated(spec, outcome)
<1>1. n \in Nat /\ DOMAIN samples = 1..n
  <2>. HIDE DEF samples
  <2>1. samples \in Seq(ToSet(samples))
    BY SampleLengths, Zenon DEF samples
  <2>. QED  BY <2>1
<1>2. m \in Nat /\ DOMAIN names = 1..m
  <2>. HIDE DEF names
  <2>1. names \in Seq(DOMAIN CategoryOf)
    BY SpecTypes, Zenon DEF names
  <2>. QED  BY <2>1
<1>3. records = FlattenSeq(rows)
  BY <1>1, <1>2, Zenon DEF Evaluated, evaluate_robustness_experiment, RecordOf
<1>. HIDE DEF samples, names, records, n, m, record
<1>4. \A i \in 1..n, j \in 1..m : record(i, j) \in S
  OBVIOUS
<1>5. rows \in [1..n -> [1..m -> S]]
  <2>. HIDE DEF S
  <2>. QED  BY <1>4
<1>. HIDE DEF S, rows
<1>6. records \in Seq(S) /\ Len(records) = n * m
  BY <1>1, <1>2, <1>3, <1>5, FlattenPlaces, Zenon
<1>7. ASSUME NEW y \in 1..n, NEW j \in 1..m PROVE (y - 1) * m + j \in 1..(n * m)
  <2>1. y - 1 \in Nat /\ (y - 1) * m \in Nat /\ n - y \in Nat /\ (n - y) * m \in Nat
    BY <1>1, <1>2
  <2>2. n * m = (y - 1) * m + m + (n - y) * m
    BY <1>1, <1>2
  <2>. DEFINE u == (y - 1) * m
              v == (n - y) * m
              w == n * m
  <2>3. u \in Nat /\ v \in Nat /\ w = u + m + v
    BY <2>1, <2>2
  <2>. HIDE DEF u, v, w
  <2>4. u + j \in 1..w
    BY <1>2, <2>3
  <2>. QED  BY <2>4 DEF u, w
<1>8. DOMAIN records = 1..(n * m)
  BY <1>6
<1>9. \A y \in 1..n, j \in 1..m : (y - 1) * m + j \in DOMAIN records
  BY <1>7, <1>8
<1>. QED  BY <1>1, <1>2, <1>9, Zenon DEF samples, names, records, m

\* The verdict before is that of the sample.
LEMMA RecordVerdicts ==
    ASSUME NEW spec \in Specs, NEW outcome
    PROVE  LET records == Evaluated(spec, outcome)
           IN  \A k \in DOMAIN records :
                  /\ records[k].transform_name \in Names(spec)
                  /\ Original(records[k]) <=> outcome.original[records[k].metadata] = TRUE
<1>. DEFINE records == Evaluated(spec, outcome)
<1>1. ToSet(records) = {RecordOf(outcome, x[1], x[2]) : x \in SamplesOf(spec) \X Names(spec)}
  BY RecordsMade, Zenon
<1>. HIDE DEF records
<1>2. ASSUME NEW k \in DOMAIN records
      PROVE  /\ records[k].transform_name \in Names(spec)
             /\ Original(records[k]) <=> outcome.original[records[k].metadata] = TRUE
  <2>1. records[k] \in ToSet(records)
    BY DEF ToSet
  <2>2. PICK x \in SamplesOf(spec) \X Names(spec) : records[k] = RecordOf(outcome, x[1], x[2])
    BY <1>1, <2>1, Zenon
  <2>3. x[2] \in Names(spec)
    OBVIOUS
  <2>4. PairsVerdicts(records[k], outcome, x[1], x[2])
    BY <2>2, RecordOfPairs, Zenon
  <2>. QED  BY <2>3, <2>4, Zenon DEF PairsVerdicts
<1>. QED  BY <1>2 DEF records

\* The places of some rows and some columns.
PlacesOf(P, J, m) == {(x[1] - 1) * m + x[2] : x \in P \X J}

LEMMA PlacesCount ==
    ASSUME NEW n \in Nat, NEW m \in Nat, NEW P \in SUBSET (1..n), NEW J \in SUBSET (1..m)
    PROVE  /\ IsFiniteSet(PlacesOf(P, J, m))
           /\ Cardinality(P) \in Nat /\ Cardinality(J) \in Nat
           /\ Cardinality(P) <= n
           /\ Cardinality(PlacesOf(P, J, m)) = Cardinality(P) * Cardinality(J)
<1>1. /\ IsFiniteSet(P) /\ IsFiniteSet(J) /\ Cardinality(P) \in Nat /\ Cardinality(J) \in Nat
      /\ Cardinality(P) <= n
  <2>1. IsFiniteSet(1..n) /\ Cardinality(1..n) = n /\ IsFiniteSet(1..m)
    BY FS_Interval
  <2>2. IsFiniteSet(P) /\ IsFiniteSet(J) /\ Cardinality(P) <= n
    BY <2>1, FS_Subset
  <2>. QED  BY <2>2, FS_CardinalityType
<1>. DEFINE PJ == P \X J
            place(x) == (x[1] - 1) * m + x[2]
            f == [x \in PJ |-> place(x)]
<1>2. IsFiniteSet(PJ) /\ Cardinality(PJ) = Cardinality(P) * Cardinality(J)
  BY <1>1, FS_Product, Zenon
<1>3. ASSUME NEW x \in PJ, NEW y \in PJ, place(x) = place(y) PROVE x = y
  <2>0. /\ x[1] \in P /\ y[1] \in P /\ x[2] \in J /\ y[2] \in J
        /\ x = <<x[1], x[2]>> /\ y = <<y[1], y[2]>>
    OBVIOUS
  <2>1. /\ x[1] - 1 \in Int /\ y[1] - 1 \in Int /\ x[2] \in 1..m /\ y[2] \in 1..m
        /\ x[1] \in Int /\ y[1] \in Int
    <3>. DEFINE a == x[1]
                b == y[1]
                c == x[2]
                d == y[2]
    <3>1. a \in P /\ b \in P /\ c \in J /\ d \in J
      BY <2>0
    <3>. HIDE DEF a, b, c, d
    <3>2. a \in 1..n /\ b \in 1..n /\ c \in 1..m /\ d \in 1..m
      BY <3>1
    <3>3. a - 1 \in Int /\ b - 1 \in Int /\ a \in Int /\ b \in Int
      BY <3>2
    <3>. QED  BY <3>2, <3>3 DEF a, b, c, d
  <2>2. x[2] - 1 \in 0..(m - 1) /\ y[2] - 1 \in 0..(m - 1)
    BY <2>1
  <2>3. (x[1] - 1) * m + (x[2] - 1) = (y[1] - 1) * m + (y[2] - 1)
    <3>. DEFINE u == (x[1] - 1) * m
                v == (y[1] - 1) * m
    <3>1. u \in Int /\ v \in Int /\ u + x[2] = v + y[2]
      BY <1>3, <2>1
    <3>. HIDE DEF u, v
    <3>2. u + (x[2] - 1) = v + (y[2] - 1)
      BY <2>1, <3>1
    <3>. QED  BY <3>2 DEF u, v
  <2>4. x[1] - 1 = y[1] - 1 /\ x[2] - 1 = y[2] - 1
    BY <2>1, <2>2, <2>3, SeedsDiffer
  <2>5. x[1] = y[1] /\ x[2] = y[2]
    BY <2>1, <2>4
  <2>. QED  BY <2>0, <2>5
<1>4. PlacesOf(P, J, m) = {place(x) : x \in PJ}
  BY DEF PlacesOf
<1>. HIDE DEF place, PJ
<1>5. f \in Injection(PJ, PlacesOf(P, J, m)) /\ f \in Surjection(PJ, PlacesOf(P, J, m))
  <2>1. f \in [PJ -> PlacesOf(P, J, m)] /\ \A x \in PJ : f[x] = place(x)
    BY <1>4
  <2>2. \A z \in PlacesOf(P, J, m) : \E x \in PJ : f[x] = z
    BY <1>4
  <2>. HIDE DEF f
  <2>3. IsInjective(f)
    BY <1>3, <2>1 DEF IsInjective
  <2>. QED  BY <2>1, <2>2, <2>3 DEF Injection, Surjection
<1>6. ExistsBijection(PJ, PlacesOf(P, J, m))
  BY <1>5 DEF Bijection, ExistsBijection
<1>7. /\ IsFiniteSet(PlacesOf(P, J, m))
      /\ Cardinality(PlacesOf(P, J, m)) = Cardinality(PJ)
  BY <1>2, <1>6, FS_Bijection, Zenon
<1>. QED  BY <1>1, <1>2, <1>7

\* The samples and the names of an evaluation, by their numbers.
SampleNumbers(spec) == 1..Len(generate_watermark_samples(spec))
NameNumbers(spec) == 1..Len(resolve_experiment_transforms(spec))
NumbersOf(spec, x) == {j \in NameNumbers(spec) : resolve_experiment_transforms(spec)[j] = x}
DetectedNumbers(spec, outcome) ==
    {y \in SampleNumbers(spec) : outcome.original[generate_watermark_samples(spec)[y]] = TRUE}
Named(records, x) == {k \in DOMAIN records : records[k].transform_name = x}
NamedPositive(records, x) == {k \in Named(records, x) : Original(records[k])}

LEMMA Numbers ==
    ASSUME NEW spec \in Specs
    PROVE  /\ Len(generate_watermark_samples(spec)) \in Nat
           /\ DOMAIN generate_watermark_samples(spec) = SampleNumbers(spec)
           /\ SampleNumbers(spec) # {}
           /\ Len(resolve_experiment_transforms(spec)) \in Nat
           /\ DOMAIN resolve_experiment_transforms(spec) = NameNumbers(spec)
<1>. DEFINE samples == generate_watermark_samples(spec)
            names == resolve_experiment_transforms(spec)
            lengths == spec.lengths
<1>1. /\ samples \in Seq(ToSet(samples))
      /\ {samples[i].length : i \in DOMAIN samples} = ToSet(lengths)
  BY SampleLengths, Zenon
<1>2. names \in Seq(DOMAIN CategoryOf) /\ lengths \in Seq(Nat) /\ lengths # <<>>
  BY SpecTypes, Zenon
<1>. HIDE DEF samples, names, lengths
<1>3. ToSet(lengths) # {}
  <2>1. Len(lengths) >= 1 /\ DOMAIN lengths = 1..Len(lengths)
    BY <1>2
  <2>2. lengths[1] \in ToSet(lengths)
    BY <2>1 DEF ToSet
  <2>. QED  BY <2>2
<1>4. Len(samples) \in Nat /\ DOMAIN samples = 1..Len(samples) /\ DOMAIN samples # {}
  BY <1>1, <1>3
<1>5. Len(names) \in Nat /\ DOMAIN names = 1..Len(names)
  BY <1>2
<1>. QED  BY <1>4, <1>5 DEF SampleNumbers, NameNumbers, samples, names

\* The records of a name are at the places of its numbers, and those of samples that were
\* detected before at the places of these.
LEMMA NamedPlaces ==
    ASSUME NEW spec \in Specs, NEW outcome, NEW x
    PROVE  LET records == Evaluated(spec, outcome)
               m == Len(resolve_experiment_transforms(spec))
           IN  /\ Named(records, x) = PlacesOf(SampleNumbers(spec), NumbersOf(spec, x), m)
               /\ NamedPositive(records, x)
                    = PlacesOf(DetectedNumbers(spec, outcome), NumbersOf(spec, x), m)
<1>. DEFINE records == Evaluated(spec, outcome)
            samples == generate_watermark_samples(spec)
            names == resolve_experiment_transforms(spec)
            n == Len(samples)
            m == Len(names)
            P == DetectedNumbers(spec, outcome)
            J == NumbersOf(spec, x)
<1>1. /\ n \in Nat /\ m \in Nat /\ DOMAIN samples = 1..n /\ DOMAIN names = 1..m
      /\ SampleNumbers(spec) = 1..n
  BY Numbers, Zenon DEF SampleNumbers, NameNumbers
<1>2. J = {j \in 1..m : names[j] = x}
  BY DEF NumbersOf, NameNumbers
<1>3. P = {y \in 1..n : outcome.original[samples[y]] = TRUE}
  BY DEF DetectedNumbers, SampleNumbers
<1>4. \A k \in DOMAIN records : Original(records[k]) <=> outcome.original[records[k].metadata] = TRUE
  BY RecordVerdicts, Zenon
<1>5. \A k \in DOMAIN records : \E y \in 1..n, j \in 1..m :
          /\ k = (y - 1) * m + j
          /\ records[k].transform_name = names[j] /\ records[k].metadata = samples[y]
  <2>1. \A k \in DOMAIN records : \E y \in DOMAIN samples, j \in DOMAIN names :
            RecordAt(spec, outcome, k, y, j)
    BY RecordPlaces, Zenon
  <2>2. \A k, y, j : RecordAt(spec, outcome, k, y, j) =>
            /\ k = (y - 1) * m + j
            /\ records[k].transform_name = names[j] /\ records[k].metadata = samples[y]
    BY Zenon DEF RecordAt
  <2>. HIDE DEF records, samples, names, n, m
  <2>. QED  BY <1>1, <2>1, <2>2
<1>6. \A y \in 1..n, j \in 1..m : (y - 1) * m + j \in DOMAIN records
  BY <1>1, RecordDomain, Zenon
<1>. HIDE DEF records, samples, names, n, m, P, J
<1>7. ASSUME NEW y \in 1..n, NEW j \in 1..m
      PROVE  /\ records[(y - 1) * m + j].transform_name = names[j]
             /\ records[(y - 1) * m + j].metadata = samples[y]
  <2>. DEFINE k == (y - 1) * m + j
  <2>1. PICK z \in 1..n, i \in 1..m :
            /\ k = (z - 1) * m + i
            /\ records[k].transform_name = names[i] /\ records[k].metadata = samples[z]
    BY <1>5, <1>6
  <2>2. <<y, j>> \in (1..n) \X (1..m) /\ <<z, i>> \in (1..n) \X (1..m)
    OBVIOUS
  <2>3. y = z /\ j = i
    BY <1>1, <2>1, OnePlace
  <2>. QED  BY <2>1, <2>3
<1>8. Named(records, x) = {(y[1] - 1) * m + y[2] : y \in (1..n) \X J}
  <2>1. ASSUME NEW k \in Named(records, x)
        PROVE  \E y \in (1..n) \X J : k = (y[1] - 1) * m + y[2]
    <3>1. k \in DOMAIN records /\ records[k].transform_name = x
      BY DEF Named
    <3>2. PICK y \in 1..n, j \in 1..m :
              k = (y - 1) * m + j /\ records[k].transform_name = names[j]
      BY <1>5, <3>1
    <3>3. <<y, j>> \in (1..n) \X J
      BY <1>2, <3>1, <3>2
    <3>. QED  BY <3>2, <3>3
  <2>2. ASSUME NEW y \in (1..n) \X J PROVE (y[1] - 1) * m + y[2] \in Named(records, x)
    <3>1. y[1] \in 1..n /\ y[2] \in 1..m /\ names[y[2]] = x
      BY <1>2
    <3>. QED  BY <1>6, <1>7, <3>1 DEF Named
  <2>. QED  BY <2>1, <2>2
<1>9. NamedPositive(records, x) = {(y[1] - 1) * m + y[2] : y \in P \X J}
  <2>1. ASSUME NEW k \in NamedPositive(records, x)
        PROVE  \E y \in P \X J : k = (y[1] - 1) * m + y[2]
    <3>1. k \in DOMAIN records /\ records[k].transform_name = x
          /\ outcome.original[records[k].metadata] = TRUE
      BY <1>4 DEF NamedPositive, Named
    <3>2. PICK y \in 1..n, j \in 1..m :
              /\ k = (y - 1) * m + j /\ records[k].transform_name = names[j]
              /\ records[k].metadata = samples[y]
      BY <1>5, <3>1
    <3>3. <<y, j>> \in P \X J
      BY <1>2, <1>3, <3>1, <3>2
    <3>. QED  BY <3>2, <3>3
  <2>2. ASSUME NEW y \in P \X J PROVE (y[1] - 1) * m + y[2] \in NamedPositive(records, x)
    <3>1. /\ y[1] \in 1..n /\ y[2] \in 1..m /\ names[y[2]] = x
          /\ outcome.original[samples[y[1]]] = TRUE
      BY <1>2, <1>3
    <3>2. /\ records[(y[1] - 1) * m + y[2]].transform_name = x
          /\ records[(y[1] - 1) * m + y[2]].metadata = samples[y[1]]
          /\ (y[1] - 1) * m + y[2] \in DOMAIN records
      BY <1>6, <1>7, <3>1
    <3>. QED  BY <1>4, <3>1, <3>2 DEF NamedPositive, Named
  <2>. QED  BY <2>1, <2>2
<1>10. Named(records, x) = PlacesOf(SampleNumbers(spec), J, m)
  BY <1>1, <1>8, Zenon DEF PlacesOf
<1>11. NamedPositive(records, x) = PlacesOf(P, J, m)
  BY <1>9, Zenon DEF PlacesOf
<1>. QED  BY <1>10, <1>11, Zenon DEF records, names, m, P, J

\* So every name has the same share of its records detected before.
LEMMA SameShare ==
    ASSUME NEW spec \in Specs, NEW outcome, NEW x, NEW y
    PROVE  LET records == Evaluated(spec, outcome)
           IN  /\ Cardinality(Named(records, x)) \in Nat
               /\ Cardinality(NamedPositive(records, x)) \in Nat
               /\ IsFiniteSet(Named(records, x))
               /\ Cardinality(Named(records, x)) * Cardinality(NamedPositive(records, y))
                    = Cardinality(NamedPositive(records, x)) * Cardinality(Named(records, y))
<1>. DEFINE records == Evaluated(spec, outcome)
            n == Len(generate_watermark_samples(spec))
            m == Len(resolve_experiment_transforms(spec))
            N == SampleNumbers(spec)
            P == DetectedNumbers(spec, outcome)
            J(z) == NumbersOf(spec, z)
<1>1. n \in Nat /\ m \in Nat /\ N = 1..n
  BY Numbers, Zenon DEF SampleNumbers
<1>2. P \in SUBSET (1..n) /\ N \in SUBSET (1..n)
  BY <1>1 DEF DetectedNumbers
<1>3. \A z : J(z) \in SUBSET (1..m)
  BY DEF NumbersOf, NameNumbers
<1>4. \A z : /\ Named(records, z) = PlacesOf(N, J(z), m)
             /\ NamedPositive(records, z) = PlacesOf(P, J(z), m)
  BY NamedPlaces, Zenon
<1>. HIDE DEF records, n, m, N, P, J
<1>5. ASSUME NEW z
      PROVE  /\ IsFiniteSet(Named(records, z))
             /\ Cardinality(N) \in Nat /\ Cardinality(P) \in Nat /\ Cardinality(J(z)) \in Nat
             /\ Cardinality(Named(records, z)) = Cardinality(N) * Cardinality(J(z))
             /\ Cardinality(NamedPositive(records, z)) = Cardinality(P) * Cardinality(J(z))
  <2>1. J(z) \in SUBSET (1..m)
    BY <1>3
  <2>2. /\ IsFiniteSet(PlacesOf(N, J(z), m))
        /\ Cardinality(N) \in Nat /\ Cardinality(J(z)) \in Nat
        /\ Cardinality(PlacesOf(N, J(z), m)) = Cardinality(N) * Cardinality(J(z))
    BY <1>1, <1>2, <2>1, PlacesCount, Zenon
  <2>3. /\ Cardinality(P) \in Nat
        /\ Cardinality(PlacesOf(P, J(z), m)) = Cardinality(P) * Cardinality(J(z))
    BY <1>1, <1>2, <2>1, PlacesCount, Zenon
  <2>. QED  BY <1>4, <2>2, <2>3, Zenon
<1>. DEFINE a == Cardinality(N)
            b == Cardinality(P)
            c == Cardinality(J(x))
            d == Cardinality(J(y))
<1>6. /\ a \in Nat /\ b \in Nat /\ c \in Nat /\ d \in Nat
      /\ Cardinality(Named(records, x)) = a * c /\ Cardinality(Named(records, y)) = a * d
      /\ Cardinality(NamedPositive(records, x)) = b * c
      /\ Cardinality(NamedPositive(records, y)) = b * d
  BY <1>5
<1>. HIDE DEF a, b, c, d
<1>7. (a * c) * (b * d) = (b * c) * (a * d) /\ a * c \in Nat /\ b * c \in Nat
  BY <1>6
<1>. QED  BY <1>5, <1>6, <1>7 DEF records

-----------------------------------------------------------------------------
(* What is printed *)

LinesIn(s, P) == Those(s, LAMBDA r : r.transform_name \in P)

\* The records of some transformations whose sample was detected before, and those of them
\* that still are.
PositiveIn(records, P) ==
    {k \in DOMAIN records : records[k].transform_name \in P /\ Original(records[k])}
StillIn(records, P) == {k \in PositiveIn(records, P) : Transformed(records[k])}

OtherNames(spec) == Names(spec) \ {"identity"}

\* The stored lines of some transformations add up to the same two numbers.
LEMMA StoredCounts ==
    ASSUME NEW spec \in Specs, NEW outcome, NEW P
    PROVE  LET records == Evaluated(spec, outcome)
               others == LinesIn(benchmark_results(spec, records), P)
           IN  /\ Total(others, Still) = Cardinality(StillIn(records, P))
               /\ BaselineDetected(others) = Cardinality(PositiveIn(records, P))
<1>. DEFINE records == Evaluated(spec, outcome)
            results == benchmark_results(spec, records)
            others == LinesIn(results, P)
            O == {i \in DOMAIN results : results[i].transform_name \in P}
<1>1. PICK G : LinesOf(spec, records, results, G)
  BY ResultsPaired, Zenon
<1>2. /\ DOMAIN others = O /\ \A i \in O : others[i] = results[i]
  <2>. HIDE DEF results
  <2>. QED  BY DEF LinesIn, Those, Restrict
<1>. DEFINE Group(i) == ChosenOf(records, G[i])
            Before == [i \in O |-> DetectedBefore(Group(i))]
            Both == [i \in O |-> DetectedBefore(Group(i)) \cap DetectedAfter(Group(i))]
<1>3. ASSUME NEW i \in O
      PROVE  /\ IsFiniteSet(DOMAIN Group(i))
             /\ DOMAIN Group(i) = {k \in DOMAIN records : /\ records[k].transform_name = G[i][1]
                                                          /\ records[k].metadata.length = G[i][2]}
             /\ \A k \in DOMAIN Group(i) : Group(i)[k] = records[k]
  <2>1. IsChosen(Group(i), records, G[i])
    BY ChosenPairs, Zenon
  <2>. HIDE DEF records, Group
  <2>. QED  BY <2>1, Zenon DEF IsChosen, IsPairing
<1>4. /\ IsFiniteSet(O)
      /\ \A i \in O : /\ results[i].baseline_detected = Cardinality(Before[i])
                      /\ Still(results[i]) = Cardinality(Both[i])
                      /\ G[i] \in Groups(records) /\ G[i][1] \in P
      /\ \A i, j \in O : i # j => G[i] # G[j]
      /\ \A g \in Groups(records) : g[1] \in P => \E i \in O : G[i] = g
  <2>. HIDE DEF records, results
  <2>1. IsFiniteSet(O)
    <3>1. results \in Seq(ToSet(results))
      BY <1>1 DEF LinesOf, IsLines
    <3>2. DOMAIN results = 1..Len(results) /\ Len(results) \in Nat
      BY <3>1
    <3>3. IsFiniteSet(1..Len(results))
      BY <3>2, FS_Interval
    <3>4. O \in SUBSET (1..Len(results))
      BY <3>2
    <3>. QED  BY <3>3, <3>4, FS_Subset
  <2>2. \A i \in O : /\ results[i].baseline_detected = Cardinality(Before[i])
                     /\ Still(results[i]) = Cardinality(Both[i])
    BY <1>1 DEF LinesOf
  <2>3. /\ G \in [DOMAIN results -> Groups(records)]
        /\ \A i \in DOMAIN results : results[i].transform_name = G[i][1]
        /\ \A i, j \in DOMAIN results : i # j => G[i] # G[j]
        /\ \A g \in Groups(records) : \E i \in DOMAIN results : G[i] = g
    BY <1>1, Zenon DEF LinesOf
  <2>. QED  BY <2>1, <2>2, <2>3
<1>. HIDE DEF records, results, others, O
<1>5. \A g \in Groups(records) : g = <<g[1], g[2]>>
  BY DEF Groups
<1>6. \A k \in DOMAIN records :
          <<records[k].transform_name, records[k].metadata.length>> \in Groups(records)
  BY DEF Groups
<1>7. ASSUME NEW i \in O
      PROVE  /\ Before[i] = {k \in DOMAIN Group(i) : Original(records[k])}
             /\ Both[i] = {k \in DOMAIN Group(i) : Original(records[k]) /\ Transformed(records[k])}
  BY <1>3 DEF DetectedBefore, DetectedAfter
<1>. DEFINE Places == [i \in O |-> DOMAIN Group(i)]
<1>8. \A i \in O : Places[i] = {k \in DOMAIN records : /\ records[k].transform_name = G[i][1]
                                                      /\ records[k].metadata.length = G[i][2]}
  BY <1>3
<1>9. \A i \in O : G[i] = <<G[i][1], G[i][2]>>
  BY <1>4, <1>5
<1>10. \A i \in O : /\ Before[i] = {k \in Places[i] : Original(records[k])}
                    /\ Both[i] = {k \in Places[i] : Original(records[k]) /\ Transformed(records[k])}
  BY <1>7
<1>11. \A i \in O : IsFiniteSet(Places[i])
  BY <1>3
<1>. HIDE DEF Before, Both, Places
<1>12. ASSUME NEW i \in O, NEW j \in O, i # j PROVE Places[i] \cap Places[j] = {}
  <2>1. G[i] = <<G[i][1], G[i][2]>> /\ G[j] = <<G[j][1], G[j][2]>> /\ G[i] # G[j]
    BY <1>4, <1>12, <1>9
  <2>. QED  BY <1>8, <2>1
<1>13. ASSUME NEW k \in DOMAIN records, records[k].transform_name \in P
      PROVE  \E i \in O : k \in Places[i]
  <2>1. PICK i \in O : G[i] = <<records[k].transform_name, records[k].metadata.length>>
    BY <1>4, <1>6, <1>13
  <2>2. G[i][1] = records[k].transform_name /\ G[i][2] = records[k].metadata.length
    BY <2>1
  <2>. QED  BY <1>8, <2>2
<1>14. ASSUME NEW i \in O, NEW k \in Places[i]
       PROVE  k \in DOMAIN records /\ records[k].transform_name \in P
  BY <1>4, <1>14, <1>8
<1>15. \A i \in O : IsFiniteSet(Before[i]) /\ IsFiniteSet(Both[i])
  <2>. SUFFICES ASSUME NEW i \in O PROVE IsFiniteSet(Before[i]) /\ IsFiniteSet(Both[i])
    OBVIOUS
  <2>1. Before[i] \in SUBSET Places[i] /\ Both[i] \in SUBSET Places[i]
    BY <1>10
  <2>. QED  BY <1>11, <2>1, FS_Subset
<1>16. \A i, j \in O : i # j => Before[i] \cap Before[j] = {} /\ Both[i] \cap Both[j] = {}
  BY <1>12, <1>10
<1>17. Parts(Before, O) = PositiveIn(records, P)
  BY <1>13, <1>14, <1>10 DEF Parts, PositiveIn
<1>18. Parts(Both, O) = StillIn(records, P)
  BY <1>13, <1>14, <1>10 DEF Parts, PositiveIn, StillIn
<1>19. /\ SumFunction([i \in O |-> Cardinality(Before[i])]) = Cardinality(PositiveIn(records, P))
       /\ SumFunction([i \in O |-> Cardinality(Both[i])]) = Cardinality(StillIn(records, P))
  <2>1. SumFunction([i \in O |-> Cardinality(Before[i])]) = Cardinality(Parts(Before, O))
    BY <1>4, <1>15, <1>16, SumOfParts, Zenon
  <2>2. SumFunction([i \in O |-> Cardinality(Both[i])]) = Cardinality(Parts(Both, O))
    BY <1>4, <1>15, <1>16, SumOfParts, Zenon
  <2>. QED  BY <1>17, <1>18, <2>1, <2>2
<1>20. /\ Total(others, Still) = SumFunction([i \in O |-> Still(others[i])])
       /\ BaselineDetected(others) = SumFunction([i \in O |-> others[i].baseline_detected])
  BY <1>2 DEF Total, BaselineDetected
<1>21. /\ [i \in O |-> Still(others[i])] = [i \in O |-> Cardinality(Both[i])]
       /\ [i \in O |-> others[i].baseline_detected] = [i \in O |-> Cardinality(Before[i])]
  BY <1>2, <1>4
<1>. QED  BY <1>19, <1>20, <1>21 DEF records, results, others

\* The names of the records are those of the specification, and so are those of its lines.
LEMMA NamesUsed ==
    ASSUME NEW spec \in Specs, NEW outcome
    PROVE  LET records == Evaluated(spec, outcome)
               results == benchmark_results(spec, records)
           IN  /\ {records[k].transform_name : k \in DOMAIN records} = Names(spec)
               /\ \A i \in DOMAIN results : results[i].transform_name \in Names(spec)
<1>. DEFINE records == Evaluated(spec, outcome)
            results == benchmark_results(spec, records)
            samples == generate_watermark_samples(spec)
<1>1. ToSet(records) = {RecordOf(outcome, x[1], x[2]) : x \in SamplesOf(spec) \X Names(spec)}
  BY RecordsMade, Zenon
<1>2. \A k \in DOMAIN records : records[k].transform_name \in Names(spec)
  BY RecordVerdicts, Zenon
<1>3. PICK y : y \in SamplesOf(spec)
  <2>1. DOMAIN samples # {}
    BY Numbers, Zenon
  <2>. HIDE DEF samples
  <2>2. PICK i : i \in DOMAIN samples
    BY <2>1
  <2>3. samples[i] \in ToSet(samples)
    BY <2>2 DEF ToSet
  <2>. QED  BY <2>3, Zenon DEF SamplesOf, samples
<1>4. PICK G : LinesOf(spec, records, results, G)
  BY ResultsPaired, Zenon
<1>. HIDE DEF records, results, samples
<1>5. ASSUME NEW x \in Names(spec) PROVE \E k \in DOMAIN records : records[k].transform_name = x
  <2>1. <<y, x>> \in SamplesOf(spec) \X Names(spec) /\ <<y, x>>[1] = y /\ <<y, x>>[2] = x
    BY <1>3
  <2>2. RecordOf(outcome, y, x) \in ToSet(records)
    BY <1>1, <2>1, Zenon
  <2>3. PICK k \in DOMAIN records : records[k] = RecordOf(outcome, y, x)
    BY <2>2 DEF ToSet
  <2>4. PairsVerdicts(records[k], outcome, y, x)
    BY <2>3, RecordOfPairs, Zenon
  <2>. QED  BY <2>4, Zenon DEF PairsVerdicts
<1>6. ASSUME NEW i \in DOMAIN results PROVE results[i].transform_name \in Names(spec)
  <2>1. G[i] \in Groups(records) /\ results[i].transform_name = G[i][1]
    BY <1>4 DEF LinesOf
  <2>2. PICK k \in DOMAIN records :
            G[i] = <<records[k].transform_name, records[k].metadata.length>>
    BY <2>1 DEF Groups
  <2>. QED  BY <1>2, <2>1, <2>2
<1>7. {records[k].transform_name : k \in DOMAIN records} = Names(spec)
  BY <1>2, <1>5
<1>. QED  BY <1>6, <1>7, Zenon DEF records, results

\* The lines beside identity are those of the other names.
LEMMA OtherLines ==
    ASSUME NEW lines, NEW spec, \A i \in DOMAIN lines : lines[i].transform_name \in Names(spec)
    PROVE  Those(lines, LAMBDA r : r.transform_name # "identity") = LinesIn(lines, OtherNames(spec))
<1>1. {i \in DOMAIN lines : lines[i].transform_name # "identity"}
        = {i \in DOMAIN lines : lines[i].transform_name \in OtherNames(spec)}
  BY DEF OtherNames
<1>. QED  BY <1>1 DEF Those, LinesIn

LEMMA OwnLines ==
    ASSUME NEW lines, NEW x
    PROVE  Those(lines, LAMBDA r : r.transform_name = x) = LinesIn(lines, {x})
<1>1. {i \in DOMAIN lines : lines[i].transform_name = x}
        = {i \in DOMAIN lines : lines[i].transform_name \in {x}}
  OBVIOUS
<1>. QED  BY <1>1 DEF Those, LinesIn

\* The report looks for a sample's baseline among the records: with identity it finds it,
\* and without it there is nothing.
LEMMA PrintedCounts ==
    ASSUME NEW spec \in Specs, NEW outcome, "identity" \in Names(spec)
    PROVE  LET records == Evaluated(spec, outcome)
           IN  compute_robustness_report(records).robustness
                 = rate_estimate(Cardinality(StillIn(records, OtherNames(spec))),
                                 Cardinality(PositiveIn(records, OtherNames(spec))))
<1>. DEFINE records == Evaluated(spec, outcome)
            D == DOMAIN records
            identity == Those(records, LAMBDA r : r.transform_name = "identity")
            others == Those(records, LAMBDA r : r.transform_name # "identity")
            positive == {identity[i].metadata :
                            i \in {k \in DOMAIN identity : Original(identity[k])}}
            matched == Those(others, LAMBDA r : r.metadata \in positive)
<1>1. \A k \in DOMAIN records : records[k].transform_name \in Names(spec)
  BY RecordVerdicts, Zenon
<1>2. ToSet(records) = {RecordOf(outcome, x[1], x[2]) : x \in SamplesOf(spec) \X Names(spec)}
  BY RecordsMade, Zenon
<1>3. compute_robustness_report(records).robustness
        = rate_estimate(Count(matched, Transformed), Cardinality(DOMAIN matched))
  <2>. HIDE DEF records
  <2>. QED  BY Zenon DEF compute_robustness_report
<1>. HIDE DEF records
<1>4. /\ DOMAIN identity = {i \in D : records[i].transform_name = "identity"}
      /\ \A i \in DOMAIN identity : identity[i] = records[i]
  BY DEF Those, Restrict
<1>5. /\ DOMAIN others = {i \in D : records[i].transform_name # "identity"}
      /\ \A i \in DOMAIN others : others[i] = records[i]
  BY DEF Those, Restrict
<1>6. ASSUME NEW k \in D
      PROVE  \E x \in SamplesOf(spec) : /\ records[k].metadata = x
                                        /\ Original(records[k]) <=> outcome.original[x] = TRUE
  <2>1. records[k] \in ToSet(records)
    BY DEF ToSet
  <2>2. PICK x \in SamplesOf(spec) \X Names(spec) : records[k] = RecordOf(outcome, x[1], x[2])
    BY <1>2, <2>1, Zenon
  <2>3. x[1] \in SamplesOf(spec)
    OBVIOUS
  <2>4. PairsVerdicts(records[k], outcome, x[1], x[2])
    BY <2>2, RecordOfPairs, Zenon
  <2>. QED  BY <2>3, <2>4, Zenon DEF PairsVerdicts
<1>7. ASSUME NEW x \in SamplesOf(spec)
      PROVE  \E k \in D : /\ records[k].transform_name = "identity"
                          /\ records[k].metadata = x
  <2>1. <<x, "identity">> \in SamplesOf(spec) \X Names(spec)
    OBVIOUS
  <2>2. RecordOf(outcome, <<x, "identity">>[1], <<x, "identity">>[2]) \in ToSet(records)
    BY <1>2, <2>1, Zenon
  <2>3. RecordOf(outcome, x, "identity") \in ToSet(records)
    BY <2>2
  <2>4. PICK k \in D : records[k] = RecordOf(outcome, x, "identity")
    BY <2>3 DEF ToSet
  <2>5. PairsVerdicts(records[k], outcome, x, "identity")
    BY <2>4, RecordOfPairs, Zenon
  <2>. QED  BY <2>5, Zenon DEF PairsVerdicts
<1>8. \A k \in D : records[k].metadata \in positive <=> Original(records[k])
  <2>1. \A k \in DOMAIN identity : k \in D
    BY <1>4
  <2>. HIDE DEF identity, D
  <2>2. ASSUME NEW k \in D, Original(records[k]) PROVE records[k].metadata \in positive
    <3>1. PICK x \in SamplesOf(spec) : /\ records[k].metadata = x
                                       /\ outcome.original[x] = TRUE
      BY <1>6, <2>2
    <3>2. PICK j \in D : records[j].transform_name = "identity" /\ records[j].metadata = x
      BY <1>7
    <3>3. Original(records[j])
      BY <1>6, <3>1, <3>2
    <3>4. j \in DOMAIN identity /\ identity[j] = records[j]
      BY <1>4, <3>2
    <3>. QED  BY <3>1, <3>2, <3>3, <3>4
  <2>3. ASSUME NEW k \in D, records[k].metadata \in positive PROVE Original(records[k])
    <3>1. PICK j \in DOMAIN identity : /\ Original(identity[j])
                                       /\ identity[j].metadata = records[k].metadata
      BY <2>3
    <3>2. j \in D /\ identity[j] = records[j]
      BY <1>4, <2>1
    <3>. QED  BY <1>6, <3>1, <3>2
  <2>. QED  BY <2>2, <2>3
<1>. HIDE DEF positive, others
<1>9. DOMAIN matched = PositiveIn(records, OtherNames(spec)) /\ \A k \in DOMAIN matched : matched[k] = records[k]
  <2>1. /\ DOMAIN matched = {k \in DOMAIN others : others[k].metadata \in positive}
        /\ \A k \in DOMAIN matched : matched[k] = others[k]
    BY DEF Those, Restrict
  <2>. HIDE DEF matched
  <2>. QED  BY <1>1, <1>5, <1>8, <2>1 DEF PositiveIn, OtherNames
<1>. HIDE DEF matched
<1>10. Count(matched, Transformed) = Cardinality(StillIn(records, OtherNames(spec)))
  <2>1. {k \in DOMAIN matched : Transformed(matched[k])} = StillIn(records, OtherNames(spec))
    BY <1>9 DEF StillIn
  <2>. QED  BY <2>1 DEF Count, Those, Restrict
<1>. QED  BY <1>3, <1>9, <1>10 DEF records

LEMMA PrintedNothing ==
    ASSUME NEW spec \in Specs, NEW outcome, "identity" \notin Names(spec)
    PROVE  compute_robustness_report(Evaluated(spec, outcome)).robustness = rate_estimate(0, 0)
<1>. DEFINE records == Evaluated(spec, outcome)
            identity == Those(records, LAMBDA r : r.transform_name = "identity")
            others == Those(records, LAMBDA r : r.transform_name # "identity")
            positive == {identity[i].metadata :
                            i \in {k \in DOMAIN identity : Original(identity[k])}}
            matched == Those(others, LAMBDA r : r.metadata \in positive)
<1>1. \A k \in DOMAIN records : records[k].transform_name \in Names(spec)
  BY RecordVerdicts, Zenon
<1>2. compute_robustness_report(records).robustness
        = rate_estimate(Count(matched, Transformed), Cardinality(DOMAIN matched))
  <2>. HIDE DEF records
  <2>. QED  BY Zenon DEF compute_robustness_report
<1>. HIDE DEF records
<1>3. positive = {}
  <2>1. DOMAIN identity = {i \in DOMAIN records : records[i].transform_name = "identity"}
    BY DEF Those, Restrict
  <2>2. DOMAIN identity = {}
    BY <1>1, <2>1
  <2>. HIDE DEF identity
  <2>. QED  BY <2>2
<1>. HIDE DEF positive, others
<1>4. DOMAIN matched = {}
  BY <1>3 DEF Those, Restrict
<1>. HIDE DEF matched
<1>5. Count(matched, Transformed) = 0
  <2>1. {k \in DOMAIN matched : Transformed(matched[k])} = {}
    BY <1>4
  <2>. QED  BY <2>1, FS_EmptySet DEF Count, Those, Restrict
<1>. QED  BY <1>2, <1>4, <1>5, FS_EmptySet DEF records

NamedAfter(records, x) == {k \in Named(records, x) : Transformed(records[k])}

LEMMA CountsOfName ==
    ASSUME NEW records, NEW x
    PROVE  LET own == Those(records, LAMBDA r : r.transform_name = x)
           IN  /\ DOMAIN own = Named(records, x)
               /\ Count(own, Original) = Cardinality(NamedPositive(records, x))
               /\ Count(own, Transformed) = Cardinality(NamedAfter(records, x))
<1>. DEFINE own == Those(records, LAMBDA r : r.transform_name = x)
<1>1. DOMAIN own = Named(records, x) /\ \A k \in DOMAIN own : own[k] = records[k]
  BY DEF Those, Restrict, Named
<1>. HIDE DEF own
<1>2. /\ {k \in DOMAIN own : Original(own[k])} = NamedPositive(records, x)
      /\ {k \in DOMAIN own : Transformed(own[k])} = NamedAfter(records, x)
  BY <1>1 DEF NamedPositive, NamedAfter
<1>3. /\ Count(own, Original) = Cardinality(NamedPositive(records, x))
      /\ Count(own, Transformed) = Cardinality(NamedAfter(records, x))
  BY <1>2 DEF Count, Those, Restrict
<1>. QED  BY <1>1, <1>3 DEF own

\* What is printed of a name, from what the report has of it.
IsRendered(printed, report, rates) ==
    /\ printed.robustness = report.robustness
    /\ DOMAIN printed.per_transform = DOMAIN rates \ {"identity"}
    /\ \A x \in DOMAIN rates \ {"identity"} :
          printed.per_transform[x] =
             IF "identity" \in DOMAIN rates /\ rates["identity"].hits > 0
             THEN [hits |-> rates[x].hits * rates["identity"].of,
                   of |-> rates[x].of * rates["identity"].hits]
             ELSE [hits |-> 0, of |-> 1]

LEMMA Rendered ==
    ASSUME NEW report, NEW rates,
           report = [baseline |-> report.baseline, transformed |-> report.transformed,
                     robustness |-> report.robustness, per_transform |-> rates]
    PROVE  IsRendered(render_robustness_report(report), report, rates)
<1>. DEFINE ratios == [x \in DOMAIN rates \ {"identity"} |->
                        IF "identity" \in DOMAIN rates /\ rates["identity"].hits > 0
                        THEN [hits |-> rates[x].hits * rates["identity"].of,
                              of |-> rates[x].of * rates["identity"].hits]
                        ELSE [hits |-> 0, of |-> 1]]
<1>1. report.per_transform = rates
  BY SMT
<1>2. render_robustness_report(report) = [report EXCEPT !.per_transform = ratios]
  BY <1>1 DEF render_robustness_report
<1>. HIDE DEF ratios
<1>3. render_robustness_report(report)
        = [baseline |-> report.baseline, transformed |-> report.transformed,
           robustness |-> report.robustness, per_transform |-> ratios]
  BY <1>2
<1>4. /\ render_robustness_report(report).robustness = report.robustness
      /\ render_robustness_report(report).per_transform = ratios
  BY <1>3
<1>. QED  BY <1>4 DEF IsRendered, ratios

Printed(spec, outcome) ==
    render_robustness_report(compute_robustness_report(Evaluated(spec, outcome)))

LEMMA PrintedRatios ==
    ASSUME NEW spec \in Specs, NEW outcome
    PROVE  LET records == Evaluated(spec, outcome)
               found == Cardinality(NamedPositive(records, "identity"))
               ratios == Printed(spec, outcome).per_transform
           IN  /\ Printed(spec, outcome).robustness = compute_robustness_report(records).robustness
               /\ DOMAIN ratios = OtherNames(spec)
               /\ \A x \in OtherNames(spec) : ratios[x] =
                     IF "identity" \in Names(spec) /\ found > 0
                     THEN [hits |-> Cardinality(NamedAfter(records, x))
                                        * Cardinality(Named(records, "identity")),
                           of |-> Cardinality(Named(records, x)) * found]
                     ELSE [hits |-> 0, of |-> 1]
<1>. DEFINE records == Evaluated(spec, outcome)
            found == Cardinality(NamedPositive(records, "identity"))
            report == compute_robustness_report(records)
            rates == report.per_transform
            ratios == Printed(spec, outcome).per_transform
<1>1. {records[k].transform_name : k \in DOMAIN records} = Names(spec)
  BY NamesUsed, Zenon
<1>2. Printed(spec, outcome) = render_robustness_report(report)
  BY Zenon DEF Printed
<1>. HIDE DEF records
<1>3. rates = [x \in Names(spec) |->
                [hits |-> IF x = "identity" THEN Cardinality(NamedPositive(records, x))
                          ELSE Cardinality(NamedAfter(records, x)),
                 of |-> Cardinality(Named(records, x))]]
  <2>. DEFINE own(x) == Those(records, LAMBDA r : r.transform_name = x)
  <2>1. rates = [x \in {records[k].transform_name : k \in DOMAIN records} |->
                    [hits |-> IF x = "identity" THEN Count(own(x), Original)
                              ELSE Count(own(x), Transformed),
                     of |-> Cardinality(DOMAIN own(x))]]
    BY DEF compute_robustness_report
  <2>2. \A x : /\ DOMAIN own(x) = Named(records, x)
               /\ Count(own(x), Original) = Cardinality(NamedPositive(records, x))
               /\ Count(own(x), Transformed) = Cardinality(NamedAfter(records, x))
    BY CountsOfName, Zenon
  <2>. HIDE DEF own, rates
  <2>. QED  BY <1>1, <2>1, <2>2
<1>4. report = [baseline |-> report.baseline, transformed |-> report.transformed,
                robustness |-> report.robustness, per_transform |-> rates]
  BY DEF compute_robustness_report
<1>. HIDE DEF report
<1>5. /\ Printed(spec, outcome).robustness = report.robustness
      /\ DOMAIN ratios = DOMAIN rates \ {"identity"}
      /\ \A x \in DOMAIN rates \ {"identity"} :
             ratios[x] = IF "identity" \in DOMAIN rates /\ rates["identity"].hits > 0
                         THEN [hits |-> rates[x].hits * rates["identity"].of,
                               of |-> rates[x].of * rates["identity"].hits]
                         ELSE [hits |-> 0, of |-> 1]
  <2>. HIDE DEF rates
  <2>1. IsRendered(render_robustness_report(report), report, rates)
    BY <1>4, Rendered, Zenon
  <2>. QED  BY <1>2, <2>1, Zenon DEF IsRendered
<1>. HIDE DEF rates, ratios
<1>6. DOMAIN rates = Names(spec)
  BY <1>3
<1>7. "identity" \in Names(spec) => /\ rates["identity"].hits = found
                                    /\ rates["identity"].of = Cardinality(Named(records, "identity"))
  BY <1>3
<1>8. \A x \in OtherNames(spec) : /\ rates[x].hits = Cardinality(NamedAfter(records, x))
                                  /\ rates[x].of = Cardinality(Named(records, x))
  BY <1>3 DEF OtherNames
<1>9. OtherNames(spec) = DOMAIN rates \ {"identity"}
  BY <1>6 DEF OtherNames
<1>10. ASSUME NEW x \in OtherNames(spec)
       PROVE  ratios[x] = IF "identity" \in Names(spec) /\ found > 0
                          THEN [hits |-> Cardinality(NamedAfter(records, x))
                                            * Cardinality(Named(records, "identity")),
                                of |-> Cardinality(Named(records, x)) * found]
                          ELSE [hits |-> 0, of |-> 1]
  <2>. HIDE DEF found
  <2>1. CASE "identity" \in Names(spec)
    BY <1>5, <1>6, <1>7, <1>8, <1>9, <2>1, Zenon
  <2>2. CASE "identity" \notin Names(spec)
    BY <1>5, <1>6, <1>9, <2>2, Zenon
  <2>. QED  BY <2>1, <2>2
<1>. QED  BY <1>5, <1>9, <1>10 DEF report, ratios, records

\* A product of counts, regrouped: the ratio of unpaired rates bounds the paired rate.
LEMMA RatioBounds ==
    ASSUME NEW after \in Nat, NEW still \in Nat, NEW own \in Nat, NEW ownFound \in Nat,
           NEW all \in Nat, NEW found \in Nat,
           still <= after, all * ownFound = found * own
    PROVE  (after * all) * ownFound >= still * (own * found)
<1>. DEFINE share == found * own
<1>1. share \in Nat /\ all * ownFound = share /\ own * found = share
  OBVIOUS
<1>2. (after * all) * ownFound = after * (all * ownFound)
  OBVIOUS
<1>. HIDE DEF share
<1>3. (after - still) * share \in Nat /\ after * share = still * share + (after - still) * share
  BY <1>1
<1>4. after * share \in Nat /\ still * share \in Nat
  BY <1>1
<1>5. after * share >= still * share
  <2>. DEFINE p == after * share
              q == still * share
              d == (after - still) * share
  <2>1. p \in Nat /\ q \in Nat /\ d \in Nat /\ p = q + d
    BY <1>3, <1>4
  <2>. HIDE DEF p, q, d
  <2>2. p >= q
    BY <2>1
  <2>. QED  BY <2>2 DEF p, q
<1>. QED  BY <1>1, <1>2, <1>5

Follows(spec, ratio, lines) ==
    IF "identity" \in Names(spec) THEN RatioBoundsPaired(ratio, lines) ELSE ratio.hits = 0

LEMMA RatioFollows ==
    ASSUME NEW spec \in Specs, NEW outcome, NEW x \in OtherNames(spec)
    PROVE  Follows(spec, Printed(spec, outcome).per_transform[x],
                   LinesIn(benchmark_results(spec, Evaluated(spec, outcome)), {x}))
<1>. DEFINE records == Evaluated(spec, outcome)
            ratio == Printed(spec, outcome).per_transform[x]
            lines == LinesIn(benchmark_results(spec, records), {x})
            all == Cardinality(Named(records, "identity"))
            found == Cardinality(NamedPositive(records, "identity"))
            own == Cardinality(Named(records, x))
            ownFound == Cardinality(NamedPositive(records, x))
            after == Cardinality(NamedAfter(records, x))
            still == Cardinality(StillIn(records, {x}))
<1>1. ratio = IF "identity" \in Names(spec) /\ found > 0
              THEN [hits |-> after * all, of |-> own * found]
              ELSE [hits |-> 0, of |-> 1]
  BY PrintedRatios, Zenon
<1>2. Total(lines, Still) = still /\ BaselineDetected(lines) = ownFound
  <2>1. /\ Total(lines, Still) = still
        /\ BaselineDetected(lines) = Cardinality(PositiveIn(records, {x}))
    BY StoredCounts, Zenon
  <2>2. PositiveIn(records, {x}) = NamedPositive(records, x)
    <3>. HIDE DEF records
    <3>. QED  BY DEF PositiveIn, NamedPositive, Named
  <2>. QED  BY <2>1, <2>2, Zenon
<1>3. /\ all \in Nat /\ found \in Nat /\ own \in Nat /\ ownFound \in Nat
      /\ IsFiniteSet(Named(records, x)) /\ IsFiniteSet(Named(records, "identity"))
      /\ all * ownFound = found * own
  <2>1. all \in Nat /\ found \in Nat /\ IsFiniteSet(Named(records, "identity"))
        /\ all * ownFound = found * own
    BY SameShare, Zenon
  <2>2. own \in Nat /\ ownFound \in Nat /\ IsFiniteSet(Named(records, x))
    BY SameShare, Zenon
  <2>. QED  BY <2>1, <2>2, Zenon
<1>4. \A y \in Names(spec) : Named(records, y) # {}
  <2>1. {records[k].transform_name : k \in DOMAIN records} = Names(spec)
    BY NamesUsed, Zenon
  <2>. HIDE DEF records
  <2>. QED  BY <2>1 DEF Named
<1>. HIDE DEF records, ratio, lines
<1>5. after \in Nat /\ still \in Nat /\ still <= after /\ still <= ownFound
  <2>1. /\ StillIn(records, {x}) \in SUBSET NamedAfter(records, x)
        /\ StillIn(records, {x}) \in SUBSET NamedPositive(records, x)
        /\ NamedAfter(records, x) \in SUBSET Named(records, x)
        /\ NamedPositive(records, x) \in SUBSET Named(records, x)
    BY DEF StillIn, PositiveIn, NamedAfter, NamedPositive, Named
  <2>2. IsFiniteSet(NamedAfter(records, x)) /\ IsFiniteSet(NamedPositive(records, x))
    BY <1>3, <2>1, FS_Subset
  <2>3. still <= after /\ still <= ownFound /\ IsFiniteSet(StillIn(records, {x}))
    BY <2>1, <2>2, FS_Subset
  <2>4. after \in Nat /\ still \in Nat
    BY <2>2, <2>3, FS_CardinalityType
  <2>. QED  BY <2>3, <2>4
<1>6. "identity" \in Names(spec) => all > 0
  <2>. SUFFICES ASSUME "identity" \in Names(spec) PROVE all > 0
    OBVIOUS
  <2>1. Named(records, "identity") # {}
    BY <1>4
  <2>2. all # 0
    BY <1>3, <2>1, FS_EmptySet
  <2>. QED  BY <1>3, <2>2
<1>. HIDE DEF all, found, own, ownFound, after, still
<1>7. ASSUME "identity" \in Names(spec) PROVE Follows(spec, ratio, lines)
  <2>1. CASE found > 0
    <3>1. ratio.hits = after * all /\ ratio.of = own * found
      BY <1>1, <1>7, <2>1
    <3>2. (after * all) * ownFound >= still * (own * found)
      BY <1>3, <1>5, RatioBounds
    <3>. QED  BY <1>2, <1>7, <3>1, <3>2 DEF Follows, RatioBoundsPaired
  <2>2. CASE found = 0
    <3>1. ratio.hits = 0 /\ ratio.of = 1
      BY <1>1, <2>2
    <3>2. all * ownFound = 0
      BY <1>3, <2>2
    <3>3. ownFound = 0
      BY <1>3, <1>6, <1>7, <3>2
    <3>4. still = 0
      BY <1>3, <1>5, <3>3
    <3>5. 0 * ownFound >= still * 1
      BY <3>3, <3>4
    <3>. QED  BY <1>2, <1>7, <3>1, <3>5 DEF Follows, RatioBoundsPaired
  <2>. QED  BY <1>3, <2>1, <2>2
<1>8. ASSUME "identity" \notin Names(spec) PROVE Follows(spec, ratio, lines)
  <2>1. ratio = [hits |-> 0, of |-> 1]
    BY <1>1, <1>8, Zenon
  <2>2. ratio.hits = 0
    BY <2>1
  <2>. QED  BY <1>8, <2>2, Zenon DEF Follows
<1>9. Follows(spec, ratio, lines)
  BY <1>7, <1>8
<1>. QED  BY <1>9 DEF ratio, lines, records

IsGroup(group) ==
    IsFiniteSet(DOMAIN group) /\ \A i \in DOMAIN group : PairedLine(group[i])

RatesOf(group) ==
    /\ rate_estimate(TransformedDetected(group), Samples(group)) # ValueError
    /\ ClampedRate(group) # ValueError
    /\ ClampedRate(group).successes >= Total(group, Still)
    /\ PreservedRate(group) # ValueError

\* Over any lines, the counts are ordered as in each of them, so the rates exist, and the
\* clamped one bounds the paired one.
LEMMA GroupRates == ASSUME NEW group, IsGroup(group) PROVE RatesOf(group)
<1>. DEFINE D == DOMAIN group
            samples == [i \in D |-> group[i].sample_count]
            before == [i \in D |-> group[i].baseline_detected]
            after == [i \in D |-> group[i].transformed_detected]
            still == [i \in D |-> Still(group[i])]
<1>1. /\ Samples(group) = SumFunction(samples)
      /\ BaselineDetected(group) = SumFunction(before)
      /\ TransformedDetected(group) = SumFunction(after)
      /\ Total(group, Still) = SumFunction(still)
  BY DEF Samples, BaselineDetected, TransformedDetected, Total
<1>2. /\ samples \in [D -> Nat] /\ before \in [D -> Nat]
      /\ after \in [D -> Nat] /\ still \in [D -> Nat]
  BY DEF IsGroup, PairedLine
<1>3. \A i \in D : /\ before[i] <= samples[i] /\ after[i] <= samples[i]
                   /\ still[i] <= before[i] /\ still[i] <= after[i]
  BY DEF IsGroup, PairedLine
<1>4. IsFiniteSet(D)
  BY DEF IsGroup
<1>. HIDE DEF samples, before, after, still, D
<1>. DEFINE n == SumFunction(samples)
            b == SumFunction(before)
            t == SumFunction(after)
            s == SumFunction(still)
<1>5. n \in Nat /\ b \in Nat /\ b <= n
  BY <1>2, <1>3, <1>4, SumGrows
<1>6. t \in Nat /\ t <= n
  BY <1>2, <1>3, <1>4, SumGrows
<1>7. s \in Nat /\ s <= b
  BY <1>2, <1>3, <1>4, SumGrows
<1>8. s <= t
  BY <1>2, <1>3, <1>4, SumGrows
<1>9. /\ ClampedRate(group) = IF b > 0 THEN rate_estimate(Least(t, b), b) ELSE rate_estimate(0, n)
      /\ rate_estimate(TransformedDetected(group), Samples(group)) = rate_estimate(t, n)
      /\ PreservedRate(group) = IF b > 0 THEN ClampedRate(group) ELSE rate_estimate(0, 0)
      /\ Total(group, Still) = s
  BY <1>1, Zenon DEF ClampedRate, PreservedRate
<1>. HIDE DEF n, b, t, s
<1>10. Least(t, b) \in Nat /\ Least(t, b) <= b /\ Least(t, b) >= s
  BY <1>5, <1>6, <1>7, <1>8 DEF Least
<1>11. /\ rate_estimate(Least(t, b), b) = [successes |-> Least(t, b), n_samples |-> b]
       /\ rate_estimate(Least(t, b), b) # ValueError
  BY <1>5, <1>10, RateOrZero
<1>12. /\ rate_estimate(0, n) = [successes |-> 0, n_samples |-> n]
       /\ rate_estimate(0, n) # ValueError
  BY <1>5, RateOrZero
<1>13. rate_estimate(0, 0) # ValueError
  BY RateOrZero
<1>14. rate_estimate(t, n) # ValueError
  BY <1>5, <1>6, RateOrZero
<1>15. ClampedRate(group) # ValueError /\ ClampedRate(group).successes >= s
  <2>1. CASE b > 0
    BY <1>9, <1>10, <1>11, <2>1
  <2>2. CASE ~(b > 0)
    <3>1. s = 0 /\ ClampedRate(group) = rate_estimate(0, n)
      BY <1>5, <1>7, <1>9, <2>2
    <3>. QED  BY <1>12, <3>1
  <2>. QED  BY <2>1, <2>2
<1>16. PreservedRate(group) # ValueError
  BY <1>9, <1>13, <1>15
<1>. QED  BY <1>9, <1>14, <1>15, <1>16 DEF RatesOf

\* The lines of a group are lines.
LEMMA ThoseAreGroup ==
    ASSUME NEW lines, IsLines(lines), NEW D \in SUBSET (DOMAIN lines)
    PROVE  IsGroup(Restrict(lines, D))
<1>1. IsFiniteSet(DOMAIN lines)
  <2>1. DOMAIN lines = 1..Len(lines) /\ Len(lines) \in Nat
    BY DEF IsLines
  <2>. QED  BY <2>1, FS_Interval
<1>2. IsFiniteSet(D)
  BY <1>1, FS_Subset
<1>3. DOMAIN Restrict(lines, D) = D /\ \A i \in D : Restrict(lines, D)[i] = lines[i]
  BY DEF Restrict
<1>. QED  BY <1>2, <1>3 DEF IsGroup, IsLines

KeyOf(r) == <<r.detector_name, r.config_identifier, r.transform_name>>
CategoryKeyOf(r) == <<r.detector_name, r.config_identifier, CategoryOf[r.transform_name]>>
KeyIs(lines, k) == {i \in DOMAIN lines : KeyOf(lines[i]) = k}
CategoryIs(lines, k) == {i \in DOMAIN lines : CategoryKeyOf(lines[i]) = k}

\* The aggregate has an entry for each detector, configuration and transformation.
LEMMA AggregatedGroups ==
    ASSUME NEW lines
    PROVE  aggregate_results(lines) =
               [k \in {KeyOf(lines[i]) : i \in DOMAIN lines} |->
                   Summary(Restrict(lines, KeyIs(lines, k)),
                           ClampedRate(Restrict(lines, KeyIs(lines, k))))]
<1>. DEFINE groups == GroupBy(lines, KeyOf)
<1>1. groups = [k \in {KeyOf(lines[i]) : i \in DOMAIN lines} |-> Restrict(lines, KeyIs(lines, k))]
  BY Zenon DEF GroupBy, Those, KeyIs
<1>2. aggregate_results(lines)
        = [k \in DOMAIN groups |-> Summary(groups[k], ClampedRate(groups[k]))]
  BY Zenon DEF aggregate_results, KeyOf, GroupBy
<1>. HIDE DEF groups
<1>3. /\ DOMAIN groups = {KeyOf(lines[i]) : i \in DOMAIN lines}
      /\ \A k \in DOMAIN groups : groups[k] = Restrict(lines, KeyIs(lines, k))
  BY <1>1
<1>. QED  BY <1>2, <1>3

\* The report has an entry for each category of the lines.
LEMMA CategoryGroups ==
    ASSUME NEW lines
    PROVE  build_programmatic_report(lines).category_aggregation =
               [k \in {CategoryKeyOf(lines[i]) : i \in DOMAIN lines} |->
                   Summary(Restrict(lines, CategoryIs(lines, k)),
                           PreservedRate(Restrict(lines, CategoryIs(lines, k))))]
<1>. DEFINE groups == GroupBy(lines, CategoryKeyOf)
            report == build_programmatic_report(lines)
<1>1. groups = [k \in {CategoryKeyOf(lines[i]) : i \in DOMAIN lines} |->
                   Restrict(lines, CategoryIs(lines, k))]
  BY Zenon DEF GroupBy, Those, CategoryIs
<1>2. report = [total_results |-> Len(lines), aggregated |-> aggregate_results(lines),
                matrix |-> build_robustness_matrix(aggregate_results(lines)),
                category_aggregation |->
                    [k \in DOMAIN groups |-> Summary(groups[k], PreservedRate(groups[k]))]]
  BY Zenon DEF build_programmatic_report, CategoryKeyOf, GroupBy
<1>. HIDE DEF groups, report
<1>3. /\ DOMAIN groups = {CategoryKeyOf(lines[i]) : i \in DOMAIN lines}
      /\ \A k \in DOMAIN groups : groups[k] = Restrict(lines, CategoryIs(lines, k))
  BY <1>1
<1>4. report.category_aggregation
        = [k \in DOMAIN groups |-> Summary(groups[k], PreservedRate(groups[k]))]
  BY <1>2
<1>. QED  BY <1>3, <1>4 DEF report

\* The matrix shows the aggregate of the configuration that it names last.
LEMMA MatrixShows ==
    ASSUME NEW aggregated,
           \A k \in DOMAIN aggregated : /\ k = <<k[1], k[2], k[3]>>
                                        /\ k[2] \in {CliSpec.config, RunSpec.config}
    PROVE  LET matrix == build_robustness_matrix(aggregated)
           IN  \A cell \in DOMAIN matrix : \E k \in DOMAIN aggregated :
                   <<k[1], k[3]>> = cell /\ matrix[cell] = aggregated[k]
<1>. DEFINE Configs(cell) == {k[2] : k \in {x \in DOMAIN aggregated : <<x[1], x[3]>> = cell}}
            matrix == build_robustness_matrix(aggregated)
            cells == {<<k[1], k[3]>> : k \in DOMAIN aggregated}
<1>1. matrix = [cell \in cells |-> aggregated[<<cell[1], Max(Configs(cell)), cell[2]>>]]
  BY Zenon DEF build_robustness_matrix
<1>. SUFFICES ASSUME NEW cell \in cells
              PROVE  \E k \in DOMAIN aggregated : /\ <<k[1], k[3]>> = cell
                                                  /\ matrix[cell] = aggregated[k]
  BY <1>1
<1>2. PICK k \in DOMAIN aggregated : cell = <<k[1], k[3]>>
  OBVIOUS
<1>3. k[2] \in Configs(cell) /\ Configs(cell) \subseteq {CliSpec.config, RunSpec.config}
  BY <1>2
<1>4. Max(Configs(cell)) \in Configs(cell)
  <2>. DEFINE C == Configs(cell)
  <2>1. C # {} /\ C \subseteq {CliSpec.config, RunSpec.config}
    BY <1>3
  <2>. HIDE DEF C
  <2>2. CliSpec.config \in Nat /\ RunSpec.config \in Nat
    BY ReportsAssumption DEF ReportsAssumption
  <2>3. \E x \in C : \A y \in C : x >= y
    BY <2>1, <2>2
  <2>4. Max(C) \in C
    BY <2>3 DEF Max
  <2>. QED  BY <2>4 DEF C
<1>5. PICK j \in DOMAIN aggregated : <<j[1], j[3]>> = cell /\ Max(Configs(cell)) = j[2]
  BY <1>4
<1>6. j = <<j[1], j[2], j[3]>> /\ cell[1] = j[1] /\ cell[2] = j[3]
  BY <1>5
<1>7. <<cell[1], Max(Configs(cell)), cell[2]>> = j
  BY <1>5, <1>6
<1>. QED  BY <1>1, <1>5, <1>7

\* A report of any lines keeps what it promises of its rates.
LEMMA ReportOfLines == ASSUME NEW lines, IsLines(lines) PROVE ReportBoundsPaired(lines)
<1>. DEFINE report == build_programmatic_report(lines)
            keys == {KeyOf(lines[i]) : i \in DOMAIN lines}
            Group(k) == Restrict(lines, KeyIs(lines, k))
            categories == {CategoryKeyOf(lines[i]) : i \in DOMAIN lines}
            Category(k) == Restrict(lines, CategoryIs(lines, k))
<1>1. report.aggregated = aggregate_results(lines)
      /\ report.matrix = build_robustness_matrix(report.aggregated)
  <2>1. PICK c : report = [total_results |-> Len(lines), aggregated |-> aggregate_results(lines),
                           matrix |-> build_robustness_matrix(aggregate_results(lines)),
                           category_aggregation |-> c]
    BY Zenon DEF build_programmatic_report
  <2>. HIDE DEF report
  <2>. QED  BY <2>1
<1>2. report.aggregated = [k \in keys |-> Summary(Group(k), ClampedRate(Group(k)))]
  BY <1>1, AggregatedGroups, Zenon
<1>3. report.category_aggregation
        = [k \in categories |-> Summary(Category(k), PreservedRate(Category(k)))]
  BY CategoryGroups, Zenon
<1>4. \A k : RatesOf(Group(k)) /\ RatesOf(Category(k))
  <2>. SUFFICES ASSUME NEW k PROVE RatesOf(Group(k)) /\ RatesOf(Category(k))
    OBVIOUS
  <2>1. KeyIs(lines, k) \in SUBSET (DOMAIN lines) /\ CategoryIs(lines, k) \in SUBSET (DOMAIN lines)
    BY DEF KeyIs, CategoryIs
  <2>. QED  BY <2>1, ThoseAreGroup, GroupRates, Zenon
<1>5. \A k : Group(k) = Those(lines, LAMBDA r :
                            <<r.detector_name, r.config_identifier, r.transform_name>> = k)
  BY Zenon DEF Those, KeyIs, KeyOf
<1>6. \A k \in keys : /\ k = <<k[1], k[2], k[3]>>
                      /\ k[2] \in {CliSpec.config, RunSpec.config}
  BY DEF KeyOf, IsLines, PairedLine
<1>. HIDE DEF report, keys, Group, categories, Category
<1>7. \A k \in DOMAIN report.aggregated :
          /\ ValueError \notin {report.aggregated[k].robustness, report.aggregated[k].transformed}
          /\ report.aggregated[k].robustness.successes >= Total(Group(k), Still)
  <2>. SUFFICES ASSUME NEW k \in keys
                PROVE  /\ ValueError \notin {report.aggregated[k].robustness,
                                             report.aggregated[k].transformed}
                       /\ report.aggregated[k].robustness.successes >= Total(Group(k), Still)
    BY <1>2
  <2>1. report.aggregated[k] = Summary(Group(k), ClampedRate(Group(k)))
    BY <1>2
  <2>2. /\ Summary(Group(k), ClampedRate(Group(k))).robustness = ClampedRate(Group(k))
        /\ Summary(Group(k), ClampedRate(Group(k))).transformed
              = rate_estimate(TransformedDetected(Group(k)), Samples(Group(k)))
    BY DEF Summary
  <2>. QED  BY <1>4, <2>1, <2>2 DEF RatesOf
<1>8. \A k \in DOMAIN report.category_aggregation :
          report.category_aggregation[k].robustness # ValueError
  <2>. SUFFICES ASSUME NEW k \in categories
                PROVE  report.category_aggregation[k].robustness # ValueError
    BY <1>3
  <2>1. report.category_aggregation[k] = Summary(Category(k), PreservedRate(Category(k)))
    BY <1>3
  <2>2. Summary(Category(k), PreservedRate(Category(k))).robustness = PreservedRate(Category(k))
    BY DEF Summary
  <2>. QED  BY <1>4, <2>1, <2>2 DEF RatesOf
<1>9. \A cell \in DOMAIN report.matrix : \E k \in DOMAIN report.aggregated :
          <<k[1], k[3]>> = cell /\ report.matrix[cell] = report.aggregated[k]
  <2>. DEFINE a == report.aggregated
  <2>1. \A k \in DOMAIN a : k = <<k[1], k[2], k[3]>> /\ k[2] \in {CliSpec.config, RunSpec.config}
    BY <1>2, <1>6
  <2>. HIDE DEF a
  <2>2. LET matrix == build_robustness_matrix(a)
        IN  \A cell \in DOMAIN matrix : \E k \in DOMAIN a :
                   <<k[1], k[3]>> = cell /\ matrix[cell] = a[k]
    BY <2>1, MatrixShows, Zenon
  <2>. QED  BY <1>1, <2>2, Zenon DEF a
<1>10. /\ \A k \in DOMAIN report.aggregated :
          LET group == Those(lines, LAMBDA r :
                            <<r.detector_name, r.config_identifier, r.transform_name>> = k)
          IN  /\ ValueError \notin {report.aggregated[k].robustness,
                                   report.aggregated[k].transformed}
              /\ report.aggregated[k].robustness.successes >= Total(group, Still)
  BY <1>5, <1>7, Zenon
<1>. QED  BY <1>8, <1>9, <1>10, Zenon DEF ReportBoundsPaired, report

-----------------------------------------------------------------------------
(* Lines, where they are *)

\* records.jsonl has evaluation records, the other files have lines.
LinesAt(path, lines) ==
    IF path = CliRecords THEN lines \in Seq({Evaluation}) ELSE IsLines(lines)
FileLines == \A p \in ToSet(Paths) : LinesAt(p, files[p].lines)

\* What is printed follows from the lines that are stored.
Agrees(printed, lines) ==
    printed # None =>
        LET names == ToSet(resolve_experiment_transforms(CliSpec)) IN
        /\ printed.robustness = PrintedRate(names, lines)
        /\ DOMAIN printed.per_transform = names \ {"identity"}
        /\ \A x \in names \ {"identity"} :
              LET ratio == printed.per_transform[x] IN
              IF "identity" \in names
              THEN RatioBoundsPaired(ratio, Those(lines, LAMBDA r : r.transform_name = x))
              ELSE ratio.hits = 0

CliLines ==
    /\ cli = [pc |-> cli.pc, lines |-> cli.lines, printed |-> cli.printed]
    /\ IsLines(cli.lines)
    /\ Agrees(cli.printed, cli.lines)

\* Whatever a reader has taken are lines, of whichever files it could read.
IsReader(r) ==
    /\ r = [pc |-> r.pc, todo |-> r.todo, lines |-> r.lines, warnings |-> r.warnings,
            at |-> r.at]
    /\ r.todo \in SUBSET ToSet(Paths)
    /\ IsLines(r.lines)
ReaderLines ==
    /\ reader = [r \in Readers |-> reader[r]]
    /\ \A r \in Readers : IsReader(reader[r])

RatesInv == FileLines /\ CliLines /\ IsLines(worker.lines) /\ ReaderLines

\* A sequence is one of its own members.
LEMMA SeqOfOwn ==
    ASSUME NEW S, NEW s \in Seq(S)
    PROVE  s \in Seq(ToSet(s)) /\ DOMAIN s = 1..Len(s) /\ Len(s) \in Nat
  BY DEF ToSet

LEMMA NoLines == IsLines(<<>>)
  BY DEF IsLines, ToSet

LEMMA PrefixOfSeq ==
    ASSUME NEW S, NEW s \in Seq(S), NEW t \in Prefixes(s)
    PROVE  t \in Seq(S) /\ \A i \in DOMAIN t : i \in DOMAIN s /\ t[i] = s[i]
<1>1. PICK l \in 0..Len(s) : t = SubSeq(s, 1, l)
  BY DEF Prefixes
<1>2. Len(s) \in Nat /\ l \in Nat /\ l <= Len(s) /\ DOMAIN s = 1..Len(s)
  OBVIOUS
<1>3. t = [i \in 1..l |-> s[i]]
  BY <1>1, <1>2
<1>4. \A i \in 1..l : i \in 1..Len(s) /\ s[i] \in S
  BY <1>2
<1>5. t \in [1..l -> S]
  BY <1>3, <1>4
<1>. QED  BY <1>2, <1>3, <1>4, <1>5

LEMMA PrefixLines ==
    ASSUME NEW lines, IsLines(lines), NEW kept \in Prefixes(lines)
    PROVE  IsLines(kept)
<1>1. /\ kept \in Seq(ToSet(lines))
      /\ \A i \in DOMAIN kept : i \in DOMAIN lines /\ kept[i] = lines[i]
  BY PrefixOfSeq DEF IsLines
<1>2. kept \in Seq(ToSet(kept))
  BY <1>1, SeqOfOwn
<1>. QED  BY <1>1, <1>2 DEF IsLines

LEMMA ConcatLines ==
    ASSUME NEW s, NEW t, IsLines(s), IsLines(t)
    PROVE  IsLines(s \o t)
<1>. DEFINE S == ToSet(s) \cup ToSet(t)
            u == s \o t
<1>1. s \in Seq(S) /\ t \in Seq(S)
  <2>1. s \in Seq(ToSet(s)) /\ t \in Seq(ToSet(t)) /\ ToSet(s) \subseteq S /\ ToSet(t) \subseteq S
    BY DEF IsLines
  <2>. HIDE DEF S
  <2>. QED  BY <2>1
<1>. HIDE DEF S
<1>2. /\ u \in Seq(S)
      /\ \A i \in DOMAIN u : \/ (i \in DOMAIN s /\ u[i] = s[i])
                             \/ (i - Len(s) \in DOMAIN t /\ u[i] = t[i - Len(s)])
  BY <1>1
<1>. HIDE DEF u
<1>3. u \in Seq(ToSet(u))
  BY <1>2, SeqOfOwn
<1>4. \A i \in DOMAIN u : PairedLine(u[i])
  BY <1>2 DEF IsLines
<1>. QED  BY <1>3, <1>4 DEF IsLines, u

\* Stamping changes no count.
WithId(r, id) == [r EXCEPT !.run_id = id]

LEMMA StampedPaired ==
    ASSUME NEW r, PairedLine(r), NEW id
    PROVE  PairedLine(WithId(r, id))
<1>. DEFINE q == WithId(r, id)
<1>1. q = [detector_name |-> r.detector_name, config_identifier |-> r.config_identifier,
           transform_name |-> r.transform_name, text_length |-> r.text_length,
           sample_count |-> r.sample_count, baseline_detected |-> r.baseline_detected,
           transformed_detected |-> r.transformed_detected,
           detection_change_count |-> r.detection_change_count,
           robustness |-> r.robustness, run_id |-> id]
  BY DEF PairedLine, IsLine, WithId
<1>. HIDE DEF q
<1>2. /\ IsLine(q) /\ q.config_identifier = r.config_identifier
      /\ q.sample_count = r.sample_count /\ q.baseline_detected = r.baseline_detected
      /\ q.transformed_detected = r.transformed_detected
      /\ q.detection_change_count = r.detection_change_count /\ q.robustness = r.robustness
  BY <1>1 DEF IsLine
<1>3. Still(q) = Still(r)
  BY <1>2, Zenon DEF Still
<1>4. PairedLine(q)
  BY <1>2, <1>3, Zenon DEF PairedLine, LineIsPaired
<1>. QED  BY <1>4 DEF q

LEMMA StampedLines ==
    ASSUME NEW lines, IsLines(lines)
    PROVE  IsLines(Stamped(lines))
<1>. DEFINE stamped == Stamped(lines)
            n == Len(lines)
<1>1. n \in Nat /\ DOMAIN lines = 1..n /\ \A i \in 1..n : PairedLine(lines[i])
  BY SeqOfOwn DEF IsLines
<1>2. stamped = [i \in 1..n |-> [lines[i] EXCEPT !.run_id = IF @ = None THEN Run ELSE @]]
  BY <1>1 DEF Stamped
<1>3. ASSUME NEW i \in 1..n PROVE PairedLine(stamped[i])
  <2>1. stamped[i] = WithId(lines[i], IF lines[i].run_id = None THEN Run ELSE lines[i].run_id)
    BY <1>2 DEF WithId
  <2>2. PairedLine(lines[i])
    BY <1>1
  <2>. HIDE DEF stamped
  <2>. QED  BY <2>1, <2>2, StampedPaired, Zenon
<1>. HIDE DEF stamped, n
<1>4. DOMAIN stamped = 1..n
  BY <1>2
<1>5. stamped \in [1..n -> ToSet(stamped)]
  BY <1>2, <1>4 DEF ToSet
<1>6. stamped \in Seq(ToSet(stamped))
  BY <1>1, <1>5
<1>. QED  BY <1>3, <1>4, <1>6 DEF IsLines, stamped

-----------------------------------------------------------------------------
(* Files of lines *)

LEMMA PrefixAt ==
    ASSUME NEW path, NEW lines, LinesAt(path, lines), NEW kept \in Prefixes(lines)
    PROVE  LinesAt(path, kept)
  BY PrefixLines, PrefixOfSeq DEF LinesAt

LEMMA OpenedLines ==
    ASSUME NEW path \in ToSet(Paths), NEW lines, FilesShaped, FileLines,
           LinesAt(path, lines), OpenForWriting(path, lines)
    PROVE  FileLines'
<1>1. /\ files'[path] = [lines |-> lines, state |-> "open"]
      /\ \A p \in ToSet(Paths) : p # path => files'[p] = files[p]
  BY Opened
<1>. QED  BY <1>1 DEF FileLines

LEMMA ClosedLines ==
    ASSUME NEW path \in ToSet(Paths), FilesShaped, FileLines, Close(path)
    PROVE  FileLines'
<1>1. /\ files'[path] = [lines |-> files[path].lines, state |-> "whole"]
      /\ \A p \in ToSet(Paths) : p # path => files'[p] = files[p]
  BY Closed
<1>. QED  BY <1>1 DEF FileLines

LEMMA KilledLines ==
    ASSUME NEW path \in ToSet(Paths), FilesShaped, FileLines, CutShort(path)
    PROVE  FileLines'
<1>1. PICK kept \in Prefixes(files[path].lines), state \in {"whole", "torn"} :
          files' = [files EXCEPT ![path] = [lines |-> kept, state |-> state]]
  BY Zenon DEF CutShort
<1>2. LinesAt(path, kept)
  BY PrefixAt DEF FileLines
<1>3. /\ files'[path] = [lines |-> kept, state |-> state]
      /\ \A p \in ToSet(Paths) : p # path => files'[p] = files[p]
  BY <1>1, WriteOf DEF IsFile
<1>. QED  BY <1>2, <1>3 DEF FileLines

\* A read of lines gives lines: evaluation records are no results.
LEMMA ReadLines ==
    ASSUME NEW path, NEW file, LinesAt(path, file.lines),
           NEW got \in read_benchmark_results(file), got # None
    PROVE  IsLines(got)
<1>. DEFINE taken(lines) == IF Evaluation \in ToSet(lines) THEN None ELSE lines
<1>1. ASSUME NEW lines, LinesAt(path, lines), taken(lines) # None
      PROVE  IsLines(taken(lines))
  <2>1. CASE path # CliRecords
    BY <1>1, <2>1 DEF LinesAt
  <2>2. CASE path = CliRecords
    <3>1. lines \in Seq({Evaluation}) /\ Evaluation \notin ToSet(lines)
      BY <1>1, <2>2 DEF LinesAt
    <3>2. DOMAIN lines = {}
      BY <3>1 DEF ToSet
    <3>3. lines = <<>>
      BY <3>1, <3>2
    <3>. QED  BY <1>1, <3>1, <3>3, NoLines
  <2>. QED  BY <2>1, <2>2
<1>2. \/ got = taken(file.lines)
      \/ \E lines \in Prefixes(file.lines) : got = taken(lines)
  BY DEF read_benchmark_results
<1>. QED  BY <1>1, <1>2, PrefixAt

-----------------------------------------------------------------------------
(* The steps of the lines *)

LEMMA PathsAre ==
    /\ ToSet(Paths) = {CliResults, CliRecords, RunResults}
    /\ CliResults # CliRecords
<1>1. Paths = <<CliResults, CliRecords, RunResults>>
  BY DEF Paths, CliResults, CliRecords, RunResults
<1>2. DOMAIN Paths = 1..3 /\ CliResults # CliRecords
  BY DEF Paths, CliResults, CliRecords
<1>3. ToSet(Paths) = {Paths[i] : i \in 1..3}
  BY <1>2 DEF ToSet
<1>4. Paths[1] = CliResults /\ Paths[2] = CliRecords /\ Paths[3] = RunResults
  BY DEF CliResults, CliRecords, RunResults
<1>5. 1..3 = {1, 2, 3}
  OBVIOUS
<1>. HIDE DEF CliResults
<1>. QED  BY <1>2, <1>3, <1>4, <1>5

\* What the files and their readers hold is the same in the next state.
LEMMA SameFiles == ASSUME FileLines, files' = files PROVE FileLines'
  BY DEF FileLines

LEMMA SameReaders == ASSUME ReaderLines, reader' = reader PROVE ReaderLines'
  BY DEF ReaderLines

LEMMA SameCli == ASSUME CliLines, cli' = cli PROVE CliLines'
  BY DEF CliLines

LEMMA InitLines == Init => RatesInv
<1>. SUFFICES ASSUME Init PROVE RatesInv
  OBVIOUS
<1>1. \A p \in ToSet(Paths) : files[p].lines = <<>>
  BY DEF Init, Absent
<1>2. FileLines
  <2>1. <<>> \in Seq({Evaluation})
    OBVIOUS
  <2>. QED  BY <1>1, <2>1, NoLines DEF FileLines, LinesAt
<1>3. CliLines
  BY NoLines DEF Init, CliIdle, CliLines, Agrees
<1>4. IsReader(Quiet)
  BY NoLines DEF IsReader, Quiet
<1>5. ReaderLines
  BY <1>4 DEF Init, ReaderLines
<1>6. IsLines(worker.lines)
  BY NoLines DEF Init
<1>. QED  BY <1>2, <1>3, <1>5, <1>6 DEF RatesInv

\* The lines of an experiment, and the report that is printed with it.
LEMMA PrintedAgrees ==
    ASSUME NEW outcome
    PROVE  Agrees(Printed(CliSpec, outcome),
                  benchmark_results(CliSpec, Evaluated(CliSpec, outcome)))
<1>. DEFINE records == Evaluated(CliSpec, outcome)
            lines == benchmark_results(CliSpec, records)
            others == Those(lines, LAMBDA r : r.transform_name # "identity")
            printed == Printed(CliSpec, outcome)
<1>0. CliSpec \in Specs
  BY DEF Specs
<1>1. \A i \in DOMAIN lines : lines[i].transform_name \in Names(CliSpec)
  BY <1>0, NamesUsed, Zenon
<1>2. /\ Total(LinesIn(lines, OtherNames(CliSpec)), Still)
            = Cardinality(StillIn(records, OtherNames(CliSpec)))
      /\ BaselineDetected(LinesIn(lines, OtherNames(CliSpec)))
            = Cardinality(PositiveIn(records, OtherNames(CliSpec)))
  BY <1>0, StoredCounts, Zenon
<1>3. /\ printed.robustness = compute_robustness_report(records).robustness
      /\ DOMAIN printed.per_transform = OtherNames(CliSpec)
  BY <1>0, PrintedRatios, Zenon
<1>4. "identity" \in Names(CliSpec) =>
        compute_robustness_report(records).robustness
            = rate_estimate(Cardinality(StillIn(records, OtherNames(CliSpec))),
                            Cardinality(PositiveIn(records, OtherNames(CliSpec))))
  BY <1>0, PrintedCounts, Zenon
<1>5. "identity" \notin Names(CliSpec) =>
        compute_robustness_report(records).robustness = rate_estimate(0, 0)
  BY <1>0, PrintedNothing, Zenon
<1>6. \A x \in OtherNames(CliSpec) :
        Follows(CliSpec, printed.per_transform[x], LinesIn(lines, {x}))
  BY <1>0, RatioFollows, Zenon
<1>. HIDE DEF records, lines, printed
<1>7. others = LinesIn(lines, OtherNames(CliSpec))
  BY <1>1, OtherLines, Zenon
<1>8. \A x : Those(lines, LAMBDA r : r.transform_name = x) = LinesIn(lines, {x})
  BY OwnLines, Zenon
<1>. HIDE DEF others
<1>9. printed.robustness = IF "identity" \in Names(CliSpec)
                           THEN rate_estimate(Total(others, Still), BaselineDetected(others))
                           ELSE rate_estimate(0, 0)
  BY <1>2, <1>3, <1>4, <1>5, <1>7, Zenon
<1>10. printed.robustness = PrintedRate(Names(CliSpec), lines)
  BY <1>9, Zenon DEF PrintedRate, others
<1>11. \A x \in Names(CliSpec) \ {"identity"} :
        IF "identity" \in Names(CliSpec)
        THEN RatioBoundsPaired(printed.per_transform[x],
                               Those(lines, LAMBDA r : r.transform_name = x))
        ELSE printed.per_transform[x].hits = 0
  BY <1>6, <1>8, Zenon DEF Follows, OtherNames
<1>12. DOMAIN printed.per_transform = Names(CliSpec) \ {"identity"}
  BY <1>3, Zenon DEF OtherNames
<1>13. Agrees(printed, lines)
  BY <1>10, <1>11, <1>12, Zenon DEF Agrees, Names
<1>. QED  BY <1>13 DEF printed, lines, records

LEMMA EvaluatedLines ==
    ASSUME NEW spec \in Specs, NEW outcome
    PROVE  IsLines(benchmark_results(spec, Evaluated(spec, outcome)))
<1>1. \E G : LinesOf(spec, Evaluated(spec, outcome),
                     benchmark_results(spec, Evaluated(spec, outcome)), G)
  BY ResultsPaired, Zenon
<1>. QED  BY <1>1, Zenon DEF LinesOf

LEMMA EvaluateCli ==
    ASSUME RatesInv, NEW outcome, _benchmark_robustness_watermark(outcome)
    PROVE  RatesInv'
<1>. DEFINE records == Evaluated(CliSpec, outcome)
            results == benchmark_results(CliSpec, records)
            report == render_robustness_report(compute_robustness_report(records))
<1>1. cli' = [pc |-> "evaluated", lines |-> results, printed |-> report]
  BY Zenon DEF _benchmark_robustness_watermark
<1>2. files' = files /\ worker' = worker /\ reader' = reader
  BY DEF _benchmark_robustness_watermark, CliFrame
<1>3. IsLines(results)
  BY EvaluatedLines, Zenon DEF Specs
<1>4. Agrees(report, results)
  BY PrintedAgrees, Zenon DEF Printed
<1>. HIDE DEF records, results, report
<1>5. cli'.lines = results /\ cli'.printed = report
      /\ cli' = [pc |-> cli'.pc, lines |-> cli'.lines, printed |-> cli'.printed]
  BY <1>1
<1>6. CliLines'
  BY <1>3, <1>4, <1>5 DEF CliLines
<1>. QED  BY <1>2, <1>6, SameFiles, SameReaders DEF RatesInv

\* The command writes its files, or is killed: its lines stay or go, its report goes.
LEMMA CliKeeps ==
    ASSUME CliLines, cli' = [cli EXCEPT !.pc = cli'.pc] PROVE CliLines'
<1>1. cli' = [pc |-> cli'.pc, lines |-> cli.lines, printed |-> cli.printed]
  BY DEF CliLines
<1>2. cli'.lines = cli.lines /\ cli'.printed = cli.printed
      /\ cli' = [pc |-> cli'.pc, lines |-> cli'.lines, printed |-> cli'.printed]
  BY <1>1
<1>. QED  BY <1>2 DEF CliLines

LEMMA CliForgets ==
    ASSUME CliLines, cli' = [cli EXCEPT !.pc = cli'.pc, !.printed = None] PROVE CliLines'
<1>1. cli' = [pc |-> cli'.pc, lines |-> cli.lines, printed |-> None]
  BY DEF CliLines
<1>2. cli'.lines = cli.lines /\ cli'.printed = None
      /\ cli' = [pc |-> cli'.pc, lines |-> cli'.lines, printed |-> cli'.printed]
  BY <1>1
<1>. QED  BY <1>2 DEF CliLines, Agrees

LEMMA CliEnds == ASSUME cli' = CliIdle PROVE CliLines'
  BY NoLines DEF CliIdle, CliLines, Agrees

LEMMA WriteRecordsLines ==
    ASSUME FilesShaped, RatesInv, WriteEvaluationRecords PROVE RatesInv'
<1>0. FileLines /\ CliLines /\ CliRecords \in ToSet(Paths)
  BY ThreePaths DEF RatesInv
<1>1. worker' = worker /\ reader' = reader
  BY DEF WriteEvaluationRecords, CliFrame
<1>2. CASE /\ OpenForWriting(CliRecords, <<Evaluation>>)
           /\ cli' = [cli EXCEPT !.pc = "records", !.printed = None]
  <2>1. LinesAt(CliRecords, <<Evaluation>>)
    BY DEF LinesAt
  <2>2. FileLines'
    BY <1>0, <1>2, <2>1, OpenedLines
  <2>3. cli' = [pc |-> "records", lines |-> cli.lines, printed |-> None]
    BY <1>0, <1>2 DEF CliLines
  <2>4. cli' = [cli EXCEPT !.pc = cli'.pc, !.printed = None]
    BY <1>2, <2>3
  <2>5. CliLines'
    BY <1>0, <2>4, CliForgets
  <2>. QED  BY <1>1, <2>2, <2>5, SameReaders DEF RatesInv
<1>3. CASE Close(CliRecords) /\ cli' = [cli EXCEPT !.pc = "recorded"]
  <2>1. FileLines'
    BY <1>0, <1>3, ClosedLines
  <2>2. cli' = [pc |-> "recorded", lines |-> cli.lines, printed |-> cli.printed]
    BY <1>0, <1>3 DEF CliLines
  <2>3. cli' = [cli EXCEPT !.pc = cli'.pc]
    BY <1>3, <2>2
  <2>4. CliLines'
    BY <1>0, <2>3, CliKeeps
  <2>. QED  BY <1>1, <2>1, <2>4, SameReaders DEF RatesInv
<1>. QED  BY <1>2, <1>3 DEF WriteEvaluationRecords

LEMMA WriteResultsLines ==
    ASSUME FilesShaped, RatesInv, write_watermark_benchmark_results PROVE RatesInv'
<1>0. FileLines /\ CliLines /\ CliResults \in ToSet(Paths)
  BY ThreePaths DEF RatesInv
<1>1. worker' = worker /\ reader' = reader
  BY DEF write_watermark_benchmark_results, CliFrame
<1>2. CASE OpenForWriting(CliResults, cli.lines) /\ cli' = [cli EXCEPT !.pc = "results"]
  <2>1. LinesAt(CliResults, cli.lines)
    BY <1>0, PathsAre DEF LinesAt, CliLines
  <2>2. FileLines'
    BY <1>0, <1>2, <2>1, OpenedLines
  <2>3. cli' = [pc |-> "results", lines |-> cli.lines, printed |-> cli.printed]
    BY <1>0, <1>2 DEF CliLines
  <2>4. cli' = [cli EXCEPT !.pc = cli'.pc]
    BY <1>2, <2>3
  <2>5. CliLines'
    BY <1>0, <2>4, CliKeeps
  <2>. QED  BY <1>1, <2>2, <2>5, SameReaders DEF RatesInv
<1>3. CASE Close(CliResults) /\ cli' = CliIdle
  <2>1. FileLines' /\ CliLines'
    BY <1>0, <1>3, ClosedLines, CliEnds
  <2>. QED  BY <1>1, <2>1, SameReaders DEF RatesInv
<1>. QED  BY <1>2, <1>3 DEF write_watermark_benchmark_results

LEMMA KillCliLines ==
    ASSUME FilesShaped, RatesInv, KillCli PROVE RatesInv'
<1>0. FileLines /\ CliLines
  BY DEF RatesInv
<1>1. worker' = worker /\ reader' = reader /\ cli' = CliIdle
  BY DEF KillCli, CliFrame
<1>2. \/ UNCHANGED files
      \/ \E path \in {CliResults, CliRecords} : CutShort(path)
  BY Zenon DEF KillCli
<1>3. FileLines'
  BY <1>0, <1>2, ThreePaths, KilledLines, SameFiles
<1>. QED  BY <1>0, <1>1, <1>3, CliEnds, SameReaders DEF RatesInv

LEMMA ExecuteLines ==
    ASSUME RatesInv, NEW outcome, _execute_run(outcome) PROVE RatesInv'
<1>1. files' = files /\ cli' = cli /\ reader' = reader
  BY DEF _execute_run, WorkerFrame
<1>2. \/ worker' = [pc |-> "stamp", lines |-> <<>>]
      \/ worker' = [pc |-> "evaluated",
                    lines |-> benchmark_results(RunSpec, Evaluated(RunSpec, outcome))]
  BY Zenon DEF _execute_run
<1>3. IsLines(benchmark_results(RunSpec, Evaluated(RunSpec, outcome)))
  BY EvaluatedLines, Zenon DEF Specs
<1>4. IsLines(worker'.lines)
  BY <1>2, <1>3, NoLines
<1>. QED  BY <1>1, <1>4, SameFiles, SameCli, SameReaders DEF RatesInv

LEMMA WorkerLines ==
    ASSUME WorkerShaped, FilesShaped, RatesInv,
           \/ run_plan_experiment
           \/ FailExperiment
           \/ _stamp_run_metadata
           \/ FailStamp
           \/ FinishRun
    PROVE  RatesInv'
<1>0. /\ FileLines /\ IsLines(worker.lines) /\ RunResults \in ToSet(Paths)
      /\ RunResults # CliRecords
  BY ThreePaths DEF RatesInv
<1>1. cli' = cli /\ reader' = reader
  BY DEF run_plan_experiment, FailExperiment, _stamp_run_metadata, FailStamp, FinishRun, WorkerFrame
<1>2. IsLines(files[RunResults].lines)
  BY <1>0 DEF FileLines, LinesAt
<1>3. \/ UNCHANGED files
      \/ Close(RunResults)
      \/ OpenForWriting(RunResults, worker.lines)
      \/ OpenForWriting(RunResults, Stamped(files[RunResults].lines))
      \/ CutShort(RunResults)
  BY Zenon DEF run_plan_experiment, FailExperiment, _stamp_run_metadata, FailStamp, FinishRun
<1>4. LinesAt(RunResults, worker.lines) /\ LinesAt(RunResults, Stamped(files[RunResults].lines))
  BY <1>0, <1>2, StampedLines DEF LinesAt
<1>5. FileLines'
  BY <1>0, <1>3, <1>4, SameFiles, ClosedLines, OpenedLines, KilledLines
<1>6. worker'.lines \in {worker.lines, <<>>}
  BY DEF WorkerShaped, run_plan_experiment, FailExperiment, _stamp_run_metadata, FailStamp, FinishRun
<1>7. IsLines(worker'.lines)
  BY <1>0, <1>6, NoLines
<1>. QED  BY <1>1, <1>5, <1>7, SameCli, SameReaders DEF RatesInv

\* One reader moves on.
LEMMA OneReader ==
    ASSUME ReaderLines, NEW r \in Readers, NEW q, IsReader(q),
           reader' = [reader EXCEPT ![r] = q]
    PROVE  ReaderLines'
<1>1. reader' = [x \in Readers |-> IF x = r THEN q ELSE reader[x]]
  BY DEF ReaderLines
<1>. QED  BY <1>1 DEF ReaderLines

LEMMA QuietReads == IsReader(Quiet)
  BY NoLines DEF IsReader, Quiet

\* A reader with two of its fields changed.
Fields == {"pc", "todo", "lines", "warnings", "at"}

LEMMA TwoFields ==
    ASSUME NEW r, IsReader(r), NEW f \in Fields, NEW g \in Fields, NEW x, NEW y,
           NEW q, q = [h \in DOMAIN r |-> IF h = g THEN y ELSE IF h = f THEN x ELSE r[h]],
           q.todo \in SUBSET ToSet(Paths), IsLines(q.lines)
    PROVE  IsReader(q)
<1>1. DOMAIN r = Fields
  BY DEF IsReader, Fields
<1>2. q = [pc |-> q.pc, todo |-> q.todo, lines |-> q.lines, warnings |-> q.warnings,
           at |-> q.at]
  BY <1>1 DEF Fields
<1>. QED  BY <1>2 DEF IsReader

LEMMA KillServerLines ==
    ASSUME FilesShaped, RatesInv, KillServer PROVE RatesInv'
<1>1. cli' = cli /\ worker' = [pc |-> "idle", lines |-> <<>>]
      /\ reader' = [reader EXCEPT !["dashboard"] = Quiet]
  BY DEF KillServer
<1>2. UNCHANGED files \/ CutShort(RunResults)
  BY Zenon DEF KillServer
<1>3. FileLines'
  BY <1>2, ThreePaths, KilledLines, SameFiles DEF RatesInv
<1>4. ReaderLines'
  BY <1>1, QuietReads, OneReader DEF RatesInv, Readers
<1>5. IsLines(worker'.lines)
  BY <1>1, NoLines
<1>. QED  BY <1>1, <1>3, <1>4, <1>5, SameCli DEF RatesInv

LEMMA ReaderOnly ==
    ASSUME RatesInv, ReaderFrame, ReaderLines' PROVE RatesInv'
  BY SameFiles, SameCli DEF RatesInv, ReaderFrame

LEMMA StartLines ==
    ASSUME RatesInv, NEW r \in Readers, StartReport(r) PROVE RatesInv'
<1>. DEFINE todo == {p \in ToSet(Paths) : files[p] # Absent}
            q == [Quiet EXCEPT !.pc = "reading", !.todo = todo]
<1>1. ReaderFrame /\ reader' = [reader EXCEPT ![r] = q]
  BY DEF StartReport
<1>2. todo \in SUBSET ToSet(Paths)
  OBVIOUS
<1>. HIDE DEF todo
<1>3. q = [h \in DOMAIN Quiet |-> IF h = "todo" THEN todo
                                  ELSE IF h = "pc" THEN "reading" ELSE Quiet[h]]
  OBVIOUS
<1>. HIDE DEF q
<1>4. q.todo = todo /\ q.lines = <<>>
  BY <1>3 DEF Quiet
<1>5. /\ q.todo \in SUBSET ToSet(Paths) /\ IsLines(q.lines) /\ IsReader(Quiet)
      /\ "pc" \in Fields /\ "todo" \in Fields
  BY <1>2, <1>4, NoLines, QuietReads DEF Fields
<1>6. IsReader(q)
  BY <1>3, <1>5, TwoFields, Zenon
<1>. QED  BY <1>1, <1>6, OneReader, ReaderOnly DEF RatesInv

\* A reader that keeps what it has read.
LEMMA SteppedReader ==
    ASSUME NEW q, IsReader(q), NEW pc PROVE IsReader([q EXCEPT !.pc = pc])
  BY DEF IsReader

LEMMA AnswerLines ==
    ASSUME RatesInv, NEW r \in Readers, AnswerReport(r) PROVE RatesInv'
<1>. DEFINE pc == IF r = "report" /\ reader[r].lines = <<>> THEN "empty" ELSE "answered"
<1>1. ReaderFrame /\ reader' = [reader EXCEPT ![r].pc = pc]
  BY DEF AnswerReport
<1>. HIDE DEF pc
<1>2. reader' = [reader EXCEPT ![r] = [reader[r] EXCEPT !.pc = pc]]
  BY <1>1 DEF RatesInv, ReaderLines
<1>3. IsReader([reader[r] EXCEPT !.pc = pc])
  BY SteppedReader DEF RatesInv, ReaderLines
<1>. QED  BY <1>1, <1>2, <1>3, OneReader, ReaderOnly DEF RatesInv

LEMMA EndLines ==
    ASSUME RatesInv, NEW r \in Readers, EndReport(r) PROVE RatesInv'
<1>1. ReaderFrame /\ reader' = [reader EXCEPT ![r] = Quiet]
  BY DEF EndReport
<1>. QED  BY <1>1, QuietReads, OneReader, ReaderOnly DEF RatesInv

\* The next path is one of those that are left.
LEMMA NextIsLeft ==
    ASSUME NEW todo \in SUBSET ToSet(Paths), todo # {} PROVE NextPath(todo) \in todo
<1>. DEFINE I == {i \in DOMAIN Paths : Paths[i] \in todo}
<1>1. DOMAIN Paths = {1, 2, 3}
  <2>1. DOMAIN Paths = 1..3
    BY DEF Paths
  <2>2. 1..3 = {1, 2, 3}
    OBVIOUS
  <2>. QED  BY <2>1, <2>2
<1>2. I # {} /\ I \subseteq {1, 2, 3}
  BY <1>1 DEF ToSet
<1>3. \A i \in I : Paths[i] \in todo
  OBVIOUS
<1>. HIDE DEF I
<1>4. \E x \in I : \A y \in I : x <= y
  <2>1. CASE 1 \in I
    BY <1>2, <2>1
  <2>2. CASE 1 \notin I /\ 2 \in I
    BY <1>2, <2>2
  <2>3. CASE 1 \notin I /\ 2 \notin I
    <3>1. I = {3}
      BY <1>2, <2>3
    <3>. QED  BY <3>1
  <2>. QED  BY <2>1, <2>2, <2>3
<1>5. Min(I) \in I
  BY <1>4 DEF Min
<1>6. Paths[Min(I)] \in todo
  BY <1>3, <1>5
<1>. QED  BY <1>6 DEF NextPath, I

\* What a reader is after it has read a file, or could not.
LEMMA ReadOn ==
    ASSUME RatesInv, NEW r, IsReader(r), r.todo # {},
           NEW got \in read_benchmark_results(files[NextPath(r.todo)]), got # None
    PROVE  IsReader([r EXCEPT !.todo = @ \ {NextPath(@)}, !.lines = @ \o got])
<1>1. NextPath(r.todo) \in ToSet(Paths)
  BY NextIsLeft DEF IsReader
<1>2. IsLines(got)
  BY <1>1, ReadLines, Zenon DEF RatesInv, FileLines
<1>3. IsLines(r.lines \o got)
  BY <1>2, ConcatLines DEF IsReader
<1>. DEFINE after == r.todo \ {NextPath(r.todo)}
            lines == r.lines \o got
            q == [r EXCEPT !.todo = after, !.lines = lines]
<1>4. after \in SUBSET ToSet(Paths)
  BY DEF IsReader
<1>5. q = [r EXCEPT !.todo = @ \ {NextPath(@)}, !.lines = @ \o got]
  OBVIOUS
<1>. HIDE DEF after, lines
<1>6. q = [h \in DOMAIN r |-> IF h = "lines" THEN lines
                              ELSE IF h = "todo" THEN after ELSE r[h]]
  OBVIOUS
<1>. HIDE DEF q
<1>7. q.todo = after /\ q.lines = lines /\ IsLines(lines)
  BY <1>3, <1>6 DEF IsReader, lines
<1>8. IsReader(q)
  BY <1>4, <1>6, <1>7, TwoFields DEF Fields
<1>. QED  BY <1>5, <1>8

LEMMA SkipOn ==
    ASSUME NEW r, IsReader(r), NEW warnings
    PROVE  IsReader([r EXCEPT !.todo = @ \ {NextPath(@)}, !.warnings = warnings])
<1>. DEFINE after == r.todo \ {NextPath(r.todo)}
            q == [r EXCEPT !.todo = after, !.warnings = warnings]
<1>1. after \in SUBSET ToSet(Paths)
  BY DEF IsReader
<1>2. q = [r EXCEPT !.todo = @ \ {NextPath(@)}, !.warnings = warnings]
  OBVIOUS
<1>. HIDE DEF after
<1>3. q = [h \in DOMAIN r |-> IF h = "warnings" THEN warnings
                              ELSE IF h = "todo" THEN after ELSE r[h]]
  OBVIOUS
<1>. HIDE DEF q
<1>4. q.todo = after /\ q.lines = r.lines /\ IsLines(r.lines)
  BY <1>3 DEF IsReader
<1>5. IsReader(q)
  BY <1>1, <1>3, <1>4, TwoFields DEF Fields
<1>. QED  BY <1>2, <1>5

LEMMA LoadDirectoryLines ==
    ASSUME RatesInv, load_results_from_directory PROVE RatesInv'
<1>. DEFINE r == reader["report"]
            next == NextPath(r.todo)
            failed == [Quiet EXCEPT !.pc = "failed", !.at = next]
            on(got) == [r EXCEPT !.todo = @ \ {NextPath(@)}, !.lines = @ \o got]
<1>1. ReaderFrame /\ r.todo # {}
  BY DEF load_results_from_directory
<1>2. PICK got \in read_benchmark_results(files[NextPath(r.todo)]) :
          reader' = [reader EXCEPT !["report"] = IF got = None THEN failed ELSE on(got)]
  BY Zenon DEF load_results_from_directory
<1>3. "report" \in Readers /\ IsReader(r)
  BY DEF Readers, RatesInv, ReaderLines
<1>4. IsReader(failed)
  <2>. HIDE DEF next
  <2>1. failed = [h \in DOMAIN Quiet |-> IF h = "at" THEN next
                                         ELSE IF h = "pc" THEN "failed" ELSE Quiet[h]]
    OBVIOUS
  <2>. HIDE DEF failed
  <2>2. failed.todo = {} /\ failed.lines = <<>>
    BY <2>1 DEF Quiet
  <2>3. /\ failed.todo \in SUBSET ToSet(Paths) /\ IsLines(failed.lines) /\ IsReader(Quiet)
        /\ "pc" \in Fields /\ "at" \in Fields
    BY <2>2, NoLines, QuietReads DEF Fields
  <2>. QED  BY <2>1, <2>3, TwoFields, Zenon
<1>5. got # None => IsReader(on(got))
  BY <1>1, <1>3, ReadOn
<1>. HIDE DEF r, failed, on
<1>6. IsReader(IF got = None THEN failed ELSE on(got))
  BY <1>4, <1>5
<1>7. ReaderLines'
  BY <1>2, <1>3, <1>6, OneReader, Zenon DEF RatesInv
<1>. QED  BY <1>1, <1>7, ReaderOnly

LEMMA LoadDashboardLines ==
    ASSUME RatesInv, load_robustness_results PROVE RatesInv'
<1>. DEFINE r == reader["dashboard"]
            warned == r.warnings \cup {NextPath(r.todo)}
            skip == [r EXCEPT !.todo = @ \ {NextPath(@)}, !.warnings = @ \cup {NextPath(r.todo)}]
            on(got) == [r EXCEPT !.todo = @ \ {NextPath(@)}, !.lines = @ \o got]
<1>1. ReaderFrame /\ r.todo # {}
  BY DEF load_robustness_results
<1>2. PICK got \in read_benchmark_results(files[NextPath(r.todo)]) :
          reader' = [reader EXCEPT !["dashboard"] = IF got = None THEN skip ELSE on(got)]
  BY Zenon DEF load_robustness_results
<1>3. "dashboard" \in Readers /\ IsReader(r)
  BY DEF Readers, RatesInv, ReaderLines
<1>4. IsReader(skip)
  <2>1. IsReader([r EXCEPT !.todo = @ \ {NextPath(@)}, !.warnings = warned])
    BY <1>3, SkipOn, Zenon
  <2>. QED  BY <2>1
<1>5. got # None => IsReader(on(got))
  BY <1>1, <1>3, ReadOn
<1>. HIDE DEF r, skip, on
<1>6. IsReader(IF got = None THEN skip ELSE on(got))
  BY <1>4, <1>5
<1>7. ReaderLines'
  BY <1>2, <1>3, <1>6, OneReader, Zenon DEF RatesInv
<1>. QED  BY <1>1, <1>7, ReaderOnly

LEMMA RatesStep == FileInv /\ RatesInv /\ [Next]_vars => RatesInv'
<1>. SUFFICES ASSUME FileInv, RatesInv, [Next]_vars PROVE RatesInv'
  OBVIOUS
<1>0. FilesShaped /\ WorkerShaped
  BY DEF FileInv
<1>1. CASE \E outcome \in CliOutcomes : _benchmark_robustness_watermark(outcome)
  BY <1>1, EvaluateCli
<1>2. CASE WriteEvaluationRecords
  BY <1>0, <1>2, WriteRecordsLines
<1>3. CASE write_watermark_benchmark_results
  BY <1>0, <1>3, WriteResultsLines
<1>4. CASE KillCli
  BY <1>0, <1>4, KillCliLines
<1>5. CASE \E outcome \in RunOutcomes : _execute_run(outcome)
  BY <1>5, ExecuteLines
<1>6. CASE run_plan_experiment \/ FailExperiment \/ _stamp_run_metadata \/ FailStamp \/ FinishRun
  BY <1>0, <1>6, WorkerLines
<1>7. CASE KillServer
  BY <1>0, <1>7, KillServerLines
<1>8. CASE \E r \in Readers : StartReport(r) \/ AnswerReport(r) \/ EndReport(r)
  BY <1>8, StartLines, AnswerLines, EndLines
<1>9. CASE load_results_from_directory
  BY <1>9, LoadDirectoryLines
<1>10. CASE load_robustness_results
  BY <1>10, LoadDashboardLines
<1>11. CASE UNCHANGED <<files, cli, worker, reader>>
  BY <1>11, SameFiles, SameCli, SameReaders DEF RatesInv
<1>12. CASE run_benchmark
  BY <1>11, <1>12, Zenon DEF run_benchmark
<1>13. CASE UNCHANGED vars
  BY <1>11, <1>13 DEF vars
<1>. QED
  BY <1>1, <1>2, <1>3, <1>4, <1>5, <1>6, <1>7, <1>8, <1>9, <1>10, <1>12, <1>13, Zenon
     DEF Next

\* Whatever was written, torn, stamped and read: a line keeps the pairing of its samples,
\* and a report's rates exist and bound the paired ones.
LinesArePaired ==
    /\ \A lines \in {cli.lines, worker.lines} :
          \A i \in DOMAIN lines : LineIsPaired(lines[i])
    /\ \A lines \in Answers : ReportBoundsPaired(lines)

LEMMA LinesPaired == RatesInv => LinesArePaired
<1>. SUFFICES ASSUME RatesInv PROVE LinesArePaired
  OBVIOUS
<1>1. IsLines(cli.lines) /\ IsLines(worker.lines)
  BY DEF RatesInv, CliLines
<1>2. \A lines \in {cli.lines, worker.lines} : \A i \in DOMAIN lines : LineIsPaired(lines[i])
  BY <1>1 DEF IsLines, PairedLine
<1>3. \A lines \in Answers : IsLines(lines)
  BY DEF Answers, RatesInv, ReaderLines, IsReader
<1>4. \A lines \in Answers : ReportBoundsPaired(lines)
  BY <1>3, ReportOfLines
<1>. QED  BY <1>2, <1>4 DEF LinesArePaired

\* The lines that are kept and the reports made of them, whatever names are tested.
THEOREM StoredRates == Spec => []LinesArePaired
<1>. QED  BY InitFiled, FileStep, InitLines, RatesStep, LinesPaired, PTL DEF Spec

LEMMA RatesPaired == RatesInv => RatesArePaired
<1>. SUFFICES ASSUME RatesInv PROVE RatesArePaired
  OBVIOUS
<1>1. LinesArePaired
  BY LinesPaired
<1>2. Agrees(cli.printed, cli.lines)
  BY DEF RatesInv, CliLines
<1>3. PrintedFollowsStored
  BY <1>2, Zenon DEF Agrees, PrintedFollowsStored
<1>. QED  BY <1>1, <1>3, Zenon DEF LinesArePaired, RatesArePaired

\* Stored rates are rates of paired samples, a report's bound them, and what the command
\* prints follows from the lines it stores, whatever names it was given: with identity
\* among them its rate is theirs and its ratios bound the paired rates, without it both
\* are 0, whatever was detected.
THEOREM PairedRates == Spec => []RatesArePaired
<1>. QED  BY InitFiled, FileStep, InitLines, RatesStep, RatesPaired, PTL DEF Spec

-----------------------------------------------------------------------------
(* Samples, counted as they are asked for *)

\* How often a list names something is a number, and more than one if two places name it.
LEMMA TimesCount ==
    ASSUME NEW S, NEW s \in Seq(S), NEW x
    PROVE  /\ IsFiniteSet({i \in DOMAIN s : s[i] = x}) /\ Times(s, x) \in Nat
           /\ \A i, j \in DOMAIN s : i # j /\ s[i] = x /\ s[j] = x => Times(s, x) > 1
<1>. DEFINE T == {i \in DOMAIN s : s[i] = x}
            n == Len(s)
<1>1. n \in Nat /\ DOMAIN s = 1..n
  OBVIOUS
<1>2. IsFiniteSet(1..n) /\ T \in SUBSET (1..n)
  BY <1>1, FS_Interval
<1>3. IsFiniteSet(T) /\ Cardinality(T) \in Nat
  BY <1>2, FS_Subset, FS_CardinalityType
<1>4. ASSUME NEW i \in DOMAIN s, NEW j \in DOMAIN s, i # j, s[i] = x, s[j] = x
      PROVE  Cardinality(T) > 1
  <2>1. {i, j} \in SUBSET T
    BY <1>4
  <2>2. IsFiniteSet({i}) /\ Cardinality({i}) = 1 /\ IsFiniteSet({j}) /\ Cardinality({j}) = 1
    BY FS_Singleton
  <2>3. {i, j} = {i} \cup {j} /\ {i} \cap {j} = {}
    BY <1>4
  <2>4. Cardinality({i} \cup {j}) = 1 + 1 - Cardinality({})
    BY <2>2, <2>3, FS_Union
  <2>5. Cardinality({}) = 0
    BY FS_EmptySet
  <2>6. Cardinality({i, j}) = 2
    <3>1. Cardinality({i, j}) = Cardinality({i} \cup {j})
      BY <2>3, Zenon
    <3>2. 1 + 1 - 0 = 2
      OBVIOUS
    <3>. QED  BY <2>4, <2>5, <3>1, <3>2, Zenon
  <2>7. Cardinality({i, j}) <= Cardinality(T)
    BY <1>3, <2>1, FS_Subset
  <2>. HIDE DEF T
  <2>. QED  BY <1>3, <2>6, <2>7
<1>5. Times(s, x) = Cardinality(T)
  BY DEF Times
<1>. QED  BY <1>3, <1>4, <1>5

AskedFor(spec, name, length) ==
    spec.samples * Times(spec.lengths, length)
                 * Times(resolve_experiment_transforms(spec), name)

\* A transformation and a length have at most a record for each sample that is asked for.
LEMMA ChosenFew ==
    ASSUME NEW spec \in Specs, NEW outcome, NEW g
    PROVE  Cardinality(DOMAIN ChosenOf(Evaluated(spec, outcome), g)) <= AskedFor(spec, g[1], g[2])
<1>. DEFINE records == Evaluated(spec, outcome)
            lengths == spec.lengths
            names == resolve_experiment_transforms(spec)
            samples == generate_watermark_samples(spec)
            D == DOMAIN ChosenOf(records, g)
            m == Len(names)
            Place(k, s, j) == (((k - 1) * spec.samples + s) - 1) * m + j
<1>1. D = {i \in DOMAIN records : /\ records[i].transform_name = g[1]
                                  /\ records[i].metadata.length = g[2]}
  <2>1. IsChosen(ChosenOf(records, g), records, g)
    BY ChosenPairs, Zenon
  <2>. HIDE DEF records
  <2>. QED  BY <2>1 DEF IsChosen
<1>2. ASSUME NEW x \in D
      PROVE  \E k \in DOMAIN lengths, s \in 1..spec.samples, j \in DOMAIN names :
                 x = Place(k, s, j) /\ lengths[k] = g[2] /\ names[j] = g[1]
  <2>1. PICK y \in DOMAIN samples, j \in DOMAIN names : RecordAt(spec, outcome, x, y, j)
    BY <1>1, RecordPlaces, Zenon
  <2>2. PICK k \in DOMAIN lengths, s \in 1..spec.samples : SampleAt(spec, y, k, s)
    BY SamplePlaces, Zenon
  <2>3. names[j] = g[1] /\ lengths[k] = g[2]
    BY <1>1, <2>1, <2>2, Zenon DEF RecordAt, SampleAt
  <2>4. x = Place(k, s, j)
    BY <2>1, <2>2, Zenon DEF RecordAt, SampleAt
  <2>. QED  BY <2>3, <2>4, Zenon
<1>3. spec.samples \in Nat /\ IsFiniteSet(1..spec.samples)
      /\ Cardinality(1..spec.samples) = spec.samples
  <2>. DEFINE n == spec.samples
  <2>1. n \in Nat /\ n >= 1
    BY SpecTypes
  <2>. HIDE DEF n
  <2>2. IsFiniteSet(1..n) /\ Cardinality(1..n) = n
    BY <2>1, FS_Interval
  <2>. QED  BY <2>1, <2>2 DEF n
<1>. DEFINE K == {k \in DOMAIN lengths : lengths[k] = g[2]}
            J == {j \in DOMAIN names : names[j] = g[1]}
            N == 1..spec.samples
            I == (K \X N) \X J
            place == [x \in I |-> Place(x[1][1], x[1][2], x[2])]
            T == {place[x] : x \in I}
<1>4. /\ IsFiniteSet(K) /\ IsFiniteSet(J) /\ Cardinality(K) \in Nat /\ Cardinality(J) \in Nat
      /\ AskedFor(spec, g[1], g[2]) = spec.samples * Cardinality(K) * Cardinality(J)
  <2>1. lengths \in Seq(Nat) /\ names \in Seq(DOMAIN CategoryOf)
    BY SpecTypes
  <2>2. IsFiniteSet(K) /\ Times(lengths, g[2]) \in Nat
    BY <2>1, TimesCount
  <2>3. IsFiniteSet(J) /\ Times(names, g[1]) \in Nat
    BY <2>1, TimesCount
  <2>4. Times(lengths, g[2]) = Cardinality(K) /\ Times(names, g[1]) = Cardinality(J)
    BY DEF Times
  <2>. QED  BY <2>2, <2>3, <2>4 DEF AskedFor
<1>. HIDE DEF D, records, names, lengths, m, Place
<1>5. D \subseteq T
  <2>. SUFFICES ASSUME NEW x \in D PROVE x \in T
    OBVIOUS
  <2>1. PICK k \in DOMAIN lengths, s \in N, j \in DOMAIN names :
            x = Place(k, s, j) /\ lengths[k] = g[2] /\ names[j] = g[1]
    BY <1>2, Zenon
  <2>2. <<<<k, s>>, j>> \in I
    BY <2>1
  <2>3. place[<<<<k, s>>, j>>] = Place(k, s, j)
    BY <2>2
  <2>. HIDE DEF I, place
  <2>. QED  BY <2>1, <2>2, <2>3
<1>6. place \in Surjection(I, T)
  <2>1. place \in [I -> T]
    OBVIOUS
  <2>2. \A y \in T : \E x \in I : place[x] = y
    OBVIOUS
  <2>. HIDE DEF place, I, T
  <2>. QED  BY <2>1, <2>2 DEF Surjection
<1>7. IsFiniteSet(I) /\ Cardinality(I) = Cardinality(K) * spec.samples * Cardinality(J)
  <2>1. IsFiniteSet(K \X N) /\ Cardinality(K \X N) = Cardinality(K) * Cardinality(N)
    BY <1>3, <1>4, FS_Product, Zenon
  <2>2. IsFiniteSet(I) /\ Cardinality(I) = Cardinality(K \X N) * Cardinality(J)
    BY <1>4, <2>1, FS_Product, Zenon
  <2>3. Cardinality(N) = spec.samples
    BY <1>3
  <2>. QED  BY <2>1, <2>2, <2>3, Zenon
<1>. HIDE DEF K, J, N, I, place, T
<1>8. IsFiniteSet(T) /\ Cardinality(T) <= Cardinality(I)
  BY <1>6, <1>7, FS_Surjection
<1>9. IsFiniteSet(D) /\ Cardinality(D) <= Cardinality(T)
  BY <1>5, <1>8, FS_Subset
<1>10. Cardinality(D) \in Nat /\ Cardinality(T) \in Nat /\ Cardinality(I) \in Nat
  BY <1>7, <1>8, <1>9, FS_CardinalityType
<1>11. Cardinality(K) * spec.samples * Cardinality(J)
          = spec.samples * Cardinality(K) * Cardinality(J)
  BY <1>3, <1>4
<1>12. Cardinality(I) = AskedFor(spec, g[1], g[2])
  BY <1>4, <1>7, <1>11, Zenon
<1>13. Cardinality(D) <= AskedFor(spec, g[1], g[2])
  BY <1>8, <1>9, <1>10, <1>12
<1>. QED  BY <1>13 DEF D, records

-----------------------------------------------------------------------------
(* Lines, listed once *)

\* A specification has one line for each transformation and length, of the samples that it
\* asks for.
KeyIn(line) == <<line.transform_name, line.text_length>>
Listed(spec, lines) ==
    /\ \A i \in DOMAIN lines :
          /\ lines[i].config_identifier = spec.config
          /\ lines[i].sample_count <= AskedFor(spec, lines[i].transform_name, lines[i].text_length)
    /\ \A i, j \in DOMAIN lines : i # j => KeyIn(lines[i]) # KeyIn(lines[j])

\* So are the lines of an evaluation.
LEMMA ResultsListed ==
    ASSUME NEW spec \in Specs, NEW outcome
    PROVE  Listed(spec, benchmark_results(spec, Evaluated(spec, outcome)))
<1>. DEFINE records == Evaluated(spec, outcome)
            results == benchmark_results(spec, records)
<1>1. PICK G : LinesOf(spec, records, results, G)
  BY ResultsPaired, Zenon
<1>2. \A g : Cardinality(DOMAIN ChosenOf(records, g)) <= AskedFor(spec, g[1], g[2])
  BY ChosenFew, Zenon
<1>. HIDE DEF records, results
<1>3. ASSUME NEW i \in DOMAIN results
      PROVE  /\ results[i].config_identifier = spec.config
             /\ results[i].sample_count
                  <= AskedFor(spec, results[i].transform_name, results[i].text_length)
             /\ KeyIn(results[i]) = G[i]
  <2>. DEFINE group == ChosenOf(records, G[i])
              line == build_benchmark_result(spec, G[i][1], G[i][2], group)
  <2>0. /\ line.transform_name = G[i][1] /\ line.text_length = G[i][2]
        /\ line.config_identifier = spec.config
        /\ line.sample_count = Cardinality(DOMAIN group)
    <3>. DEFINE name == G[i][1]
                length == G[i][2]
    <3>. HIDE DEF group, name, length
    <3>1. LET built == build_benchmark_result(spec, name, length, group)
          IN  /\ built.transform_name = name /\ built.text_length = length
              /\ built.config_identifier = spec.config
              /\ built.sample_count = Cardinality(DOMAIN group)
      BY DEF build_benchmark_result
    <3>. QED  BY <3>1, Zenon DEF name, length
  <2>1. results[i] = line
    BY <1>1, Zenon DEF LinesOf
  <2>. HIDE DEF line, group
  <2>2. /\ results[i].transform_name = G[i][1] /\ results[i].text_length = G[i][2]
        /\ results[i].config_identifier = spec.config
        /\ results[i].sample_count = Cardinality(DOMAIN group)
    BY <2>0, <2>1, Zenon
  <2>3. G[i] \in Groups(records)
    BY <1>1 DEF LinesOf
  <2>4. G[i] = <<G[i][1], G[i][2]>>
    BY <2>3 DEF Groups
  <2>5. KeyIn(results[i]) = G[i]
    BY <2>2, <2>4 DEF KeyIn
  <2>6. Cardinality(DOMAIN group) <= AskedFor(spec, G[i][1], G[i][2])
    BY <1>2 DEF group
  <2>. QED  BY <2>2, <2>5, <2>6
<1>4. \A i, j \in DOMAIN results : i # j => G[i] # G[j]
  BY <1>1 DEF LinesOf
<1>5. Listed(spec, results)
  BY <1>3, <1>4 DEF Listed
<1>. QED  BY <1>5 DEF results, records

\* The two files that results are written to, and the specification each belongs to.
ResultFiles == {CliResults, RunResults}
SpecAt(path) == IF path = CliResults THEN CliSpec ELSE RunSpec
ListedAt(path, lines) == Listed(SpecAt(path), lines)

LEMMA SpecsAt ==
    /\ SpecAt(CliResults) = CliSpec /\ SpecAt(RunResults) = RunSpec
    /\ ResultFiles \subseteq ToSet(Paths) /\ CliRecords \notin ResultFiles
    /\ \A p \in ToSet(Paths) : p # CliRecords => p \in ResultFiles
<1>. HIDE DEF CliResults, RunResults, CliRecords
<1>. QED  BY ThreePaths, PathsAre DEF SpecAt, ResultFiles

\* Fewer lines, or lines with an id, are listed as well.
SameCounts(q, r) ==
    /\ q.config_identifier = r.config_identifier /\ q.sample_count = r.sample_count
    /\ KeyIn(q) = KeyIn(r)

\* Lines with the keys of others, each taken once, are listed if those are.
LEMMA PartListed ==
    ASSUME NEW path, NEW lines, ListedAt(path, lines), NEW part,
           \A i \in DOMAIN part : i \in DOMAIN lines /\ SameCounts(part[i], lines[i])
    PROVE  ListedAt(path, part)
<1>. DEFINE spec == SpecAt(path)
<1>. HIDE DEF spec
<1>1. Listed(spec, lines)
  BY DEF ListedAt, spec
<1>2. ASSUME NEW i \in DOMAIN part
      PROVE  /\ i \in DOMAIN lines /\ KeyIn(part[i]) = KeyIn(lines[i])
             /\ part[i].config_identifier = lines[i].config_identifier
             /\ part[i].sample_count = lines[i].sample_count
             /\ part[i].transform_name = lines[i].transform_name
             /\ part[i].text_length = lines[i].text_length
  BY DEF SameCounts, KeyIn
<1>3. Listed(spec, part)
  BY <1>1, <1>2 DEF Listed
<1>. QED  BY <1>3 DEF ListedAt, spec

\* So is a part of a file that a kill left.
LEMMA PrefixListed ==
    ASSUME NEW path, NEW lines, IsLines(lines), ListedAt(path, lines),
           NEW kept \in Prefixes(lines)
    PROVE  ListedAt(path, kept)
<1>1. \A i \in DOMAIN kept : i \in DOMAIN lines /\ kept[i] = lines[i]
  BY PrefixOfSeq DEF IsLines
<1>2. \A i \in DOMAIN kept : i \in DOMAIN lines /\ SameCounts(kept[i], lines[i])
  BY <1>1 DEF SameCounts
<1>. QED  BY <1>2, PartListed

\* So is a file with another id in its lines.
LEMMA StampedListed ==
    ASSUME NEW path, NEW lines, IsLines(lines), ListedAt(path, lines)
    PROVE  ListedAt(path, Stamped(lines))
<1>1. DOMAIN Stamped(lines) = DOMAIN lines
  BY DEF Stamped
<1>2. ASSUME NEW i \in DOMAIN lines PROVE SameCounts(Stamped(lines)[i], lines[i])
  <2>. DEFINE r == lines[i]
              id == IF r.run_id = None THEN Run ELSE r.run_id
  <2>1. Stamped(lines)[i] = WithId(r, id)
    BY DEF Stamped, WithId
  <2>2. IsLine(r)
    BY DEF IsLines, PairedLine
  <2>. HIDE DEF r, id
  <2>3. /\ WithId(r, id).config_identifier = r.config_identifier
        /\ WithId(r, id).sample_count = r.sample_count
        /\ WithId(r, id).transform_name = r.transform_name
        /\ WithId(r, id).text_length = r.text_length
    BY <2>2 DEF WithId, IsLine
  <2>. QED  BY <2>1, <2>3 DEF SameCounts, KeyIn, r
<1>. QED  BY <1>1, <1>2, PartListed

\* No lines at all are listed.
LEMMA NothingListed ==
    ASSUME NEW spec PROVE Listed(spec, <<>>)
  BY DEF Listed

-----------------------------------------------------------------------------
(* Files and writers, listed once *)

FilesOnce == \A p \in ResultFiles : ListedAt(p, files[p].lines)

\* A reader takes the lines of the command first, then those of the run, each at most once.
TakesInOrder(r, a, b) ==
    /\ IsLines(a) /\ IsLines(b) /\ r.lines = a \o b
    /\ Listed(CliSpec, a) /\ Listed(RunSpec, b)
    /\ CliResults \in r.todo => a = <<>> /\ b = <<>>
    /\ RunResults \in r.todo => b = <<>>
ReadsOnce(r) == \E a, b : TakesInOrder(r, a, b)

SeedsApart(records) ==
    StatSamples <= Stride =>
        \A i, j \in DOMAIN records :
            records[i].random_seed = records[j].random_seed =>
                /\ records[i].target_length = records[j].target_length
                /\ \/ i - j \in -1..1
                   \/ Times(StatLengths, records[i].target_length) > 1

OnceInv ==
    /\ FilesOnce
    /\ ListedAt(CliResults, cli.lines) /\ ListedAt(RunResults, worker.lines)
    /\ \A r \in Readers : ReadsOnce(reader[r])
    /\ SeedsApart(scored)

\* A reader that holds nothing.
LEMMA HoldsNothing == ASSUME NEW r, r.lines = <<>> PROVE ReadsOnce(r)
<1>1. TakesInOrder(r, <<>>, <<>>)
  BY NoLines, NothingListed DEF TakesInOrder
<1>. QED  BY <1>1 DEF ReadsOnce

\* Nothing is listed, read or scored at first.
LEMMA InitOnce == Init => OnceInv
<1>. SUFFICES ASSUME Init PROVE OnceInv
  OBVIOUS
<1>1. \A p \in ResultFiles : files[p].lines = <<>>
  BY SpecsAt DEF Init, Absent
<1>2. cli.lines = <<>> /\ worker.lines = <<>> /\ scored = <<>>
  BY DEF Init, CliIdle
<1>3. \A r \in Readers : reader[r].lines = <<>>
  BY DEF Init, Quiet
<1>4. SeedsApart(<<>>)
  BY DEF SeedsApart
<1>5. \A r \in Readers : ReadsOnce(reader[r])
  BY <1>3, HoldsNothing
<1>. QED  BY <1>1, <1>2, <1>4, <1>5, NothingListed DEF OnceInv, FilesOnce, ListedAt

-----------------------------------------------------------------------------
(* The steps of the listed lines *)

\* What a step does to the files.
FileMoves ==
    \/ UNCHANGED files
    \/ \E path \in ToSet(Paths) : Close(path) \/ CutShort(path)
    \/ OpenForWriting(CliRecords, <<Evaluation>>)
    \/ OpenForWriting(CliResults, cli.lines)
    \/ OpenForWriting(RunResults, worker.lines)
    \/ OpenForWriting(RunResults, Stamped(files[RunResults].lines))

\* A file stays, is opened with lines of its writer, loses some, or is closed.
LEMMA StepMoves == [Next]_vars => FileMoves
<1>. SUFFICES ASSUME [Next]_vars PROVE FileMoves
  OBVIOUS
<1>1. CASE \E outcome \in CliOutcomes : _benchmark_robustness_watermark(outcome)
  BY <1>1 DEF _benchmark_robustness_watermark, FileMoves
<1>2. CASE WriteEvaluationRecords
  BY <1>2, ThreePaths, Zenon DEF WriteEvaluationRecords, FileMoves
<1>3. CASE write_watermark_benchmark_results
  BY <1>3, ThreePaths, Zenon DEF write_watermark_benchmark_results, FileMoves
<1>4. CASE KillCli
  BY <1>4, ThreePaths, Zenon DEF KillCli, FileMoves
<1>5. CASE \E outcome \in RunOutcomes : _execute_run(outcome)
  BY <1>5 DEF _execute_run, FileMoves
<1>6. CASE run_plan_experiment
  BY <1>6, ThreePaths, Zenon DEF run_plan_experiment, FileMoves
<1>7. CASE FailExperiment \/ FailStamp
  BY <1>7, ThreePaths, Zenon DEF FailExperiment, FailStamp, FileMoves
<1>8. CASE _stamp_run_metadata
  BY <1>8, Zenon DEF _stamp_run_metadata, FileMoves
<1>9. CASE FinishRun
  BY <1>9, ThreePaths, Zenon DEF FinishRun, FileMoves
<1>10. CASE KillServer
  BY <1>10, ThreePaths, Zenon DEF KillServer, FileMoves
<1>11. CASE \E r \in Readers : StartReport(r) \/ AnswerReport(r) \/ EndReport(r)
  BY <1>11 DEF StartReport, AnswerReport, EndReport, ReaderFrame, FileMoves
<1>12. CASE load_results_from_directory
  BY <1>12 DEF load_results_from_directory, ReaderFrame, FileMoves
<1>13. CASE load_robustness_results
  BY <1>13 DEF load_robustness_results, ReaderFrame, FileMoves
<1>14. CASE run_benchmark
  BY <1>14, Zenon DEF run_benchmark, FileMoves
<1>15. CASE UNCHANGED vars
  BY <1>15 DEF vars, FileMoves
<1>. QED
  BY <1>1, <1>2, <1>3, <1>4, <1>5, <1>6, <1>7, <1>8, <1>9, <1>10, <1>11, <1>12, <1>13,
     <1>14, <1>15, Zenon DEF Next

\* Files are opened with listed lines, and lose some of them at worst.
LEMMA FilesStep ==
    ASSUME FilesShaped, RatesInv, OnceInv, FileMoves PROVE FilesOnce'
<1>0. /\ ResultFiles \subseteq ToSet(Paths) /\ CliRecords \notin ResultFiles
      /\ CliResults \in ResultFiles /\ RunResults \in ResultFiles
      /\ CliRecords \in ToSet(Paths)
  BY SpecsAt, ThreePaths DEF ResultFiles
<1>1. \A p \in ResultFiles : ListedAt(p, files[p].lines) /\ IsLines(files[p].lines)
  BY <1>0 DEF OnceInv, FilesOnce, RatesInv, FileLines, LinesAt
<1>2. ASSUME NEW path \in ToSet(Paths), NEW lines, OpenForWriting(path, lines),
             path \in ResultFiles => ListedAt(path, lines)
      PROVE  FilesOnce'
  <2>1. /\ files'[path] = [lines |-> lines, state |-> "open"]
        /\ \A p \in ToSet(Paths) : p # path => files'[p] = files[p]
    BY <1>2, Opened
  <2>. QED  BY <1>0, <1>1, <1>2, <2>1 DEF FilesOnce
<1>3. ASSUME NEW path \in ToSet(Paths), Close(path) PROVE FilesOnce'
  <2>1. /\ files'[path] = [lines |-> files[path].lines, state |-> "whole"]
        /\ \A p \in ToSet(Paths) : p # path => files'[p] = files[p]
    BY <1>3, Closed
  <2>. QED  BY <1>0, <1>1, <2>1 DEF FilesOnce
<1>4. ASSUME NEW path \in ToSet(Paths), CutShort(path) PROVE FilesOnce'
  <2>1. PICK kept \in Prefixes(files[path].lines), state \in {"whole", "torn"} :
            files' = [files EXCEPT ![path] = [lines |-> kept, state |-> state]]
    BY <1>4, Zenon DEF CutShort
  <2>2. /\ files'[path] = [lines |-> kept, state |-> state]
        /\ \A p \in ToSet(Paths) : p # path => files'[p] = files[p]
    BY <2>1, WriteOf DEF IsFile
  <2>3. path \in ResultFiles => ListedAt(path, kept)
    BY <1>1, PrefixListed
  <2>. QED  BY <1>0, <1>1, <2>2, <2>3 DEF FilesOnce
<1>5. /\ ListedAt(CliResults, cli.lines) /\ ListedAt(RunResults, worker.lines)
      /\ ListedAt(RunResults, Stamped(files[RunResults].lines))
  BY <1>0, <1>1, StampedListed DEF OnceInv
<1>6. UNCHANGED files => FilesOnce'
  BY <1>1 DEF FilesOnce
<1>. QED  BY <1>0, <1>2, <1>3, <1>4, <1>5, <1>6 DEF FileMoves

\* The command holds one line per transformation and length.
LEMMA CliStep ==
    ASSUME CliLines, OnceInv, [Next]_vars PROVE ListedAt(CliResults, cli'.lines)
<1>1. ASSUME NEW outcome, _benchmark_robustness_watermark(outcome)
      PROVE  ListedAt(CliResults, cli'.lines)
  <2>. DEFINE results == benchmark_results(CliSpec, Evaluated(CliSpec, outcome))
  <2>1. Listed(CliSpec, results)
    BY ResultsListed, Zenon DEF Specs
  <2>2. cli'.lines = results
    <3>. DEFINE report == render_robustness_report(
                            compute_robustness_report(Evaluated(CliSpec, outcome)))
    <3>1. cli' = [pc |-> "evaluated", lines |-> results, printed |-> report]
      BY <1>1, Zenon DEF _benchmark_robustness_watermark
    <3>. HIDE DEF results, report
    <3>. QED  BY <3>1
  <2>. HIDE DEF results
  <2>. QED  BY <2>1, <2>2, SpecsAt DEF ListedAt
<1>2. cli'.lines = cli.lines => ListedAt(CliResults, cli'.lines)
  BY DEF OnceInv
<1>3. cli' = CliIdle => ListedAt(CliResults, cli'.lines)
  BY NothingListed DEF CliIdle, ListedAt
<1>4. CASE WriteEvaluationRecords
  <2>1. cli'.lines = cli.lines
    BY <1>4 DEF WriteEvaluationRecords, CliLines
  <2>. QED  BY <1>2, <2>1
<1>5. CASE write_watermark_benchmark_results
  <2>1. cli'.lines = cli.lines \/ cli' = CliIdle
    BY <1>5 DEF write_watermark_benchmark_results, CliLines
  <2>. QED  BY <1>2, <1>3, <2>1
<1>6. CASE KillCli
  BY <1>3, <1>6 DEF KillCli
<1>7. CASE \/ \E outcome \in RunOutcomes : _execute_run(outcome)
           \/ run_plan_experiment \/ FailExperiment \/ _stamp_run_metadata \/ FailStamp
           \/ FinishRun \/ KillServer
  BY <1>2, <1>7, Zenon DEF _execute_run, run_plan_experiment, FailExperiment, _stamp_run_metadata,
                           FailStamp, FinishRun, KillServer, WorkerFrame
<1>8. CASE \/ \E r \in Readers : StartReport(r) \/ AnswerReport(r) \/ EndReport(r)
           \/ load_results_from_directory \/ load_robustness_results
  BY <1>2, <1>8, Zenon DEF StartReport, AnswerReport, EndReport, load_results_from_directory,
                           load_robustness_results, ReaderFrame
<1>9. CASE run_benchmark
  BY <1>2, <1>9, Zenon DEF run_benchmark
<1>10. CASE UNCHANGED vars
  BY <1>2, <1>10 DEF vars
<1>. QED
  BY <1>1, <1>4, <1>5, <1>6, <1>7, <1>8, <1>9, <1>10, Zenon DEF Next

\* So does the worker.
LEMMA WorkerStep ==
    ASSUME WorkerShaped, OnceInv, [Next]_vars
    PROVE  ListedAt(RunResults, worker'.lines)
<1>1. ASSUME NEW outcome, _execute_run(outcome) PROVE ListedAt(RunResults, worker'.lines)
  <2>. DEFINE results == benchmark_results(RunSpec, Evaluated(RunSpec, outcome))
  <2>1. Listed(RunSpec, results)
    BY ResultsListed, Zenon DEF Specs
  <2>2. \/ worker' = [pc |-> "stamp", lines |-> <<>>]
        \/ worker' = [pc |-> "evaluated", lines |-> results]
    BY <1>1, Zenon DEF _execute_run
  <2>. HIDE DEF results
  <2>3. worker'.lines = <<>> \/ worker'.lines = results
    BY <2>2
  <2>. QED  BY <2>1, <2>3, SpecsAt, NothingListed DEF ListedAt
<1>2. worker'.lines = worker.lines => ListedAt(RunResults, worker'.lines)
  BY DEF OnceInv
<1>3. worker'.lines = <<>> => ListedAt(RunResults, worker'.lines)
  BY NothingListed DEF ListedAt
<1>4. CASE run_plan_experiment \/ FailExperiment \/ _stamp_run_metadata \/ FailStamp \/ FinishRun
  <2>1. worker'.lines \in {worker.lines, <<>>}
    BY <1>4 DEF WorkerShaped, run_plan_experiment, FailExperiment, _stamp_run_metadata, FailStamp, FinishRun
  <2>. QED  BY <1>2, <1>3, <2>1
<1>5. CASE KillServer
  BY <1>3, <1>5 DEF KillServer
<1>6. CASE \/ \E outcome \in CliOutcomes : _benchmark_robustness_watermark(outcome)
           \/ WriteEvaluationRecords \/ write_watermark_benchmark_results \/ KillCli
  BY <1>2, <1>6, Zenon DEF _benchmark_robustness_watermark, WriteEvaluationRecords,
                           write_watermark_benchmark_results, KillCli, CliFrame
<1>7. CASE \/ \E r \in Readers : StartReport(r) \/ AnswerReport(r) \/ EndReport(r)
           \/ load_results_from_directory \/ load_robustness_results
  BY <1>2, <1>7, Zenon DEF StartReport, AnswerReport, EndReport, load_results_from_directory,
                           load_robustness_results, ReaderFrame
<1>8. CASE run_benchmark
  BY <1>2, <1>8, Zenon DEF run_benchmark
<1>9. CASE UNCHANGED vars
  BY <1>2, <1>9 DEF vars
<1>. QED
  BY <1>1, <1>4, <1>5, <1>6, <1>7, <1>8, <1>9, Zenon DEF Next

-----------------------------------------------------------------------------
(* Readers, each file once *)

\* What a read gives is listed as the file is; evaluation records give nothing.
LEMMA ReadListed ==
    ASSUME NEW path \in ToSet(Paths), NEW file, LinesAt(path, file.lines),
           path \in ResultFiles => ListedAt(path, file.lines),
           NEW got \in read_benchmark_results(file), got # None
    PROVE  IF path \in ResultFiles THEN ListedAt(path, got) ELSE got = <<>>
<1>. DEFINE taken(lines) == IF Evaluation \in ToSet(lines) THEN None ELSE lines
<1>1. \/ got = taken(file.lines)
      \/ \E lines \in Prefixes(file.lines) : got = taken(lines)
  BY DEF read_benchmark_results
<1>2. got = file.lines \/ got \in Prefixes(file.lines)
  BY <1>1
<1>3. CASE path \in ResultFiles
  <2>1. IsLines(file.lines)
    BY <1>3, SpecsAt DEF LinesAt
  <2>. QED  BY <1>2, <1>3, <2>1, PrefixListed
<1>4. CASE path \notin ResultFiles
  <2>0. path = CliRecords
    BY <1>4, SpecsAt
  <2>1. got \in Seq({Evaluation})
    BY <1>2, <2>0, PrefixOfSeq DEF LinesAt
  <2>2. Evaluation \notin ToSet(got)
    BY <1>1
  <2>3. DOMAIN got = {}
    BY <2>1, <2>2 DEF ToSet
  <2>4. got = <<>>
    BY <2>1, <2>3
  <2>. QED  BY <1>4, <2>4
<1>. QED  BY <1>3, <1>4

\* The command's results are the first to be read.
LEMMA ResultsFirst ==
    ASSUME NEW todo \in SUBSET ToSet(Paths), CliResults \in todo PROVE NextPath(todo) = CliResults
<1>. DEFINE I == {i \in DOMAIN Paths : Paths[i] \in todo}
<1>1. DOMAIN Paths = 1..3 /\ Paths[1] = CliResults
  BY DEF Paths, CliResults
<1>2. 1 \in I /\ \A i \in I : i \in Int /\ 1 <= i
  BY <1>1
<1>. HIDE DEF I
<1>3. \E x \in I : \A y \in I : x <= y
  BY <1>2
<1>4. Min(I) \in I /\ \A y \in I : Min(I) <= y
  BY <1>3 DEF Min
<1>5. Min(I) = 1
  BY <1>2, <1>4
<1>. QED  BY <1>1, <1>5 DEF NextPath, I

\* A reader takes the lines of each file once.
LEMMA ReadOnce ==
    ASSUME RatesInv, OnceInv, NEW r, IsReader(r), ReadsOnce(r), r.todo # {},
           NEW got \in read_benchmark_results(files[NextPath(r.todo)]), got # None
    PROVE  ReadsOnce([r EXCEPT !.todo = @ \ {NextPath(@)}, !.lines = @ \o got])
<1>. DEFINE path == NextPath(r.todo)
            lines == r.lines \o got
            after == r.todo \ {path}
            q == [r EXCEPT !.todo = @ \ {NextPath(@)}, !.lines = @ \o got]
<1>1. path \in r.todo /\ path \in ToSet(Paths)
  BY NextIsLeft DEF IsReader
<1>2. q.todo = after /\ q.lines = lines
  <2>1. DOMAIN r = Fields
    BY DEF IsReader, Fields
  <2>2. q = [h \in DOMAIN r |-> IF h = "lines" THEN lines
                                ELSE IF h = "todo" THEN after ELSE r[h]]
    OBVIOUS
  <2>. HIDE DEF q, lines, after
  <2>. QED  BY <2>1, <2>2 DEF Fields
<1>3. IsLines(got)
  BY <1>1, ReadLines, Zenon DEF IsReader, RatesInv, FileLines
<1>4. IF path \in ResultFiles THEN ListedAt(path, got) ELSE got = <<>>
  <2>1. LinesAt(path, files[path].lines)
    BY <1>1 DEF RatesInv, FileLines
  <2>2. path \in ResultFiles => ListedAt(path, files[path].lines)
    BY DEF OnceInv, FilesOnce
  <2>3. got \in read_benchmark_results(files[path])
    OBVIOUS
  <2>. HIDE DEF path
  <2>. QED  BY <1>1, <2>1, <2>2, <2>3, ReadListed
<1>5. CliResults \in r.todo => path = CliResults
  BY ResultsFirst DEF IsReader
<1>6. PICK a, b : TakesInOrder(r, a, b)
  BY DEF ReadsOnce
<1>7. /\ IsLines(a) /\ IsLines(b) /\ r.lines = a \o b
      /\ Listed(CliSpec, a) /\ Listed(RunSpec, b)
      /\ CliResults \in r.todo => a = <<>> /\ b = <<>>
      /\ RunResults \in r.todo => b = <<>>
  BY <1>6, Zenon DEF TakesInOrder
<1>8. \A s : IsLines(s) => s \o <<>> = s /\ <<>> \o s = s
  <2>. SUFFICES ASSUME NEW s, IsLines(s) PROVE s \o <<>> = s /\ <<>> \o s = s
    OBVIOUS
  <2>. DEFINE S == ToSet(s)
  <2>1. s \in Seq(S)
    BY DEF IsLines
  <2>. HIDE DEF S
  <2>. QED  BY <2>1
<1>. HIDE DEF path, q, after
<1>9. CASE path = CliResults
  <2>1. a = <<>> /\ b = <<>> /\ lines = got \o <<>>
    BY <1>1, <1>3, <1>7, <1>8, <1>9
  <2>2. Listed(CliSpec, got)
    BY <1>4, <1>9, SpecsAt DEF ListedAt, ResultFiles
  <2>3. CliResults \notin after
    BY <1>9 DEF after
  <2>4. TakesInOrder(q, got, <<>>)
    BY <1>2, <1>3, <2>1, <2>2, <2>3, NothingListed, NoLines DEF TakesInOrder
  <2>. QED  BY <2>4 DEF ReadsOnce, q
<1>10. CASE path = RunResults
  <2>1. b = <<>> /\ lines = a \o got
    BY <1>1, <1>7, <1>8, <1>10
  <2>2. Listed(RunSpec, got)
    BY <1>4, <1>10, SpecsAt DEF ListedAt, ResultFiles
  <2>3. RunResults \notin after /\ CliResults \notin after
    BY <1>5, <1>10, ThreePaths DEF after
  <2>4. TakesInOrder(q, a, got)
    BY <1>2, <1>3, <1>7, <2>1, <2>2, <2>3 DEF TakesInOrder
  <2>. QED  BY <2>4 DEF ReadsOnce, q
<1>11. CASE path \notin ResultFiles
  <2>1. got = <<>> /\ IsLines(r.lines)
    BY <1>4, <1>11 DEF IsReader
  <2>2. lines = a \o b
    BY <1>7, <1>8, <2>1
  <2>3. after \subseteq r.todo
    BY DEF after
  <2>4. TakesInOrder(q, a, b)
    BY <1>2, <1>7, <2>2, <2>3 DEF TakesInOrder
  <2>. QED  BY <2>4 DEF ReadsOnce, q
<1>. QED  BY <1>9, <1>10, <1>11 DEF ResultFiles

\* A reader at rest has read nothing twice.
LEMMA QuietOnce == ReadsOnce(Quiet)
  BY HoldsNothing DEF Quiet

\* A reader with the lines of another and no more files to read has read once as well.
LEMMA FewerOnce ==
    ASSUME NEW r, ReadsOnce(r), NEW q, q.lines = r.lines, q.todo \subseteq r.todo
    PROVE  ReadsOnce(q)
<1>1. \A a, b : TakesInOrder(r, a, b) => TakesInOrder(q, a, b)
  BY DEF TakesInOrder
<1>. QED  BY <1>1, Zenon DEF ReadsOnce

\* A step leaves all readers but one as they are.
LEMMA ReaderMoves ==
    ASSUME ReaderLines, \A r \in Readers : ReadsOnce(reader[r]),
           NEW r \in Readers, NEW q, ReadsOnce(q), reader' = [reader EXCEPT ![r] = q]
    PROVE  \A x \in Readers : ReadsOnce(reader'[x])
<1>1. reader' = [x \in Readers |-> IF x = r THEN q ELSE reader[x]]
  BY DEF ReaderLines
<1>. QED  BY <1>1

\* Every reader has read each file once after each step.
LEMMA ReadersStep ==
    ASSUME RatesInv, OnceInv, [Next]_vars PROVE \A x \in Readers : ReadsOnce(reader'[x])
<1>0. /\ ReaderLines /\ (\A r \in Readers : ReadsOnce(reader[r]))
      /\ (\A r \in Readers : IsReader(reader[r]))
      /\ "report" \in Readers /\ "dashboard" \in Readers
  BY DEF RatesInv, OnceInv, ReaderLines, Readers
<1>1. ASSUME NEW r \in Readers, StartReport(r) PROVE \A x \in Readers : ReadsOnce(reader'[x])
  <2>. DEFINE todo == {p \in ToSet(Paths) : files[p] # Absent}
              q == [Quiet EXCEPT !.pc = "reading", !.todo = todo]
  <2>1. reader' = [reader EXCEPT ![r] = q]
    BY <1>1 DEF StartReport
  <2>. HIDE DEF todo
  <2>2. q.lines = <<>>
    BY DEF Quiet
  <2>. HIDE DEF q
  <2>3. ReadsOnce(q)
    BY <2>2, HoldsNothing
  <2>. QED  BY <1>0, <2>1, <2>3, ReaderMoves
<1>2. ASSUME NEW r \in Readers, AnswerReport(r) PROVE \A x \in Readers : ReadsOnce(reader'[x])
  <2>. DEFINE pc == IF r = "report" /\ reader[r].lines = <<>> THEN "empty" ELSE "answered"
              q == [reader[r] EXCEPT !.pc = pc]
  <2>1. reader' = [reader EXCEPT ![r] = q]
    <3>1. reader' = [reader EXCEPT ![r].pc = pc]
      BY <1>2 DEF AnswerReport
    <3>. HIDE DEF pc
    <3>. QED  BY <1>0, <3>1 DEF ReaderLines
  <2>. HIDE DEF pc
  <2>2. q.lines = reader[r].lines /\ q.todo = reader[r].todo
    BY <1>0 DEF IsReader
  <2>. HIDE DEF q
  <2>3. ReadsOnce(q)
    BY <1>0, <2>2, FewerOnce
  <2>. QED  BY <1>0, <2>1, <2>3, ReaderMoves
<1>3. ASSUME NEW r \in Readers, EndReport(r) PROVE \A x \in Readers : ReadsOnce(reader'[x])
  BY <1>0, <1>3, QuietOnce, ReaderMoves DEF EndReport
<1>4. CASE load_results_from_directory
  <2>. DEFINE r == reader["report"]
              failed == [Quiet EXCEPT !.pc = "failed", !.at = NextPath(r.todo)]
              on(got) == [r EXCEPT !.todo = @ \ {NextPath(@)}, !.lines = @ \o got]
  <2>1. r.todo # {}
    BY <1>4 DEF load_results_from_directory
  <2>2. PICK got \in read_benchmark_results(files[NextPath(r.todo)]) :
            reader' = [reader EXCEPT !["report"] = IF got = None THEN failed ELSE on(got)]
    BY <1>4, Zenon DEF load_results_from_directory
  <2>3. ReadsOnce(failed)
    <3>1. failed.lines = <<>>
      BY DEF Quiet
    <3>. HIDE DEF failed
    <3>. QED  BY <3>1, HoldsNothing
  <2>4. got # None => ReadsOnce(on(got))
    BY <1>0, <2>1, ReadOnce
  <2>. HIDE DEF r, failed, on
  <2>5. ReadsOnce(IF got = None THEN failed ELSE on(got))
    BY <2>3, <2>4
  <2>. QED  BY <1>0, <2>2, <2>5, ReaderMoves, Zenon
<1>5. CASE load_robustness_results
  <2>. DEFINE r == reader["dashboard"]
              skip == [r EXCEPT !.todo = @ \ {NextPath(@)}, !.warnings = @ \cup {NextPath(r.todo)}]
              on(got) == [r EXCEPT !.todo = @ \ {NextPath(@)}, !.lines = @ \o got]
  <2>1. r.todo # {}
    BY <1>5 DEF load_robustness_results
  <2>2. PICK got \in read_benchmark_results(files[NextPath(r.todo)]) :
            reader' = [reader EXCEPT !["dashboard"] = IF got = None THEN skip ELSE on(got)]
    BY <1>5, Zenon DEF load_robustness_results
  <2>3. ReadsOnce(skip)
    <3>1. skip.lines = r.lines /\ skip.todo \subseteq r.todo
      BY <1>0 DEF IsReader
    <3>2. ReadsOnce(r)
      BY <1>0
    <3>. HIDE DEF r, skip
    <3>. QED  BY <3>1, <3>2, FewerOnce
  <2>4. got # None => ReadsOnce(on(got))
    BY <1>0, <2>1, ReadOnce
  <2>. HIDE DEF r, skip, on
  <2>5. ReadsOnce(IF got = None THEN skip ELSE on(got))
    BY <2>3, <2>4
  <2>. QED  BY <1>0, <2>2, <2>5, ReaderMoves, Zenon
<1>6. CASE KillServer
  BY <1>0, <1>6, QuietOnce, ReaderMoves DEF KillServer
<1>7. reader' = reader => \A x \in Readers : ReadsOnce(reader'[x])
  BY <1>0
<1>8. CASE \/ \E outcome \in CliOutcomes : _benchmark_robustness_watermark(outcome)
           \/ WriteEvaluationRecords \/ write_watermark_benchmark_results \/ KillCli
  BY <1>7, <1>8, Zenon DEF _benchmark_robustness_watermark, WriteEvaluationRecords,
                           write_watermark_benchmark_results, KillCli, CliFrame
<1>9. CASE \/ \E outcome \in RunOutcomes : _execute_run(outcome)
           \/ run_plan_experiment \/ FailExperiment \/ _stamp_run_metadata \/ FailStamp
           \/ FinishRun
  BY <1>7, <1>9, Zenon DEF _execute_run, run_plan_experiment, FailExperiment,
                           _stamp_run_metadata, FailStamp, FinishRun, WorkerFrame
<1>10. CASE run_benchmark
  BY <1>7, <1>10, Zenon DEF run_benchmark
<1>11. CASE UNCHANGED vars
  BY <1>7, <1>11 DEF vars
<1>. QED
  BY <1>1, <1>2, <1>3, <1>4, <1>5, <1>6, <1>8, <1>9, <1>10, <1>11, Zenon DEF Next

-----------------------------------------------------------------------------
(* Seeds apart, and samples counted once *)

\* A record tells which sample it is of; its condition tells the rest of its index.
ScoredAt(records, x, k, i, c) ==
    /\ x = (k - 1) * (StatSamples * 2) + ((i - 1) * 2 + c)
    /\ records[x].random_seed = derive_seed(0, StatLengths[k], i - 1)
    /\ records[x].target_length = StatLengths[k]

\* Each scored record has the length and the seed of its place.
LEMMA ScoredPlaces ==
    ASSUME NEW threshold, NEW score
    PROVE  \A x \in DOMAIN generate_records(threshold, score) :
               \E k \in DOMAIN StatLengths, i \in 1..StatSamples, c \in 1..2 :
                   ScoredAt(generate_records(threshold, score), x, k, i, c)
<1>. DEFINE n == Len(StatLengths)
            m == StatSamples
            record(k, i, c) ==
                LET s == score[k, i, c]
                    value == IF s = None THEN 0 ELSE s
                IN  [target_length |-> StatLengths[k], watermarked |-> c = 1,
                     random_seed |-> derive_seed(0, StatLengths[k], i - 1),
                     score |-> value, detected |-> value >= threshold]
            S == UNION {{record(x[1], x[2], c) : c \in 1..2} : x \in (1..n) \X (1..m)}
            pairs(k) == [i \in 1..m |-> [c \in 1..2 |-> record(k, i, c)]]
            rows == [k \in 1..n |-> FlattenSeq(pairs(k))]
            records == generate_records(threshold, score)
<1>1. m \in Nat /\ n \in Nat /\ DOMAIN StatLengths = 1..n /\ m * 2 \in Nat
  BY ReportsAssumption
<1>2. records = FlattenSeq(rows)
  BY <1>1, Zenon DEF generate_records
<1>3. \A k, i, c : /\ record(k, i, c).random_seed = derive_seed(0, StatLengths[k], i - 1)
                   /\ record(k, i, c).target_length = StatLengths[k]
  OBVIOUS
<1>. HIDE DEF record, n, m
<1>4. \A k \in 1..n, i \in 1..m, c \in 1..2 : record(k, i, c) \in S
  <2>. SUFFICES ASSUME NEW k \in 1..n, NEW i \in 1..m, NEW c \in 1..2
                PROVE  record(k, i, c) \in S
    OBVIOUS
  <2>1. <<k, i>> \in (1..n) \X (1..m)
    OBVIOUS
  <2>. QED  BY <2>1
<1>. HIDE DEF S
<1>5. ASSUME NEW k \in 1..n
      PROVE  /\ pairs(k) \in [1..m -> [1..2 -> S]]
             /\ \A i \in 1..m, c \in 1..2 : pairs(k)[i][c] = record(k, i, c)
  BY <1>4
<1>. HIDE DEF pairs
<1>6. ASSUME NEW k \in 1..n
      PROVE  /\ rows[k] \in [1..(m * 2) -> S]
             /\ HasPlaces(rows[k], pairs(k), m, 2)
  <2>1. /\ FlattenSeq(pairs(k)) \in Seq(S) /\ Len(FlattenSeq(pairs(k))) = m * 2
        /\ HasPlaces(FlattenSeq(pairs(k)), pairs(k), m, 2)
    BY <1>1, <1>5, FlattenPlaces
  <2>2. rows[k] = FlattenSeq(pairs(k))
    OBVIOUS
  <2>3. \A s \in Seq(S) : s \in [1..Len(s) -> S]
    OBVIOUS
  <2>. HIDE DEF rows
  <2>. QED  BY <2>1, <2>2, <2>3
<1>7. rows \in [1..n -> [1..(m * 2) -> S]]
  BY <1>6
<1>. HIDE DEF rows, records
<1>8. HasPlaces(FlattenSeq(rows), rows, n, m * 2)
  BY <1>1, <1>7, FlattenPlaces
<1>9. ASSUME NEW x \in DOMAIN records
      PROVE  \E k \in DOMAIN StatLengths, i \in 1..StatSamples, c \in 1..2 :
                 ScoredAt(records, x, k, i, c)
  <2>1. PICK k \in 1..n, y \in 1..(m * 2) :
            x = (k - 1) * (m * 2) + y /\ records[x] = rows[k][y]
    BY <1>2, <1>8, <1>9 DEF HasPlaces
  <2>2. y \in DOMAIN rows[k]
    BY <1>6
  <2>3. PICK i \in 1..m, c \in 1..2 : y = (i - 1) * 2 + c /\ rows[k][y] = pairs(k)[i][c]
    BY <1>6, <2>2 DEF HasPlaces
  <2>4. records[x] = record(k, i, c)
    BY <1>5, <2>1, <2>3
  <2>5. ScoredAt(records, x, k, i, c)
    BY <1>3, <2>1, <2>3, <2>4, Zenon DEF ScoredAt, m
  <2>. QED  BY <1>1, <2>5 DEF m
<1>. QED  BY <1>9 DEF records

\* So the seeds of scored records are apart.
LEMMA ScoredSeeds ==
    ASSUME NEW threshold, NEW score
    PROVE  SeedsApart(generate_records(threshold, score))
<1>. DEFINE records == generate_records(threshold, score)
<1>. SUFFICES ASSUME StatSamples <= Stride, NEW x \in DOMAIN records, NEW y \in DOMAIN records,
                     records[x].random_seed = records[y].random_seed
              PROVE  /\ records[x].target_length = records[y].target_length
                     /\ \/ x - y \in -1..1
                        \/ Times(StatLengths, records[x].target_length) > 1
  BY Zenon DEF SeedsApart
<1>1. PICK k \in DOMAIN StatLengths, i \in 1..StatSamples, c \in 1..2 :
          ScoredAt(records, x, k, i, c)
  BY ScoredPlaces, Zenon
<1>2. PICK q \in DOMAIN StatLengths, j \in 1..StatSamples, d \in 1..2 :
          ScoredAt(records, y, q, j, d)
  BY ScoredPlaces, Zenon
<1>. HIDE DEF records
<1>3. /\ Stride \in Nat /\ StatSamples \in Nat /\ StatSamples <= Stride
      /\ StatLengths[k] \in Int /\ StatLengths[q] \in Int
      /\ k \in Int /\ q \in Int
  BY ReportsAssumption
<1>4. derive_seed(0, StatLengths[k], i - 1) = derive_seed(0, StatLengths[q], j - 1)
  BY <1>1, <1>2 DEF ScoredAt
<1>5. /\ i - 1 \in 0..(Stride - 1) /\ j - 1 \in 0..(Stride - 1)
      /\ StatLengths[k] * Stride + (i - 1) = StatLengths[q] * Stride + (j - 1)
  BY <1>3, <1>4 DEF derive_seed
<1>6. StatLengths[k] = StatLengths[q] /\ i - 1 = j - 1
  BY <1>3, <1>5, SeedsDiffer
<1>7. i = j /\ records[x].target_length = StatLengths[k]
  BY <1>1, <1>6 DEF ScoredAt
<1>8. CASE k = q
  <2>. DEFINE p == (k - 1) * (StatSamples * 2) + (i - 1) * 2
  <2>1. p \in Int
    BY <1>3
  <2>2. x = p + c /\ y = p + d
    <3>1. x = (k - 1) * (StatSamples * 2) + ((i - 1) * 2 + c)
          /\ y = (k - 1) * (StatSamples * 2) + ((i - 1) * 2 + d)
      BY <1>1, <1>2, <1>7, <1>8, Zenon DEF ScoredAt
    <3>2. (k - 1) * (StatSamples * 2) \in Int
      BY <1>3
    <3>. QED  BY <3>1, <3>2
  <2>. HIDE DEF p
  <2>3. x - y \in -1..1
    BY <2>1, <2>2
  <2>. QED  BY <1>1, <1>2, <1>6, <2>3 DEF ScoredAt
<1>9. CASE k # q
  <2>1. StatLengths \in Seq(Int)
    BY ReportsAssumption
  <2>2. Times(StatLengths, StatLengths[k]) > 1
    BY <1>6, <1>9, <2>1, TimesCount
  <2>. QED  BY <1>1, <1>2, <1>6, <1>7, <2>2 DEF ScoredAt
<1>. QED  BY <1>8, <1>9

\* The records of a run of the statistics are the ones just scored.
LEMMA ScoredStep ==
    ASSUME SeedsApart(scored), [Next]_vars PROVE SeedsApart(scored')
<1>1. CASE run_benchmark
  <2>1. \E score : scored' = generate_records(Thresholds[1], score)
    BY <1>1, Zenon DEF run_benchmark
  <2>. QED  BY <2>1, ScoredSeeds, Zenon
<1>2. scored' = scored => SeedsApart(scored')
  BY DEF SeedsApart
<1>3. CASE \/ \E outcome \in CliOutcomes : _benchmark_robustness_watermark(outcome)
           \/ WriteEvaluationRecords \/ write_watermark_benchmark_results \/ KillCli
  BY <1>2, <1>3, Zenon DEF _benchmark_robustness_watermark, WriteEvaluationRecords,
                           write_watermark_benchmark_results, KillCli, CliFrame
<1>4. CASE \/ \E outcome \in RunOutcomes : _execute_run(outcome)
           \/ run_plan_experiment \/ FailExperiment \/ _stamp_run_metadata \/ FailStamp
           \/ FinishRun \/ KillServer
  BY <1>2, <1>4, Zenon DEF _execute_run, run_plan_experiment, FailExperiment, _stamp_run_metadata,
                           FailStamp, FinishRun, KillServer, WorkerFrame
<1>5. CASE \/ \E r \in Readers : StartReport(r) \/ AnswerReport(r) \/ EndReport(r)
           \/ load_results_from_directory \/ load_robustness_results
  BY <1>2, <1>5, Zenon DEF StartReport, AnswerReport, EndReport, load_results_from_directory,
                           load_robustness_results, ReaderFrame
<1>6. CASE UNCHANGED vars
  BY <1>2, <1>6 DEF vars
<1>. QED
  BY <1>1, <1>3, <1>4, <1>5, <1>6, Zenon DEF Next

\* The invariant is kept by each step.
LEMMA OnceStep ==
    FileInv /\ RatesInv /\ OnceInv /\ [Next]_vars => OnceInv'
<1>. SUFFICES ASSUME FileInv, RatesInv, OnceInv, [Next]_vars PROVE OnceInv'
  OBVIOUS
<1>1. FilesOnce'
  BY StepMoves, FilesStep DEF FileInv
<1>2. ListedAt(CliResults, cli'.lines)
  BY CliStep DEF RatesInv
<1>3. ListedAt(RunResults, worker'.lines)
  BY WorkerStep DEF FileInv
<1>4. SeedsApart(scored')
  BY ScoredStep DEF OnceInv
<1>. QED  BY <1>1, <1>2, <1>3, <1>4, ReadersStep DEF OnceInv

\* A sum of one number.
LEMMA OneSum ==
    ASSUME NEW i, NEW f \in [{i} -> Nat] PROVE SumFunction(f) = f[i]
<1>. DEFINE n == f[i]
            A == [k \in {i} |-> 1..n]
<1>0. n \in Nat
  OBVIOUS
<1>. HIDE DEF n
<1>1. IsFiniteSet({i}) /\ \A k \in {i} : IsFiniteSet(A[k]) /\ Cardinality(A[k]) = n
  <2>1. IsFiniteSet(1..n) /\ Cardinality(1..n) = n
    BY <1>0, FS_Interval
  <2>. QED  BY <2>1, FS_Singleton
<1>2. \A k, l \in {i} : k # l => A[k] \cap A[l] = {}
  OBVIOUS
<1>3. SumFunction([k \in {i} |-> Cardinality(A[k])]) = Cardinality(Parts(A, {i}))
  BY <1>1, <1>2, SumOfParts, Zenon
<1>4. Parts(A, {i}) = A[i]
  BY DEF Parts
<1>5. [k \in {i} |-> Cardinality(A[k])] = f
  BY <1>1 DEF n
<1>. QED  BY <1>1, <1>3, <1>4, <1>5 DEF n

\* The units of one number at most.
LEMMA FewUnits ==
    ASSUME NEW D, NEW f \in [D -> Nat], NEW P \in SUBSET D, NEW x \in Nat,
           \A i, j \in P : i = j, \A i \in P : f[i] <= x
    PROVE  /\ IsFiniteSet(Parts(Units(f), P)) /\ Cardinality(Parts(Units(f), P)) \in Nat
           /\ Cardinality(Parts(Units(f), P)) <= x
<1>1. CASE P = {}
  <2>1. Parts(Units(f), P) = {}
    BY <1>1 DEF Parts
  <2>. QED  BY <2>1, FS_EmptySet
<1>2. CASE P # {}
  <2>1. PICK i : i \in P
    BY <1>2
  <2>2. Parts(Units(f), P) = Units(f)[i]
    <3>1. P = {i}
      BY <2>1
    <3>. QED  BY <3>1 DEF Parts
  <2>3. Units(f)[i] = {i} \X (1..f[i])
    BY <2>1 DEF Units
  <2>. DEFINE n == f[i]
  <2>4. n \in Nat /\ n <= x
    BY <2>1
  <2>. HIDE DEF n
  <2>5. /\ IsFiniteSet({i}) /\ Cardinality({i}) = 1
        /\ IsFiniteSet(1..n) /\ Cardinality(1..n) = n
    <3>1. IsFiniteSet({i}) /\ Cardinality({i}) = 1
      BY FS_Singleton
    <3>2. IsFiniteSet(1..n) /\ Cardinality(1..n) = n
      BY <2>4, FS_Interval
    <3>. QED  BY <3>1, <3>2
  <2>6. /\ IsFiniteSet({i} \X (1..n))
        /\ Cardinality({i} \X (1..n)) = Cardinality({i}) * Cardinality(1..n)
    BY <2>5, FS_Product, Zenon
  <2>7. Cardinality({i} \X (1..n)) = n
    BY <2>4, <2>5, <2>6
  <2>. QED  BY <2>2, <2>3, <2>4, <2>6, <2>7 DEF n
<1>. QED  BY <1>1, <1>2

\* A sum of two numbers at most, of which each has its bound.
LEMMA PairSum ==
    ASSUME NEW D, IsFiniteSet(D), NEW f \in [D -> Nat],
           NEW P \in SUBSET D, NEW Q \in SUBSET D, D = P \cup Q, NEW x \in Nat, NEW y \in Nat,
           \A i, j \in P : i = j, \A i, j \in Q : i = j,
           \A i \in P : f[i] <= x, \A i \in Q : f[i] <= y
    PROVE  SumFunction(f) <= x + y
<1>. DEFINE p == Parts(Units(f), P)
            q == Parts(Units(f), Q)
<1>1. SumFunction(f) = Cardinality(Parts(Units(f), D))
  BY SumOfUnits
<1>2. Parts(Units(f), D) = p \cup q
  BY DEF Parts
<1>3. IsFiniteSet(p) /\ Cardinality(p) \in Nat /\ Cardinality(p) <= x
  BY FewUnits
<1>4. IsFiniteSet(q) /\ Cardinality(q) \in Nat /\ Cardinality(q) <= y
  BY FewUnits
<1>. HIDE DEF p, q
<1>5. /\ Cardinality(p \cup q) = Cardinality(p) + Cardinality(q) - Cardinality(p \cap q)
      /\ Cardinality(p \cap q) \in Nat
  <2>1. IsFiniteSet(p \cap q)
    BY <1>3, FS_Subset
  <2>. QED  BY <1>3, <1>4, <2>1, FS_Union, FS_CardinalityType
<1>6. SumFunction(f) = Cardinality(p \cup q)
  BY <1>1, <1>2, Zenon
<1>. DEFINE both == Cardinality(p \cap q)
            m == Cardinality(p)
            n == Cardinality(q)
<1>7. /\ SumFunction(f) = m + n - both /\ both \in Nat
      /\ m \in Nat /\ m <= x /\ n \in Nat /\ n <= y
  BY <1>3, <1>4, <1>5, <1>6, Zenon
<1>. HIDE DEF both, m, n
<1>. QED  BY <1>7

KeyAndConfig(r) == <<r.config_identifier, r.transform_name, r.text_length>>

CountsAsAsked(lines, i) ==
    LET r == lines[i] IN
    Samples(Those(lines, LAMBDA x :
                /\ x.config_identifier = r.config_identifier
                /\ x.transform_name = r.transform_name
                /\ x.text_length = r.text_length))
        <= Asked(CliSpec, r.config_identifier, r.transform_name, r.text_length)
         + Asked(RunSpec, r.config_identifier, r.transform_name, r.text_length)

\* Of the lines with a key, a part is in the command's file and at most one line, and a
\* part is in the run's.
LEMMA SamplesAsked ==
    ASSUME NEW a, NEW b, IsLines(a), IsLines(b), Listed(CliSpec, a), Listed(RunSpec, b),
           NEW i \in DOMAIN (a \o b)
    PROVE  CountsAsAsked(a \o b, i)
<1>. DEFINE lines == a \o b
            r == lines[i]
            same == Those(lines, LAMBDA x : /\ x.config_identifier = r.config_identifier
                                            /\ x.transform_name = r.transform_name
                                            /\ x.text_length = r.text_length)
            D == {k \in DOMAIN lines : KeyAndConfig(lines[k]) = KeyAndConfig(r)}
            f == [k \in D |-> lines[k].sample_count]
            x == Asked(CliSpec, r.config_identifier, r.transform_name, r.text_length)
            y == Asked(RunSpec, r.config_identifier, r.transform_name, r.text_length)
            n == Len(a)
            P == {k \in D : k \in DOMAIN a}
            Q == {k \in D : k \notin DOMAIN a}
<1>1. /\ n \in Nat /\ DOMAIN lines \subseteq Int /\ IsFiniteSet(DOMAIN lines)
      /\ \A k \in DOMAIN lines : IF k \in DOMAIN a THEN lines[k] = a[k]
                                 ELSE k - n \in DOMAIN b /\ lines[k] = b[k - n]
  <2>. DEFINE S == ToSet(a) \cup ToSet(b)
  <2>1. a \in Seq(S) /\ b \in Seq(S)
    <3>1. a \in Seq(ToSet(a)) /\ b \in Seq(ToSet(b)) /\ ToSet(a) \subseteq S /\ ToSet(b) \subseteq S
      BY DEF IsLines
    <3>. HIDE DEF S
    <3>. QED  BY <3>1
  <2>. HIDE DEF S
  <2>2. /\ n \in Nat /\ DOMAIN a = 1..n /\ Len(b) \in Nat /\ DOMAIN b = 1..Len(b)
        /\ DOMAIN lines = 1..(n + Len(b))
        /\ \A k \in DOMAIN lines : lines[k] = IF k <= n THEN a[k] ELSE b[k - n]
    BY <2>1
  <2>. HIDE DEF lines, n
  <2>3. IsFiniteSet(1..(n + Len(b)))
    BY <2>2, FS_Interval
  <2>. QED  BY <2>2, <2>3
<1>2. Samples(same) = SumFunction(f)
  <2>1. DOMAIN same = D /\ \A k \in D : same[k] = lines[k]
    <3>. HIDE DEF r, lines
    <3>. QED  BY DEF Those, Restrict, KeyAndConfig
  <2>. HIDE DEF same, D, lines
  <2>2. [k \in DOMAIN same |-> same[k].sample_count] = f
    BY <2>1
  <2>. HIDE DEF f
  <2>. QED  BY <2>2, Zenon DEF Samples, Total
<1>. HIDE DEF lines, r, same, n
<1>3. IsFiniteSet(D) /\ P \in SUBSET D /\ Q \in SUBSET D /\ D = P \cup Q
  <2>1. D \in SUBSET (DOMAIN lines)
    OBVIOUS
  <2>2. IsFiniteSet(D)
    BY <1>1, <2>1, FS_Subset
  <2>. HIDE DEF D
  <2>. QED  BY <2>2
<1>4. \A k \in D : /\ k \in DOMAIN lines
                   /\ lines[k].config_identifier = r.config_identifier
                   /\ lines[k].transform_name = r.transform_name
                   /\ lines[k].text_length = r.text_length
                   /\ KeyIn(lines[k]) = KeyIn(r)
  BY DEF KeyAndConfig, KeyIn
<1>5. \A k \in D : lines[k].sample_count \in Nat
  <2>1. \A k \in DOMAIN a : a[k].sample_count \in Nat
    BY DEF IsLines, PairedLine
  <2>2. \A k \in DOMAIN b : b[k].sample_count \in Nat
    BY DEF IsLines, PairedLine
  <2>. HIDE DEF D
  <2>. QED  BY <1>1, <1>4, <2>1, <2>2
<1>6. x \in Nat /\ y \in Nat
  <2>1. \A spec \in Specs : AskedFor(spec, r.transform_name, r.text_length) \in Nat
    <3>. SUFFICES ASSUME NEW spec \in Specs
                  PROVE  AskedFor(spec, r.transform_name, r.text_length) \in Nat
      OBVIOUS
    <3>1. /\ spec.samples \in Nat /\ spec.lengths \in Seq(Nat)
          /\ resolve_experiment_transforms(spec) \in Seq(DOMAIN CategoryOf)
      BY SpecTypes
    <3>2. /\ Times(spec.lengths, r.text_length) \in Nat
          /\ Times(resolve_experiment_transforms(spec), r.transform_name) \in Nat
      BY <3>1, TimesCount
    <3>. QED  BY <3>1, <3>2 DEF AskedFor
  <2>2. /\ x = IF CliSpec.config = r.config_identifier
               THEN AskedFor(CliSpec, r.transform_name, r.text_length) ELSE 0
        /\ y = IF RunSpec.config = r.config_identifier
               THEN AskedFor(RunSpec, r.transform_name, r.text_length) ELSE 0
    BY Zenon DEF Asked, AskedFor
  <2>3. CliSpec \in Specs /\ RunSpec \in Specs
    BY DEF Specs
  <2>. HIDE DEF x, y
  <2>. QED  BY <2>1, <2>2, <2>3
<1>7. \A k \in P : lines[k].sample_count <= x
  <2>. SUFFICES ASSUME NEW k \in P PROVE lines[k].sample_count <= x
    OBVIOUS
  <2>1. k \in DOMAIN a /\ lines[k] = a[k]
    BY <1>1
  <2>2. /\ lines[k].config_identifier = CliSpec.config
        /\ lines[k].sample_count
              <= AskedFor(CliSpec, lines[k].transform_name, lines[k].text_length)
    BY <2>1 DEF Listed
  <2>3. /\ r.config_identifier = CliSpec.config
        /\ lines[k].sample_count <= AskedFor(CliSpec, r.transform_name, r.text_length)
    BY <1>4, <2>2
  <2>4. x = AskedFor(CliSpec, r.transform_name, r.text_length)
    BY <2>3, Zenon DEF Asked, AskedFor
  <2>. QED  BY <2>3, <2>4, Zenon
<1>8. \A k \in Q : lines[k].sample_count <= y
  <2>. SUFFICES ASSUME NEW k \in Q PROVE lines[k].sample_count <= y
    OBVIOUS
  <2>1. k - n \in DOMAIN b /\ lines[k] = b[k - n]
    BY <1>1
  <2>2. /\ lines[k].config_identifier = RunSpec.config
        /\ lines[k].sample_count
              <= AskedFor(RunSpec, lines[k].transform_name, lines[k].text_length)
    BY <2>1 DEF Listed
  <2>3. /\ r.config_identifier = RunSpec.config
        /\ lines[k].sample_count <= AskedFor(RunSpec, r.transform_name, r.text_length)
    BY <1>4, <2>2
  <2>4. y = AskedFor(RunSpec, r.transform_name, r.text_length)
    BY <2>3, Zenon DEF Asked, AskedFor
  <2>. QED  BY <2>3, <2>4, Zenon
<1>9. \A k, l \in P : k = l
  <2>. SUFFICES ASSUME NEW k \in P, NEW l \in P PROVE k = l
    OBVIOUS
  <2>1. k \in DOMAIN a /\ l \in DOMAIN a /\ KeyIn(a[k]) = KeyIn(a[l])
    BY <1>1, <1>4
  <2>. QED  BY <2>1, Zenon DEF Listed
<1>10. \A k, l \in Q : k = l
  <2>. SUFFICES ASSUME NEW k \in Q, NEW l \in Q PROVE k = l
    OBVIOUS
  <2>1. /\ k - n \in DOMAIN b /\ l - n \in DOMAIN b /\ KeyIn(b[k - n]) = KeyIn(b[l - n])
        /\ k \in Int /\ l \in Int
    BY <1>1, <1>4
  <2>2. k - n = l - n
    BY <2>1, Zenon DEF Listed
  <2>. QED  BY <1>1, <2>1, <2>2
<1>11. f \in [D -> Nat] /\ \A k \in D : f[k] = lines[k].sample_count
  BY <1>5
<1>. HIDE DEF D, P, Q, f, x, y
<1>12. (\A k \in P : f[k] <= x) /\ \A k \in Q : f[k] <= y
  BY <1>3, <1>7, <1>8, <1>11
<1>13. SumFunction(f) <= x + y
  BY <1>3, <1>6, <1>9, <1>10, <1>11, <1>12, PairSum
<1>14. Samples(same) <= x + y
  BY <1>2, <1>13
<1>. QED  BY <1>14, Zenon DEF CountsAsAsked, same, x, y, r, lines

\* The invariant says that a report counts samples as they are asked for.
LEMMA OnceIsCounted == RatesInv /\ OnceInv => CountedAsAsked
<1>. SUFFICES ASSUME RatesInv, OnceInv PROVE CountedAsAsked
  OBVIOUS
<1>1. ASSUME NEW lines \in Answers, NEW i \in DOMAIN lines
      PROVE  CountsAsAsked(lines, i)
  <2>1. PICK r \in Readers : lines = reader[r].lines
    BY DEF Answers
  <2>2. PICK a, b : TakesInOrder(reader[r], a, b)
    BY <2>1 DEF OnceInv, ReadsOnce
  <2>3. /\ IsLines(a) /\ IsLines(b) /\ lines = a \o b
        /\ Listed(CliSpec, a) /\ Listed(RunSpec, b)
    BY <2>1, <2>2, Zenon DEF TakesInOrder
  <2>4. i \in DOMAIN (a \o b)
    BY <2>3
  <2>. QED  BY <2>3, <2>4, SamplesAsked, Zenon
<1>2. AnswersCountAsAsked
  BY <1>1, Zenon DEF CountsAsAsked, AnswersCountAsAsked
<1>3. SeedsAreApart
  BY Zenon DEF OnceInv, SeedsApart, SeedsAreApart
<1>. QED  BY <1>2, <1>3 DEF CountedAsAsked

\* Whatever commands were repeated, killed and retried, a report has no more samples of a
\* transformation and length than the specifications of the configuration ask for, one
\* time each, and scored samples of one seed are of one place as long as there are no more
\* of them than the stride and their length is listed once. Nothing is assumed of the two
\* specifications: they may name one configuration, whose samples then add up, and name a
\* length or a transformation twice.
THEOREM SamplesCountAsAsked == Spec => []CountedAsAsked
<1>. QED  BY OnceStep, InitFiled, FileStep, InitLines, RatesStep, InitOnce, OnceIsCounted, PTL
          DEF Spec

-----------------------------------------------------------------------------
(* Groupings add up *)

\* The places of a key, and the sum over all keys of what is at their places.
At(K, k) == {i \in DOMAIN K : K[i] = k}

SumsByKey(f, K) ==
    SumFunction([k \in {K[i] : i \in DOMAIN K} |-> SumFunction([i \in At(K, k) |-> f[i]])])

\* Summed key by key, what is at all places is summed once.
LEMMA SumOverKeys ==
    ASSUME NEW D, IsFiniteSet(D), NEW f \in [D -> Nat], NEW K, DOMAIN K = D
    PROVE  SumsByKey(f, K) = SumFunction(f)
<1>. DEFINE V == {K[i] : i \in D}
            part(k) == [i \in At(K, k) |-> f[i]]
            A == [k \in V |-> Parts(Units(f), At(K, k))]
<1>1. IsFiniteSet(V)
  <2>1. [i \in D |-> K[i]] \in Surjection(D, V)
    BY DEF Surjection
  <2>. QED  BY <2>1, FS_Surjection, Zenon
<1>2. ASSUME NEW k \in V
      PROVE  IsFiniteSet(A[k]) /\ SumFunction(part(k)) = Cardinality(A[k])
  <2>1. IsFiniteSet(At(K, k)) /\ At(K, k) \subseteq D
    <3>1. At(K, k) \in SUBSET D
      BY DEF At
    <3>. QED  BY <3>1, FS_Subset
  <2>2. part(k) \in [At(K, k) -> Nat] /\ \A i \in At(K, k) : part(k)[i] = f[i]
    BY <2>1
  <2>3. Parts(Units(part(k)), At(K, k)) = A[k]
    <3>1. \A i \in At(K, k) : Units(part(k))[i] = Units(f)[i]
      BY <2>1, <2>2 DEF Units
    <3>. HIDE DEF part
    <3>. QED  BY <3>1 DEF Parts
  <2>. HIDE DEF part, A
  <2>. QED  BY <2>1, <2>2, <2>3, SumOfUnits
<1>3. \A k, l \in V : k # l => A[k] \cap A[l] = {}
  <2>. SUFFICES ASSUME NEW k \in V, NEW l \in V, NEW x, x \in A[k], x \in A[l] PROVE k = l
    BY Zenon
  <2>1. PICK i \in At(K, k) : x \in Units(f)[i]
    BY DEF Parts
  <2>2. PICK j \in At(K, l) : x \in Units(f)[j]
    BY DEF Parts
  <2>3. i \in D /\ j \in D /\ K[i] = k /\ K[j] = l
    BY DEF At
  <2>4. x[1] = i /\ x[1] = j
    BY <2>1, <2>2, <2>3 DEF Units
  <2>. QED  BY <2>3, <2>4
<1>4. Parts(A, V) = Parts(Units(f), D)
  <2>1. \A i \in D : K[i] \in V /\ i \in At(K, K[i])
    BY DEF At
  <2>2. \A k \in V : At(K, k) \subseteq D
    BY DEF At
  <2>3. \A k \in V : \A x : x \in A[k] <=> \E i \in At(K, k) : x \in Units(f)[i]
    BY DEF Parts
  <2>. HIDE DEF A, V
  <2>4. ASSUME NEW x, x \in Parts(A, V) PROVE x \in Parts(Units(f), D)
    <3>1. PICK k \in V : x \in A[k]
      BY <2>4 DEF Parts
    <3>2. PICK i \in At(K, k) : x \in Units(f)[i]
      BY <2>3, <3>1
    <3>. QED  BY <2>2, <3>2 DEF Parts
  <2>5. ASSUME NEW x, x \in Parts(Units(f), D) PROVE x \in Parts(A, V)
    <3>1. PICK i \in D : x \in Units(f)[i]
      BY <2>5 DEF Parts
    <3>2. x \in A[K[i]]
      BY <2>1, <2>3, <3>1
    <3>. QED  BY <2>1, <3>2 DEF Parts
  <2>. QED  BY <2>4, <2>5
<1>5. SumFunction([k \in V |-> Cardinality(A[k])]) = Cardinality(Parts(A, V))
  <2>1. \A k \in V : IsFiniteSet(A[k])
    BY <1>2
  <2>. HIDE DEF A, V
  <2>. QED  BY <1>1, <1>3, <2>1, SumOfParts, Zenon
<1>6. [k \in V |-> Cardinality(A[k])] = [k \in V |-> SumFunction(part(k))]
  BY <1>2
<1>7. SumFunction(f) = Cardinality(Parts(Units(f), D))
  BY SumOfUnits
<1>8. SumsByKey(f, K) = SumFunction([k \in V |-> SumFunction(part(k))])
  BY DEF SumsByKey
<1>. HIDE DEF A, V, part
<1>. QED  BY <1>4, <1>5, <1>6, <1>7, <1>8

\* A sum over a group of lines, the group's samples and its detections before.
LEMMA GroupSums ==
    ASSUME NEW group, IsGroup(group), NEW rate
    PROVE  LET summary == Summary(group, rate)
               samples == [i \in DOMAIN group |-> group[i].sample_count]
               before == [i \in DOMAIN group |-> group[i].baseline_detected]
           IN  /\ samples \in [DOMAIN group -> Nat] /\ before \in [DOMAIN group -> Nat]
               /\ summary.total_samples = SumFunction(samples)
               /\ summary.baseline.successes = SumFunction(before)
<1>. DEFINE D == DOMAIN group
            samples == [i \in D |-> group[i].sample_count]
            before == [i \in D |-> group[i].baseline_detected]
            summary == Summary(group, rate)
<1>1. samples \in [D -> Nat] /\ before \in [D -> Nat]
  BY DEF IsGroup, PairedLine
<1>2. \A i \in D : before[i] <= samples[i]
  BY DEF IsGroup, PairedLine
<1>3. Samples(group) = SumFunction(samples) /\ BaselineDetected(group) = SumFunction(before)
  BY DEF Samples, BaselineDetected, Total
<1>4. /\ summary.total_samples = Samples(group)
      /\ summary.baseline = rate_estimate(BaselineDetected(group), Samples(group))
  BY DEF Summary
<1>5. IsFiniteSet(D)
  BY DEF IsGroup
<1>. HIDE DEF samples, before, summary, D
<1>6. /\ SumFunction(samples) \in Nat /\ SumFunction(before) \in Nat
      /\ SumFunction(before) <= SumFunction(samples)
  BY <1>1, <1>2, <1>5, SumGrows
<1>7. rate_estimate(SumFunction(before), SumFunction(samples))
        = [successes |-> SumFunction(before), n_samples |-> SumFunction(samples)]
  BY <1>6, RateOrZero
<1>8. summary.baseline.successes = SumFunction(before)
  BY <1>3, <1>4, <1>7
<1>. QED  BY <1>1, <1>3, <1>4, <1>8 DEF samples, before, summary, D

\* The lines of each key, summed up.
ViewOf(lines, K) ==
    [k \in {K[i] : i \in DOMAIN lines} |->
        Summary(Restrict(lines, At(K, k)), PreservedRate(Restrict(lines, At(K, k))))]

AllOf(view, lines) ==
    /\ Total(view, LAMBDA x : x.total_samples) = Samples(lines)
    /\ Total(view, LAMBDA x : x.baseline.successes) = BaselineDetected(lines)

\* Whatever the key is, the groups of the lines sum up to the lines.
LEMMA ViewAddsUp ==
    ASSUME NEW lines, IsLines(lines), NEW K, DOMAIN K = DOMAIN lines
    PROVE  AllOf(ViewOf(lines, K), lines)
<1>. DEFINE D == DOMAIN lines
            V == {K[i] : i \in D}
            view == ViewOf(lines, K)
            group(k) == Restrict(lines, At(K, k))
            samples == [i \in D |-> lines[i].sample_count]
            before == [i \in D |-> lines[i].baseline_detected]
<1>1. IsFiniteSet(D) /\ samples \in [D -> Nat] /\ before \in [D -> Nat]
  <2>1. D = 1..Len(lines) /\ Len(lines) \in Nat
    BY DEF IsLines
  <2>2. IsFiniteSet(D)
    BY <2>1, FS_Interval
  <2>. QED  BY <2>2 DEF IsLines, PairedLine
<1>2. DOMAIN view = V /\ \A k \in V : view[k] = Summary(group(k), PreservedRate(group(k)))
  BY DEF ViewOf
<1>3. ASSUME NEW k \in V
      PROVE  /\ view[k].total_samples = SumFunction([i \in At(K, k) |-> samples[i]])
             /\ view[k].baseline.successes = SumFunction([i \in At(K, k) |-> before[i]])
  <2>1. At(K, k) \in SUBSET D
    BY DEF At
  <2>2. IsGroup(group(k))
    BY <2>1, ThoseAreGroup
  <2>3. DOMAIN group(k) = At(K, k) /\ \A i \in At(K, k) : group(k)[i] = lines[i]
    BY DEF Restrict
  <2>. HIDE DEF group, view, V
  <2>4. /\ view[k].total_samples
              = SumFunction([i \in DOMAIN group(k) |-> group(k)[i].sample_count])
        /\ view[k].baseline.successes
              = SumFunction([i \in DOMAIN group(k) |-> group(k)[i].baseline_detected])
    BY <1>2, <2>2, GroupSums
  <2>5. /\ [i \in DOMAIN group(k) |-> group(k)[i].sample_count]
              = [i \in At(K, k) |-> samples[i]]
        /\ [i \in DOMAIN group(k) |-> group(k)[i].baseline_detected]
              = [i \in At(K, k) |-> before[i]]
    BY <2>1, <2>3
  <2>. QED  BY <2>4, <2>5
<1>4. /\ Samples(lines) = SumFunction(samples) /\ BaselineDetected(lines) = SumFunction(before)
      /\ Total(view, LAMBDA x : x.total_samples)
            = SumFunction([k \in DOMAIN view |-> view[k].total_samples])
      /\ Total(view, LAMBDA x : x.baseline.successes)
            = SumFunction([k \in DOMAIN view |-> view[k].baseline.successes])
  BY DEF Samples, BaselineDetected, Total
<1>. HIDE DEF samples, before, view, group
<1>5. /\ [k \in DOMAIN view |-> view[k].total_samples]
            = [k \in V |-> SumFunction([i \in At(K, k) |-> samples[i]])]
      /\ [k \in DOMAIN view |-> view[k].baseline.successes]
            = [k \in V |-> SumFunction([i \in At(K, k) |-> before[i]])]
  BY <1>2, <1>3
<1>6. /\ SumsByKey(samples, K) = SumFunction(samples)
      /\ SumsByKey(before, K) = SumFunction(before)
  BY <1>1, SumOverKeys, Zenon
<1>7. /\ SumsByKey(samples, K)
            = SumFunction([k \in V |-> SumFunction([i \in At(K, k) |-> samples[i]])])
      /\ SumsByKey(before, K)
            = SumFunction([k \in V |-> SumFunction([i \in At(K, k) |-> before[i]])])
  BY DEF SumsByKey
<1>8. AllOf(view, lines)
  BY <1>4, <1>5, <1>6, <1>7, Zenon DEF AllOf
<1>. QED  BY <1>8 DEF view

\* A row is of one line.
LEMMA RowsAddUp ==
    ASSUME NEW lines, IsLines(lines)
    PROVE  AllOf([i \in DOMAIN lines |-> Summary(<<lines[i]>>, PreservedRate(<<lines[i]>>))],
                 lines)
<1>. DEFINE rows == [i \in DOMAIN lines |-> Summary(<<lines[i]>>, PreservedRate(<<lines[i]>>))]
<1>1. ASSUME NEW i \in DOMAIN lines
      PROVE  /\ rows[i].total_samples = lines[i].sample_count
             /\ rows[i].baseline.successes = lines[i].baseline_detected
  <2>. DEFINE alone == <<lines[i]>>
              samples == [k \in DOMAIN alone |-> alone[k].sample_count]
              before == [k \in DOMAIN alone |-> alone[k].baseline_detected]
  <2>1. DOMAIN alone = {1} /\ alone[1] = lines[i] /\ PairedLine(lines[i])
    BY DEF IsLines
  <2>. HIDE DEF alone
  <2>2. IsGroup(alone)
    BY <2>1, FS_Singleton DEF IsGroup
  <2>3. /\ samples \in [DOMAIN alone -> Nat] /\ before \in [DOMAIN alone -> Nat]
        /\ Summary(alone, PreservedRate(alone)).total_samples = SumFunction(samples)
        /\ Summary(alone, PreservedRate(alone)).baseline.successes = SumFunction(before)
    BY <2>2, GroupSums, Zenon
  <2>4. samples[1] = lines[i].sample_count /\ before[1] = lines[i].baseline_detected
    BY <2>1
  <2>. HIDE DEF samples, before
  <2>5. SumFunction(samples) = samples[1] /\ SumFunction(before) = before[1]
    BY <2>1, <2>3, OneSum
  <2>6. rows[i] = Summary(alone, PreservedRate(alone))
    BY DEF alone
  <2>. QED  BY <2>3, <2>4, <2>5, <2>6
<1>2. DOMAIN rows = DOMAIN lines
  OBVIOUS
<1>. HIDE DEF rows
<1>3. /\ [i \in DOMAIN rows |-> rows[i].total_samples]
            = [i \in DOMAIN lines |-> lines[i].sample_count]
      /\ [i \in DOMAIN rows |-> rows[i].baseline.successes]
            = [i \in DOMAIN lines |-> lines[i].baseline_detected]
  BY <1>1, <1>2
<1>4. AllOf(rows, lines)
  BY <1>3 DEF AllOf, Total, Samples, BaselineDetected
<1>. QED  BY <1>4 DEF rows

\* The keys of the four groupings.
Models(lines) == [i \in DOMAIN lines |-> lines[i].config_identifier]
Transforms(lines) == [i \in DOMAIN lines |-> lines[i].transform_name]
Categories(lines) == [i \in DOMAIN lines |-> CategoryOf[lines[i].transform_name]]
Lengths(lines) == [i \in DOMAIN lines |-> lines[i].text_length]

\* A grouping by the key that K gives each line is the view of K.
LEMMA GroupedByKey ==
    ASSUME NEW lines, NEW K, DOMAIN K = DOMAIN lines, NEW groups,
           groups = [k \in {K[i] : i \in DOMAIN lines} |->
                        Restrict(lines, {i \in DOMAIN lines : K[i] = k})]
    PROVE  [k \in DOMAIN groups |-> Summary(groups[k], PreservedRate(groups[k]))]
             = ViewOf(lines, K)
<1>1. \A k : {i \in DOMAIN lines : K[i] = k} = At(K, k)
  BY DEF At
<1>2. DOMAIN groups = {K[i] : i \in DOMAIN lines}
  OBVIOUS
<1>3. \A k \in DOMAIN groups : groups[k] = Restrict(lines, At(K, k))
  BY <1>1
<1>. QED  BY <1>2, <1>3 DEF ViewOf

\* The views of a comparison are the groupings by the four keys.
LEMMA ComparisonViews ==
    ASSUME NEW lines
    PROVE  build_comparison_report(lines)
             = [rows |-> [i \in DOMAIN lines |->
                             Summary(<<lines[i]>>, PreservedRate(<<lines[i]>>))],
                by_model |-> ViewOf(lines, Models(lines)),
                by_transform |-> ViewOf(lines, Transforms(lines)),
                by_category |-> ViewOf(lines, Categories(lines)),
                by_length |-> ViewOf(lines, Lengths(lines))]
<1>. DEFINE D == DOMAIN lines
            models == GroupBy(lines, LAMBDA r : r.config_identifier)
            transforms == GroupBy(lines, LAMBDA r : r.transform_name)
            categories == GroupBy(lines, LAMBDA r : CategoryOf[r.transform_name])
            lengths == GroupBy(lines, LAMBDA r : r.text_length)
            Views(g) == [k \in DOMAIN g |-> Summary(g[k], PreservedRate(g[k]))]
            rows == [i \in D |-> Summary(<<lines[i]>>, PreservedRate(<<lines[i]>>))]
<1>1. build_comparison_report(lines)
        = [rows |-> rows, by_model |-> Views(models), by_transform |-> Views(transforms),
           by_category |-> Views(categories), by_length |-> Views(lengths)]
  BY Zenon DEF build_comparison_report
<1>2. models = [k \in {lines[i].config_identifier : i \in D} |->
                   Restrict(lines, {i \in D : lines[i].config_identifier = k})]
  BY Zenon DEF GroupBy, Those
<1>3. transforms = [k \in {lines[i].transform_name : i \in D} |->
                       Restrict(lines, {i \in D : lines[i].transform_name = k})]
  BY Zenon DEF GroupBy, Those
<1>4. categories = [k \in {CategoryOf[lines[i].transform_name] : i \in D} |->
                       Restrict(lines, {i \in D : CategoryOf[lines[i].transform_name] = k})]
  BY Zenon DEF GroupBy, Those
<1>5. lengths = [k \in {lines[i].text_length : i \in D} |->
                    Restrict(lines, {i \in D : lines[i].text_length = k})]
  BY Zenon DEF GroupBy, Those
<1>. HIDE DEF models, transforms, categories, lengths
<1>6. Views(models) = ViewOf(lines, Models(lines))
  <2>1. DOMAIN Models(lines) = D /\ \A i \in D : Models(lines)[i] = lines[i].config_identifier
    BY DEF Models
  <2>2. models = [k \in {Models(lines)[i] : i \in D} |->
                     Restrict(lines, {i \in D : Models(lines)[i] = k})]
    BY <1>2, <2>1
  <2>. QED  BY <2>1, <2>2, GroupedByKey
<1>7. Views(transforms) = ViewOf(lines, Transforms(lines))
  <2>1. DOMAIN Transforms(lines) = D /\ \A i \in D : Transforms(lines)[i] = lines[i].transform_name
    BY DEF Transforms
  <2>2. transforms = [k \in {Transforms(lines)[i] : i \in D} |->
                         Restrict(lines, {i \in D : Transforms(lines)[i] = k})]
    BY <1>3, <2>1
  <2>. QED  BY <2>1, <2>2, GroupedByKey
<1>8. Views(categories) = ViewOf(lines, Categories(lines))
  <2>1. /\ DOMAIN Categories(lines) = D
        /\ \A i \in D : Categories(lines)[i] = CategoryOf[lines[i].transform_name]
    BY DEF Categories
  <2>2. categories = [k \in {Categories(lines)[i] : i \in D} |->
                         Restrict(lines, {i \in D : Categories(lines)[i] = k})]
    BY <1>4, <2>1
  <2>. QED  BY <2>1, <2>2, GroupedByKey
<1>9. Views(lengths) = ViewOf(lines, Lengths(lines))
  <2>1. DOMAIN Lengths(lines) = D /\ \A i \in D : Lengths(lines)[i] = lines[i].text_length
    BY DEF Lengths
  <2>2. lengths = [k \in {Lengths(lines)[i] : i \in D} |->
                      Restrict(lines, {i \in D : Lengths(lines)[i] = k})]
    BY <1>5, <2>1
  <2>. QED  BY <2>1, <2>2, GroupedByKey
<1>. HIDE DEF Views
<1>. QED  BY <1>1, <1>6, <1>7, <1>8, <1>9

\* A comparison of lines with counts that fit each other adds up.
LEMMA ComparisonOfLines ==
    ASSUME NEW lines, IsLines(lines)
    PROVE  ComparisonAddsUp(lines)
<1>. DEFINE report == build_comparison_report(lines)
<1>1. /\ report.rows = [i \in DOMAIN lines |->
                            Summary(<<lines[i]>>, PreservedRate(<<lines[i]>>))]
      /\ report.by_model = ViewOf(lines, Models(lines))
      /\ report.by_transform = ViewOf(lines, Transforms(lines))
      /\ report.by_category = ViewOf(lines, Categories(lines))
      /\ report.by_length = ViewOf(lines, Lengths(lines))
  BY ComparisonViews
<1>. HIDE DEF report
<1>2. /\ DOMAIN Models(lines) = DOMAIN lines /\ DOMAIN Transforms(lines) = DOMAIN lines
      /\ DOMAIN Categories(lines) = DOMAIN lines /\ DOMAIN Lengths(lines) = DOMAIN lines
  BY DEF Models, Transforms, Categories, Lengths
<1>3. AllOf(report.rows, lines)
  BY <1>1, RowsAddUp
<1>4. /\ AllOf(report.by_model, lines) /\ AllOf(report.by_transform, lines)
      /\ AllOf(report.by_category, lines) /\ AllOf(report.by_length, lines)
  BY <1>1, <1>2, ViewAddsUp
<1>. QED  BY <1>3, <1>4, Zenon DEF ComparisonAddsUp, AllOf, report

\* Grouped by model, transformation, category or length, the samples of a comparison
\* and its detections before are all of its rows' and no more, in every answer a reader
\* makes of files written, torn and rewritten under it.
THEOREM AnswersAddUp == Spec => []ComparisonsAddUp
<1>1. RatesInv => ComparisonsAddUp
  <2>. SUFFICES ASSUME RatesInv PROVE ComparisonsAddUp
    OBVIOUS
  <2>1. \A lines \in Answers : IsLines(lines)
    BY DEF Answers, RatesInv, ReaderLines, IsReader
  <2>. QED  BY <2>1, ComparisonOfLines DEF ComparisonsAddUp
<1>. QED  BY <1>1, InitFiled, FileStep, InitLines, RatesStep, PTL DEF Spec
=============================================================================
