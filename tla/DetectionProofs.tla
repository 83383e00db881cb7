--------------------------- MODULE DetectionProofs --------------------------
(***************************************************************************)
(* What the detectors say of a text that a generator has written, for every *)
(* vocabulary, configuration, model and length of the text. The loops of    *)
(* the scorers are folds: the first part shows that a fold goes through      *)
(* its sequence, and what the sums of a score are bounded by.               *)
(***************************************************************************)
EXTENDS Detection, FiniteSetTheorems, WellFoundedInduction, TLAPS

-----------------------------------------------------------------------------
(* Induction over the steps of a loop *)

\* The order of the natural numbers is well founded as a set of pairs.
LessOnNat == {p \in Nat \X Nat : p[1] < p[2]}

LEMMA NatLessIsSet == OpToRel(<, Nat) = LessOnNat
  BY Zenon DEF OpToRel, LessOnNat

\* T is the set of the numbers of steps after which a fact holds.
LEMMA AllSteps ==
    ASSUME NEW n \in Nat, NEW T \in SUBSET (0..n), 0 \in T,
           \A m \in T : m < n => m + 1 \in T
    PROVE  T = 0..n
<1>. DEFINE Rest == (0..n) \ T
<1>. SUFFICES ASSUME Rest # {} PROVE FALSE
  OBVIOUS
<1>1. IsWellFoundedOn(LessOnNat, Nat)
  BY NatLessIsSet, NatLessThanWellFounded, Zenon
<1>2. PICK x \in Rest : \A y \in Rest : ~(<<y, x>> \in LessOnNat)
  <2>1. Rest \subseteq Nat
    OBVIOUS
  <2>. QED  BY <1>1, <2>1, WFMin
<1>3. x \in 1..n /\ x - 1 \in 0..n /\ x - 1 < n /\ (x - 1) + 1 = x
  BY <1>2
<1>4. x - 1 \notin Rest
  <2>1. x \in Nat /\ x - 1 \in Nat /\ x - 1 < x
    BY <1>3
  <2>2. <<x - 1, x>> \in LessOnNat
    BY <2>1 DEF LessOnNat
  <2>. QED  BY <1>2, <2>2, Zenon
<1>5. x - 1 \in T
  BY <1>3, <1>4
<1>6. (x - 1) + 1 \in T
  BY <1>3, <1>5
<1>. QED  BY <1>2, <1>3, <1>6

-----------------------------------------------------------------------------
(* Folds *)

\* The last of a set of positions, as the library's Max chooses it.
LEMMA LastPosition ==
    ASSUME NEW n \in Nat, NEW s \in SUBSET (1..(n + 1)), n + 1 \in s
    PROVE  Max(s) = n + 1
<1>. DEFINE IsMax(x) == x \in s /\ \A y \in s : x >= y
<1>1. IsMax(n + 1)
  OBVIOUS
<1>2. IsMax(Max(s))
  BY <1>1, Zenon DEF Max
<1>3. Max(s) \in 1..(n + 1) /\ Max(s) >= n + 1
  BY <1>2
<1>. QED  BY <1>3

LEMMA LastIsMember ==
    ASSUME NEW n \in Nat, NEW s \in SUBSET (1..n), s # {}
    PROVE  Max(s) \in s
<1>. DEFINE T == {m \in 0..n : \A x \in SUBSET (1..m) : x # {} => Max(x) \in x}
<1>1. 0 \in T
  <2>1. 1..0 = {} /\ 0 \in 0..n
    OBVIOUS
  <2>. QED  BY <2>1
<1>2. ASSUME NEW m \in T, m < n PROVE m + 1 \in T
  <2>1. m \in Nat /\ m + 1 \in 0..n
    BY <1>2
  <2>2. ASSUME NEW x \in SUBSET (1..(m + 1)), x # {} PROVE Max(x) \in x
    <3>1. CASE m + 1 \in x
      BY <2>1, <3>1, LastPosition
    <3>2. CASE m + 1 \notin x
      <4>1. x \in SUBSET (1..m)
        BY <2>1, <3>2
      <4>. QED  BY <2>2, <4>1
    <3>. QED  BY <3>1, <3>2
  <2>. QED  BY <2>1, <2>2
<1>. HIDE DEF T
<1>3. T = 0..n
  <2>1. T \in SUBSET (0..n)
    BY DEF T
  <2>. QED  BY <1>1, <1>2, <2>1, AllSteps, Zenon
<1>4. n \in T
  BY <1>3
<1>. QED  BY <1>4 DEF T

LEMMA LastOfAll ==
    ASSUME NEW n \in Nat
    PROVE  /\ 1..(n + 1) # {} /\ Max(1..(n + 1)) = n + 1
           /\ (1..(n + 1)) \ {n + 1} = 1..n
<1>1. n + 1 \in 1..(n + 1)
  OBVIOUS
<1>. QED  BY <1>1, LastPosition

\* The recursion of a fold over the positions 1..n, whose step at position i is the
\* function F[i] on the states of the loop.
Folds(g, n, base, F) ==
    \A s \in SUBSET (1..n) : g[s] = IF s = {} THEN base ELSE F[Max(s)][g[s \ {Max(s)}]]

LEMMA FoldExists ==
    ASSUME NEW n \in Nat, NEW States, NEW base \in States, NEW F \in [1..n -> [States -> States]]
    PROVE  \E g \in [SUBSET (1..n) -> States] : Folds(g, n, base, F)
<1>. DEFINE T == {m \in 0..n : \E g \in [SUBSET (1..m) -> States] : Folds(g, m, base, F)}
<1>1. 0 \in T
  <2>. DEFINE g == [s \in SUBSET (1..0) |-> base]
  <2>1. g \in [SUBSET (1..0) -> States] /\ 1..0 = {}
    OBVIOUS
  <2>2. Folds(g, 0, base, F)
    BY <2>1 DEF Folds
  <2>. QED  BY <2>1, <2>2
<1>2. ASSUME NEW m \in T, m < n PROVE m + 1 \in T
  <2>1. PICK g \in [SUBSET (1..m) -> States] : Folds(g, m, base, F)
    OBVIOUS
  <2>2. m \in Nat /\ m + 1 \in 0..n /\ m + 1 \in 1..n /\ F[m + 1] \in [States -> States]
    BY <1>2
  <2>. DEFINE h == [s \in SUBSET (1..(m + 1)) |->
                        IF m + 1 \in s THEN F[m + 1][g[s \ {m + 1}]] ELSE g[s]]
  <2>3. \A s \in SUBSET (1..(m + 1)) :
            /\ s \ {m + 1} \in SUBSET (1..m)
            /\ m + 1 \notin s => s \in SUBSET (1..m)
    BY <2>2
  <2>4. h \in [SUBSET (1..(m + 1)) -> States]
    BY <2>2, <2>3
  <2>5. ASSUME NEW s \in SUBSET (1..(m + 1))
        PROVE  h[s] = IF s = {} THEN base ELSE F[Max(s)][h[s \ {Max(s)}]]
    <3>1. CASE m + 1 \in s
      <4>1. Max(s) = m + 1
        BY <2>2, <3>1, LastPosition
      <4>2. h[s] = F[m + 1][g[s \ {m + 1}]]
        BY <3>1
      <4>3. s \ {m + 1} \in SUBSET (1..(m + 1)) /\ m + 1 \notin s \ {m + 1}
        OBVIOUS
      <4>4. h[s \ {m + 1}] = g[s \ {m + 1}]
        BY <4>3
      <4>. QED  BY <3>1, <4>1, <4>2, <4>4
    <3>2. CASE m + 1 \notin s
      <4>1. s \in SUBSET (1..m) /\ h[s] = g[s]
        BY <2>3, <3>2
      <4>2. g[s] = IF s = {} THEN base ELSE F[Max(s)][g[s \ {Max(s)}]]
        BY <2>1, <4>1 DEF Folds
      <4>3. s \ {Max(s)} \in SUBSET (1..(m + 1)) /\ m + 1 \notin s \ {Max(s)}
        BY <3>2
      <4>4. h[s \ {Max(s)}] = g[s \ {Max(s)}]
        BY <4>3
      <4>. QED  BY <4>1, <4>2, <4>4
    <3>. QED  BY <3>1, <3>2
  <2>. HIDE DEF h
  <2>6. Folds(h, m + 1, base, F)
    BY <2>5 DEF Folds
  <2>. QED  BY <2>2, <2>4, <2>6
<1>. HIDE DEF T
<1>3. T \in SUBSET (0..n)
  BY DEF T
<1>4. T = 0..n
  BY <1>1, <1>2, <1>3, AllSteps, Zenon
<1>5. n \in T
  BY <1>4
<1>. QED  BY <1>5 DEF T


\* A function that follows the recursion wherever the state before is one of States
\* runs through the states of the loop; h[1..k] is the state after k steps.
Follows(h, n, States, base, F) ==
    /\ h[{}] = base
    /\ \A s \in SUBSET (1..n) : s # {} /\ h[s \ {Max(s)}] \in States =>
          h[s] = F[Max(s)][h[s \ {Max(s)}]]

Runs(h, n, States, base, F) ==
    /\ h[1..0] = base
    /\ \A k \in 0..n : h[1..k] \in States
    /\ \A k \in 0..(n - 1) : h[1..(k + 1)] = F[k + 1][h[1..k]]

LEMMA LoopStates ==
    ASSUME NEW n \in Nat, NEW States, NEW base \in States, NEW F \in [1..n -> [States -> States]],
           NEW h, Follows(h, n, States, base, F)
    PROVE  Runs(h, n, States, base, F)
<1>. DEFINE T == {k \in 0..n : h[1..k] \in States}
<1>1. h[1..0] = base
  <2>1. 1..0 = {}
    OBVIOUS
  <2>. QED  BY <2>1 DEF Follows
<1>2. ASSUME NEW k \in T, k < n
      PROVE  k + 1 \in T /\ h[1..(k + 1)] = F[k + 1][h[1..k]]
  <2>1. 1..(k + 1) \in SUBSET (1..n) /\ k \in Nat /\ k + 1 \in 0..n /\ k + 1 \in 1..n
    BY <1>2
  <2>2. /\ 1..(k + 1) # {} /\ Max(1..(k + 1)) = k + 1
        /\ (1..(k + 1)) \ {k + 1} = 1..k
    BY <2>1, LastOfAll
  <2>3. h[1..k] \in States
    OBVIOUS
  <2>4. h[1..(k + 1)] = F[k + 1][h[1..k]]
    BY <2>1, <2>2, <2>3, Zenon DEF Follows
  <2>5. F[k + 1] \in [States -> States]
    BY <2>1
  <2>. QED  BY <2>1, <2>3, <2>4, <2>5
<1>3. 0 \in T /\ T \in SUBSET (0..n)
  BY <1>1
<1>. HIDE DEF T
<1>4. T = 0..n
  BY <1>2, <1>3, AllSteps, Zenon
<1>5. \A k \in 0..n : h[1..k] \in States
  BY <1>4 DEF T
<1>6. \A k \in 0..(n - 1) : k \in 0..n /\ k + 1 \in 0..n /\ k < n
  OBVIOUS
<1>7. \A k \in 0..(n - 1) : h[1..(k + 1)] = F[k + 1][h[1..k]]
  BY <1>2, <1>4, <1>6
<1>. QED  BY <1>1, <1>5, <1>7 DEF Runs


-----------------------------------------------------------------------------
(* Sums and products *)

\* The recursion in the library's definition of the sum.
SumRecursion(g, s) ==
    g = [x \in SUBSET (DOMAIN s) |-> IF x = {} THEN 0 ELSE g[x \ {Max(x)}] + s[Max(x)]]

LEMMA TotalStates ==
    ASSUME NEW s \in Seq(Int)
    PROVE  \E q \in [0..Len(s) -> Int] :
              /\ q[0] = 0 /\ \A k \in 0..(Len(s) - 1) : q[k + 1] = q[k] + s[k + 1]
              /\ Total(s) = q[Len(s)]
<1>. DEFINE n == Len(s)
            F == [i \in 1..n |-> [a \in Int |-> a + s[i]]]
<1>1. n \in Nat /\ DOMAIN s = 1..n /\ \A i \in 1..n : s[i] \in Int
  OBVIOUS
<1>. HIDE DEF n
<1>2. F \in [1..n -> [Int -> Int]]
  BY <1>1
<1>3. \A i \in 1..n, a \in Int : F[i][a] = a + s[i]
  OBVIOUS
<1>. HIDE DEF F
<1>4. PICK g \in [SUBSET (1..n) -> Int] : Folds(g, n, 0, F)
  <2>1. 0 \in Int
    OBVIOUS
  <2>. QED  BY <1>1, <1>2, <2>1, FoldExists, Zenon
<1>5. SumRecursion(g, s)
  <2>1. \A x \in SUBSET (1..n) : g[x] = IF x = {} THEN 0 ELSE g[x \ {Max(x)}] + s[Max(x)]
    <3>. SUFFICES ASSUME NEW x \in SUBSET (1..n), x # {}
                  PROVE  g[x] = g[x \ {Max(x)}] + s[Max(x)]
      BY <1>4 DEF Folds
    <3>1. Max(x) \in 1..n /\ x \ {Max(x)} \in SUBSET (1..n)
      BY <1>1, LastIsMember
    <3>2. g[x \ {Max(x)}] \in Int
      BY <3>1
    <3>3. g[x] = F[Max(x)][g[x \ {Max(x)}]]
      BY <1>4 DEF Folds
    <3>. QED  BY <1>3, <3>1, <3>2, <3>3
  <2>. QED  BY <1>1, <2>1 DEF SumRecursion
<1>. DEFINE h == CHOOSE f : SumRecursion(f, s)
<1>6. SumRecursion(h, s)
  BY <1>5, Zenon
<1>7. Total(s) = h[DOMAIN s]
  BY Zenon DEF Total, FoldLeft, MapThenFoldSet, SumRecursion, Max
<1>. HIDE DEF h
<1>. DEFINE q == [k \in 0..n |-> h[1..k]]
<1>8. q[0] = 0
  <2>1. 1..0 = {} /\ 1..0 \in SUBSET (1..n) /\ 0 \in 0..n
    BY <1>1
  <2>. QED  BY <1>1, <1>6, <2>1 DEF SumRecursion
<1>9. \A k \in 0..(n - 1) : q[k + 1] = q[k] + s[k + 1]
  <2>. SUFFICES ASSUME NEW k \in 0..(n - 1) PROVE q[k + 1] = q[k] + s[k + 1]
    OBVIOUS
  <2>1. 1..(k + 1) \in SUBSET (1..n) /\ k \in Nat /\ k \in 0..n /\ k + 1 \in 0..n
    BY <1>1
  <2>2. /\ 1..(k + 1) # {} /\ Max(1..(k + 1)) = k + 1
        /\ (1..(k + 1)) \ {k + 1} = 1..k
    BY <2>1, LastOfAll
  <2>3. h[1..(k + 1)] = h[1..k] + s[k + 1]
    BY <1>1, <1>6, <2>1, <2>2 DEF SumRecursion
  <2>. QED  BY <2>1, <2>3
<1>10. q \in [0..n -> Int]
  <2>. DEFINE T == {k \in 0..n : q[k] \in Int}
  <2>1. 0 \in T
    BY <1>1, <1>8
  <2>. HIDE DEF q
  <2>2. ASSUME NEW k \in T, k < n PROVE k + 1 \in T
    <3>1. k \in 0..(n - 1) /\ k + 1 \in 0..n /\ k + 1 \in 1..n
      BY <1>1, <2>2
    <3>. QED  BY <1>1, <1>9, <3>1
  <2>3. T = 0..n
    <3>1. T \in SUBSET (0..n)
      OBVIOUS
    <3>. HIDE DEF T
    <3>. QED  BY <1>1, <2>1, <2>2, <3>1, AllSteps, Zenon
  <2>4. q = [k \in 0..n |-> q[k]]
    BY DEF q
  <2>. QED  BY <2>3, <2>4
<1>11. Total(s) = q[n]
  BY <1>1, <1>7
<1>. HIDE DEF q
<1>. QED  BY <1>8, <1>9, <1>10, <1>11 DEF n

LEMMA TotalInt ==
    ASSUME NEW s \in Seq(Int)
    PROVE  Total(s) \in Int
<1>1. Len(s) \in 0..Len(s)
  OBVIOUS
<1>. QED  BY <1>1, TotalStates

\* Sums of sequences of one length compare as their members do.
LEMMA TotalBounded ==
    ASSUME NEW s \in Seq(Int), NEW w \in Seq(Int), Len(s) = Len(w),
           \A i \in 1..Len(s) : 0 <= s[i] /\ s[i] <= w[i]
    PROVE  0 <= Total(s) /\ Total(s) <= Total(w)
<1>. DEFINE n == Len(s)
<1>1. n \in Nat /\ \A i \in 1..n : s[i] \in Int /\ w[i] \in Int
  OBVIOUS
<1>2. PICK q \in [0..n -> Int] :
          /\ q[0] = 0 /\ \A k \in 0..(n - 1) : q[k + 1] = q[k] + s[k + 1]
          /\ Total(s) = q[n]
  BY TotalStates
<1>3. PICK r \in [0..n -> Int] :
          /\ r[0] = 0 /\ \A k \in 0..(n - 1) : r[k + 1] = r[k] + w[k + 1]
          /\ Total(w) = r[n]
  BY TotalStates
<1>4. \A i \in 1..n : 0 <= s[i] /\ s[i] <= w[i]
  OBVIOUS
<1>. HIDE DEF n
<1>. DEFINE T == {k \in 0..n : 0 <= q[k] /\ q[k] <= r[k]}
<1>5. 0 \in T
  BY <1>1, <1>2, <1>3
<1>6. ASSUME NEW k \in T, k < n PROVE k + 1 \in T
  <2>1. k \in 0..(n - 1) /\ k \in 0..n /\ k + 1 \in 0..n /\ k + 1 \in 1..n
    BY <1>1, <1>6
  <2>2. q[k + 1] = q[k] + s[k + 1] /\ r[k + 1] = r[k] + w[k + 1]
    BY <1>2, <1>3, <2>1
  <2>3. q[k] \in Int /\ r[k] \in Int /\ s[k + 1] \in Int /\ w[k + 1] \in Int
    BY <1>1, <2>1
  <2>. QED  BY <1>4, <2>1, <2>2, <2>3
<1>7. T = 0..n
  <2>1. T \in SUBSET (0..n)
    OBVIOUS
  <2>. HIDE DEF T
  <2>. QED  BY <1>1, <1>5, <1>6, <2>1, AllSteps, Zenon
<1>8. n \in T
  <2>1. n \in 0..n
    BY <1>1
  <2>. QED  BY <1>7, <2>1, Zenon
<1>. QED  BY <1>2, <1>3, <1>8

\* Members that are at most b and count only at the positions U add up to at most b
\* for each of them.
LEMMA TotalOfUsable ==
    ASSUME NEW s \in Seq(Int), NEW b \in Nat, NEW U \in SUBSET (1..Len(s)),
           \A i \in U : 0 <= s[i] /\ s[i] <= b,
           \A i \in (1..Len(s)) \ U : s[i] = 0
    PROVE  0 <= Total(s) /\ Total(s) <= b * Cardinality(U)
<1>. DEFINE n == Len(s)
            C(k) == Cardinality(U \cap (1..k))
<1>1. n \in Nat /\ \A i \in 1..n : s[i] \in Int
  OBVIOUS
<1>2. PICK q \in [0..n -> Int] :
          /\ q[0] = 0 /\ \A k \in 0..(n - 1) : q[k + 1] = q[k] + s[k + 1]
          /\ Total(s) = q[n]
  BY TotalStates
<1>3. \A k \in Nat : IsFiniteSet(U \cap (1..k)) /\ C(k) \in Nat
  <2>. SUFFICES ASSUME NEW k \in Nat PROVE IsFiniteSet(U \cap (1..k)) /\ C(k) \in Nat
    OBVIOUS
  <2>1. IsFiniteSet(1..k)
    BY FS_Interval
  <2>2. IsFiniteSet(U \cap (1..k))
    BY <2>1, FS_Subset, Zenon
  <2>. QED  BY <2>2, FS_CardinalityType, Zenon
<1>4. U \in SUBSET (1..n)
  OBVIOUS
<1>. HIDE DEF n
<1>5. C(0) = 0
  <2>1. U \cap (1..0) = {}
    OBVIOUS
  <2>. QED  BY <2>1, FS_EmptySet, Zenon
<1>6. ASSUME NEW k \in Nat
      PROVE  C(k + 1) = IF k + 1 \in U THEN C(k) + 1 ELSE C(k)
  <2>1. CASE k + 1 \in U
    <3>1. U \cap (1..(k + 1)) = (U \cap (1..k)) \cup {k + 1} /\ k + 1 \notin U \cap (1..k)
      BY <2>1
    <3>2. Cardinality((U \cap (1..k)) \cup {k + 1}) = C(k) + 1
      BY <1>3, <3>1, FS_AddElement
    <3>. QED  BY <2>1, <3>1, <3>2
  <2>2. CASE k + 1 \notin U
    <3>1. U \cap (1..(k + 1)) = U \cap (1..k)
      BY <2>2
    <3>. QED  BY <2>2, <3>1
  <2>. QED  BY <2>1, <2>2
<1>. HIDE DEF C
<1>. DEFINE T == {k \in 0..n : 0 <= q[k] /\ q[k] <= b * C(k)}
<1>7. 0 \in T
  BY <1>1, <1>2, <1>5
<1>8. ASSUME NEW k \in T, k < n PROVE k + 1 \in T
  <2>1. k \in 0..(n - 1) /\ k \in Nat /\ k + 1 \in 0..n /\ k + 1 \in 1..n
    BY <1>1, <1>8
  <2>2. q[k + 1] = q[k] + s[k + 1]
    BY <1>2, <2>1
  <2>3. q[k] \in Int /\ s[k + 1] \in Int /\ C(k) \in Nat
    BY <1>1, <1>3, <2>1
  <2>4. C(k + 1) = IF k + 1 \in U THEN C(k) + 1 ELSE C(k)
    BY <1>6, <2>1
  <2>5. b * (C(k) + 1) = b * C(k) + b
    BY <2>3
  <2>6. IF k + 1 \in U THEN 0 <= s[k + 1] /\ s[k + 1] <= b ELSE s[k + 1] = 0
    BY <2>1 DEF n
  <2>7. 0 <= q[k] /\ q[k] <= b * C(k) /\ b * C(k) \in Int
    BY <2>3
  <2>. QED  BY <2>1, <2>2, <2>3, <2>4, <2>5, <2>6, <2>7
<1>9. T = 0..n
  <2>1. T \in SUBSET (0..n)
    OBVIOUS
  <2>. HIDE DEF T
  <2>. QED  BY <1>1, <1>7, <1>8, <2>1, AllSteps, Zenon
<1>10. n \in T
  BY <1>1, <1>9
<1>11. U \cap (1..n) = U
  BY <1>4
<1>. QED  BY <1>2, <1>10, <1>11 DEF C

ProductRecursion(g, s) ==
    g = [x \in SUBSET (DOMAIN s) |-> IF x = {} THEN 1 ELSE g[x \ {Max(x)}] * s[Max(x)]]

LEMMA ProductInt ==
    ASSUME NEW s \in Seq(Int)
    PROVE  Product(s) \in Int
<1>. DEFINE n == Len(s)
            F == [i \in 1..n |-> [a \in Int |-> a * s[i]]]
<1>1. n \in Nat /\ DOMAIN s = 1..n /\ \A i \in 1..n : s[i] \in Int
  OBVIOUS
<1>. HIDE DEF n
<1>2. /\ F \in [1..n -> [Int -> Int]] /\ 1 \in Int
      /\ \A i \in 1..n, a \in Int : F[i][a] = a * s[i]
  BY <1>1
<1>. HIDE DEF F
<1>3. ASSUME NEW x \in SUBSET (1..n), x # {}
      PROVE  Max(x) \in 1..n /\ x \ {Max(x)} \in SUBSET (1..n)
  BY <1>1, <1>3, LastIsMember
<1>4. \E g : ProductRecursion(g, s)
  <2>1. PICK g \in [SUBSET (1..n) -> Int] : Folds(g, n, 1, F)
    BY <1>1, <1>2, FoldExists, Zenon
  <2>2. \A x \in SUBSET (1..n) : g[x] = IF x = {} THEN 1 ELSE g[x \ {Max(x)}] * s[Max(x)]
    <3>. SUFFICES ASSUME NEW x \in SUBSET (1..n), x # {}
                  PROVE  g[x] = g[x \ {Max(x)}] * s[Max(x)]
      BY <2>1 DEF Folds
    <3>1. g[x] = F[Max(x)][g[x \ {Max(x)}]]
      BY <2>1 DEF Folds
    <3>. QED  BY <1>2, <1>3, <3>1
  <2>. QED  BY <1>1, <2>2 DEF ProductRecursion
<1>. DEFINE h == CHOOSE f : ProductRecursion(f, s)
<1>5. ProductRecursion(h, s)
  BY <1>4, Zenon
<1>6. Product(s) = h[DOMAIN s]
  BY Zenon DEF Product, FoldLeft, MapThenFoldSet, ProductRecursion, Max
<1>. HIDE DEF h
<1>7. Follows(h, n, Int, 1, F)
  <2>1. h[{}] = 1
    BY <1>5 DEF ProductRecursion
  <2>2. ASSUME NEW x \in SUBSET (1..n), x # {}, h[x \ {Max(x)}] \in Int
        PROVE  h[x] = F[Max(x)][h[x \ {Max(x)}]]
    <3>1. h[x] = h[x \ {Max(x)}] * s[Max(x)]
      BY <1>1, <1>5, <2>2 DEF ProductRecursion
    <3>. QED  BY <1>2, <1>3, <2>2, <3>1
  <2>. QED  BY <2>1, <2>2 DEF Follows
<1>8. \A k \in 0..n : h[1..k] \in Int
  BY <1>1, <1>2, <1>7, LoopStates, Zenon DEF Runs
<1>9. n \in 0..n
  BY <1>1
<1>. QED  BY <1>1, <1>6, <1>8, <1>9

-----------------------------------------------------------------------------
(* The hash of SynthID *)

HashRecursion(g, a, data) ==
    g = [x \in SUBSET (DOMAIN data) |->
            IF x = {} THEN a % WordSize
            ELSE (((g[x \ {Max(x)}] + data[Max(x)]) % WordSize) * Multiplier + Increment) % WordSize]

LEMMA HashInt ==
    ASSUME NEW a \in Int, NEW s \in Seq(Int)
    PROVE  accumulate_hash(a, s) \in Int
<1>. DEFINE n == Len(s)
            Next1(b, v) == (((b + v) % WordSize) * Multiplier + Increment) % WordSize
            F == [i \in 1..n |-> [b \in Int |-> Next1(b, s[i])]]
            base == a % WordSize
<1>1. n \in Nat /\ DOMAIN s = 1..n /\ \A i \in 1..n : s[i] \in Int
  OBVIOUS
<1>. HIDE DEF n
<1>2. \A b, v \in Int : Next1(b, v) \in Int
  BY SynthIDAssumption
<1>3. base \in Int
  BY SynthIDAssumption
<1>. HIDE DEF Next1, base
<1>4. F \in [1..n -> [Int -> Int]] /\ \A i \in 1..n, b \in Int : F[i][b] = Next1(b, s[i])
  BY <1>1, <1>2
<1>. HIDE DEF F
<1>5. ASSUME NEW x \in SUBSET (1..n), x # {}
      PROVE  Max(x) \in 1..n /\ x \ {Max(x)} \in SUBSET (1..n)
  BY <1>1, <1>5, LastIsMember
<1>. DEFINE Recursion(g) ==
                g = [x \in SUBSET (1..n) |->
                        IF x = {} THEN base ELSE Next1(g[x \ {Max(x)}], s[Max(x)])]
<1>6. \E g : Recursion(g)
  <2>1. PICK g \in [SUBSET (1..n) -> Int] : Folds(g, n, base, F)
    BY <1>1, <1>3, <1>4, FoldExists, Zenon
  <2>2. \A x \in SUBSET (1..n) : g[x] = IF x = {} THEN base ELSE Next1(g[x \ {Max(x)}], s[Max(x)])
    <3>. SUFFICES ASSUME NEW x \in SUBSET (1..n), x # {}
                  PROVE  g[x] = Next1(g[x \ {Max(x)}], s[Max(x)])
      BY <2>1 DEF Folds
    <3>1. g[x] = F[Max(x)][g[x \ {Max(x)}]]
      BY <2>1 DEF Folds
    <3>. QED  BY <1>4, <1>5, <3>1
  <2>. QED  BY <2>2
<1>. DEFINE h == CHOOSE f : Recursion(f)
<1>7. Recursion(h)
  <2>. HIDE DEF Recursion
  <2>. QED  BY <1>6, Zenon
<1>8. accumulate_hash(a, s) = h[1..n]
  <2>1. accumulate_hash(a, s) = (CHOOSE f : HashRecursion(f, a, s))[DOMAIN s]
    BY Zenon DEF accumulate_hash, FoldLeft, MapThenFoldSet, HashRecursion, Max
  <2>2. h = CHOOSE f : HashRecursion(f, a, s)
    BY <1>1, Zenon DEF HashRecursion, Next1, base
  <2>. HIDE DEF h
  <2>. QED  BY <1>1, <2>1, <2>2, Zenon
<1>. HIDE DEF h
<1>9. Follows(h, n, Int, base, F)
  <2>1. h[{}] = base
    BY <1>7
  <2>2. ASSUME NEW x \in SUBSET (1..n), x # {}, h[x \ {Max(x)}] \in Int
        PROVE  h[x] = F[Max(x)][h[x \ {Max(x)}]]
    <3>1. h[x] = Next1(h[x \ {Max(x)}], s[Max(x)])
      BY <1>7, <2>2
    <3>. QED  BY <1>4, <1>5, <2>2, <3>1
  <2>. QED  BY <2>1, <2>2 DEF Follows
<1>10. \A k \in 0..n : h[1..k] \in Int
  BY <1>1, <1>3, <1>4, <1>9, LoopStates, Zenon DEF Runs
<1>11. n \in 0..n
  BY <1>1
<1>. QED  BY <1>1, <1>8, <1>10, <1>11
RoundRecursion(g, a, r) ==
    g = [x \in SUBSET (DOMAIN r) |->
            IF x = {} THEN a
            ELSE _signed_right_shift(accumulate_hash(g[x \ {Max(x)}], <<1>>))]

\* The bit a key gives an n-gram is 0 or 1.
LEMMA GValueIsBit ==
    ASSUME NEW x \in Seq(Int), NEW key \in Int
    PROVE  _g_value_for_ngram(x, key) \in 0..1
<1>. DEFINE n == Rounds
            r == [i \in 1..n |-> i]
            a == accumulate_hash(accumulate_hash(HashIv, x), <<key>>)
            Round(b) == _signed_right_shift(accumulate_hash(b, <<1>>))
            F == [i \in 1..n |-> [b \in Int |-> Round(b)]]
<1>1. n \in Nat /\ DOMAIN r = 1..n
  BY SynthIDAssumption
<1>2. a \in Int
  <2>1. HashIv \in Int /\ <<key>> \in Seq(Int)
    BY SynthIDAssumption
  <2>. QED  BY <2>1, HashInt
<1>3. \A b \in Int : Round(b) \in Int
  <2>. SUFFICES ASSUME NEW b \in Int PROVE Round(b) \in Int
    OBVIOUS
  <2>1. accumulate_hash(b, <<1>>) \in Int
    <3>1. <<1>> \in Seq(Int)
      OBVIOUS
    <3>. QED  BY <3>1, HashInt
  <2>. QED  BY <2>1, SynthIDAssumption DEF _signed_right_shift, _to_signed
<1>4. _g_value_for_ngram(x, key) = ((CHOOSE g : RoundRecursion(g, a, r))[DOMAIN r] \div GBit) % 2
  BY Zenon DEF _g_value_for_ngram, FoldLeft, MapThenFoldSet, RoundRecursion, Max
<1>. HIDE DEF a, Round
<1>5. F \in [1..n -> [Int -> Int]] /\ \A i \in 1..n, b \in Int : F[i][b] = Round(b)
  BY <1>3
<1>. HIDE DEF F, n
<1>6. ASSUME NEW y \in SUBSET (1..n), y # {}
      PROVE  Max(y) \in 1..n /\ y \ {Max(y)} \in SUBSET (1..n)
  BY <1>1, <1>6, LastIsMember
<1>7. \E g : RoundRecursion(g, a, r)
  <2>1. PICK g \in [SUBSET (1..n) -> Int] : Folds(g, n, a, F)
    BY <1>1, <1>2, <1>5, FoldExists, Zenon
  <2>2. \A y \in SUBSET (1..n) : g[y] = IF y = {} THEN a ELSE Round(g[y \ {Max(y)}])
    <3>. SUFFICES ASSUME NEW y \in SUBSET (1..n), y # {}
                  PROVE  g[y] = Round(g[y \ {Max(y)}])
      BY <2>1 DEF Folds
    <3>1. g[y] = F[Max(y)][g[y \ {Max(y)}]]
      BY <2>1 DEF Folds
    <3>. QED  BY <1>5, <1>6, <3>1
  <2>. QED  BY <1>1, <2>2 DEF RoundRecursion, Round
<1>. DEFINE h == CHOOSE g : RoundRecursion(g, a, r)
<1>8. RoundRecursion(h, a, r)
  BY <1>7, Zenon
<1>. HIDE DEF h, r
<1>9. Follows(h, n, Int, a, F)
  <2>1. h[{}] = a
    BY <1>8 DEF RoundRecursion
  <2>2. ASSUME NEW y \in SUBSET (1..n), y # {}, h[y \ {Max(y)}] \in Int
        PROVE  h[y] = F[Max(y)][h[y \ {Max(y)}]]
    <3>1. h[y] = Round(h[y \ {Max(y)}])
      BY <1>1, <1>8, <2>2 DEF RoundRecursion, Round
    <3>. QED  BY <1>5, <1>6, <2>2, <3>1
  <2>. QED  BY <2>1, <2>2 DEF Follows
<1>10. \A k \in 0..n : h[1..k] \in Int
  BY <1>1, <1>2, <1>5, <1>9, LoopStates, Zenon DEF Runs
<1>11. h[DOMAIN r] \in Int
  <2>1. n \in 0..n
    BY <1>1
  <2>. QED  BY <1>1, <1>10, <2>1
<1>12. (h[DOMAIN r] \div GBit) \in Int
  BY <1>11, SynthIDAssumption
<1>13. ((h[DOMAIN r] \div GBit) % 2) \in 0..1
  BY <1>12
<1>. QED  BY <1>4, <1>13 DEF h

\* The reference's table is one of bits, as that of the simulation is.
LEMMA TableOfBits ==
    ASSUME NEW x \in SynthIDConfigs, SynthIDValidate(x)
    PROVE  GTable(x) \in [Ngrams(x.ngram_len) -> [DOMAIN x.keys -> 0..1]]
<1>1. x.ngram_len \in Nat /\ x.keys \in Seq(Nat)
  BY DetectionAssumption
<1>2. \A u \in Ngrams(x.ngram_len), d \in DOMAIN x.keys :
          u \in Seq(Int) /\ x.keys[d] \in Int
  <2>1. Vocabulary \subseteq Int
    BY KGWAssumption DEF Vocabulary
  <2>2. \A u \in Ngrams(x.ngram_len) : u \in Seq(Int)
    <3>. SUFFICES ASSUME NEW u \in Ngrams(x.ngram_len) PROVE u \in Seq(Int)
      OBVIOUS
    <3>. DEFINE n == x.ngram_len
    <3>1. n \in Nat /\ u \in [1..n -> Int]
      BY <1>1, <2>1 DEF Ngrams
    <3>. HIDE DEF n
    <3>. QED  BY <3>1
  <2>3. \A d \in DOMAIN x.keys : x.keys[d] \in Int
    BY <1>1
  <2>. QED  BY <2>2, <2>3
<1>3. \A u \in Ngrams(x.ngram_len), d \in DOMAIN x.keys :
          _g_value_for_ngram(u, x.keys[d]) \in 0..1
  BY <1>2, GValueIsBit, Zenon
<1>. QED  BY <1>3 DEF GTable

-----------------------------------------------------------------------------
(* Choices *)

\* One of the highest values of finitely many comes first.
LEMMA HighestFirst ==
    ASSUME NEW f, \A x \in Vocabulary : f[x] \in Int
    PROVE  /\ Argmax(f) \in Vocabulary
           /\ \A u \in Vocabulary : f[u] <= f[Argmax(f)]
<1>. DEFINE n == VocabSize - 1
            IsHighest(m, x) ==
               /\ x \in 0..m
               /\ \A u \in 0..m : f[u] < f[x] \/ (f[u] = f[x] /\ x <= u)
            T == {m \in 0..n : \E x : IsHighest(m, x)}
<1>1. n \in Nat /\ Vocabulary = 0..n
  BY KGWAssumption DEF Vocabulary
<1>2. \A x \in 0..n : f[x] \in Int
  BY <1>1
<1>. HIDE DEF n
<1>3. 0 \in T
  <2>1. IsHighest(0, 0) /\ 0 \in 0..n
    BY <1>1, <1>2
  <2>. QED  BY <2>1
<1>4. ASSUME NEW m \in T, m < n PROVE m + 1 \in T
  <2>1. PICK x : IsHighest(m, x)
    OBVIOUS
  <2>2. m \in Nat /\ m + 1 \in 0..n /\ x \in 0..n /\ f[x] \in Int /\ f[m + 1] \in Int
    BY <1>1, <1>2, <1>4, <2>1
  <2>3. \A u \in 0..(m + 1) : u \in 0..m \/ u = m + 1
    BY <2>2
  <2>4. CASE f[m + 1] > f[x]
    <3>1. IsHighest(m + 1, m + 1)
      <4>1. \A u \in 0..m : f[u] < f[m + 1]
        <5>. SUFFICES ASSUME NEW u \in 0..m PROVE f[u] < f[m + 1]
          OBVIOUS
        <5>1. u \in 0..n
          BY <1>1, <1>4, <2>2
        <5>2. f[u] \in Int
          BY <1>2, <5>1
        <5>3. f[u] < f[x] \/ f[u] = f[x]
          BY <2>1
        <5>. QED  BY <2>2, <2>4, <5>2, <5>3
      <4>. QED  BY <2>2, <2>3, <4>1
    <3>. QED  BY <2>2, <3>1
  <2>5. CASE f[m + 1] <= f[x]
    <3>1. IsHighest(m + 1, x)
      <4>1. f[m + 1] < f[x] \/ (f[m + 1] = f[x] /\ x <= m + 1)
        BY <2>1, <2>2, <2>5
      <4>. QED  BY <2>1, <2>2, <2>3, <4>1
    <3>. QED  BY <2>2, <3>1
  <2>. QED  BY <2>2, <2>4, <2>5
<1>5. T \in SUBSET (0..n)
  OBVIOUS
<1>. HIDE DEF T
<1>6. n \in T
  <2>1. T = 0..n
    BY <1>1, <1>3, <1>4, <1>5, AllSteps, Zenon
  <2>2. n \in 0..n
    BY <1>1
  <2>. QED  BY <2>1, <2>2, Zenon
<1>7. \E x \in Vocabulary : \A u \in Vocabulary : f[u] < f[x] \/ (f[u] = f[x] /\ x <= u)
  BY <1>1, <1>6 DEF T
<1>8. /\ Argmax(f) \in Vocabulary
      /\ \A u \in Vocabulary :
            f[u] < f[Argmax(f)] \/ (f[u] = f[Argmax(f)] /\ Argmax(f) <= u)
  BY <1>7, Zenon DEF Argmax
<1>. QED  BY <1>2, <1>1, <1>8

-----------------------------------------------------------------------------
(* Windows of a text *)

\* The n-gram that ends at a position is the window before it and the token there.
LEMMA WindowAndToken ==
    ASSUME NEW S, NEW s \in Seq(S), NEW n \in Nat, NEW i \in (n + 1)..Len(s)
    PROVE  /\ Before(s, i, n) \in [1..n -> S] /\ Len(Before(s, i, n)) = n
           /\ SubSeq(s, i - n, i) = Append(Before(s, i, n), s[i])
<1>1. i - n \in 1..Len(s) /\ i \in 1..Len(s) /\ i \in Int /\ Len(s) \in Nat
  OBVIOUS
<1>2. /\ Before(s, i, n) = [k \in 1..n |-> s[i - n + k - 1]]
      /\ Before(s, i, n) \in Seq(S) /\ Len(Before(s, i, n)) = n
  <2>1. (i - 1) - (i - n) + 1 = n
    BY <1>1
  <2>. QED  BY <1>1, <2>1 DEF Before
<1>3. /\ SubSeq(s, i - n, i) = [k \in 1..(n + 1) |-> s[i - n + k - 1]]
  <2>1. i - (i - n) + 1 = n + 1
    BY <1>1
  <2>. QED  BY <1>1, <2>1
<1>4. /\ Append(Before(s, i, n), s[i]) = [k \in 1..(n + 1) |-> s[i - n + k - 1]]
  <2>1. s[i] \in S
    BY <1>1
  <2>2. \A k \in 1..(n + 1) : k \in 1..n \/ k = n + 1
    OBVIOUS
  <2>3. i - n + (n + 1) - 1 = i
    BY <1>1
  <2>. QED  BY <1>2, <2>1, <2>2, <2>3
<1>5. Before(s, i, n) \in [1..n -> S]
  <2>1. \A k \in 1..n : i - n + k - 1 \in 1..Len(s)
    BY <1>1
  <2>2. \A k \in 1..n : s[i - n + k - 1] \in S
    BY <2>1
  <2>. QED  BY <1>2, <2>2
<1>. QED  BY <1>2, <1>3, <1>4, <1>5

\* A window depends on the tokens before its position alone.
LEMMA SameWindow ==
    ASSUME NEW S, NEW s \in Seq(S), NEW u \in Seq(S), NEW n \in Nat,
           NEW i \in (n + 1)..(Len(s) + 1), i <= Len(u) + 1,
           \A k \in 1..(i - 1) : s[k] = u[k]
    PROVE  Before(s, i, n) = Before(u, i, n)
<1>1. /\ i - n \in 1..(Len(s) + 1) /\ i - 1 \in 0..Len(s) /\ i - 1 \in 0..Len(u)
      /\ i \in Int /\ Len(s) \in Nat /\ Len(u) \in Nat /\ (i - 1) - (i - n) + 1 = n
  OBVIOUS
<1>2. Before(s, i, n) = [k \in 1..n |-> s[i - n + k - 1]]
  BY <1>1 DEF Before
<1>3. Before(u, i, n) = [k \in 1..n |-> u[i - n + k - 1]]
  BY <1>1 DEF Before
<1>4. \A k \in 1..n : i - n + k - 1 \in 1..(i - 1)
  BY <1>1
<1>. QED  BY <1>2, <1>3, <1>4

\* The last tokens of a text are the window before the token that follows it.
LEMMA LastOfIsWindow ==
    ASSUME NEW S, NEW s \in Seq(S), NEW x \in S, NEW n \in Nat, n <= Len(s)
    PROVE  /\ LastOf(s, n) = Before(Append(s, x), Len(s) + 1, n)
           /\ LastOf(s, n) \in [1..n -> S] /\ LastOf(s, n) \in Seq(S) /\ Len(LastOf(s, n)) = n
           /\ LastOf(Append(s, x), n + 1) = Append(LastOf(s, n), x)
<1>. DEFINE u == Append(s, x)
            m == Len(s)
<1>1. /\ u \in Seq(S) /\ m \in Nat /\ Len(u) = m + 1 /\ u[m + 1] = x
      /\ \A k \in 1..m : u[k] = s[k]
  OBVIOUS
<1>. HIDE DEF u
<1>2. /\ LastOf(s, n) = [k \in 1..n |-> s[m - n + k]]
      /\ LastOf(s, n) \in Seq(S) /\ Len(LastOf(s, n)) = n
  <2>1. m - (m - n + 1) + 1 = n /\ m - n + 1 \in 1..(m + 1)
    BY <1>1
  <2>2. \A k \in 1..n : (m - n + 1) + k - 1 = m - n + k
    BY <1>1
  <2>3. /\ LastOf(s, n) = [k \in 1..(m - (m - n + 1) + 1) |-> s[(m - n + 1) + k - 1]]
        /\ LastOf(s, n) \in Seq(S) /\ Len(LastOf(s, n)) = m - (m - n + 1) + 1
    BY <1>1, <2>1 DEF LastOf
  <2>. QED  BY <2>1, <2>2, <2>3
<1>3. Before(u, m + 1, n) = [k \in 1..n |-> u[m - n + k]]
  <2>1. (m + 1 - 1) - (m + 1 - n) + 1 = n /\ m + 1 - n \in 1..(m + 1) /\ m + 1 - 1 = m
    BY <1>1
  <2>2. \A k \in 1..n : (m + 1 - n) + k - 1 = m - n + k
    BY <1>1
  <2>. QED  BY <1>1, <2>1, <2>2 DEF Before
<1>4. \A k \in 1..n : m - n + k \in 1..m
  BY <1>1
<1>5. LastOf(s, n) = Before(u, m + 1, n)
  BY <1>1, <1>2, <1>3, <1>4
<1>6. LastOf(u, n + 1) = Append(LastOf(s, n), x)
  <2>1. LastOf(u, n + 1) = SubSeq(u, (m + 1) - n, m + 1)
    <3>1. Len(u) - (n + 1) + 1 = (m + 1) - n
      BY <1>1
    <3>. QED  BY <1>1, <3>1 DEF LastOf
  <2>2. m + 1 \in (n + 1)..Len(u)
    BY <1>1
  <2>3. u \in Seq(S)
    BY <1>1
  <2>. HIDE DEF m
  <2>4. \A i \in (n + 1)..Len(u) : SubSeq(u, i - n, i) = Append(Before(u, i, n), u[i])
    BY <2>3, WindowAndToken
  <2>5. SubSeq(u, (m + 1) - n, m + 1) = Append(Before(u, m + 1, n), u[m + 1])
    BY <2>2, <2>4, Zenon
  <2>. QED  BY <1>1, <1>5, <2>1, <2>5
<1>7. LastOf(s, n) \in [1..n -> S]
  <2>1. \A k \in 1..n : s[m - n + k] \in S
    BY <1>4
  <2>. QED  BY <1>2, <2>1
<1>. QED  BY <1>2, <1>5, <1>6, <1>7 DEF u

-----------------------------------------------------------------------------
(* The text and its generator *)

\* What the generators keep of their setting, and the tokens they write. The texts of the
\* simulations and of the reference begin with a prompt that is just long enough.
TextInv ==
    /\ marked \in BOOLEAN /\ greedy \in BOOLEAN
    /\ t \in Seq(Vocabulary) /\ prompt \in 0..Len(t)
    /\ part \in KGWParts \cup SynthIDParts
    /\ part \in KGWParts =>
          /\ c \in KGWConfigs /\ o \in Oracles
          /\ part = "kgw-sim" => prompt = c.prefix_length
    /\ part \in SynthIDParts =>
          /\ c \in SynthIDConfigs /\ SynthIDValidate(c)
          /\ o \in [Ngrams(c.ngram_len) -> [DOMAIN c.keys -> 0..1]]
          /\ part # "synthid-model" => prompt = c.ngram_len - 1

\* The value of the token x at position i, by the window before it.
ValueAt(s, i, x) ==
    Value(IF part = "synthid" THEN Weights(c) ELSE _normalized_weights(c),
          o[Append(Before(s, i, c.ngram_len - 1), x)])

\* Every token after the prompt was the best for the window before it, or the worst.
ChosenByWindow ==
    part \in {"synthid", "synthid-sim"} =>
        \A i \in (prompt + 1)..Len(t), x \in Vocabulary :
            IF marked THEN ValueAt(t, i, x) <= ValueAt(t, i, t[i])
            ELSE ValueAt(t, i, t[i]) <= ValueAt(t, i, x)

\* Every token after the prompt is on the green list of the window before it, or was one
\* that the simulation picked there.
MarkedByWindow ==
    /\ part \in KGWModelParts /\ marked /\ greedy /\ c.delta > MaxLogit =>
          \A i \in (c.prefix_length + 1)..Len(t) :
             i > prompt => is_green_token(c, scorer, Before(t, i, c.prefix_length), t[i])
    /\ part = "kgw-sim" =>
          \A i \in (prompt + 1)..Len(t) :
             t[i] \in select_token(c, o, Before(t, i, c.prefix_length), marked)

\* What draws the permutations of the vocabulary.
IsGenerator(g) ==
    /\ g.prf \in [1..VocabSize -> Vocabulary]
    /\ g.perm \in [Vocabulary -> [1..VocabSize -> Vocabulary]]

LEMMA ScorerIsGenerator == part \in KGWModelParts /\ o \in Oracles => IsGenerator(scorer)
  BY DetectionAssumption DEF scorer, KGWReferenceScorer, KGWMarkLLMScorer, IsGenerator

\* A valid configuration of KGW has a window, and its bias is not negative.
LEMMA KGWFields ==
    ASSUME NEW x \in KGWConfigs
    PROVE  /\ x.prefix_length \in Nat /\ x.prefix_length >= 1 /\ x.delta \in Nat
           /\ x.hash_key \in Nat /\ x.ignore_repeated_ngrams \in BOOLEAN
           /\ greenlist_size(x) >= 1 /\ x.f_scheme \in Schemes
           /\ x.gamma[1] \in Nat /\ x.gamma[2] \in Nat /\ 0 < x.gamma[1] /\ x.gamma[1] < x.gamma[2]
  BY DetectionAssumption DEF validate

LEMMA SynthIDFields ==
    ASSUME NEW x \in SynthIDConfigs, SynthIDValidate(x)
    PROVE  /\ x.ngram_len \in Nat /\ x.ngram_len >= 2 /\ x.context_history_size \in Nat
           /\ x.keys \in Seq(Nat) /\ DOMAIN x.keys = 1..Len(x.keys)
           /\ Len(x.keys) \in Nat /\ Len(x.keys) >= 1
           /\ x.weights # None => x.weights \in Seq(Int) /\ Len(x.weights) = Len(x.keys)
<1>1. /\ x.ngram_len \in Nat /\ x.context_history_size \in Nat /\ x.keys \in Seq(Nat)
      /\ x.weights # None => x.weights \in Seq(Int)
  BY DetectionAssumption
<1>2. /\ x.ngram_len >= 2 /\ x.keys # <<>>
      /\ x.weights # None => Len(x.weights) = Len(x.keys)
  BY DEF SynthIDValidate
<1>. QED  BY <1>1, <1>2

\* The weights that the detector makes itself fall from ten parts to one.
LEMMA DefaultWeights ==
    ASSUME NEW depth \in Nat, depth >= 1
    PROVE  /\ _default_weights(depth).w \in Seq(Nat) /\ Len(_default_weights(depth).w) = depth
           /\ _default_weights(depth).sum = Total(_default_weights(depth).w)
<1>1. CASE depth <= 1
  <2>1. _default_weights(depth) = [w |-> <<1>>, sum |-> 1] /\ depth = 1
    BY <1>1 DEF _default_weights
  <2>2. Total(<<1>>) = 1
    <3>. DEFINE s == <<1>>
    <3>1. s \in Seq(Int) /\ Len(s) = 1 /\ s[1] = 1
      OBVIOUS
    <3>. HIDE DEF s
    <3>2. PICK q \in [0..1 -> Int] :
              /\ q[0] = 0 /\ \A k \in 0..(1 - 1) : q[k + 1] = q[k] + s[k + 1]
              /\ Total(s) = q[1]
      BY <3>1, TotalStates
    <3>3. q[0 + 1] = q[0] + s[0 + 1]
      BY <3>2
    <3>. QED  BY <3>1, <3>2, <3>3 DEF s
  <2>. QED  BY <2>1, <2>2
<1>2. CASE ~(depth <= 1)
  <2>. DEFINE w == [i \in 1..depth |-> 10 * (depth - 1) - 9 * (i - 1)]
  <2>1. _default_weights(depth) = [w |-> w, sum |-> Total(w)]
    BY <1>2 DEF _default_weights
  <2>2. \A i \in 1..depth : (10 * (depth - 1) - 9 * (i - 1)) \in Nat
    OBVIOUS
  <2>3. w \in Seq(Nat) /\ Len(w) = depth
    BY <2>2
  <2>. HIDE DEF w
  <2>. QED  BY <2>1, <2>3
<1>. QED  BY <1>1, <1>2

\* The weights are one integer for every key.
LEMMA WeightsTypes ==
    ASSUME NEW x \in SynthIDConfigs, SynthIDValidate(x)
    PROVE  /\ Weights(x).w \in Seq(Int) /\ Len(Weights(x).w) = Len(x.keys)
           /\ Weights(x).sum \in Int
           /\ _normalized_weights(x).w \in Seq(Int) /\ Len(_normalized_weights(x).w) = Len(x.keys)
           /\ _normalized_weights(x).sum = Total(_normalized_weights(x).w)
           /\ x.weights = None => Weights(x) = _normalized_weights(x)
<1>1. Len(x.keys) \in Nat /\ Len(x.keys) >= 1
  BY SynthIDFields
<1>2. CASE x.weights = None
  <2>1. Weights(x) = _default_weights(Len(x.keys)) /\ _normalized_weights(x) = _default_weights(Len(x.keys))
    BY <1>2 DEF Weights, _normalized_weights
  <2>. DEFINE d == _default_weights(Len(x.keys))
  <2>2. d.w \in Seq(Nat) /\ Len(d.w) = Len(x.keys) /\ d.sum = Total(d.w)
    BY <1>1, DefaultWeights
  <2>. HIDE DEF d
  <2>3. d.w \in Seq(Int)
    BY <2>2
  <2>4. d.sum \in Int
    BY <2>2, <2>3, TotalInt
  <2>. QED  BY <2>1, <2>2, <2>3, <2>4 DEF d
<1>3. CASE x.weights # None
  <2>1. x.weights \in Seq(Int) /\ Len(x.weights) = Len(x.keys)
    BY <1>3, SynthIDFields
  <2>. QED  BY <1>1, <1>3, <2>1 DEF Weights, _normalized_weights
<1>. QED  BY <1>2, <1>3

LEMMA ValueInt ==
    ASSUME NEW m \in Nat, NEW weights, weights.w \in Seq(Int), Len(weights.w) = m,
           NEW gs \in [1..m -> 0..1]
    PROVE  Value(weights, gs) \in Int
<1>. DEFINE s == [d \in DOMAIN gs |-> gs[d] * weights.w[d]]
<1>1. \A d \in 1..m : (gs[d] * weights.w[d]) \in Int
  OBVIOUS
<1>2. s \in Seq(Int)
  BY <1>1
<1>. HIDE DEF s
<1>3. Total(s) \in Int
  BY <1>2, TotalInt
<1>. QED  BY <1>3 DEF Value, s

\* The n-gram that a candidate completes is one the table knows.
LEMMA CandidateInt ==
    ASSUME TextInv, part \in SynthIDParts, NEW x \in Vocabulary
    PROVE  Candidate(c, Weights(c), o, t, x) \in Int
<1>. DEFINE n == c.ngram_len
<1>1. /\ n \in Nat /\ n >= 2 /\ c \in SynthIDConfigs /\ SynthIDValidate(c)
      /\ t \in Seq(Vocabulary) /\ o \in [Ngrams(n) -> [1..Len(c.keys) -> 0..1]]
      /\ Len(c.keys) \in Nat
  BY SynthIDFields DEF TextInv
<1>2. CASE Len(t) < n - 1
  BY <1>2 DEF Candidate
<1>3. CASE ~(Len(t) < n - 1)
  <2>1. n - 1 \in Nat /\ n - 1 <= Len(t)
    BY <1>1, <1>3
  <2>2. LastOf(t, n - 1) \in Seq(Vocabulary) /\ Len(LastOf(t, n - 1)) = n - 1
    <3>1. \A m \in Nat : m <= Len(t) => LastOf(t, m) \in Seq(Vocabulary) /\ Len(LastOf(t, m)) = m
      BY <1>1, LastOfIsWindow
    <3>. QED  BY <2>1, <3>1
  <2>3. Append(LastOf(t, n - 1), x) \in Ngrams(n)
    <3>. DEFINE u == LastOf(t, n - 1)
    <3>1. u \in Seq(Vocabulary) /\ Len(u) = n - 1
      BY <2>2
    <3>. HIDE DEF u
    <3>2. Append(u, x) \in Seq(Vocabulary) /\ Len(Append(u, x)) = n
      BY <1>1, <3>1
    <3>. DEFINE v == Append(u, x)
    <3>3. v \in Seq(Vocabulary) /\ Len(v) = n
      BY <3>2
    <3>. HIDE DEF v
    <3>4. v \in [1..n -> Vocabulary]
      BY <3>3
    <3>. QED  BY <3>4 DEF Ngrams, u, v
  <2>4. o[Append(LastOf(t, n - 1), x)] \in [1..Len(c.keys) -> 0..1]
    BY <1>1, <2>3
  <2>5. Value(Weights(c), o[Append(LastOf(t, n - 1), x)]) \in Int
    BY <1>1, <2>4, WeightsTypes, ValueInt
  <2>. QED  BY <1>3, <2>5 DEF Candidate
<1>. QED  BY <1>2, <1>3

LEMMA SampleIsTokens ==
    ASSUME NEW f, \A x \in Vocabulary : f[x] \in Int, greedy \in BOOLEAN, NEW k
    PROVE  sample_from_logits(f, greedy, k) \subseteq Vocabulary
<1>1. Argmax(f) \in Vocabulary
  BY HighestFirst
<1>2. TopK(f, k) \subseteq Vocabulary
  BY DEF TopK
<1>. QED  BY <1>1, <1>2 DEF sample_from_logits

LEMMA BiasedInt ==
    ASSUME NEW x \in KGWConfigs, NEW gen, NEW s, NEW logits \in Logits, NEW u \in Vocabulary
    PROVE  bias_logits(x, gen, s, logits)[u] \in Int /\ logits[u] \in Int
<1>1. logits[u] \in 0..MaxLogit /\ MaxLogit \in Nat /\ x.delta \in Nat
  BY KGWFields, DetectionAssumption DEF Logits
<1>. QED  BY <1>1 DEF bias_logits

\* A step appends one token to the text.
LEMMA OneToken ==
    ASSUME TextInv, Next
    PROVE  UNCHANGED setting /\ \E x \in Vocabulary : t' = Append(t, x)
<1>1. CASE KGWModel
  <2>1. PICK logits \in Logits, k \in {None, 1} :
            Generates(generate_kgw_token_ids(c, scorer, t, logits, marked, greedy, k))
    BY <1>1 DEF KGWModel
  <2>2. c \in KGWConfigs /\ marked \in BOOLEAN /\ greedy \in BOOLEAN
    BY <1>1 DEF KGWModel, Grows, TextInv, KGWParts, KGWModelParts
  <2>. DEFINE f == IF marked THEN bias_logits(c, scorer, t, logits) ELSE logits
  <2>3. \A x \in Vocabulary : f[x] \in Int
    BY <2>2, BiasedInt
  <2>. HIDE DEF f
  <2>4. sample_from_logits(f, greedy, k) \subseteq Vocabulary
    BY <2>2, <2>3, SampleIsTokens
  <2>. QED  BY <1>1, <2>1, <2>4 DEF KGWModel, Grows, Generates, generate_kgw_token_ids, f
<1>2. CASE KGWControlled
  BY <1>2 DEF KGWControlled, Grows, Generates, generate_controlled_kgw_text, select_token
<1>3. CASE SynthIDText
  BY <1>3 DEF SynthIDText, Grows, Generates, generate_reference_synthid_text, Best
<1>4. CASE SynthIDModel
  <2>1. PICK logits \in Logits :
            Generates(generate_synthid_token_ids(c, o, t, logits, Top, marked, greedy))
    BY <1>4 DEF SynthIDModel
  <2>2. /\ part \in SynthIDParts /\ c \in SynthIDConfigs /\ SynthIDValidate(c)
        /\ marked \in BOOLEAN /\ greedy \in BOOLEAN
    BY <1>4 DEF SynthIDModel, Grows, TextInv, SynthIDParts
  <2>. DEFINE f == IF marked THEN SynthIDLogitsProcessor(c, o, t, logits, Top) ELSE logits
  <2>3. \A x \in Vocabulary : f[x] \in Int
    <3>. SUFFICES ASSUME NEW x \in Vocabulary PROVE f[x] \in Int
      OBVIOUS
    <3>1. Candidate(c, Weights(c), o, t, x) \in Int
      BY <2>2, CandidateInt
    <3>2. logits[x] \in Int
      BY DetectionAssumption DEF Logits
    <3>3. Weights(c).sum \in Int
      BY <2>2, WeightsTypes
    <3>4. (Weights(c).sum * logits[x]) \in Int
      BY <3>2, <3>3
    <3>. QED  BY <3>1, <3>2, <3>4 DEF SynthIDLogitsProcessor
  <2>. HIDE DEF f
  <2>4. sample_from_logits(f, greedy, None) \subseteq Vocabulary
    BY <2>2, <2>3, SampleIsTokens
  <2>. QED  BY <1>4, <2>1, <2>4 DEF SynthIDModel, Grows, Generates, generate_synthid_token_ids, f
<1>5. CASE SynthIDControlled
  BY <1>5 DEF SynthIDControlled, Grows, Generates, generate_controlled_synthid_text, Best
<1>. QED  BY <1>1, <1>2, <1>3, <1>4, <1>5 DEF Next

LEMMA FirstTokensTypes ==
    ASSUME NEW n \in Nat
    PROVE  FirstTokens(n) \in Seq(Vocabulary) /\ Len(FirstTokens(n)) = n
<1>1. \A i \in 1..n : ((i - 1) % VocabSize) \in Vocabulary
  BY KGWAssumption DEF Vocabulary
<1>. QED  BY <1>1 DEF FirstTokens

LEMMA InitTextInv == Init => TextInv
<1>. SUFFICES ASSUME Init PROVE TextInv
  OBVIOUS
<1>1. Prompts \subseteq Seq(Vocabulary)
  <2>. SUFFICES ASSUME NEW n \in 0..1, NEW u \in [1..n -> Vocabulary] PROVE u \in Seq(Vocabulary)
    BY DEF Prompts
  <2>1. n \in Nat
    OBVIOUS
  <2>. QED  BY <2>1
<1>2. ASSUME t \in Seq(Vocabulary) PROVE Len(t) \in 0..Len(t)
  BY <1>2
<1>3. CASE InitKGW
  <2>1. c \in KGWConfigs /\ o \in Oracles /\ part \in KGWParts /\ prompt = Len(t)
    BY <1>3 DEF InitKGW, Init
  <2>2. greedy \in BOOLEAN
    BY <1>3 DEF InitKGW
  <2>3. t \in Seq(Vocabulary) /\ (part = "kgw-sim" => prompt = c.prefix_length)
    <3>1. CASE part \in KGWModelParts
      BY <1>1, <1>3, <3>1 DEF InitKGW, KGWModelParts
    <3>2. CASE part \notin KGWModelParts
      <4>1. t = FirstTokens(c.prefix_length) /\ c.prefix_length \in Nat
        BY <1>3, <2>1, <3>2, KGWFields DEF InitKGW
      <4>. QED  BY <2>1, <4>1, FirstTokensTypes
    <3>. QED  BY <3>1, <3>2
  <2>. QED  BY <1>2, <2>1, <2>2, <2>3 DEF TextInv, Init, KGWParts, KGWModelParts, SynthIDParts
<1>4. CASE InitSynthID
  <2>1. /\ c \in SynthIDConfigs /\ SynthIDValidate(c) /\ part \in SynthIDParts /\ prompt = Len(t)
    BY <1>4 DEF InitSynthID, Init
  <2>2. greedy \in BOOLEAN
    BY <1>4 DEF InitSynthID
  <2>3. c.ngram_len - 1 \in Nat
    BY <2>1, SynthIDFields
  <2>4. t \in Seq(Vocabulary) /\ (part # "synthid-model" => prompt = c.ngram_len - 1)
    <3>1. CASE part = "synthid-model"
      BY <1>1, <1>4, <3>1 DEF InitSynthID
    <3>2. CASE part # "synthid-model"
      <4>1. t = FirstTokens(c.ngram_len - 1)
        BY <1>4, <3>2 DEF InitSynthID
      <4>. QED  BY <2>1, <2>3, <4>1, FirstTokensTypes
    <3>. QED  BY <3>1, <3>2
  <2>5. o \in [Ngrams(c.ngram_len) -> [DOMAIN c.keys -> 0..1]]
    <3>1. GTable(c) \in [Ngrams(c.ngram_len) -> [DOMAIN c.keys -> 0..1]]
      BY <2>1, TableOfBits
    <3>2. SimTables(c) \subseteq [Ngrams(c.ngram_len) -> [DOMAIN c.keys -> 0..1]]
      BY <2>1, DetectionAssumption
    <3>. QED  BY <1>4, <3>1, <3>2 DEF InitSynthID
  <2>. QED  BY <1>2, <2>1, <2>2, <2>4, <2>5 DEF TextInv, Init, KGWParts, KGWModelParts, SynthIDParts
<1>. QED  BY <1>3, <1>4 DEF Init

LEMMA NextTextInv == TextInv /\ [Next]_vars => TextInv'
<1>. SUFFICES ASSUME TextInv, [Next]_vars PROVE TextInv'
  OBVIOUS
<1>1. CASE Next
  <2>1. UNCHANGED setting /\ \E x \in Vocabulary : t' = Append(t, x)
    BY <1>1, OneToken
  <2>2. t' \in Seq(Vocabulary) /\ Len(t') = Len(t) + 1 /\ Len(t) \in Nat
    BY <2>1 DEF TextInv
  <2>3. prompt' \in 0..Len(t')
    BY <2>1, <2>2 DEF TextInv, setting
  <2>. QED  BY <2>1, <2>2, <2>3 DEF TextInv, setting
<1>2. CASE UNCHANGED vars
  BY <1>2 DEF TextInv, vars
<1>. QED  BY <1>1, <1>2

\* Whatever the generator, it writes tokens of the vocabulary, under the configuration and
\* with the watermark that it began with.
THEOREM TextIsTokens == Spec => []TextInv
<1>. QED  BY InitTextInv, NextTextInv, PTL DEF Spec

-----------------------------------------------------------------------------
(* The choices of the SynthID generators *)

\* A new token changes no window of the text before it, and its own is the last tokens.
LEMMA WindowsKept ==
    ASSUME t \in Seq(Vocabulary), NEW x \in Vocabulary, NEW n \in Nat
    PROVE  /\ Len(Append(t, x)) = Len(t) + 1 /\ Append(t, x)[Len(t) + 1] = x
           /\ \A i \in (n + 1)..Len(t) :
                 Before(Append(t, x), i, n) = Before(t, i, n) /\ Append(t, x)[i] = t[i]
           /\ n <= Len(t) => Before(Append(t, x), Len(t) + 1, n) = LastOf(t, n)
<1>. DEFINE u == Append(t, x)
<1>1. /\ u \in Seq(Vocabulary) /\ Len(t) \in Nat /\ Len(u) = Len(t) + 1 /\ u[Len(t) + 1] = x
      /\ \A k \in 1..Len(t) : u[k] = t[k]
  OBVIOUS
<1>2. n <= Len(t) => Before(u, Len(t) + 1, n) = LastOf(t, n)
  BY LastOfIsWindow
<1>. HIDE DEF u
<1>3. ASSUME NEW i \in (n + 1)..Len(t)
      PROVE  Before(u, i, n) = Before(t, i, n) /\ u[i] = t[i]
  <2>1. /\ i \in (n + 1)..(Len(u) + 1) /\ i <= Len(t) + 1 /\ i \in 1..Len(t)
        /\ \A k \in 1..(i - 1) : k \in 1..Len(t)
    BY <1>1
  <2>2. \A k \in 1..(i - 1) : u[k] = t[k]
    BY <1>1, <2>1
  <2>3. Before(u, i, n) = Before(t, i, n)
    BY <1>1, <2>1, <2>2, SameWindow
  <2>. QED  BY <1>1, <2>1, <2>3
<1>. QED  BY <1>1, <1>2, <1>3 DEF u

\* The weights with which part scores.
PartWeights == IF part = "synthid" THEN Weights(c) ELSE _normalized_weights(c)

\* The value a generator gives a token is the one at the position that follows.
LEMMA GeneratorValue ==
    ASSUME TextInv, part \in {"synthid", "synthid-sim"}, NEW x \in Vocabulary, NEW y \in Vocabulary
    PROVE  /\ part = "synthid" =>
                 Candidate(c, Weights(c), o, t, x) = ValueAt(Append(t, y), Len(t) + 1, x)
           /\ part = "synthid-sim" =>
                 candidate_weighted_value(c, o, t, x) = ValueAt(Append(t, y), Len(t) + 1, x)
<1>. DEFINE n == c.ngram_len - 1
<1>1. /\ c \in SynthIDConfigs /\ SynthIDValidate(c) /\ t \in Seq(Vocabulary)
      /\ prompt = n /\ prompt \in 0..Len(t)
  BY DEF TextInv, SynthIDParts
<1>2. n \in Nat /\ n <= Len(t) /\ Len(t) \in Nat /\ c.ngram_len = n + 1
  BY <1>1, SynthIDFields
<1>. HIDE DEF n
<1>3. Before(Append(t, y), Len(t) + 1, n) = LastOf(t, n)
  BY <1>1, <1>2, WindowsKept
<1>4. LastOf(Append(t, x), n + 1) = Append(LastOf(t, n), x)
  BY <1>1, <1>2, LastOfIsWindow
<1>5. c.ngram_len - 1 = n
  BY <1>2
<1>6. ~(Len(t) < n) /\ ~(Len(t) + 1 < n + 1)
  BY <1>2
<1>7. ValueAt(Append(t, y), Len(t) + 1, x) = Value(PartWeights, o[Append(LastOf(t, n), x)])
  BY <1>3, <1>5, Zenon DEF ValueAt, PartWeights
<1>8. Candidate(c, Weights(c), o, t, x) = Value(Weights(c), o[Append(LastOf(t, n), x)])
  BY <1>5, <1>6, Zenon DEF Candidate
<1>9. candidate_weighted_value(c, o, t, x) = Value(_normalized_weights(c), o[Append(LastOf(t, n), x)])
  BY <1>2, <1>4, <1>6, Zenon DEF candidate_weighted_value
<1>10. part = "synthid-sim" => part # "synthid"
  OBVIOUS
<1>. QED  BY <1>7, <1>8, <1>9, <1>10, Zenon DEF PartWeights

LEMMA InitChosen == Init => ChosenByWindow
<1>. SUFFICES ASSUME Init PROVE ChosenByWindow
  OBVIOUS
<1>1. TextInv /\ prompt = Len(t)
  BY InitTextInv DEF Init
<1>2. (prompt + 1)..Len(t) = {}
  BY <1>1 DEF TextInv
<1>. QED  BY <1>2 DEF ChosenByWindow

LEMMA NextChosen == TextInv /\ ChosenByWindow /\ [Next]_vars => ChosenByWindow'
<1>. SUFFICES ASSUME TextInv, ChosenByWindow, [Next]_vars PROVE ChosenByWindow'
  OBVIOUS
<1>1. CASE UNCHANGED vars
  BY <1>1 DEF vars, ChosenByWindow, ValueAt
<1>2. CASE Next
  <2>1. UNCHANGED setting
    BY <1>2, OneToken
  <2>. SUFFICES ASSUME part \in {"synthid", "synthid-sim"},
                       NEW i \in (prompt + 1)..Len(t'), NEW x \in Vocabulary
                PROVE  IF marked THEN ValueAt(t', i, x) <= ValueAt(t', i, t'[i])
                       ELSE ValueAt(t', i, t'[i]) <= ValueAt(t', i, x)
    BY <2>1 DEF ChosenByWindow, ValueAt, setting
  <2>2. PICK y \in Vocabulary :
            /\ t' = Append(t, y)
            /\ part = "synthid" => y \in generate_reference_synthid_text(c, o, t, marked)
            /\ part = "synthid-sim" => y \in generate_controlled_synthid_text(c, o, t, marked)
    <3>1. CASE part = "synthid"
      <4>1. SynthIDText
        BY <1>2, <3>1 DEF Next, KGWModel, KGWControlled, SynthIDModel, SynthIDControlled, Grows, KGWModelParts
      <4>. QED  BY <3>1, <4>1 DEF SynthIDText, Generates, generate_reference_synthid_text, Best
    <3>2. CASE part = "synthid-sim"
      <4>1. SynthIDControlled
        BY <1>2, <3>2 DEF Next, KGWModel, KGWControlled, SynthIDModel, SynthIDText, Grows, KGWModelParts
      <4>. QED  BY <3>2, <4>1 DEF SynthIDControlled, Generates, generate_controlled_synthid_text, Best
    <3>. QED  BY <3>1, <3>2
  <2>. DEFINE n == c.ngram_len - 1
  <2>3. /\ t \in Seq(Vocabulary) /\ prompt = n /\ n \in Nat /\ Len(t) \in Nat
        /\ marked \in BOOLEAN
    BY SynthIDFields DEF TextInv, SynthIDParts
  <2>4. Len(t') = Len(t) + 1 /\ t'[Len(t) + 1] = y
    BY <2>2, <2>3
  <2>5. CASE i <= Len(t)
    <3>1. i \in (n + 1)..Len(t) /\ i \in (prompt + 1)..Len(t)
      BY <2>3, <2>4, <2>5
    <3>2. Before(t', i, n) = Before(t, i, n) /\ t'[i] = t[i]
      BY <2>2, <2>3, <3>1, WindowsKept
    <3>3. /\ ValueAt(t', i, x) = ValueAt(t, i, x)
          /\ ValueAt(t', i, t'[i]) = ValueAt(t, i, t[i])
      BY <3>2, Zenon DEF ValueAt
    <3>4. IF marked THEN ValueAt(t, i, x) <= ValueAt(t, i, t[i])
          ELSE ValueAt(t, i, t[i]) <= ValueAt(t, i, x)
      BY <3>1 DEF ChosenByWindow
    <3>. QED  BY <3>3, <3>4, Zenon
  <2>6. CASE ~(i <= Len(t))
    <3>1. i = Len(t) + 1 /\ t'[i] = y
      BY <2>3, <2>4, <2>6
    <3>2. CASE part = "synthid"
      <4>1. IF marked THEN Candidate(c, Weights(c), o, t, x) <= Candidate(c, Weights(c), o, t, y)
            ELSE Candidate(c, Weights(c), o, t, y) <= Candidate(c, Weights(c), o, t, x)
        BY <2>2, <3>2 DEF generate_reference_synthid_text, Best
      <4>2. /\ Candidate(c, Weights(c), o, t, x) = ValueAt(t', i, x)
            /\ Candidate(c, Weights(c), o, t, y) = ValueAt(t', i, y)
        BY <2>2, <3>1, <3>2, GeneratorValue, Zenon
      <4>. QED  BY <3>1, <4>1, <4>2, Zenon
    <3>3. CASE part = "synthid-sim"
      <4>1. IF marked THEN candidate_weighted_value(c, o, t, x) <= candidate_weighted_value(c, o, t, y)
            ELSE candidate_weighted_value(c, o, t, y) <= candidate_weighted_value(c, o, t, x)
        BY <2>2, <3>3 DEF generate_controlled_synthid_text, Best
      <4>2. /\ candidate_weighted_value(c, o, t, x) = ValueAt(t', i, x)
            /\ candidate_weighted_value(c, o, t, y) = ValueAt(t', i, y)
        BY <2>2, <3>1, <3>3, GeneratorValue, Zenon
      <4>. QED  BY <3>1, <4>1, <4>2, Zenon
    <3>. QED  BY <3>2, <3>3
  <2>. QED  BY <2>5, <2>6
<1>. QED  BY <1>1, <1>2

\* The value the detector computes at a position, were the token there another.
LEMMA DetectorValue ==
    ASSUME TextInv, part \in {"synthid", "synthid-sim"},
           NEW i \in (prompt + 1)..Len(t), NEW x \in Vocabulary
    PROVE  Value(PartWeights, _compute_g_values(c, o, [t EXCEPT ![i] = x])[i]) = ValueAt(t, i, x)
<1>. DEFINE n == c.ngram_len - 1
            u == [t EXCEPT ![i] = x]
<1>1. /\ c \in SynthIDConfigs /\ SynthIDValidate(c) /\ t \in Seq(Vocabulary)
      /\ prompt = n /\ prompt \in 0..Len(t)
  BY DEF TextInv, SynthIDParts
<1>2. /\ n \in Nat /\ Len(t) \in Nat /\ c.ngram_len = n + 1 /\ c.ngram_len - 1 = n
      /\ i \in (n + 1)..Len(t) /\ i \in 1..Len(t) /\ DOMAIN t = 1..Len(t)
  BY <1>1, SynthIDFields
<1>3. /\ u \in Seq(Vocabulary) /\ Len(u) = Len(t) /\ DOMAIN u = 1..Len(t) /\ u[i] = x
      /\ \A k \in 1..(i - 1) : u[k] = t[k]
  BY <1>1, <1>2
<1>. HIDE DEF n, u
<1>4. Before(u, i, n) = Before(t, i, n)
  <2>1. i \in (n + 1)..(Len(u) + 1) /\ i <= Len(t) + 1
    BY <1>2, <1>3
  <2>. QED  BY <1>1, <1>2, <1>3, <2>1, SameWindow
<1>5. NgramAt(u, i, c.ngram_len) = Append(Before(t, i, n), x)
  <2>1. i - (n + 1) + 1 = i - n
    BY <1>2
  <2>2. SubSeq(u, i - n, i) = Append(Before(u, i, n), u[i])
    <3>1. u \in Seq(Vocabulary) /\ n \in Nat
      BY <1>2, <1>3
    <3>2. \A k \in (n + 1)..Len(u) : SubSeq(u, k - n, k) = Append(Before(u, k, n), u[k])
      BY <3>1, WindowAndToken
    <3>3. i \in (n + 1)..Len(u)
      BY <1>2, <1>3
    <3>. QED  BY <3>2, <3>3
  <2>. QED  BY <1>2, <1>3, <1>4, <2>1, <2>2 DEF NgramAt
<1>6. _compute_g_values(c, o, u)[i] = o[Append(Before(t, i, n), x)]
  <2>1. ~(i < c.ngram_len)
    BY <1>2
  <2>. QED  BY <1>2, <1>3, <1>5, <2>1 DEF _compute_g_values
<1>. QED  BY <1>2, <1>6, Zenon DEF u, ValueAt, PartWeights

LEMMA ChosenRead == TextInv /\ ChosenByWindow => ChosenIsScored
<1>. SUFFICES ASSUME TextInv, ChosenByWindow, part \in {"synthid", "synthid-sim"},
                     NEW i \in (prompt + 1)..Len(t), NEW x \in Vocabulary
              PROVE  LET At(z) == Value(PartWeights, _compute_g_values(c, o, [t EXCEPT ![i] = z])[i])
                     IN  IF marked THEN At(x) <= At(t[i]) ELSE At(t[i]) <= At(x)
  BY Zenon DEF ChosenIsScored, PartWeights
<1>1. t[i] \in Vocabulary
  BY DEF TextInv
<1>2. IF marked THEN ValueAt(t, i, x) <= ValueAt(t, i, t[i])
      ELSE ValueAt(t, i, t[i]) <= ValueAt(t, i, x)
  BY DEF ChosenByWindow
<1>. QED  BY <1>1, <1>2, DetectorValue, Zenon

\* The token that a SynthID generator chose by its own window has, where the detector reads
\* it, the highest value a token could have there, or the lowest without a watermark.
THEOREM ChoiceIsScored == Spec => []ChosenIsScored
<1>. QED  BY InitTextInv, NextTextInv, InitChosen, NextChosen, ChosenRead, PTL DEF Spec

-----------------------------------------------------------------------------
(* The loop of the KGW scorer *)

ScoredNgram(i) == Append(Before(t, i, c.prefix_length), t[i])
GreenAt(i) == is_green_token(c, scorer, Before(t, i, c.prefix_length), t[i])

\* One round of the loop, at position i, and the recursion over the positions r.
ScoreStep(s, i) ==
    IF c.ignore_repeated_ngrams /\ ScoredNgram(i) \in s.seen
    THEN [s EXCEPT !.ignored = @ + 1, !.mask = Append(@, None)]
    ELSE [s EXCEPT !.seen = @ \cup {ScoredNgram(i)}, !.mask = Append(@, GreenAt(i)),
                   !.scored = @ + 1, !.green = IF GreenAt(i) THEN @ + 1 ELSE @]
ScoreRecursion(g, r) ==
    g = [x \in SUBSET (DOMAIN r) |->
            IF x = {} THEN NoScore ELSE ScoreStep(g[x \ {Max(x)}], r[Max(x)])]

ScoreStates == [scored : Nat, green : Nat, ignored : Nat, mask : Seq(BOOLEAN \cup {None}),
                seen : SUBSET Seq(Vocabulary)]

\* The rounds there are: one for every position with a whole window before it.
ScoreRounds(s, n) == IF Len(s) > n THEN Len(s) - n ELSE 0

LEMMA ScoreStepFields ==
    ASSUME NEW s \in ScoreStates, NEW i, ScoredNgram(i) \in Seq(Vocabulary), GreenAt(i) \in BOOLEAN
    PROVE  LET again == c.ignore_repeated_ngrams /\ ScoredNgram(i) \in s.seen
               q == ScoreStep(s, i)
           IN  /\ q \in ScoreStates
               /\ again => /\ q.seen = s.seen /\ q.mask = Append(s.mask, None)
                           /\ q.scored = s.scored /\ q.green = s.green /\ q.ignored = s.ignored + 1
               /\ ~again => /\ q.seen = s.seen \cup {ScoredNgram(i)}
                            /\ q.mask = Append(s.mask, GreenAt(i))
                            /\ q.scored = s.scored + 1
                            /\ q.green = (IF GreenAt(i) THEN s.green + 1 ELSE s.green)
                            /\ q.ignored = s.ignored
<1>. DEFINE G == GreenAt(i)
            N == ScoredNgram(i)
            q == ScoreStep(s, i)
<1>1. G \in BOOLEAN /\ N \in Seq(Vocabulary)
  OBVIOUS
<1>2. /\ s.scored \in Nat /\ s.green \in Nat /\ s.ignored \in Nat /\ s.mask \in Seq(BOOLEAN \cup {None})
      /\ s.seen \in SUBSET Seq(Vocabulary)
      /\ s = [scored |-> s.scored, green |-> s.green, ignored |-> s.ignored, mask |-> s.mask,
              seen |-> s.seen]
  BY DEF ScoreStates
<1>3. CASE c.ignore_repeated_ngrams /\ N \in s.seen
  <2>1. q = [s EXCEPT !.ignored = s.ignored + 1, !.mask = Append(s.mask, None)]
    BY <1>3 DEF ScoreStep
  <2>2. Append(s.mask, None) \in Seq(BOOLEAN \cup {None})
    BY <1>2
  <2>. HIDE DEF q, N, G
  <2>3. q = [scored |-> s.scored, green |-> s.green, ignored |-> s.ignored + 1,
             mask |-> Append(s.mask, None), seen |-> s.seen]
    BY <1>2, <2>1
  <2>4. q \in ScoreStates
    BY <1>2, <2>2, <2>3 DEF ScoreStates
  <2>. QED  BY <1>3, <2>3, <2>4 DEF q, N, G
<1>4. CASE ~(c.ignore_repeated_ngrams /\ N \in s.seen)
  <2>. DEFINE gr == IF G THEN s.green + 1 ELSE s.green
  <2>1. q = [s EXCEPT !.seen = s.seen \cup {N}, !.mask = Append(s.mask, G),
                      !.scored = s.scored + 1, !.green = gr]
    BY <1>4, Zenon DEF ScoreStep
  <2>2. Append(s.mask, G) \in Seq(BOOLEAN \cup {None})
    <3>1. G \in BOOLEAN \cup {None}
      BY <1>1
    <3>. HIDE DEF G
    <3>. QED  BY <1>2, <3>1
  <2>3. gr \in Nat
    BY <1>2
  <2>. HIDE DEF q, N, G, gr
  <2>4. q = [scored |-> s.scored + 1, green |-> gr, ignored |-> s.ignored,
             mask |-> Append(s.mask, G), seen |-> s.seen \cup {N}]
    BY <1>2, <2>1
  <2>5. s.seen \cup {N} \in SUBSET Seq(Vocabulary)
    BY <1>1, <1>2
  <2>6. q \in ScoreStates
    BY <1>2, <2>2, <2>3, <2>4, <2>5 DEF ScoreStates
  <2>7. /\ q.scored = s.scored + 1 /\ q.green = gr /\ q.ignored = s.ignored
        /\ q.mask = Append(s.mask, G) /\ q.seen = s.seen \cup {N}
    BY <2>4
  <2>. QED  BY <1>4, <2>6, <2>7, Zenon DEF q, N, G, gr
<1>. QED  BY <1>3, <1>4

\* What a position's n-gram and colour are.
LEMMA PositionTypes ==
    ASSUME t \in Seq(Vocabulary), c.prefix_length \in Nat, NEW i \in (c.prefix_length + 1)..Len(t)
    PROVE  /\ ScoredNgram(i) \in Seq(Vocabulary) /\ GreenAt(i) \in BOOLEAN
           /\ ScoredNgram(i) = SubSeq(t, i - c.prefix_length, i)
<1>. DEFINE n == c.prefix_length
<1>1. n \in Nat /\ i \in (n + 1)..Len(t) /\ i \in 1..Len(t)
  OBVIOUS
<1>. HIDE DEF n
<1>2. /\ \A k \in (n + 1)..Len(t) :
            /\ Before(t, k, n) \in [1..n -> Vocabulary]
            /\ SubSeq(t, k - n, k) = Append(Before(t, k, n), t[k])
  BY <1>1, WindowAndToken
<1>3. Before(t, i, n) \in Seq(Vocabulary) /\ t[i] \in Vocabulary
  <2>1. Before(t, i, n) \in [1..n -> Vocabulary]
    BY <1>1, <1>2
  <2>. QED  BY <1>1, <2>1
<1>4. ScoredNgram(i) = SubSeq(t, i - n, i)
  BY <1>1, <1>2 DEF ScoredNgram, n
<1>5. Append(Before(t, i, n), t[i]) \in Seq(Vocabulary)
  BY <1>3
<1>6. GreenAt(i) \in BOOLEAN
  BY DEF GreenAt, is_green_token
<1>. QED  BY <1>4, <1>5, <1>6 DEF ScoredNgram, n

\* The states of the loop: q[k] is the one after k rounds.
LEMMA ScoreLoop ==
    ASSUME t \in Seq(Vocabulary), c.prefix_length \in Nat
    PROVE  \E q : /\ q[0] = NoScore
                  /\ \A k \in 0..ScoreRounds(t, c.prefix_length) : q[k] \in ScoreStates
                  /\ \A k \in 0..(ScoreRounds(t, c.prefix_length) - 1) :
                        q[k + 1] = ScoreStep(q[k], k + 1 + c.prefix_length)
                  /\ score_token_ids(c, scorer, t) = q[ScoreRounds(t, c.prefix_length)]
<1>. DEFINE n == c.prefix_length
            m == ScoreRounds(t, n)
            r == [k \in 1..(Len(t) - n) |-> k + n]
            F == [i \in 1..m |-> [s \in ScoreStates |-> ScoreStep(s, r[i])]]
<1>1. n \in Nat /\ Len(t) \in Nat
  OBVIOUS
<1>2. m \in Nat /\ 1..(Len(t) - n) = 1..m
  BY <1>1 DEF ScoreRounds
<1>3. \A i \in 1..m : i + n \in (n + 1)..Len(t)
  BY <1>1 DEF ScoreRounds
<1>4. DOMAIN r = 1..m /\ \A i \in 1..m : r[i] = i + n
  BY <1>2
<1>5. score_token_ids(c, scorer, t) = (CHOOSE g : ScoreRecursion(g, r))[DOMAIN r]
  BY Zenon DEF score_token_ids, FoldLeft, MapThenFoldSet, ScoreRecursion, ScoreStep, ScoredNgram,
               GreenAt, Max
<1>6. \A i \in 1..m, s \in ScoreStates : ScoreStep(s, r[i]) \in ScoreStates
  <2>. SUFFICES ASSUME NEW i \in 1..m, NEW s \in ScoreStates PROVE ScoreStep(s, r[i]) \in ScoreStates
    OBVIOUS
  <2>1. ScoredNgram(i + n) \in Seq(Vocabulary) /\ GreenAt(i + n) \in BOOLEAN
    BY <1>3, PositionTypes
  <2>2. ScoreStep(s, i + n) \in ScoreStates
    BY <2>1, ScoreStepFields
  <2>. QED  BY <1>4, <2>2
<1>7. NoScore \in ScoreStates
  BY DEF NoScore, ScoreStates
<1>. HIDE DEF n, m, r
<1>8. /\ F \in [1..m -> [ScoreStates -> ScoreStates]]
      /\ \A i \in 1..m, s \in ScoreStates : F[i][s] = ScoreStep(s, r[i])
  BY <1>6
<1>. HIDE DEF F
<1>9. ASSUME NEW y \in SUBSET (1..m), y # {}
      PROVE  Max(y) \in 1..m /\ y \ {Max(y)} \in SUBSET (1..m)
  BY <1>2, <1>9, LastIsMember
<1>10. \E g : ScoreRecursion(g, r)
  <2>1. PICK g \in [SUBSET (1..m) -> ScoreStates] : Folds(g, m, NoScore, F)
    BY <1>2, <1>7, <1>8, FoldExists, Zenon
  <2>2. \A y \in SUBSET (1..m) :
            g[y] = IF y = {} THEN NoScore ELSE ScoreStep(g[y \ {Max(y)}], r[Max(y)])
    <3>. SUFFICES ASSUME NEW y \in SUBSET (1..m), y # {}
                  PROVE  g[y] = ScoreStep(g[y \ {Max(y)}], r[Max(y)])
      BY <2>1 DEF Folds
    <3>1. g[y] = F[Max(y)][g[y \ {Max(y)}]]
      BY <2>1 DEF Folds
    <3>. QED  BY <1>8, <1>9, <3>1
  <2>. QED  BY <1>4, <2>2 DEF ScoreRecursion
<1>. DEFINE h == CHOOSE g : ScoreRecursion(g, r)
<1>11. ScoreRecursion(h, r)
  BY <1>10, Zenon
<1>. HIDE DEF h
<1>12. Follows(h, m, ScoreStates, NoScore, F)
  <2>1. h[{}] = NoScore
    BY <1>11 DEF ScoreRecursion
  <2>2. ASSUME NEW y \in SUBSET (1..m), y # {}, h[y \ {Max(y)}] \in ScoreStates
        PROVE  h[y] = F[Max(y)][h[y \ {Max(y)}]]
    <3>1. h[y] = ScoreStep(h[y \ {Max(y)}], r[Max(y)])
      BY <1>4, <1>11, <2>2 DEF ScoreRecursion
    <3>. QED  BY <1>8, <1>9, <2>2, <3>1
  <2>. QED  BY <2>1, <2>2 DEF Follows
<1>13. /\ h[1..0] = NoScore
       /\ \A k \in 0..m : h[1..k] \in ScoreStates
       /\ \A k \in 0..(m - 1) : h[1..(k + 1)] = F[k + 1][h[1..k]]
  <2>1. m \in Nat /\ F \in [1..m -> [ScoreStates -> ScoreStates]]
    BY <1>2, <1>8
  <2>2. Runs(h, m, ScoreStates, NoScore, F)
    BY <1>7, <1>12, <2>1, LoopStates, Zenon
  <2>. QED  BY <2>2, Zenon DEF Runs
<1>. DEFINE q == [k \in 0..m |-> h[1..k]]
<1>14. /\ 0 \in 0..m /\ m \in 0..m
       /\ \A k \in 0..(m - 1) : k \in 0..m /\ k + 1 \in 0..m /\ k + 1 \in 1..m
  BY <1>2
<1>15. q[0] = NoScore /\ \A k \in 0..m : q[k] \in ScoreStates
  BY <1>13, <1>14
<1>16. \A k \in 0..(m - 1) : q[k + 1] = ScoreStep(q[k], k + 1 + n)
  BY <1>4, <1>8, <1>13, <1>14
<1>17. score_token_ids(c, scorer, t) = q[m]
  BY <1>4, <1>5, <1>14 DEF h
<1>. HIDE DEF q
<1>. QED  BY <1>15, <1>16, <1>17, Zenon DEF m, n

\* What is counted after k rounds: the positions that are scored and those that are not.
Positions(k) == (c.prefix_length + 1)..(c.prefix_length + k)
ScoredUpTo(k) ==
    {i \in Positions(k) : c.ignore_repeated_ngrams =>
        \A j \in Positions(i - 1 - c.prefix_length) : ScoredNgram(j) # ScoredNgram(i)}
GreenUpTo(k) == {i \in ScoredUpTo(k) : GreenAt(i)}

ScoreCounts(s, k) ==
    /\ s.seen = {ScoredNgram(i) : i \in Positions(k)}
    /\ s.scored = Cardinality(ScoredUpTo(k))
    /\ s.green = Cardinality(GreenUpTo(k))
    /\ s.ignored = Cardinality(Positions(k) \ ScoredUpTo(k))
    /\ Len(s.mask) = k /\ k = s.scored + s.ignored
    /\ \A j \in 1..k : s.mask[j] = IF j + c.prefix_length \in ScoredUpTo(k)
                                   THEN GreenAt(j + c.prefix_length) ELSE None

\* The next position is counted once, as the n-grams before it decide.
LEMMA ScoreCountsStep ==
    ASSUME c.prefix_length \in Nat, c.ignore_repeated_ngrams \in BOOLEAN,
           NEW k \in Nat, NEW s \in ScoreStates, ScoreCounts(s, k),
           ScoredNgram(k + 1 + c.prefix_length) \in Seq(Vocabulary),
           GreenAt(k + 1 + c.prefix_length) \in BOOLEAN
    PROVE  ScoreCounts(ScoreStep(s, k + 1 + c.prefix_length), k + 1)
<1>. DEFINE n == c.prefix_length
            p == k + 1 + n
            q == ScoreStep(s, p)
            again == c.ignore_repeated_ngrams /\ ScoredNgram(p) \in s.seen
<1>1. n \in Nat /\ p \in Nat /\ p = n + (k + 1) /\ p - 1 - n = k /\ p = k + 1 + n
  OBVIOUS
<1>2. /\ Positions(k + 1) = Positions(k) \cup {p} /\ p \notin Positions(k)
      /\ \A j \in Nat : j + n \in Positions(k + 1) <=> j \in 1..(k + 1)
  BY DEF Positions
<1>3. IsFiniteSet(Positions(k))
  <2>1. n + 1 \in Int /\ n + k \in Int
    BY <1>1
  <2>. QED  BY <2>1, FS_Interval DEF Positions
<1>. HIDE DEF p
<1>4. again <=> ~(c.ignore_repeated_ngrams =>
                    \A j \in Positions(p - 1 - n) : ScoredNgram(j) # ScoredNgram(p))
  <2>1. s.seen = {ScoredNgram(i) : i \in Positions(k)}
    BY DEF ScoreCounts
  <2>2. ScoredNgram(p) \in s.seen <=> \E i \in Positions(k) : ScoredNgram(p) = ScoredNgram(i)
    BY <2>1
  <2>. QED  BY <1>1, <2>2
<1>5. ScoredUpTo(k + 1) = IF again THEN ScoredUpTo(k) ELSE ScoredUpTo(k) \cup {p}
  BY <1>2, <1>4 DEF ScoredUpTo
<1>6. /\ ScoredUpTo(k) \subseteq Positions(k) /\ GreenUpTo(k) \subseteq ScoredUpTo(k)
      /\ IsFiniteSet(ScoredUpTo(k)) /\ IsFiniteSet(GreenUpTo(k))
      /\ IsFiniteSet(Positions(k) \ ScoredUpTo(k))
  <2>1. /\ ScoredUpTo(k) \subseteq Positions(k) /\ GreenUpTo(k) \subseteq Positions(k)
        /\ GreenUpTo(k) \subseteq ScoredUpTo(k)
        /\ (Positions(k) \ ScoredUpTo(k)) \subseteq Positions(k)
    BY DEF ScoredUpTo, GreenUpTo
  <2>. QED  BY <1>3, <2>1, FS_Subset, Zenon
<1>7. ScoredNgram(p) \in Seq(Vocabulary) /\ GreenAt(p) \in BOOLEAN
  BY DEF p
<1>8. /\ again => /\ q.seen = s.seen /\ q.mask = Append(s.mask, None)
                  /\ q.scored = s.scored /\ q.green = s.green /\ q.ignored = s.ignored + 1
      /\ ~again => /\ q.seen = s.seen \cup {ScoredNgram(p)}
                   /\ q.mask = Append(s.mask, GreenAt(p))
                   /\ q.scored = s.scored + 1
                   /\ q.green = (IF GreenAt(p) THEN s.green + 1 ELSE s.green)
                   /\ q.ignored = s.ignored
  BY <1>7, ScoreStepFields, Zenon
<1>9. /\ s.scored \in Nat /\ s.green \in Nat /\ s.ignored \in Nat
      /\ s.mask \in Seq(BOOLEAN \cup {None})
  BY DEF ScoreStates
<1>10. /\ s.seen = {ScoredNgram(i) : i \in Positions(k)}
       /\ s.scored = Cardinality(ScoredUpTo(k))
       /\ s.green = Cardinality(GreenUpTo(k))
       /\ s.ignored = Cardinality(Positions(k) \ ScoredUpTo(k))
       /\ Len(s.mask) = k /\ k = s.scored + s.ignored
       /\ \A j \in 1..k : s.mask[j] = IF j + n \in ScoredUpTo(k) THEN GreenAt(j + n) ELSE None
  BY Zenon DEF ScoreCounts
<1>. HIDE DEF q
<1>11. q.seen = {ScoredNgram(i) : i \in Positions(k + 1)}
  <2>1. CASE again
    <3>1. ScoredNgram(p) \in {ScoredNgram(i) : i \in Positions(k)}
      BY <1>10, <2>1
    <3>2. {ScoredNgram(i) : i \in Positions(k + 1)} = {ScoredNgram(i) : i \in Positions(k)}
      BY <1>2, <3>1
    <3>. QED  BY <1>8, <1>10, <2>1, <3>2
  <2>2. CASE ~again
    <3>1. {ScoredNgram(i) : i \in Positions(k + 1)}
              = {ScoredNgram(i) : i \in Positions(k)} \cup {ScoredNgram(p)}
      BY <1>2
    <3>. QED  BY <1>8, <1>10, <2>2, <3>1
  <2>. QED  BY <2>1, <2>2
<1>12. p \notin ScoredUpTo(k) /\ p \notin GreenUpTo(k) /\ p \notin Positions(k) \ ScoredUpTo(k)
  BY <1>2, <1>6
<1>13. /\ Cardinality(ScoredUpTo(k) \cup {p}) = s.scored + 1
       /\ Cardinality(GreenUpTo(k) \cup {p}) = s.green + 1
       /\ Cardinality((Positions(k) \ ScoredUpTo(k)) \cup {p}) = s.ignored + 1
  <2>1. /\ Cardinality(ScoredUpTo(k) \cup {p}) = Cardinality(ScoredUpTo(k)) + 1
        /\ Cardinality(GreenUpTo(k) \cup {p}) = Cardinality(GreenUpTo(k)) + 1
        /\ Cardinality((Positions(k) \ ScoredUpTo(k)) \cup {p})
              = Cardinality(Positions(k) \ ScoredUpTo(k)) + 1
    BY <1>6, <1>12, FS_AddElement, Zenon
  <2>. QED  BY <1>10, <2>1
<1>14. /\ q.scored = Cardinality(ScoredUpTo(k + 1))
       /\ q.green = Cardinality(GreenUpTo(k + 1))
       /\ q.ignored = Cardinality(Positions(k + 1) \ ScoredUpTo(k + 1))
  <2>1. CASE again
    <3>1. /\ ScoredUpTo(k + 1) = ScoredUpTo(k) /\ GreenUpTo(k + 1) = GreenUpTo(k)
          /\ Positions(k + 1) \ ScoredUpTo(k + 1) = (Positions(k) \ ScoredUpTo(k)) \cup {p}
      BY <1>2, <1>5, <1>12, <2>1 DEF GreenUpTo
    <3>. QED  BY <1>8, <1>10, <1>13, <2>1, <3>1
  <2>2. CASE ~again
    <3>1. /\ ScoredUpTo(k + 1) = ScoredUpTo(k) \cup {p}
          /\ Positions(k + 1) \ ScoredUpTo(k + 1) = Positions(k) \ ScoredUpTo(k)
      BY <1>2, <1>5, <1>12, <2>2
    <3>2. GreenUpTo(k + 1) = IF GreenAt(p) THEN GreenUpTo(k) \cup {p} ELSE GreenUpTo(k)
      BY <3>1 DEF GreenUpTo
    <3>. QED  BY <1>8, <1>10, <1>13, <2>2, <3>1, <3>2
  <2>. QED  BY <2>1, <2>2
<1>15. Len(q.mask) = k + 1 /\ k + 1 = q.scored + q.ignored
  <2>1. Len(q.mask) = k + 1
    <3>1. Len(Append(s.mask, None)) = k + 1 /\ Len(Append(s.mask, GreenAt(p))) = k + 1
      BY <1>9, <1>10
    <3>. QED  BY <1>8, <3>1
  <2>2. q.scored + q.ignored = s.scored + s.ignored + 1
    <3>1. CASE again
      <4>1. q.scored = s.scored /\ q.ignored = s.ignored + 1
        BY <1>8, <3>1
      <4>. QED  BY <1>9, <4>1
    <3>2. CASE ~again
      <4>1. q.scored = s.scored + 1 /\ q.ignored = s.ignored
        BY <1>8, <3>2
      <4>. QED  BY <1>9, <4>1
    <3>. QED  BY <3>1, <3>2
  <2>. QED  BY <1>10, <2>1, <2>2
<1>16. ASSUME NEW j \in 1..(k + 1)
       PROVE  q.mask[j] = IF j + n \in ScoredUpTo(k + 1) THEN GreenAt(j + n) ELSE None
  <2>1. CASE j \in 1..k
    <3>1. j + n # p
      BY <1>1, <2>1
    <3>2. j + n \in ScoredUpTo(k + 1) <=> j + n \in ScoredUpTo(k)
      BY <1>5, <3>1
    <3>3. q.mask[j] = s.mask[j]
      <4>1. Append(s.mask, None)[j] = s.mask[j] /\ Append(s.mask, GreenAt(p))[j] = s.mask[j]
        BY <1>9, <1>10, <2>1
      <4>. QED  BY <1>8, <4>1
    <3>. QED  BY <1>10, <2>1, <3>2, <3>3, Zenon
  <2>2. CASE j = k + 1
    <3>1. j + n = p
      BY <2>2 DEF p
    <3>2. Append(s.mask, None)[j] = None /\ Append(s.mask, GreenAt(p))[j] = GreenAt(p)
      BY <1>9, <1>10, <2>2
    <3>3. j + n \in ScoredUpTo(k + 1) <=> ~again
      BY <1>5, <1>12, <3>1
    <3>. QED  BY <1>8, <3>1, <3>2, <3>3, Zenon
  <2>. QED  BY <2>1, <2>2
<1>. QED  BY <1>11, <1>14, <1>15, <1>16, Zenon DEF ScoreCounts, q, p

LEMMA ScoreCountsAll ==
    ASSUME t \in Seq(Vocabulary), c.prefix_length \in Nat, c.ignore_repeated_ngrams \in BOOLEAN
    PROVE  ScoreCounts(score_token_ids(c, scorer, t), ScoreRounds(t, c.prefix_length))
<1>. DEFINE n == c.prefix_length
            m == ScoreRounds(t, n)
<1>1. PICK q : /\ q[0] = NoScore
               /\ \A k \in 0..m : q[k] \in ScoreStates
               /\ \A k \in 0..(m - 1) : q[k + 1] = ScoreStep(q[k], k + 1 + n)
               /\ score_token_ids(c, scorer, t) = q[m]
  BY ScoreLoop, Zenon
<1>2. n \in Nat /\ m \in Nat /\ \A k \in 0..(m - 1) : k + 1 + n \in (n + 1)..Len(t)
  BY DEF ScoreRounds
<1>. DEFINE T == {k \in 0..m : ScoreCounts(q[k], k)}
<1>3. 0 \in T
  <2>1. 0 \in 0..m /\ Positions(0) = {}
    BY <1>2 DEF Positions
  <2>2. ScoredUpTo(0) = {} /\ GreenUpTo(0) = {} /\ Positions(0) \ ScoredUpTo(0) = {} /\ Cardinality({}) = 0
    BY <2>1, FS_EmptySet DEF ScoredUpTo, GreenUpTo
  <2>3. /\ NoScore.seen = {} /\ NoScore.scored = 0 /\ NoScore.green = 0 /\ NoScore.ignored = 0
        /\ NoScore.mask = <<>> /\ Len(<<>>) = 0 /\ 1..0 = {}
    BY DEF NoScore
  <2>4. {ScoredNgram(i) : i \in Positions(0)} = {}
    BY <2>1
  <2>5. /\ 0 = NoScore.scored + NoScore.ignored
        /\ \A j \in 1..0 : NoScore.mask[j] = IF j + c.prefix_length \in ScoredUpTo(0)
                                            THEN GreenAt(j + c.prefix_length) ELSE None
    BY <2>3
  <2>6. ScoreCounts(NoScore, 0)
    BY <2>2, <2>3, <2>4, <2>5, Zenon DEF ScoreCounts
  <2>. QED  BY <1>1, <2>1, <2>6
<1>4. ASSUME NEW k \in T, k < m PROVE k + 1 \in T
  <2>1. k \in 0..(m - 1) /\ k \in 0..m /\ k + 1 \in 0..m /\ k \in Nat
    BY <1>2, <1>4
  <2>2. /\ ScoredNgram(k + 1 + n) \in Seq(Vocabulary) /\ GreenAt(k + 1 + n) \in BOOLEAN
    BY <1>2, <2>1, PositionTypes
  <2>3. q[k] \in ScoreStates /\ ScoreCounts(q[k], k)
    BY <1>1, <2>1
  <2>4. ScoreCounts(ScoreStep(q[k], k + 1 + n), k + 1)
    BY <2>1, <2>2, <2>3, ScoreCountsStep
  <2>. QED  BY <1>1, <2>1, <2>4
<1>5. m \in T
  <2>1. T \in SUBSET (0..m) /\ m \in 0..m
    BY <1>2
  <2>. HIDE DEF T, m
  <2>2. T = 0..m
    BY <1>2, <1>3, <1>4, <2>1, AllSteps, Zenon
  <2>. QED  BY <2>1, <2>2
<1>. QED  BY <1>1, <1>5

-----------------------------------------------------------------------------
(* What the scorer tells of a text *)

LEMMA LowestOf ==
    ASSUME NEW n \in Nat, n >= 1, NEW f, \A i \in 1..n : f[i] \in Int
    PROVE  \E i \in 1..n : \A j \in 1..n : f[i] <= f[j]
<1>. DEFINE IsLowest(m, i) == i \in 1..m /\ \A j \in 1..m : f[i] <= f[j]
            T == {m \in 0..(n - 1) : \E i : IsLowest(m + 1, i)}
<1>1. 0 \in T
  <2>1. 0 \in 0..(n - 1) /\ f[1] \in Int /\ \A j \in 1..(0 + 1) : j = 1
    OBVIOUS
  <2>2. IsLowest(0 + 1, 1)
    BY <2>1
  <2>. QED  BY <2>1, <2>2
<1>2. ASSUME NEW m \in T, m < n - 1 PROVE m + 1 \in T
  <2>1. PICK i : IsLowest(m + 1, i)
    OBVIOUS
  <2>2. /\ m \in Nat /\ m + 1 \in 0..(n - 1) /\ i \in 1..n /\ i \in 1..(m + 2) /\ m + 2 \in 1..(m + 2)
        /\ f[i] \in Int /\ f[m + 2] \in Int /\ (m + 1) + 1 = m + 2
    BY <1>2, <2>1
  <2>3. \A j \in 1..(m + 2) : j \in 1..(m + 1) \/ j = m + 2
    BY <2>2
  <2>4. \A j \in 1..(m + 1) : f[j] \in Int /\ f[i] <= f[j]
    BY <1>2, <2>1, <2>2
  <2>5. CASE f[i] <= f[m + 2]
    <3>1. \A j \in 1..(m + 2) : f[i] <= f[j]
      BY <2>3, <2>4, <2>5
    <3>2. IsLowest((m + 1) + 1, i)
      BY <2>2, <3>1
    <3>. QED  BY <2>2, <3>2
  <2>6. CASE ~(f[i] <= f[m + 2])
    <3>1. \A j \in 1..(m + 2) : f[m + 2] <= f[j]
      BY <2>2, <2>3, <2>4, <2>6
    <3>2. IsLowest((m + 1) + 1, m + 2)
      BY <2>2, <3>1
    <3>. QED  BY <2>2, <3>2
  <2>. QED  BY <2>5, <2>6
<1>3. n - 1 \in T
  <2>1. T \in SUBSET (0..(n - 1)) /\ n - 1 \in 0..(n - 1) /\ n - 1 \in Nat
    OBVIOUS
  <2>. HIDE DEF T
  <2>2. T = 0..(n - 1)
    BY <1>1, <1>2, <2>1, AllSteps, Zenon
  <2>. QED  BY <2>1, <2>2
<1>4. (n - 1) + 1 = n
  OBVIOUS
<1>. QED  BY <1>3, <1>4

\* The lowest member of a set of integers is the one that is not above any other.
LEMMA LeastIs ==
    ASSUME NEW S \in SUBSET Int, NEW m \in S, \A k \in S : m <= k
    PROVE  Least(S) = m
<1>1. Least(S) \in S /\ \A k \in S : Least(S) <= k
  BY Zenon DEF Least
<1>2. Least(S) \in Int /\ m \in Int /\ Least(S) <= m /\ m <= Least(S)
  BY <1>1
<1>. QED  BY <1>2

\* The last tokens of a window are the window.
LEMMA LastOfWindow ==
    ASSUME NEW S, NEW n \in Nat, NEW w \in [1..n -> S]
    PROVE  LastOf(w, n) = w
<1>1. w \in Seq(S) /\ Len(w) = n
  OBVIOUS
<1>2. LastOf(w, n) = SubSeq(w, 1, n)
  BY <1>1 DEF LastOf
<1>3. SubSeq(w, 1, n) = w
  BY <1>1
<1>. QED  BY <1>2, <1>3

\* The positions after the last round are those of the whole text.
LEMMA AllPositions ==
    ASSUME t \in Seq(Vocabulary), c.prefix_length \in Nat
    PROVE  Positions(ScoreRounds(t, c.prefix_length)) = (c.prefix_length + 1)..Len(t)
  BY DEF Positions, ScoreRounds

LEMMA CountsRead == TextInv => KgwCounts
<1>. SUFFICES ASSUME TextInv, part \in KGWModelParts PROVE KgwCounts
  BY DEF KgwCounts
<1>. DEFINE n == c.prefix_length
            m == ScoreRounds(t, n)
            s == score_token_ids(c, scorer, t)
            Ngram(i) == SubSeq(t, i - n, i)
            counted == {i \in (n + 1)..Len(t) : c.ignore_repeated_ngrams =>
                          \A j \in (n + 1)..(i - 1) : Ngram(j) # Ngram(i)}
            green == {i \in counted : is_green_token(c, scorer, Before(t, i, n), t[i])}
<1>1. /\ t \in Seq(Vocabulary) /\ c \in KGWConfigs /\ n \in Nat /\ n >= 1
      /\ c.ignore_repeated_ngrams \in BOOLEAN
  BY KGWFields DEF TextInv, KGWParts, KGWModelParts
<1>2. ScoreCounts(s, m)
  BY <1>1, ScoreCountsAll
<1>3. Positions(m) = (n + 1)..Len(t)
  BY <1>1, AllPositions
<1>4. \A i \in (n + 1)..Len(t) : ScoredNgram(i) = Ngram(i)
  BY <1>1, PositionTypes
<1>5. ScoredUpTo(m) = counted
  <2>1. \A i \in (n + 1)..Len(t) : Positions(i - 1 - n) = (n + 1)..(i - 1)
    <3>. SUFFICES ASSUME NEW i \in (n + 1)..Len(t) PROVE Positions(i - 1 - n) = (n + 1)..(i - 1)
      OBVIOUS
    <3>1. n + (i - 1 - n) = i - 1
      BY <1>1
    <3>. QED  BY <3>1 DEF Positions
  <2>2. \A i \in (n + 1)..Len(t) : \A j \in (n + 1)..(i - 1) : j \in (n + 1)..Len(t)
    BY <1>1
  <2>. QED  BY <1>3, <1>4, <2>1, <2>2 DEF ScoredUpTo
<1>6. GreenUpTo(m) = green /\ green \subseteq counted
  BY <1>5, Zenon DEF GreenUpTo, GreenAt
<1>7. \A i \in counted : GreenAt(i) <=> i \in green
  BY Zenon DEF GreenAt
<1>. HIDE DEF counted, green, s, m
<1>8. /\ s.scored = Cardinality(counted) /\ s.green = Cardinality(green)
      /\ s.ignored = Cardinality(((n + 1)..Len(t)) \ counted)
      /\ Len(s.mask) = s.scored + s.ignored
  BY <1>2, <1>3, <1>5, <1>6, Zenon DEF ScoreCounts
<1>9. ASSUME NEW i \in (n + 1)..Len(t)
      PROVE  s.mask[i - n] = IF i \in counted THEN i \in green ELSE None
  <2>1. i - n \in 1..m /\ (i - n) + n = i
    BY <1>1 DEF m, ScoreRounds
  <2>2. s.mask[i - n] = IF (i - n) + n \in ScoredUpTo(m) THEN GreenAt((i - n) + n) ELSE None
    BY <1>2, <2>1, Zenon DEF ScoreCounts
  <2>3. GreenAt(i) \in BOOLEAN
    BY <1>1, PositionTypes
  <2>4. i \in counted => GreenAt(i) = (i \in green)
    <3>1. (i \in green) \in BOOLEAN
      OBVIOUS
    <3>. QED  BY <1>7, <2>3, <3>1
  <2>. QED  BY <1>5, <2>1, <2>2, <2>4, Zenon
<1>10. detect(c, scorer, t).detected = None <=> s.scored < c.min_scored_tokens
  <2>. DEFINE z == z_score(c, s.green, s.scored)
              d == AtLeast(z.num, z.den, c.z_threshold)
  <2>1. d \in BOOLEAN /\ d # None
    BY DetectionAssumption DEF AtLeast
  <2>2. detect(c, scorer, t) = IF s.scored < c.min_scored_tokens THEN NotEnough
            ELSE [status |-> "ok", detected |-> d, confidence |-> _confidence(z, d)]
    BY Zenon DEF detect, s
  <2>. HIDE DEF z, d
  <2>. QED  BY <2>1, <2>2 DEF NotEnough
<1>. QED  BY <1>8, <1>9, <1>10, Zenon DEF KgwCounts, s, counted, green

\* Whichever generator draws the lists, the scorer that goes over the text with a set of
\* n-grams seen counts every position with a whole window once, scores those that its
\* definition over the whole text names, each with the colour its own window gives it, and
\* gives a verdict on them alone.
THEOREM KgwCountsText == Spec => []KgwCounts
<1>. QED  BY InitTextInv, NextTextInv, CountsRead, PTL DEF Spec

-----------------------------------------------------------------------------
(* The mark of the KGW generators *)

\* The seed of a green list is drawn from the permutation of the hash key.
LEMMA SeedIsToken ==
    ASSUME NEW x \in KGWConfigs, NEW gen, IsGenerator(gen), NEW w \in Seq(Vocabulary),
           x.prefix_length <= Len(w)
    PROVE  _f(x, gen, w) \in Vocabulary
<1>. DEFINE n == x.prefix_length
            p == LastOf(w, n)
<1>1. n \in Nat /\ n >= 1 /\ n <= Len(w)
  BY KGWFields
<1>2. p \in [1..n -> Vocabulary] /\ p \in Seq(Vocabulary)
  <2>1. \A k \in Nat : k <= Len(w) => LastOf(w, k) \in [1..k -> Vocabulary] /\ LastOf(w, k) \in Seq(Vocabulary)
    <3>1. 0 \in Vocabulary
      BY KGWAssumption DEF Vocabulary
    <3>. QED  BY <3>1, LastOfIsWindow
  <2>. QED  BY <1>1, <2>1
<1>3. gen.prf \in [1..VocabSize -> Vocabulary] /\ VocabSize \in Nat /\ VocabSize >= 2
  BY KGWAssumption DEF IsGenerator
<1>4. DOMAIN p = 1..n /\ p \in Seq(Int) /\ \A i \in 1..n : p[i] + 1 \in 1..VocabSize
  <2>1. \A i \in 1..n : p[i] \in Vocabulary
    BY <1>2
  <2>2. \A i \in 1..n : p[i] + 1 \in 1..VocabSize
    BY <1>3, <2>1 DEF Vocabulary
  <2>3. p \in Seq(Int)
    <3>1. Vocabulary \subseteq Int
      BY <1>3 DEF Vocabulary
    <3>. HIDE DEF p
    <3>2. p \in [1..n -> Int]
      BY <1>2, <3>1
    <3>. QED  BY <1>1, <3>2
  <2>. QED  BY <1>2, <2>2, <2>3
<1>. HIDE DEF p, n
<1>5. \A u \in Int : (u % VocabSize) + 1 \in 1..VocabSize
  BY <1>3
<1>6. CASE x.f_scheme = "time"
  <2>1. _f(x, gen, w) = gen.prf[(Product(p) % VocabSize) + 1]
    BY <1>6 DEF _f, p, n
  <2>2. Product(p) \in Int
    BY <1>4, ProductInt
  <2>. QED  BY <1>3, <1>5, <2>1, <2>2
<1>7. CASE x.f_scheme = "additive"
  <2>1. _f(x, gen, w) = gen.prf[(Total(p) % VocabSize) + 1]
    BY <1>7 DEF _f, p, n
  <2>2. Total(p) \in Int
    BY <1>4, TotalInt
  <2>. QED  BY <1>3, <1>5, <2>1, <2>2
<1>8. CASE x.f_scheme = "skip"
  <2>1. _f(x, gen, w) = gen.prf[p[1] + 1]
    BY <1>8 DEF _f, p, n
  <2>. QED  BY <1>1, <1>3, <1>4, <2>1
<1>9. CASE x.f_scheme = "min"
  <2>. DEFINE S == {gen.prf[p[i] + 1] : i \in DOMAIN p}
              f == [i \in 1..n |-> gen.prf[p[i] + 1]]
  <2>1. _f(x, gen, w) = Least(S)
    BY <1>9 DEF _f, p, n
  <2>2. \A i \in 1..n : f[i] \in Vocabulary /\ f[i] \in Int
    BY <1>3, <1>4 DEF Vocabulary
  <2>3. S = {f[i] : i \in 1..n}
    BY <1>4
  <2>. HIDE DEF f, S
  <2>4. PICK i \in 1..n : \A j \in 1..n : f[i] <= f[j]
    BY <1>1, <2>2, LowestOf, Zenon
  <2>5. S \in SUBSET Int /\ f[i] \in S /\ \A k \in S : f[i] <= k
    BY <2>2, <2>3, <2>4
  <2>6. Least(S) = f[i]
    BY <2>5, LeastIs
  <2>. QED  BY <2>1, <2>2, <2>6
<1>. QED  BY <1>6, <1>7, <1>8, <1>9, KGWFields DEF Schemes

\* A green list has a token.
LEMMA SomeGreen ==
    ASSUME NEW x \in KGWConfigs, NEW gen, IsGenerator(gen), NEW w \in Seq(Vocabulary),
           x.prefix_length <= Len(w)
    PROVE  \E g \in Vocabulary : g \in greenlist_ids(x, gen, w)
<1>. DEFINE e == (x.hash_key * _f(x, gen, w)) % VocabSize
            order == gen.perm[e]
<1>1. e \in Vocabulary
  <2>1. _f(x, gen, w) \in Vocabulary /\ x.hash_key \in Nat
    BY SeedIsToken, KGWFields
  <2>2. (x.hash_key * _f(x, gen, w)) \in Int
    BY <2>1, KGWAssumption DEF Vocabulary
  <2>. QED  BY <2>2, KGWAssumption DEF Vocabulary
<1>2. greenlist_ids(x, gen, w) = {order[i] : i \in 1..greenlist_size(x)}
  BY DEF greenlist_ids
<1>. HIDE DEF e
<1>3. order \in [1..VocabSize -> Vocabulary]
  BY <1>1 DEF IsGenerator
<1>4. 1 \in 1..greenlist_size(x) /\ 1 \in 1..VocabSize
  <2>1. greenlist_size(x) >= 1 /\ greenlist_size(x) \in Int
    BY KGWFields, KGWAssumption DEF greenlist_size
  <2>. QED  BY <2>1, KGWAssumption
<1>5. order[1] \in Vocabulary /\ order[1] \in greenlist_ids(x, gen, w)
  BY <1>2, <1>3, <1>4
<1>. QED  BY <1>5

\* A green list depends on the last tokens of the context alone.
LEMMA GreenlistOfWindow ==
    ASSUME NEW x \in KGWConfigs, NEW gen, NEW w \in Seq(Vocabulary), x.prefix_length <= Len(w)
    PROVE  greenlist_ids(x, gen, LastOf(w, x.prefix_length)) = greenlist_ids(x, gen, w)
<1>. DEFINE n == x.prefix_length
<1>1. n \in Nat
  BY KGWFields
<1>2. \A k \in Nat : k <= Len(w) => LastOf(w, k) \in [1..k -> Vocabulary]
  <2>1. 0 \in Vocabulary
    BY KGWAssumption DEF Vocabulary
  <2>. QED  BY <2>1, LastOfIsWindow
<1>3. LastOf(LastOf(w, n), n) = LastOf(w, n)
  <2>1. LastOf(w, n) \in [1..n -> Vocabulary]
    BY <1>1, <1>2
  <2>. QED  BY <1>1, <2>1, LastOfWindow
<1>4. _f(x, gen, LastOf(w, n)) = _f(x, gen, w)
  BY <1>3, Zenon DEF _f
<1>. QED  BY <1>4, Zenon DEF greenlist_ids

\* The highest of the biased logits is on the green list, when the bias is above them all.
LEMMA BiasWins ==
    ASSUME NEW x \in KGWConfigs, NEW gen, IsGenerator(gen), NEW w \in Seq(Vocabulary),
           x.prefix_length <= Len(w), x.delta > MaxLogit, NEW logits \in Logits
    PROVE  Argmax(bias_logits(x, gen, w, logits)) \in greenlist_ids(x, gen, w)
<1>. DEFINE f == bias_logits(x, gen, w, logits)
            y == Argmax(f)
            G == greenlist_ids(x, gen, w)
<1>1. \A u \in Vocabulary : f[u] \in Int /\ logits[u] \in 0..MaxLogit
  BY BiasedInt DEF Logits
<1>2. ~(Len(w) < x.prefix_length) /\ x.delta \in Nat /\ MaxLogit \in Nat
  BY KGWFields, DetectionAssumption
<1>3. \A u \in Vocabulary : f[u] = IF u \in G THEN logits[u] + x.delta ELSE logits[u]
  BY <1>2 DEF bias_logits
<1>4. PICK g \in Vocabulary : g \in G
  BY SomeGreen
<1>. HIDE DEF f, G
<1>5. y \in Vocabulary /\ f[g] <= f[y]
  BY <1>1, HighestFirst
<1>. HIDE DEF y
<1>6. f[g] > MaxLogit
  BY <1>1, <1>2, <1>3, <1>4
<1>7. y \notin G => f[y] <= MaxLogit
  BY <1>1, <1>2, <1>3, <1>5
<1>8. y \in G
  BY <1>1, <1>2, <1>5, <1>6, <1>7
<1>. QED  BY <1>8 DEF y, f, G

LEMMA InitMarked == Init => MarkedByWindow
<1>. SUFFICES ASSUME Init PROVE MarkedByWindow
  OBVIOUS
<1>1. TextInv /\ prompt = Len(t)
  BY InitTextInv DEF Init
<1>2. \A i \in Int : i <= Len(t) => ~(i > prompt)
  BY <1>1 DEF TextInv
<1>3. (prompt + 1)..Len(t) = {}
  BY <1>1 DEF TextInv
<1>4. part \in KGWModelParts => \A i \in (c.prefix_length + 1)..Len(t) : ~(i > prompt)
  BY <1>1, <1>2, KGWFields DEF TextInv, KGWParts, KGWModelParts
<1>. QED  BY <1>3, <1>4 DEF MarkedByWindow

LEMMA NextMarked == TextInv /\ MarkedByWindow /\ [Next]_vars => MarkedByWindow'
<1>. SUFFICES ASSUME TextInv, MarkedByWindow, [Next]_vars PROVE MarkedByWindow'
  OBVIOUS
<1>. DEFINE n == c.prefix_length
<1>1. CASE UNCHANGED vars
  BY <1>1 DEF vars, MarkedByWindow, scorer
<1>2. CASE Next
  <2>1. UNCHANGED setting
    BY <1>2, OneToken
  <2>2. t \in Seq(Vocabulary) /\ Len(t) \in Nat /\ prompt \in 0..Len(t)
    BY DEF TextInv
  <2>3. ASSUME part \in KGWModelParts, marked, greedy, c.delta > MaxLogit,
               NEW i \in (n + 1)..Len(t'), i > prompt
        PROVE  is_green_token(c, scorer, Before(t', i, n), t'[i])
    <3>1. c \in KGWConfigs /\ IsGenerator(scorer) /\ n \in Nat
      BY <2>3, ScorerIsGenerator, KGWFields DEF TextInv, KGWParts, KGWModelParts
    <3>2. KGWModel
      BY <1>2, <2>3 DEF Next, KGWControlled, SynthIDText, SynthIDModel, SynthIDControlled, Grows, KGWModelParts
    <3>3. PICK logits \in Logits, k \in {None, 1} :
              Generates(generate_kgw_token_ids(c, scorer, t, logits, marked, greedy, k))
      BY <3>2 DEF KGWModel
    <3>. DEFINE f == bias_logits(c, scorer, t, logits)
                y == Argmax(f)
    <3>4. t' = Append(t, y)
      BY <2>3, <3>3 DEF Generates, generate_kgw_token_ids, sample_from_logits
    <3>5. y \in Vocabulary
      <4>1. \A u \in Vocabulary : f[u] \in Int
        BY <3>1, BiasedInt
      <4>. QED  BY <4>1, HighestFirst
    <3>. HIDE DEF y
    <3>6. Len(t') = Len(t) + 1 /\ t'[Len(t) + 1] = y
      BY <2>2, <3>4, <3>5
    <3>7. CASE i <= Len(t)
      <4>1. i \in (n + 1)..Len(t)
        BY <3>1, <3>6, <3>7
      <4>2. Before(t', i, n) = Before(t, i, n) /\ t'[i] = t[i]
        BY <2>2, <3>1, <3>4, <3>5, <4>1, WindowsKept
      <4>3. is_green_token(c, scorer, Before(t, i, n), t[i])
        BY <2>3, <4>1 DEF MarkedByWindow
      <4>. QED  BY <4>2, <4>3
    <3>8. CASE ~(i <= Len(t))
      <4>1. i = Len(t) + 1 /\ n <= Len(t)
        BY <2>2, <3>1, <3>6, <3>8
      <4>2. Before(t', i, n) = LastOf(t, n)
        BY <2>2, <3>1, <3>4, <3>5, <4>1, WindowsKept
      <4>3. y \in greenlist_ids(c, scorer, t)
        BY <2>2, <2>3, <3>1, <3>3, <4>1, BiasWins DEF y
      <4>4. greenlist_ids(c, scorer, LastOf(t, n)) = greenlist_ids(c, scorer, t)
        BY <2>2, <3>1, <4>1, GreenlistOfWindow
      <4>. QED  BY <3>6, <4>1, <4>2, <4>3, <4>4 DEF is_green_token
    <3>. QED  BY <3>7, <3>8
  <2>4. ASSUME part = "kgw-sim", NEW i \in (prompt + 1)..Len(t')
        PROVE  t'[i] \in select_token(c, o, Before(t', i, n), marked)
    <3>1. c \in KGWConfigs /\ n \in Nat /\ prompt = n
      BY <2>4, KGWFields DEF TextInv, KGWParts, KGWModelParts
    <3>2. KGWControlled
      BY <1>2, <2>4 DEF Next, KGWModel, SynthIDText, SynthIDModel, SynthIDControlled, Grows, KGWModelParts
    <3>3. PICK y : y \in select_token(c, o, LastOf(t, n), marked) /\ t' = Append(t, y)
      BY <3>2 DEF KGWControlled, Generates, generate_controlled_kgw_text
    <3>4. y \in Vocabulary
      BY <3>3 DEF select_token
    <3>5. Len(t') = Len(t) + 1 /\ t'[Len(t) + 1] = y
      BY <2>2, <3>3, <3>4
    <3>6. CASE i <= Len(t)
      <4>1. i \in (n + 1)..Len(t) /\ i \in (prompt + 1)..Len(t)
        BY <2>4, <3>1, <3>5, <3>6
      <4>2. Before(t', i, n) = Before(t, i, n) /\ t'[i] = t[i]
        BY <2>2, <3>1, <3>3, <3>4, <4>1, WindowsKept
      <4>3. t[i] \in select_token(c, o, Before(t, i, n), marked)
        BY <2>4, <4>1 DEF MarkedByWindow
      <4>. QED  BY <4>2, <4>3
    <3>7. CASE ~(i <= Len(t))
      <4>1. i = Len(t) + 1 /\ n <= Len(t)
        BY <2>2, <2>4, <3>1, <3>5, <3>7
      <4>2. Before(t', i, n) = LastOf(t, n)
        BY <2>2, <3>1, <3>3, <3>4, <4>1, WindowsKept
      <4>. QED  BY <3>3, <3>5, <4>1, <4>2
    <3>. QED  BY <3>6, <3>7
  <2>5. part' = part /\ c' = c /\ o' = o /\ marked' = marked /\ greedy' = greedy /\ prompt' = prompt
        /\ scorer' = scorer
    BY <2>1 DEF setting, scorer
  <2>. QED  BY <2>3, <2>4, <2>5, Zenon DEF MarkedByWindow
<1>. QED  BY <1>1, <1>2

LEMMA MarkedRead == TextInv /\ MarkedByWindow => MarkIsRead
<1>. SUFFICES ASSUME TextInv, MarkedByWindow PROVE MarkIsRead
  OBVIOUS
<1>. DEFINE n == c.prefix_length
            mask == score_token_ids(c, scorer, t).mask
            m == ScoreRounds(t, n)
<1>1. ASSUME part \in KGWModelParts, marked, greedy, c.delta > MaxLogit, NEW j \in DOMAIN mask, j + n > prompt
      PROVE  mask[j] # FALSE
  <2>1. /\ t \in Seq(Vocabulary) /\ c \in KGWConfigs /\ n \in Nat
        /\ c.ignore_repeated_ngrams \in BOOLEAN
    BY <1>1, KGWFields DEF TextInv, KGWParts, KGWModelParts
  <2>2. ScoreCounts(score_token_ids(c, scorer, t), m)
    BY <2>1, ScoreCountsAll
  <2>3. mask \in Seq(BOOLEAN \cup {None}) /\ Len(mask) = m /\ m \in Nat
    <3>1. PICK q : /\ \A k \in 0..m : q[k] \in ScoreStates
                   /\ score_token_ids(c, scorer, t) = q[m]
      BY <2>1, ScoreLoop, Zenon
    <3>2. m \in 0..m /\ m \in Nat
      BY <2>1 DEF ScoreRounds
    <3>3. score_token_ids(c, scorer, t) \in ScoreStates
      BY <3>1, <3>2
    <3>. QED  BY <2>2, <3>2, <3>3 DEF ScoreStates, ScoreCounts
  <2>. HIDE DEF mask
  <2>4. j \in 1..m
    BY <2>3
  <2>5. mask[j] = IF j + n \in ScoredUpTo(m) THEN GreenAt(j + n) ELSE None
    BY <2>2, <2>4 DEF ScoreCounts, mask
  <2>6. j + n \in (n + 1)..Len(t)
    BY <2>1, <2>4 DEF ScoreRounds
  <2>7. GreenAt(j + n)
    BY <1>1, <2>6 DEF MarkedByWindow, GreenAt
  <2>8. None # FALSE
    BY DetectionAssumption
  <2>9. CASE j + n \in ScoredUpTo(m)
    <3>1. mask[j] = GreenAt(j + n)
      BY <2>5, <2>9, Zenon
    <3>2. GreenAt(j + n) = TRUE
      BY <2>7, Zenon DEF GreenAt, is_green_token
    <3>. QED  BY <3>1, <3>2, Zenon
  <2>10. CASE j + n \notin ScoredUpTo(m)
    BY <2>5, <2>8, <2>10, Zenon
  <2>. QED  BY <2>9, <2>10
<1>2. ASSUME part = "kgw-sim", NEW i \in (prompt + 1)..Len(t)
      PROVE  SimGreen(c, o, Before(t, i, n), t[i]) # marked =>
                \A x \in Vocabulary : SimGreen(c, o, Before(t, i, n), x) # marked
  <2>1. t[i] \in select_token(c, o, Before(t, i, n), marked)
    BY <1>2 DEF MarkedByWindow
  <2>. DEFINE Green(x) == SimGreen(c, o, Before(t, i, n), x)
              P == {x \in Vocabulary : Green(x) = marked}
  <2>2. t[i] \in IF P = {} THEN Vocabulary ELSE P
    BY <2>1, Zenon DEF select_token
  <2>3. t[i] \in P => Green(t[i]) = marked
    OBVIOUS
  <2>4. ASSUME P = {}, NEW x \in Vocabulary PROVE Green(x) # marked
    <3>1. x \notin P
      BY <2>4, Zenon
    <3>. QED  BY <3>1, Zenon
  <2>. QED  BY <2>2, <2>3, <2>4, Zenon
<1>. QED  BY <1>1, <1>2, Zenon DEF MarkIsRead

\* Where the model wrote greedily under a bias above its logits the detector reads green at
\* every position it scores, and the simulation's own rule is what its detector reads.
THEOREM MarkReadsBack == Spec => []MarkIsRead
<1>. QED  BY InitTextInv, NextTextInv, InitMarked, NextMarked, MarkedRead, PTL DEF Spec

-----------------------------------------------------------------------------
(* The loop of the SynthID repetition mask *)

ContextAt(i) == Before(t, i, c.ngram_len - 1)
HashAt(i) == accumulate_hash(HashIv, ContextAt(i))
NewAt(s, i) == HashAt(i) \notin ToSet(s.history)

\* One round of the loop, at position i, and the recursion over the positions r.
MaskStep(s, i) ==
    IF i < c.ngram_len THEN [s EXCEPT !.mask = Append(@, FALSE)]
    ELSE LET full == Append(s.history, HashAt(i))
         IN  [mask |-> Append(s.mask, NewAt(s, i)),
              history |-> IF Len(full) > c.context_history_size THEN Tail(full) ELSE full]
NoMask == [mask |-> <<>>, history |-> <<>>]
MaskRecursion(g, r) ==
    g = [x \in SUBSET (DOMAIN r) |->
            IF x = {} THEN NoMask ELSE MaskStep(g[x \ {Max(x)}], r[Max(x)])]

MaskStates == [mask : Seq(BOOLEAN), history : Seq(Int)]

LEMMA MaskStepFields ==
    ASSUME NEW s \in MaskStates, NEW i, i < c.ngram_len \/ HashAt(i) \in Int
    PROVE  LET q == MaskStep(s, i)
               full == Append(s.history, HashAt(i))
           IN  /\ q \in MaskStates
               /\ i < c.ngram_len => q.mask = Append(s.mask, FALSE) /\ q.history = s.history
               /\ ~(i < c.ngram_len) =>
                     /\ q.mask = Append(s.mask, NewAt(s, i))
                     /\ q.history = IF Len(full) > c.context_history_size THEN Tail(full) ELSE full
<1>. DEFINE q == MaskStep(s, i)
            full == Append(s.history, HashAt(i))
            kept == IF Len(full) > c.context_history_size THEN Tail(full) ELSE full
            b == NewAt(s, i)
<1>1. /\ s.mask \in Seq(BOOLEAN) /\ s.history \in Seq(Int)
      /\ s = [mask |-> s.mask, history |-> s.history]
  BY DEF MaskStates
<1>2. CASE i < c.ngram_len
  <2>1. q = [s EXCEPT !.mask = Append(s.mask, FALSE)]
    BY <1>2 DEF MaskStep
  <2>2. Append(s.mask, FALSE) \in Seq(BOOLEAN)
    BY <1>1
  <2>. HIDE DEF q
  <2>3. q = [mask |-> Append(s.mask, FALSE), history |-> s.history]
    BY <1>1, <2>1
  <2>4. q \in MaskStates
    BY <1>1, <2>2, <2>3 DEF MaskStates
  <2>5. q.mask = Append(s.mask, FALSE) /\ q.history = s.history
    BY <2>3
  <2>. QED  BY <1>2, <2>4, <2>5, Zenon DEF q
<1>3. CASE ~(i < c.ngram_len)
  <2>1. q = [mask |-> Append(s.mask, b), history |-> kept]
    BY <1>3, Zenon DEF MaskStep
  <2>2. b \in BOOLEAN
    BY DEF NewAt
  <2>3. full \in Seq(Int) /\ full # <<>>
    BY <1>1, <1>3
  <2>. HIDE DEF b, full
  <2>4. kept \in Seq(Int)
    BY <2>3
  <2>5. Append(s.mask, b) \in Seq(BOOLEAN)
    BY <1>1, <2>2
  <2>. HIDE DEF q, kept
  <2>6. q \in MaskStates /\ q.mask = Append(s.mask, b) /\ q.history = kept
    BY <2>1, <2>4, <2>5 DEF MaskStates
  <2>. QED  BY <1>3, <2>6, Zenon DEF q, b, kept, full
<1>. QED  BY <1>2, <1>3

\* The hash of a whole context is a number.
LEMMA ContextTypes ==
    ASSUME t \in Seq(Vocabulary), c.ngram_len \in Nat, c.ngram_len >= 2, NEW i \in c.ngram_len..Len(t)
    PROVE  /\ ContextAt(i) \in [1..(c.ngram_len - 1) -> Vocabulary] /\ HashAt(i) \in Int
           /\ NgramAt(t, i, c.ngram_len) \in Ngrams(c.ngram_len)
<1>. DEFINE n == c.ngram_len - 1
<1>1. n \in Nat /\ i \in (n + 1)..Len(t) /\ c.ngram_len = n + 1 /\ i \in 1..Len(t)
  OBVIOUS
<1>. HIDE DEF n
<1>2. /\ \A k \in (n + 1)..Len(t) :
            /\ Before(t, k, n) \in [1..n -> Vocabulary] /\ Len(Before(t, k, n)) = n
            /\ SubSeq(t, k - n, k) = Append(Before(t, k, n), t[k])
  BY <1>1, WindowAndToken
<1>. DEFINE w == Before(t, i, n)
<1>3. w \in [1..n -> Vocabulary] /\ SubSeq(t, i - n, i) = Append(w, t[i])
  BY <1>1, <1>2
<1>4. ContextAt(i) = w
  BY DEF ContextAt, n
<1>. HIDE DEF w
<1>5. w \in Seq(Vocabulary) /\ Len(w) = n /\ w \in Seq(Int)
  <2>1. Vocabulary \subseteq Int
    BY KGWAssumption DEF Vocabulary
  <2>2. w \in [1..n -> Int]
    BY <1>3, <2>1
  <2>. QED  BY <1>1, <1>3, <2>2
<1>6. HashAt(i) \in Int
  <2>1. HashIv \in Int
    BY SynthIDAssumption
  <2>. QED  BY <1>4, <1>5, <2>1, HashInt DEF HashAt
<1>7. NgramAt(t, i, c.ngram_len) \in Ngrams(c.ngram_len)
  <2>1. i - (n + 1) + 1 = i - n
    BY <1>1
  <2>2. NgramAt(t, i, n + 1) = Append(w, t[i])
    BY <1>3, <2>1 DEF NgramAt
  <2>. DEFINE v == Append(w, t[i])
  <2>3. v \in Seq(Vocabulary) /\ Len(v) = n + 1
    BY <1>1, <1>5
  <2>. HIDE DEF v
  <2>4. v \in [1..(n + 1) -> Vocabulary]
    BY <2>3
  <2>. QED  BY <1>1, <2>2, <2>4 DEF Ngrams, v
<1>. QED  BY <1>3, <1>4, <1>6, <1>7 DEF n

\* The states of the loop: q[k] is the one after k rounds.
LEMMA MaskLoop ==
    ASSUME t \in Seq(Vocabulary), c.ngram_len \in Nat, c.ngram_len >= 2
    PROVE  \E q : /\ q[0] = NoMask
                  /\ \A k \in 0..Len(t) : q[k] \in MaskStates
                  /\ \A k \in 0..(Len(t) - 1) : q[k + 1] = MaskStep(q[k], k + 1)
                  /\ _compute_context_repetition_mask(c, t) = q[Len(t)].mask
<1>. DEFINE m == Len(t)
            r == [i \in DOMAIN t |-> i]
            F == [i \in 1..m |-> [s \in MaskStates |-> MaskStep(s, i)]]
<1>1. m \in Nat /\ DOMAIN t = 1..m
  OBVIOUS
<1>2. DOMAIN r = 1..m /\ \A i \in 1..m : r[i] = i
  BY <1>1
<1>3. _compute_context_repetition_mask(c, t) = (CHOOSE g : MaskRecursion(g, r))[DOMAIN r].mask
  BY Zenon DEF _compute_context_repetition_mask, FoldLeft, MapThenFoldSet, MaskRecursion, MaskStep,
               NoMask, NewAt, HashAt, ContextAt, Max
<1>4. \A i \in 1..m, s \in MaskStates : MaskStep(s, i) \in MaskStates
  <2>. SUFFICES ASSUME NEW i \in 1..m, NEW s \in MaskStates PROVE MaskStep(s, i) \in MaskStates
    OBVIOUS
  <2>1. i < c.ngram_len \/ i \in c.ngram_len..Len(t)
    BY <1>1
  <2>2. i < c.ngram_len \/ HashAt(i) \in Int
    BY <2>1, ContextTypes
  <2>. QED  BY <2>2, MaskStepFields
<1>5. NoMask \in MaskStates
  BY DEF NoMask, MaskStates
<1>. HIDE DEF m, r
<1>6. /\ F \in [1..m -> [MaskStates -> MaskStates]]
      /\ \A i \in 1..m, s \in MaskStates : F[i][s] = MaskStep(s, i)
  BY <1>4
<1>. HIDE DEF F
<1>7. ASSUME NEW y \in SUBSET (1..m), y # {}
      PROVE  Max(y) \in 1..m /\ y \ {Max(y)} \in SUBSET (1..m)
  BY <1>1, <1>7, LastIsMember
<1>8. \E g : MaskRecursion(g, r)
  <2>1. PICK g \in [SUBSET (1..m) -> MaskStates] : Folds(g, m, NoMask, F)
    BY <1>1, <1>5, <1>6, FoldExists, Zenon
  <2>2. \A y \in SUBSET (1..m) :
            g[y] = IF y = {} THEN NoMask ELSE MaskStep(g[y \ {Max(y)}], r[Max(y)])
    <3>. SUFFICES ASSUME NEW y \in SUBSET (1..m), y # {}
                  PROVE  g[y] = MaskStep(g[y \ {Max(y)}], r[Max(y)])
      BY <2>1 DEF Folds
    <3>1. g[y] = F[Max(y)][g[y \ {Max(y)}]]
      BY <2>1 DEF Folds
    <3>. QED  BY <1>2, <1>6, <1>7, <3>1
  <2>3. g = [y \in SUBSET (1..m) |->
                IF y = {} THEN NoMask ELSE MaskStep(g[y \ {Max(y)}], r[Max(y)])]
    BY <2>2
  <2>. QED  BY <1>2, <2>3, Zenon DEF MaskRecursion
<1>. DEFINE h == CHOOSE g : MaskRecursion(g, r)
<1>9. MaskRecursion(h, r)
  BY <1>8, Zenon
<1>. HIDE DEF h
<1>10. Follows(h, m, MaskStates, NoMask, F)
  <2>1. h[{}] = NoMask
    BY <1>9 DEF MaskRecursion
  <2>2. ASSUME NEW y \in SUBSET (1..m), y # {}, h[y \ {Max(y)}] \in MaskStates
        PROVE  h[y] = F[Max(y)][h[y \ {Max(y)}]]
    <3>1. h[y] = MaskStep(h[y \ {Max(y)}], r[Max(y)])
      BY <1>2, <1>9, <2>2 DEF MaskRecursion
    <3>. QED  BY <1>2, <1>6, <1>7, <2>2, <3>1
  <2>. QED  BY <2>1, <2>2 DEF Follows
<1>11. Runs(h, m, MaskStates, NoMask, F)
  BY <1>1, <1>5, <1>6, <1>10, LoopStates, Zenon
<1>12. /\ h[1..0] = NoMask
       /\ \A k \in 0..m : h[1..k] \in MaskStates
       /\ \A k \in 0..(m - 1) : h[1..(k + 1)] = F[k + 1][h[1..k]]
  BY <1>11, Zenon DEF Runs
<1>. DEFINE q == [k \in 0..m |-> h[1..k]]
<1>13. /\ 0 \in 0..m /\ m \in 0..m
       /\ \A k \in 0..(m - 1) : k \in 0..m /\ k + 1 \in 0..m /\ k + 1 \in 1..m
  BY <1>1
<1>14. q[0] = NoMask /\ \A k \in 0..m : q[k] \in MaskStates
  BY <1>12, <1>13
<1>15. \A k \in 0..(m - 1) : q[k + 1] = MaskStep(q[k], k + 1)
  BY <1>6, <1>12, <1>13
<1>16. _compute_context_repetition_mask(c, t) = q[m].mask
  BY <1>2, <1>3, <1>13 DEF h
<1>. HIDE DEF q
<1>. QED  BY <1>14, <1>15, <1>16, Zenon DEF m

\* After k rounds the history holds the hashes of the last contexts, as many as it may.
Kept(k) ==
    IF k < c.ngram_len THEN 0
    ELSE IF k - c.ngram_len + 1 > c.context_history_size THEN c.context_history_size
    ELSE k - c.ngram_len + 1
Fresh(i) ==
    /\ i >= c.ngram_len
    /\ \A j \in c.ngram_len..(i - 1) : i - j <= c.context_history_size => HashAt(j) # HashAt(i)

MaskTells(s, k) ==
    /\ Len(s.history) = Kept(k)
    /\ \A j \in 1..Kept(k) : s.history[j] = HashAt(k - Kept(k) + j)
    /\ Len(s.mask) = k
    /\ \A i \in 1..k : s.mask[i] <=> Fresh(i)

LEMMA MaskTellsStep ==
    ASSUME c.ngram_len \in Nat, c.ngram_len >= 2, c.context_history_size \in Nat,
           NEW k \in Nat, NEW s \in MaskStates, MaskTells(s, k),
           k + 1 >= c.ngram_len => HashAt(k + 1) \in Int
    PROVE  MaskTells(MaskStep(s, k + 1), k + 1)
<1>. DEFINE L == c.ngram_len
            H == c.context_history_size
            i == k + 1
            e == Kept(k)
            q == MaskStep(s, i)
            full == Append(s.history, HashAt(i))
<1>1. /\ L \in Nat /\ L >= 2 /\ H \in Nat /\ i \in Nat /\ i = k + 1
      /\ i < L \/ HashAt(i) \in Int
  OBVIOUS
<1>2. /\ e \in Nat /\ e <= H /\ e <= k
      /\ i < L => e = 0 /\ Kept(k + 1) = 0
      /\ ~(i < L) => Kept(k + 1) = IF e + 1 > H THEN e ELSE e + 1
  BY <1>1 DEF Kept
<1>3. \A p \in L..k : i - p <= H <=> p \in (k - e + 1)..k
  BY <1>1 DEF Kept
<1>4. \A p \in (k - e + 1)..k : p \in L..k
  BY <1>1 DEF Kept
<1>5. /\ s.history \in Seq(Int) /\ Len(s.history) = e
      /\ \A j \in 1..e : s.history[j] = HashAt(k - e + j)
      /\ s.mask \in Seq(BOOLEAN) /\ Len(s.mask) = k
      /\ \A j \in 1..k : s.mask[j] <=> Fresh(j)
  BY DEF MaskStates, MaskTells
<1>6. /\ q \in MaskStates
      /\ i < L => q.mask = Append(s.mask, FALSE) /\ q.history = s.history
      /\ ~(i < L) =>
            /\ q.mask = Append(s.mask, NewAt(s, i))
            /\ q.history = IF Len(full) > H THEN Tail(full) ELSE full
  BY <1>1, MaskStepFields, Zenon
<1>. HIDE DEF q, e, L, H, i
<1>7. /\ Len(q.history) = Kept(k + 1)
      /\ \A j \in 1..Kept(k + 1) : q.history[j] = HashAt((k + 1) - Kept(k + 1) + j)
  <2>1. CASE i < L
    <3>1. Kept(k + 1) = 0 /\ e = 0 /\ q.history = s.history /\ 1..0 = {}
      BY <1>2, <1>6, <2>1
    <3>. QED  BY <1>5, <3>1
  <2>2. CASE ~(i < L)
    <3>1. HashAt(i) \in Int
      BY <1>1, <2>2
    <3>2. /\ full \in Seq(Int) /\ Len(full) = e + 1
          /\ \A j \in 1..e : full[j] = s.history[j]
          /\ full[e + 1] = HashAt(i)
      BY <1>2, <1>5, <3>1
    <3>3. \A j \in 1..(e + 1) : full[j] = HashAt(k - e + j)
      <4>. SUFFICES ASSUME NEW j \in 1..(e + 1) PROVE full[j] = HashAt(k - e + j)
        OBVIOUS
      <4>1. CASE j \in 1..e
        BY <1>5, <3>2, <4>1
      <4>2. CASE j = e + 1
        <5>1. k - e + (e + 1) = i
          BY <1>1, <1>2
        <5>. QED  BY <3>2, <4>2, <5>1
      <4>3. j \in 1..e \/ j = e + 1
        <5>1. e \in Nat
          BY <1>2
        <5>. QED  BY <5>1
      <4>. QED  BY <4>1, <4>2, <4>3, Zenon
    <3>. HIDE DEF full
    <3>4. CASE e + 1 > H
      <4>1. q.history = Tail(full) /\ Kept(k + 1) = e
        BY <1>2, <1>6, <2>2, <3>2, <3>4
      <4>2. Len(Tail(full)) = e /\ \A j \in 1..e : Tail(full)[j] = full[j + 1]
        BY <1>2, <3>2
      <4>3. \A j \in 1..e : j + 1 \in 1..(e + 1) /\ k - e + (j + 1) = (k + 1) - e + j
        BY <1>2
      <4>4. \A j \in 1..e : full[j + 1] = HashAt((k + 1) - e + j)
        <5>. SUFFICES ASSUME NEW j \in 1..e PROVE full[j + 1] = HashAt((k + 1) - e + j)
          OBVIOUS
        <5>1. full[j + 1] = HashAt(k - e + (j + 1))
          BY <3>3, <4>3, Zenon
        <5>. QED  BY <4>3, <5>1, Zenon
      <4>. QED  BY <4>1, <4>2, <4>4
    <3>5. CASE ~(e + 1 > H)
      <4>1. q.history = full /\ Kept(k + 1) = e + 1
        BY <1>2, <1>6, <2>2, <3>2, <3>5
      <4>2. (k + 1) - (e + 1) = k - e
        BY <1>2
      <4>. QED  BY <3>2, <3>3, <4>1, <4>2
    <3>. QED  BY <3>4, <3>5
  <2>. QED  BY <2>1, <2>2
<1>8. ~(i < L) => (NewAt(s, i) <=> Fresh(i))
  <2>. SUFFICES ASSUME ~(i < L) PROVE NewAt(s, i) <=> Fresh(i)
    OBVIOUS
  <2>1. NewAt(s, i) <=> \A j \in 1..e : HashAt(k - e + j) # HashAt(i)
    <3>1. ToSet(s.history) = {s.history[j] : j \in 1..e}
      BY <1>5 DEF ToSet
    <3>2. HashAt(i) \in ToSet(s.history) <=> \E j \in 1..e : HashAt(k - e + j) = HashAt(i)
      BY <1>5, <3>1
    <3>. QED  BY <3>2 DEF NewAt
  <2>2. /\ \A j \in 1..e : k - e + j \in (k - e + 1)..k
        /\ \A p \in (k - e + 1)..k : p - (k - e) \in 1..e /\ k - e + (p - (k - e)) = p
    BY <1>2
  <2>3. NewAt(s, i) <=> \A p \in (k - e + 1)..k : HashAt(p) # HashAt(i)
    <3>1. ASSUME \A j \in 1..e : HashAt(k - e + j) # HashAt(i), NEW p \in (k - e + 1)..k
          PROVE  HashAt(p) # HashAt(i)
      <4>1. HashAt(k - e + (p - (k - e))) # HashAt(i)
        BY <2>2, <3>1
      <4>. QED  BY <2>2, <4>1
    <3>2. ASSUME \A p \in (k - e + 1)..k : HashAt(p) # HashAt(i), NEW j \in 1..e
          PROVE  HashAt(k - e + j) # HashAt(i)
      BY <2>2, <3>2
    <3>. QED  BY <2>1, <3>1, <3>2
  <2>4. i >= L /\ L..(i - 1) = L..k
    BY <1>1
  <2>. QED  BY <1>3, <1>4, <2>3, <2>4 DEF Fresh, L, H
<1>9. i < L => ~Fresh(i)
  BY <1>1 DEF Fresh, L
<1>10. Len(q.mask) = k + 1
  <2>1. Len(Append(s.mask, FALSE)) = k + 1 /\ Len(Append(s.mask, NewAt(s, i))) = k + 1
    BY <1>5
  <2>. QED  BY <1>6, <2>1
<1>11. ASSUME NEW j \in 1..(k + 1) PROVE q.mask[j] <=> Fresh(j)
  <2>1. CASE j \in 1..k
    <3>1. Append(s.mask, FALSE)[j] = s.mask[j] /\ Append(s.mask, NewAt(s, i))[j] = s.mask[j]
      <4>1. NewAt(s, i) \in BOOLEAN /\ FALSE \in BOOLEAN
        BY DEF NewAt
      <4>2. \A b \in BOOLEAN : Append(s.mask, b)[j] = s.mask[j]
        BY <1>5, <2>1
      <4>. QED  BY <4>1, <4>2, Zenon
    <3>2. q.mask[j] = s.mask[j]
      BY <1>6, <3>1
    <3>. QED  BY <1>5, <2>1, <3>2, Zenon
  <2>2. CASE j = k + 1
    <3>1. Append(s.mask, FALSE)[j] = FALSE /\ Append(s.mask, NewAt(s, i))[j] = NewAt(s, i) /\ j = i
      BY <1>1, <1>5, <2>2
    <3>2. CASE i < L
      BY <1>6, <1>9, <3>1, <3>2, Zenon
    <3>3. CASE ~(i < L)
      BY <1>6, <1>8, <3>1, <3>3, Zenon
    <3>. QED  BY <3>2, <3>3
  <2>. QED  BY <2>1, <2>2
<1>. QED  BY <1>7, <1>10, <1>11, Zenon DEF MaskTells, q, i

\* The mask says of every position whether the hash of its context is new.
LEMMA MaskOfText ==
    ASSUME TextInv, part \in SynthIDParts
    PROVE  /\ DOMAIN _compute_context_repetition_mask(c, t) = 1..Len(t)
           /\ \A i \in 1..Len(t) : _compute_context_repetition_mask(c, t)[i] <=> Fresh(i)
<1>. DEFINE m == Len(t)
<1>1. /\ t \in Seq(Vocabulary) /\ c.ngram_len \in Nat /\ c.ngram_len >= 2
      /\ c.context_history_size \in Nat /\ m \in Nat
  BY SynthIDFields DEF TextInv
<1>2. PICK q : /\ q[0] = NoMask
               /\ \A k \in 0..m : q[k] \in MaskStates
               /\ \A k \in 0..(m - 1) : q[k + 1] = MaskStep(q[k], k + 1)
               /\ _compute_context_repetition_mask(c, t) = q[m].mask
  BY <1>1, MaskLoop, Zenon
<1>. DEFINE T == {k \in 0..m : MaskTells(q[k], k)}
<1>3. 0 \in T
  <2>1. 0 \in 0..m /\ Kept(0) = 0 /\ 1..0 = {}
    BY <1>1 DEF Kept
  <2>2. NoMask.history = <<>> /\ NoMask.mask = <<>> /\ Len(<<>>) = 0
    BY DEF NoMask
  <2>3. MaskTells(NoMask, 0)
    BY <2>1, <2>2 DEF MaskTells
  <2>. QED  BY <1>2, <2>1, <2>3
<1>4. ASSUME NEW k \in T, k < m PROVE k + 1 \in T
  <2>1. k \in 0..(m - 1) /\ k \in 0..m /\ k + 1 \in 0..m /\ k \in Nat
    BY <1>1, <1>4
  <2>2. k + 1 >= c.ngram_len => HashAt(k + 1) \in Int
    <3>1. k + 1 >= c.ngram_len => k + 1 \in c.ngram_len..Len(t)
      BY <1>1, <2>1
    <3>. QED  BY <1>1, <3>1, ContextTypes
  <2>3. q[k] \in MaskStates /\ MaskTells(q[k], k)
    BY <1>2, <2>1
  <2>4. MaskTells(MaskStep(q[k], k + 1), k + 1)
    BY <1>1, <2>1, <2>2, <2>3, MaskTellsStep
  <2>. QED  BY <1>2, <2>1, <2>4
<1>5. m \in T
  <2>1. T \in SUBSET (0..m) /\ m \in 0..m
    BY <1>1
  <2>. HIDE DEF T, m
  <2>2. T = 0..m
    BY <1>1, <1>3, <1>4, <2>1, AllSteps, Zenon
  <2>. QED  BY <2>1, <2>2
<1>6. q[m] \in MaskStates /\ MaskTells(q[m], m)
  BY <1>1, <1>2, <1>5
<1>7. q[m].mask \in Seq(BOOLEAN) /\ Len(q[m].mask) = m /\ \A i \in 1..m : q[m].mask[i] <=> Fresh(i)
  BY <1>6, Zenon DEF MaskStates, MaskTells
<1>8. DOMAIN q[m].mask = 1..m
  BY <1>7
<1>. QED  BY <1>2, <1>7, <1>8, Zenon

-----------------------------------------------------------------------------
(* The scores of SynthID *)

\* With weights that are not negative a position's value is between 0 and their sum.
LEMMA ValueBounded ==
    ASSUME NEW m \in Nat, NEW W, W.w \in Seq(Nat), Len(W.w) = m, NEW gs \in [1..m -> 0..1]
    PROVE  /\ Value(W, gs) \in Int /\ 0 <= Value(W, gs) /\ Value(W, gs) <= Total(W.w)
           /\ Total(W.w) \in Nat
<1>. DEFINE w == W.w
            s == [d \in DOMAIN gs |-> gs[d] * w[d]]
<1>1. /\ w \in Seq(Nat) /\ w \in Seq(Int) /\ Len(w) = m /\ DOMAIN gs = 1..m
      /\ \A d \in 1..m : w[d] \in Nat
  <2>1. w \in Seq(Nat) /\ Len(w) = m /\ DOMAIN gs = 1..m
    OBVIOUS
  <2>. HIDE DEF w
  <2>2. w \in [1..m -> Int] /\ \A d \in 1..m : w[d] \in Nat
    BY <2>1
  <2>3. w \in Seq(Int)
    BY <2>2
  <2>. QED  BY <2>1, <2>2, <2>3
<1>. HIDE DEF w
<1>2. \A d \in 1..m : (gs[d] * w[d]) \in Int /\ 0 <= gs[d] * w[d] /\ gs[d] * w[d] <= w[d]
  <2>. SUFFICES ASSUME NEW d \in 1..m
                PROVE  (gs[d] * w[d]) \in Int /\ 0 <= gs[d] * w[d] /\ gs[d] * w[d] <= w[d]
    OBVIOUS
  <2>1. w[d] \in Nat /\ (gs[d] = 0 \/ gs[d] = 1)
    BY <1>1
  <2>2. 0 * w[d] = 0 /\ 1 * w[d] = w[d]
    BY <2>1
  <2>. QED  BY <2>1, <2>2
<1>3. s \in Seq(Int) /\ Len(s) = m /\ \A d \in 1..m : s[d] = gs[d] * w[d]
  BY <1>1, <1>2
<1>4. Value(W, gs) = Total(s)
  BY Zenon DEF Value, w
<1>. HIDE DEF s
<1>5. \A d \in 1..Len(s) : 0 <= s[d] /\ s[d] <= w[d]
  BY <1>2, <1>3
<1>6. 0 <= Total(s) /\ Total(s) <= Total(w) /\ Total(s) \in Int /\ Total(w) \in Int
  BY <1>1, <1>3, <1>5, TotalBounded, TotalInt
<1>7. Total(w) \in Nat
  BY <1>6
<1>. QED  BY <1>4, <1>6, <1>7 DEF w

\* The g-values of every position of the text are bits.
LEMMA GValuesAreBits ==
    ASSUME TextInv, part \in SynthIDParts, NEW i \in 1..Len(t)
    PROVE  _compute_g_values(c, o, t)[i] \in [1..Len(c.keys) -> 0..1]
<1>1. /\ t \in Seq(Vocabulary) /\ c.ngram_len \in Nat /\ c.ngram_len >= 2 /\ Len(c.keys) \in Nat
      /\ DOMAIN c.keys = 1..Len(c.keys)
      /\ o \in [Ngrams(c.ngram_len) -> [1..Len(c.keys) -> 0..1]] /\ DOMAIN t = 1..Len(t)
  BY SynthIDFields DEF TextInv
<1>2. CASE i < c.ngram_len
  BY <1>1, <1>2 DEF _compute_g_values
<1>3. CASE ~(i < c.ngram_len)
  <2>1. i \in c.ngram_len..Len(t)
    BY <1>1, <1>3
  <2>2. NgramAt(t, i, c.ngram_len) \in Ngrams(c.ngram_len)
    BY <1>1, <2>1, ContextTypes
  <2>3. o[NgramAt(t, i, c.ngram_len)] \in [1..Len(c.keys) -> 0..1]
    BY <1>1, <2>2
  <2>. QED  BY <1>1, <1>3, <2>3 DEF _compute_g_values
<1>. QED  BY <1>2, <1>3

\* The weighted mean over the positions of a mask is in [0, 1], when the weights are not
\* negative and their sum is the one it is divided by.
LEMMA ScoreInUnit ==
    ASSUME TextInv, part \in SynthIDParts, NEW mask, DOMAIN mask = 1..Len(t),
           NEW W, W.w \in Seq(Nat), Len(W.w) = Len(c.keys), W.sum = Total(W.w)
    PROVE  LET s == _weighted_mean_score(W, _compute_g_values(c, o, t), mask)
           IN  0 <= s.num /\ s.num <= s.den
<1>. DEFINE gs == _compute_g_values(c, o, t)
            m == Len(t)
            U == Usable(mask)
            v == [i \in DOMAIN mask |-> IF mask[i] THEN Value(W, gs[i]) ELSE 0]
            s == _weighted_mean_score(W, gs, mask)
            b == W.sum
<1>1. m \in Nat /\ Len(c.keys) \in Nat
  BY SynthIDFields DEF TextInv
<1>2. \A i \in 1..m : gs[i] \in [1..Len(c.keys) -> 0..1]
  BY GValuesAreBits
<1>. HIDE DEF gs
<1>3. \A i \in 1..m : Value(W, gs[i]) \in Int /\ 0 <= Value(W, gs[i]) /\ Value(W, gs[i]) <= b
  BY <1>1, <1>2, ValueBounded
<1>4. b \in Nat
  <2>1. [d \in 1..Len(c.keys) |-> 0] \in [1..Len(c.keys) -> 0..1]
    OBVIOUS
  <2>. QED  BY <1>1, <2>1, ValueBounded
<1>5. CASE U = {}
  BY <1>5 DEF _weighted_mean_score
<1>6. CASE U # {}
  <2>1. s = [num |-> Total(v), den |-> b * Cardinality(U)]
    BY <1>6 DEF _weighted_mean_score
  <2>2. /\ v \in Seq(Int) /\ Len(v) = m
        /\ \A i \in 1..m : v[i] = IF mask[i] THEN Value(W, gs[i]) ELSE 0
    BY <1>1, <1>3
  <2>3. U = {i \in 1..m : mask[i]}
    BY DEF Usable
  <2>. HIDE DEF v, U, s, b
  <2>4. /\ U \in SUBSET (1..Len(v))
        /\ \A i \in U : 0 <= v[i] /\ v[i] <= b
        /\ \A i \in (1..Len(v)) \ U : v[i] = 0
    BY <1>3, <2>2, <2>3
  <2>5. 0 <= Total(v) /\ Total(v) <= b * Cardinality(U)
    BY <1>4, <2>2, <2>4, TotalOfUsable
  <2>. QED  BY <2>1, <2>5 DEF s, gs
<1>. QED  BY <1>5, <1>6

\* What the code does not check of a configuration's weights.
NonNegativeWeights == \A x \in SynthIDConfigs : x.weights # None => x.weights \in Seq(Nat)
\* The hash tells the contexts of a configuration apart.
NoCollisions ==
    \A x \in SynthIDConfigs : \A u, w \in [1..(x.ngram_len - 1) -> Vocabulary] :
        accumulate_hash(HashIv, u) = accumulate_hash(HashIv, w) => u = w

\* What holds whatever the hash and the weights are: a context that came back within the
\* history never counts, and the detector's own weights give a score in [0, 1].
RepeatsAreLeftOut ==
    part \in SynthIDParts =>
        LET mask == _compute_context_repetition_mask(c, t)
            s == SynthIDScore(c, o, t)
        IN  /\ \A i \in DOMAIN t : mask[i] =>
                  /\ i >= c.ngram_len
                  /\ \A j \in c.ngram_len..(i - 1) : i - j <= c.context_history_size =>
                        ContextAt(j) # ContextAt(i)
            /\ c.weights = None => 0 <= s.num /\ s.num <= s.den

LEMMA LeftOutRead == TextInv => RepeatsAreLeftOut
<1>. SUFFICES ASSUME TextInv, part \in SynthIDParts PROVE RepeatsAreLeftOut
  BY DEF RepeatsAreLeftOut
<1>. DEFINE mask == _compute_context_repetition_mask(c, t)
            s == SynthIDScore(c, o, t)
<1>1. DOMAIN mask = 1..Len(t) /\ DOMAIN t = 1..Len(t) /\ \A i \in 1..Len(t) : mask[i] <=> Fresh(i)
  BY MaskOfText DEF TextInv
<1>2. ASSUME NEW i \in DOMAIN t, mask[i]
      PROVE  /\ i >= c.ngram_len
             /\ \A j \in c.ngram_len..(i - 1) : i - j <= c.context_history_size =>
                   ContextAt(j) # ContextAt(i)
  <2>1. Fresh(i)
    BY <1>1, <1>2
  <2>. QED  BY <2>1 DEF Fresh, HashAt
<1>3. ASSUME c.weights = None PROVE 0 <= s.num /\ s.num <= s.den
  <2>1. /\ Weights(c) = _default_weights(Len(c.keys)) /\ Len(c.keys) \in Nat /\ Len(c.keys) >= 1
    BY <1>3, SynthIDFields DEF Weights, TextInv
  <2>2. /\ Weights(c).w \in Seq(Nat) /\ Len(Weights(c).w) = Len(c.keys)
        /\ Weights(c).sum = Total(Weights(c).w)
    BY <2>1, DefaultWeights
  <2>. HIDE DEF mask
  <2>3. LET r == _weighted_mean_score(Weights(c), _compute_g_values(c, o, t), mask)
        IN  0 <= r.num /\ r.num <= r.den
    BY <1>1, <2>2, ScoreInUnit
  <2>. QED  BY <2>3 DEF SynthIDScore, mask
<1>. QED  BY <1>2, <1>3, Zenon DEF RepeatsAreLeftOut

LEMMA RepeatsRead ==
    ASSUME NonNegativeWeights, NoCollisions
    PROVE  TextInv => RepeatsDoNotCount
<1>. SUFFICES ASSUME TextInv, part \in SynthIDParts PROVE RepeatsDoNotCount
  BY DEF RepeatsDoNotCount
<1>. DEFINE mask == _compute_context_repetition_mask(c, t)
            n == c.ngram_len
            s == SynthIDScore(c, o, t)
            sim == SimSynthIDScore(c, o, t)
<1>1. /\ DOMAIN mask = 1..Len(t) /\ DOMAIN t = 1..Len(t) /\ t \in Seq(Vocabulary)
      /\ \A i \in 1..Len(t) : mask[i] <=> Fresh(i)
      /\ c \in SynthIDConfigs /\ SynthIDValidate(c) /\ n \in Nat /\ n >= 2
  BY MaskOfText, SynthIDFields DEF TextInv
<1>2. \A i, j \in n..Len(t) : HashAt(j) # HashAt(i) <=> Before(t, j, n - 1) # Before(t, i, n - 1)
  <2>1. \A i \in n..Len(t) : ContextAt(i) \in [1..(n - 1) -> Vocabulary]
    BY <1>1, ContextTypes
  <2>. QED  BY <1>1, <2>1, Zenon DEF NoCollisions, HashAt, ContextAt
<1>3. ASSUME NEW i \in DOMAIN t
      PROVE  mask[i] <=> /\ i >= n
                         /\ \A j \in n..(i - 1) : i - j <= c.context_history_size =>
                               Before(t, j, n - 1) # Before(t, i, n - 1)
  <2>1. mask[i] <=> Fresh(i)
    BY <1>1
  <2>2. i >= n => i \in n..Len(t) /\ \A j \in n..(i - 1) : j \in n..Len(t)
    BY <1>1
  <2>. HIDE DEF mask
  <2>. QED  BY <1>2, <2>1, <2>2 DEF Fresh
<1>4. c.weights = None => 0 <= s.num /\ s.num <= s.den
  BY LeftOutRead DEF RepeatsAreLeftOut
<1>5. 0 <= sim.num /\ sim.num <= sim.den
  <2>. DEFINE W == _normalized_weights(c)
              simMask == _g_values_and_mask(c, t)
  <2>1. Len(c.keys) \in Nat /\ Len(c.keys) >= 1
    BY <1>1, SynthIDFields
  <2>2. W.w \in Seq(Nat) /\ Len(W.w) = Len(c.keys) /\ W.sum = Total(W.w)
    <3>1. CASE c.weights = None
      BY <2>1, <3>1, DefaultWeights DEF _normalized_weights
    <3>2. CASE c.weights # None
      <4>1. c.weights \in Seq(Nat) /\ Len(c.weights) = Len(c.keys)
        BY <1>1, <3>2, SynthIDFields DEF NonNegativeWeights
      <4>. QED  BY <3>2, <4>1 DEF _normalized_weights
    <3>. QED  BY <3>1, <3>2
  <2>3. DOMAIN simMask = 1..Len(t)
    BY <1>1 DEF _g_values_and_mask
  <2>. HIDE DEF W, simMask
  <2>4. LET r == _weighted_mean_score(W, _compute_g_values(c, o, t), simMask)
        IN  0 <= r.num /\ r.num <= r.den
    BY <2>2, <2>3, ScoreInUnit
  <2>. QED  BY <2>4 DEF SimSynthIDScore, W, simMask
<1>. QED  BY <1>3, <1>4, <1>5, Zenon DEF RepeatsDoNotCount

\* A context that came back within the history never counts, whatever the hash, and a
\* score by the detector's own weights is a mean.
THEOREM RepeatsLeftOut == Spec => []RepeatsAreLeftOut
<1>. QED  BY InitTextInv, NextTextInv, LeftOutRead, PTL DEF Spec

\* When the hash tells contexts apart, exactly the contexts that came back are left out, and
\* with weights that are not negative the simulation's score is a mean too.
THEOREM RepeatsCountOnce ==
    ASSUME NonNegativeWeights, NoCollisions
    PROVE  Spec => []RepeatsDoNotCount
<1>. QED  BY InitTextInv, NextTextInv, RepeatsRead, PTL DEF Spec

=============================================================================
