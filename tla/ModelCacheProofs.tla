--------------------------- MODULE ModelCacheProofs ---------------------------
(***************************************************************************)
(* Theorems about ModelCache for any number of threads and keys and any    *)
(* bounds: the cache never grows past its size, never hands out what was   *)
(* loaded for another configuration, and loses no load from its counters.  *)
(***************************************************************************)
EXTENDS ModelCache, TLAPS

\* Instance numbers in use were given out: without it a later load could be
\* confused with one a thread already holds.
Loaded ==
    /\ \A t \in Threads : handle[t] <= Len(madeFor)
    /\ \A k \in Keys : cached[k] <= Len(madeFor)

CacheInv == TypeOK /\ Loaded /\ Bounded /\ RightArtifact /\ Conserved

-----------------------------------------------------------------------------
(* Facts about sequences *)

\* The elements of a sequence after an append.
LEMMA AppendFacts ==
    ASSUME NEW S, NEW s \in Seq(S), NEW e \in S
    PROVE  /\ Append(s, e) \in Seq(S)
           /\ Len(Append(s, e)) = Len(s) + 1
           /\ \A i \in 1..Len(s) : Append(s, e)[i] = s[i]
           /\ Append(s, e)[Len(s) + 1] = e
  OBVIOUS

\* Moving the i-th element to the end keeps the length; the other elements move
\* at most one place towards the front (OrderedDict.move_to_end).
LEMMA MoveToEndFacts ==
    ASSUME NEW S, NEW s \in Seq(S), NEW i \in 1..Len(s), NEW e \in S
    PROVE  LET m == Append(RemoveAt(s, i), e) IN
           /\ m \in Seq(S)
           /\ Len(m) = Len(s)
           /\ \A n \in 1..Len(s) : m[n] = IF n < i THEN s[n]
                                          ELSE IF n < Len(s) THEN s[n + 1] ELSE e
  <1> DEFINE a == SubSeq(s, 1, i - 1)
             b == SubSeq(s, i + 1, Len(s))
             m == Append(a \o b, e)
  <1>1. a \in Seq(S) /\ Len(a) = i - 1 /\ \A n \in 1..(i - 1) : a[n] = s[n]
    OBVIOUS
  <1>2. /\ b \in Seq(S) /\ Len(b) = Len(s) - i
        /\ \A n \in 1..(Len(s) - i) : b[n] = s[n + i]
    OBVIOUS
  <1> HIDE DEF a, b
  <1>3. /\ a \o b \in Seq(S) /\ Len(a \o b) = Len(s) - 1
        /\ \A n \in 1..(Len(s) - 1) : (a \o b)[n] = IF n < i THEN s[n] ELSE s[n + 1]
    <2>1. a \o b \in Seq(S) /\ Len(a \o b) = Len(s) - 1
      BY <1>1, <1>2
    <2>2. ASSUME NEW n \in 1..(Len(s) - 1), n < i
          PROVE  (a \o b)[n] = s[n]
      BY <1>1, <1>2, <2>2
    <2>3. ASSUME NEW n \in 1..(Len(s) - 1), ~(n < i)
          PROVE  (a \o b)[n] = s[n + 1]
      <3>1. (a \o b)[n] = b[n - (i - 1)]
        BY <1>1, <1>2, <2>3
      <3>2. n - (i - 1) \in 1..(Len(s) - i) /\ (n - (i - 1)) + i = n + 1
        BY <2>3
      <3> QED
        BY <1>2, <3>1, <3>2
    <2> QED
      BY <2>1, <2>2, <2>3
  <1>4. RemoveAt(s, i) = a \o b
    BY DEF RemoveAt, a, b
  <1>5. /\ m \in Seq(S) /\ Len(m) = Len(s)
        /\ \A n \in 1..(Len(s) - 1) : m[n] = (a \o b)[n]
        /\ m[Len(s)] = e
    BY <1>3, AppendFacts
  <1> HIDE DEF m
  <1>6. ASSUME NEW n \in 1..Len(s)
        PROVE  m[n] = IF n < i THEN s[n] ELSE IF n < Len(s) THEN s[n + 1] ELSE e
    <2>1. CASE n < Len(s)
      BY <1>3, <1>5, <2>1
    <2>2. CASE n = Len(s)
      BY <1>5, <2>2
    <2> QED
      BY <2>1, <2>2
  <1> QED
    BY <1>4, <1>5, <1>6 DEF m

-----------------------------------------------------------------------------
(* The two steps that change the order *)

\* A hit permutes the entries: none is lost, none is doubled.
LEMMA TouchBounded ==
    ASSUME TypeOK, Bounded, NEW k \in Keys, Touch(k), UNCHANGED cached
    PROVE  entries' \in Seq(Keys) /\ Len(entries') = Len(entries) /\ Bounded' /\ InCache(k)
  <1>1. PICK i \in 1..Len(entries) : entries[i] = k /\ entries' = Append(RemoveAt(entries, i), k)
    BY DEF Touch
  <1>2. entries \in Seq(Keys)
    BY DEF TypeOK
  <1>3. /\ entries' \in Seq(Keys) /\ Len(entries') = Len(entries)
        /\ \A n \in 1..Len(entries) : entries'[n] = IF n < i THEN entries[n]
                                                    ELSE IF n < Len(entries) THEN entries[n + 1] ELSE k
    BY <1>1, <1>2, MoveToEndFacts
  <1> DEFINE from(n) == IF n < i THEN n ELSE IF n < Len(entries) THEN n + 1 ELSE i
  <1>4. Len(entries) \in Nat
    BY <1>2
  <1>5. \A n \in 1..Len(entries) : from(n) \in 1..Len(entries) /\ entries'[n] = entries[from(n)]
    BY <1>1, <1>3, <1>4
  <1>6. \A m, n \in 1..Len(entries) : from(m) = from(n) => m = n
    BY <1>4
  <1>7. \A n \in 1..Len(entries) : \E m \in 1..Len(entries) : from(m) = n
    <2> TAKE n \in 1..Len(entries)
    <2>1. CASE n < i
      BY <1>4, <2>1
    <2>2. CASE n = i
      <3> WITNESS Len(entries) \in 1..Len(entries)
      <3> QED
        BY <1>4, <2>2
    <2>3. CASE n > i
      <3>1. n - 1 \in 1..Len(entries) /\ from(n - 1) = n
        BY <1>4, <2>3
      <3> QED
        BY <3>1
    <2> QED
      BY <1>4, <2>1, <2>2, <2>3
  <1> HIDE DEF from
  <1>8. \A j \in Keys : InCache(j)' <=> InCache(j)
    BY <1>3, <1>5, <1>7 DEF InCache
  <1>9. \A m, n \in 1..Len(entries) : entries'[m] = entries'[n] => m = n
    BY <1>5, <1>6 DEF Bounded
  <1> QED
    BY <1>1, <1>3, <1>8, <1>9 DEF Bounded, InCache

\* The three outcomes of a store under a bound that held before it: the key was
\* there again, there was room, or exactly the oldest entry leaves.
LEMMA StoreCases ==
    ASSUME TypeOK, Bounded, NEW t \in Threads, LoadReturns(t), MaxSize > 0
    PROVE  \/ /\ InCache(want[t])
              /\ entries' = entries /\ evictions' = evictions /\ gone' = gone + 1
              /\ cached' = [j \in Keys |-> IF j = want[t] THEN handle[t] ELSE cached[j]]
           \/ /\ ~InCache(want[t]) /\ Len(entries) < MaxSize
              /\ entries' = Append(entries, want[t]) /\ evictions' = evictions /\ gone' = gone
              /\ cached' = [j \in Keys |-> IF j = want[t] THEN handle[t] ELSE cached[j]]
           \/ /\ ~InCache(want[t]) /\ Len(entries) = MaxSize
              /\ entries' = Append(Tail(entries), want[t])
              /\ evictions' = evictions + 1 /\ gone' = gone
              /\ cached' = [j \in Keys |-> IF j = entries[1] THEN None
                                           ELSE IF j = want[t] THEN handle[t] ELSE cached[j]]
  <1> DEFINE k == want[t]
             all == Stored(k)
             out == Overflow(all)
  <1>1. /\ entries' = SubSeq(all, out + 1, Len(all))
        /\ cached' = [j \in Keys |->
                        IF \E i \in 1..out : all[i] = j THEN None
                        ELSE IF j = k THEN handle[t] ELSE cached[j]]
        /\ evictions' = evictions + out
        /\ gone' = IF InCache(k) THEN gone + 1 ELSE gone
    BY CacheAssumption DEF LoadReturns
  <1>2. /\ entries \in Seq(Keys) /\ k \in Keys /\ MaxSize \in Nat
        /\ Len(entries) \in Nat /\ Len(entries) <= MaxSize
        /\ evictions \in Nat
    BY CacheAssumption DEF TypeOK, Bounded
  <1>3. CASE InCache(k)
    <2>1. all = entries /\ out = 0
      BY <1>2, <1>3 DEF Stored, Overflow
    <2>2. SubSeq(entries, 1, Len(entries)) = entries
      BY <1>2
    <2> QED
      BY <1>1, <1>2, <1>3, <2>1, <2>2
  <1>4. CASE ~InCache(k)
    <2>1. all = Append(entries, k) /\ Len(all) = Len(entries) + 1 /\ all \in Seq(Keys)
      BY <1>2, <1>4, AppendFacts DEF Stored
    <2>2. CASE Len(entries) < MaxSize
      <3>1. out = 0
        BY <1>2, <2>1, <2>2 DEF Overflow
      <3>2. SubSeq(all, 1, Len(all)) = all
        BY <2>1
      <3> QED
        BY <1>1, <1>2, <1>4, <2>1, <2>2, <3>1, <3>2
    <2>3. CASE Len(entries) = MaxSize
      <3>1. out = 1
        BY <1>2, <2>1, <2>3 DEF Overflow
      <3>2. SubSeq(all, 2, Len(all)) = Append(Tail(entries), k)
        BY <1>2, <2>1, <2>3
      <3>3. all[1] = entries[1]
        BY <1>2, <2>1, <2>3
      <3> HIDE DEF all
      <3>4. /\ entries' = Append(Tail(entries), k) /\ evictions' = evictions + 1 /\ gone' = gone
        BY <1>1, <1>4, <3>1, <3>2
      <3>5. \A j : (\E i \in 1..out : all[i] = j) <=> j = entries[1]
        BY <3>1, <3>3
      <3> QED
        BY <1>1, <1>4, <2>3, <3>4, <3>5
    <2> QED
      BY <1>2, <2>2, <2>3
  <1> QED
    BY <1>3, <1>4

-----------------------------------------------------------------------------
(* The invariant *)

LEMMA InitCacheInv == Init => CacheInv
  <1> SUFFICES ASSUME Init PROVE CacheInv
    OBVIOUS
  <1>1. TypeOK
    BY CacheAssumption DEF Init, TypeOK, None
  <1>2. Loaded
    BY DEF Init, Loaded, None
  <1>3. Bounded
    BY CacheAssumption DEF Init, Bounded, InCache, None
  <1>4. RightArtifact /\ Conserved
    BY DEF Init, RightArtifact, Conserved, None
  <1> QED
    BY <1>1, <1>2, <1>3, <1>4 DEF CacheInv

\* A step that touches neither the store nor the list of loads, and gives a
\* thread at most the instance cached for its key.
LEMMA HitInv ==
    ASSUME CacheInv, NEW t \in Threads, NEW k \in Keys, Hit(t, k)
    PROVE  CacheInv'
  <1> USE DEF CacheInv
  <1>1. /\ entries' \in Seq(Keys) /\ Len(entries') = Len(entries)
        /\ Bounded' /\ InCache(k)
    BY TouchBounded DEF Hit
  <1>2. cached[k] # None /\ cached[k] \in Instances
    BY <1>1 DEF Bounded, TypeOK
  <1>3. TypeOK'
    BY <1>1, <1>2 DEF TypeOK, Hit, None
  <1>4. Loaded'
    BY DEF Loaded, TypeOK, Hit
  <1>5. RightArtifact'
    BY <1>2 DEF RightArtifact, TypeOK, Hit
  <1>6. Conserved'
    BY <1>1 DEF Conserved, Hit
  <1> QED
    BY <1>1, <1>3, <1>4, <1>5, <1>6

LEMMA MissInv ==
    ASSUME CacheInv, NEW t \in Threads, NEW k \in Keys, Miss(t, k)
    PROVE  CacheInv'
  <1> USE DEF CacheInv
  <1>1. /\ madeFor' \in Seq(Keys) /\ Len(madeFor') = Len(madeFor) + 1
        /\ \A i \in 1..Len(madeFor) : madeFor'[i] = madeFor[i]
        /\ madeFor'[Len(madeFor) + 1] = k
        /\ Len(madeFor) \in Nat /\ Len(madeFor) + 1 <= MaxLoads
    <2>1. madeFor \in Seq(Keys) /\ madeFor' = Append(madeFor, k) /\ Len(madeFor) < MaxLoads
      BY DEF TypeOK, Miss
    <2> QED
      BY <2>1, AppendFacts, CacheAssumption
  <1>2. Len(madeFor) + 1 \in Instances /\ Len(madeFor) + 1 # None
    BY <1>1, CacheAssumption DEF Instances, None
  <1>3. TypeOK'
    BY <1>1, <1>2 DEF TypeOK, Miss
  <1>4. /\ \A u \in Threads : handle[u] \in 0..Len(madeFor)
        /\ \A j \in Keys : cached[j] \in 0..Len(madeFor)
    BY <1>1, CacheAssumption DEF TypeOK, Loaded, Instances, None
  <1>5. Loaded'
    BY <1>1, <1>4 DEF Loaded, TypeOK, Miss
  <1>6. RightArtifact'
    <2>1. ASSUME NEW u \in Threads, handle'[u] # None
          PROVE  madeFor'[handle'[u]] = want'[u]
      <3>1. CASE u = t
        BY <1>1, <3>1 DEF TypeOK, Miss
      <3>2. CASE u # t
        <4>1. handle'[u] = handle[u] /\ want'[u] = want[u]
          BY <3>2 DEF TypeOK, Miss
        <4>2. handle[u] \in 1..Len(madeFor)
          BY <1>1, <1>4, <2>1, <4>1 DEF None
        <4> QED
          BY <1>1, <2>1, <4>1, <4>2 DEF RightArtifact
      <3> QED
        BY <3>1, <3>2
    <2>2. ASSUME NEW j \in Keys, cached'[j] # None
          PROVE  madeFor'[cached'[j]] = j
      <3>1. cached'[j] = cached[j]
        BY DEF Miss
      <3>2. cached[j] \in 1..Len(madeFor)
        BY <1>1, <1>4, <2>2, <3>1 DEF None
      <3> QED
        BY <1>1, <2>2, <3>1, <3>2 DEF RightArtifact
    <2> QED
      BY <2>1, <2>2 DEF RightArtifact
  <1>7. Bounded' /\ Conserved'
    BY DEF Bounded, InCache, Conserved, Miss
  <1> QED
    BY <1>3, <1>5, <1>6, <1>7

LEMMA StoreInv ==
    ASSUME CacheInv, NEW t \in Threads, LoadReturns(t)
    PROVE  CacheInv'
  <1> USE DEF CacheInv
  <1>1. /\ pc[t] = "loading" /\ handle[t] \in Instances /\ handle[t] # None
        /\ want[t] \in Keys /\ madeFor[handle[t]] = want[t]
        /\ loads \in Nat /\ evictions \in Nat /\ gone \in Nat
        /\ entries \in Seq(Keys) /\ Len(entries) \in Nat
        /\ MaxSize \in Nat
    BY CacheAssumption DEF TypeOK, RightArtifact, LoadReturns, Instances, None
  <1>2. /\ UNCHANGED <<madeFor, want, handle>>
        /\ pc' = [pc EXCEPT ![t] = "using"] /\ loads' = loads + 1
    BY DEF LoadReturns
  <1>3. CASE MaxSize = 0
    <2>1. UNCHANGED <<entries, cached, evictions, gone>>
      BY <1>3 DEF LoadReturns
    <2> QED
      BY <1>1, <1>2, <1>3, <2>1
      DEF TypeOK, Loaded, Bounded, InCache, RightArtifact, Conserved
  <1>4. CASE MaxSize > 0
    <2>1. CASE /\ InCache(want[t])
               /\ entries' = entries /\ evictions' = evictions /\ gone' = gone + 1
               /\ cached' = [j \in Keys |-> IF j = want[t] THEN handle[t] ELSE cached[j]]
      <3>1. TypeOK'
        BY <1>1, <1>2, <2>1 DEF TypeOK
      <3>2. Loaded' /\ RightArtifact'
        BY <1>1, <1>2, <2>1 DEF TypeOK, Loaded, RightArtifact
      <3>3. Bounded' /\ Conserved'
        BY <1>1, <1>2, <1>4, <2>1 DEF Bounded, InCache, Conserved
      <3> QED
        BY <3>1, <3>2, <3>3
    <2>2. CASE /\ ~InCache(want[t]) /\ Len(entries) < MaxSize
               /\ entries' = Append(entries, want[t]) /\ evictions' = evictions /\ gone' = gone
               /\ cached' = [j \in Keys |-> IF j = want[t] THEN handle[t] ELSE cached[j]]
      <3>1. /\ entries' \in Seq(Keys) /\ Len(entries') = Len(entries) + 1
            /\ \A i \in 1..Len(entries) : entries'[i] = entries[i]
            /\ entries'[Len(entries) + 1] = want[t]
        BY <1>1, <2>2, AppendFacts
      <3>2. TypeOK'
        BY <1>1, <1>2, <2>2, <3>1 DEF TypeOK
      <3>3. Loaded' /\ RightArtifact'
        BY <1>1, <1>2, <2>2 DEF TypeOK, Loaded, RightArtifact
      <3>4. \A i \in 1..Len(entries) : entries'[i] # want[t]
        BY <2>2, <3>1 DEF InCache
      <3>5. \A j \in Keys : InCache(j)' <=> InCache(j) \/ j = want[t]
        BY <1>1, <3>1 DEF InCache
      <3>6. Bounded'
        BY <1>1, <1>4, <2>2, <3>1, <3>4, <3>5 DEF Bounded
      <3>7. Conserved'
        BY <1>1, <1>2, <1>4, <2>2, <3>1 DEF Conserved
      <3> QED
        BY <3>2, <3>3, <3>6, <3>7
    <2>3. CASE /\ ~InCache(want[t]) /\ Len(entries) = MaxSize
               /\ entries' = Append(Tail(entries), want[t])
               /\ evictions' = evictions + 1 /\ gone' = gone
               /\ cached' = [j \in Keys |-> IF j = entries[1] THEN None
                                            ELSE IF j = want[t] THEN handle[t] ELSE cached[j]]
      <3> DEFINE n == Len(entries)
      <3>1. /\ n >= 1 /\ Tail(entries) \in Seq(Keys) /\ Len(Tail(entries)) = n - 1
            /\ \A i \in 1..(n - 1) : Tail(entries)[i] = entries[i + 1]
        BY <1>1, <1>4, <2>3
      <3>2. /\ entries' \in Seq(Keys) /\ Len(entries') = n
            /\ \A i \in 1..(n - 1) : entries'[i] = entries[i + 1]
            /\ entries'[n] = want[t]
        BY <1>1, <2>3, <3>1, AppendFacts
      <3>3. \A i \in 1..n : entries[i] # want[t]
        BY <2>3 DEF InCache
      <3>4. \A i \in 2..n : entries[i] # entries[1]
        BY <1>1, <3>1 DEF Bounded
      <3>5. \A j \in Keys : InCache(j)' <=> (InCache(j) /\ j # entries[1]) \/ j = want[t]
        <4> TAKE j \in Keys
        <4>1. ASSUME InCache(j), j # entries[1] PROVE InCache(j)'
          <5>1. PICK i \in 1..n : entries[i] = j
            BY <4>1 DEF InCache
          <5>2. i - 1 \in 1..(n - 1) /\ entries'[i - 1] = j
            BY <1>1, <3>2, <4>1, <5>1
          <5> QED
            BY <1>1, <3>2, <5>2 DEF InCache
        <4>2. ASSUME j = want[t] PROVE InCache(j)'
          BY <1>1, <3>1, <3>2, <4>2 DEF InCache
        <4>3. ASSUME InCache(j)', j # want[t] PROVE InCache(j) /\ j # entries[1]
          <5>1. PICK i \in 1..n : entries'[i] = j
            BY <3>2, <4>3 DEF InCache
          <5>2. i \in 1..(n - 1) /\ i + 1 \in 2..n /\ entries[i + 1] = j
            BY <1>1, <3>2, <4>3, <5>1
          <5> QED
            BY <1>1, <3>4, <5>2 DEF InCache
        <4> QED
          BY <4>1, <4>2, <4>3
      <3>6. want[t] # entries[1]
        BY <3>1, <3>3
      <3>7. TypeOK'
        BY <1>1, <1>2, <2>3, <3>2 DEF TypeOK
      <3>8. Loaded' /\ RightArtifact'
        BY <1>1, <1>2, <2>3, <3>6, CacheAssumption DEF TypeOK, Loaded, RightArtifact, None, Instances
      <3>9. \A i, j \in 1..n : entries'[i] = entries'[j] => i = j
        <4> TAKE i, j \in 1..n
        <4>1. CASE i < n /\ j < n
          <5>1. /\ i + 1 \in 1..n /\ j + 1 \in 1..n
                /\ entries'[i] = entries[i + 1] /\ entries'[j] = entries[j + 1]
            BY <1>1, <3>2, <4>1
          <5>2. entries[i + 1] = entries[j + 1] => i + 1 = j + 1
            BY <5>1 DEF Bounded
          <5>3. i \in Int /\ j \in Int
            BY <1>1
          <5> QED
            BY <5>1, <5>2, <5>3
        <4>2. CASE i = n /\ j < n
          BY <1>1, <3>2, <3>3, <4>2
        <4>3. CASE i < n /\ j = n
          BY <1>1, <3>2, <3>3, <4>3
        <4> QED
          BY <1>1, <4>1, <4>2, <4>3
      <3>10. Bounded'
        <4>1. Len(entries') <= MaxSize
          BY <1>1, <2>3, <3>2
        <4>2. \A j \in Keys : InCache(j)' <=> cached'[j] # None
          BY <1>1, <2>3, <3>5, <3>6 DEF Bounded
        <4> QED
          BY <3>2, <3>9, <4>1, <4>2 DEF Bounded
      <3>11. Conserved'
        BY <1>1, <1>2, <1>4, <2>3, <3>2 DEF Conserved
      <3> QED
        BY <3>7, <3>8, <3>10, <3>11
    <2> QED
      BY <1>4, <2>1, <2>2, <2>3, StoreCases
  <1> QED
    BY <1>1, <1>3, <1>4

LEMMA ClearInv ==
    ASSUME CacheInv, clear
    PROVE  CacheInv'
  <1> USE DEF CacheInv
  <1>1. /\ entries' = <<>> /\ cached' = [k \in Keys |-> None]
        /\ gone' = gone + Len(entries)
        /\ UNCHANGED <<madeFor, pc, want, handle, loads, evictions>>
        /\ Len(entries) \in Nat /\ loads \in Nat /\ evictions \in Nat /\ gone \in Nat
    BY DEF clear, threadVars, TypeOK
  <1>2. TypeOK'
    BY <1>1 DEF TypeOK
  <1>3. Loaded' /\ RightArtifact'
    BY <1>1 DEF Loaded, RightArtifact, None, TypeOK
  <1>4. Bounded'
    BY <1>1, CacheAssumption DEF Bounded, InCache
  <1>5. Conserved'
    BY <1>1 DEF Conserved
  <1> QED
    BY <1>2, <1>3, <1>4, <1>5

\* The steps of a thread that leave the cache alone.
LEMMA ThreadInv ==
    ASSUME CacheInv, NEW t \in Threads,
           LoadRaises(t) \/ Infer(t) \/ InferReturns(t) \/ Drop(t)
    PROVE  CacheInv'
  <1> USE DEF CacheInv
  <1>1. /\ UNCHANGED <<entries, cached, madeFor, want, loads, evictions, gone>>
        /\ \/ pc[t] \in {"using", "inferring"} /\ handle' = handle
              /\ \E l \in {"using", "inferring"} : pc' = [pc EXCEPT ![t] = l]
           \/ handle' = [handle EXCEPT ![t] = None] /\ pc' = [pc EXCEPT ![t] = "idle"]
    BY DEF LoadRaises, Infer, InferReturns, Drop
  <1>2. TypeOK'
    BY <1>1 DEF TypeOK, None
  <1>3. Loaded'
    BY <1>1 DEF Loaded, None, TypeOK
  <1>4. RightArtifact'
    BY <1>1 DEF RightArtifact, TypeOK
  <1>5. Bounded' /\ Conserved'
    BY <1>1 DEF Bounded, InCache, Conserved
  <1> QED
    BY <1>2, <1>3, <1>4, <1>5

LEMMA StepCacheInv == CacheInv /\ [Next]_vars => CacheInv'
  <1> SUFFICES ASSUME CacheInv, [Next]_vars PROVE CacheInv'
    OBVIOUS
  <1>1. CASE UNCHANGED vars
    BY <1>1 DEF CacheInv, TypeOK, Loaded, Bounded, InCache, RightArtifact, Conserved,
                vars, threadVars
  <1>2. ASSUME NEW t \in Threads, NEW k \in Keys, Hit(t, k) PROVE CacheInv'
    BY <1>2, HitInv
  <1>3. ASSUME NEW t \in Threads, NEW k \in Keys, Miss(t, k) PROVE CacheInv'
    BY <1>3, MissInv
  <1>4. ASSUME NEW t \in Threads, LoadReturns(t) PROVE CacheInv'
    BY <1>4, StoreInv
  <1>5. ASSUME NEW t \in Threads,
               LoadRaises(t) \/ Infer(t) \/ InferReturns(t) \/ Drop(t)
        PROVE  CacheInv'
    BY <1>5, ThreadInv
  <1>6. CASE clear
    BY <1>6, ClearInv
  <1> QED
    BY <1>1, <1>2, <1>3, <1>4, <1>5, <1>6 DEF Next

LEMMA CacheInvAlways == Spec => []CacheInv
  BY InitCacheInv, StepCacheInv, PTL DEF Spec

-----------------------------------------------------------------------------
(* Theorems *)

\* Every variable keeps its type, for any threads, keys and bounds.
THEOREM CacheTypeCorrect == Spec => []TypeOK
  <1>1. CacheInv => TypeOK
    BY DEF CacheInv
  <1> QED
    BY <1>1, CacheInvAlways, PTL

\* ResourceCache never holds more than maxsize entries or one key twice, however
\* many threads store at once.
THEOREM BoundedAlways == Spec => []Bounded
  <1>1. CacheInv => Bounded
    BY DEF CacheInv
  <1> QED
    BY <1>1, CacheInvAlways, PTL

\* No configuration ever gets the artifact of another one.
THEOREM RightArtifactAlways == Spec => []RightArtifact
  <1>1. CacheInv => RightArtifact
    BY DEF CacheInv
  <1> QED
    BY <1>1, CacheInvAlways, PTL

\* The counters account for every finished load.
THEOREM ConservedAlways == Spec => []Conserved
  <1>1. CacheInv => Conserved
    BY DEF CacheInv
  <1> QED
    BY <1>1, CacheInvAlways, PTL

\* The eviction that follows a store never throws out what was stored.
THEOREM StoredStaysAlways == Spec => StoredStays
  <1>1. CacheInv /\ [Next]_vars =>
          [\A t \in Threads : pc[t] = "loading" /\ pc'[t] = "using" /\ MaxSize > 0 =>
              cached'[want[t]] = handle[t]]_vars
    <2> SUFFICES ASSUME CacheInv, [Next]_vars, NEW t \in Threads,
                        pc[t] = "loading", pc'[t] = "using", MaxSize > 0
                 PROVE  cached'[want[t]] = handle[t]
      OBVIOUS
    <2>1. LoadReturns(t)
      <3>1. pc \in [Threads -> {"idle", "loading", "using", "inferring"}]
        BY DEF CacheInv, TypeOK
      <3>2. ~UNCHANGED vars /\ ~clear
        BY DEF vars, threadVars, clear
      <3>3. \A u \in Threads, k \in Keys : ~Hit(u, k) /\ ~Miss(u, k)
        BY <3>1 DEF Hit, Miss
      <3>4. \A u \in Threads : ~LoadRaises(u) /\ ~Infer(u) /\ ~InferReturns(u) /\ ~Drop(u)
        BY <3>1 DEF LoadRaises, Infer, InferReturns, Drop
      <3>5. \A u \in Threads : LoadReturns(u) => u = t
        BY <3>1 DEF LoadReturns
      <3> QED
        BY <3>2, <3>3, <3>4, <3>5 DEF Next
    <2>2. want[t] \in Keys /\ entries \in Seq(Keys) /\ MaxSize \in Nat
      BY CacheAssumption DEF CacheInv, TypeOK
    <2>3. ~InCache(want[t]) /\ Len(entries) = MaxSize => want[t] # entries[1]
      BY <2>2 DEF InCache
    <2> QED
      BY <2>1, <2>2, <2>3, StoreCases DEF CacheInv
  <1> QED
    BY <1>1, CacheInvAlways, PTL DEF Spec, StoredStays
=============================================================================
