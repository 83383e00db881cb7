------------------------------ MODULE ModelCache ------------------------------
(***************************************************************************)
(* The process-wide cache of models and tokenizers: ResourceCache, an      *)
(* OrderedDict bounded by LRU eviction, and the _SharedModel handles it     *)
(* returns, whose inference is serialized by a lock of the instance.        *)
(*                                                                         *)
(* The cache lock is held for the lookup and for the store, not for the     *)
(* load between them: each of the two is one step, and any number of        *)
(* threads may be loading, the same key included.                           *)
(***************************************************************************)
EXTENDS Naturals, Sequences, SequencesExt

CONSTANTS
    Threads,   \* request and worker threads
    Keys,      \* cache keys: fingerprints of the configurations
    MaxSize,   \* PROVENANCE_MODEL_CACHE_SIZE; 0 disables the cache
    MaxLoads   \* bound: loads started

ASSUME CacheAssumption == MaxSize \in Nat /\ MaxLoads \in Nat

\* The artifacts that come into being, numbered in the order their loads start.
Instances == 1..MaxLoads
None == 0

VARIABLES
    entries,    \* the OrderedDict's keys, least recently used first
    cached,     \* the OrderedDict's values
    madeFor,    \* the key each instance was loaded for
    pc, want,   \* thread: what it does, and for which key
    handle,     \* thread: the instance it loads or uses
    loads, evictions,  \* counters of stats(); the misses are Len(madeFor)
    gone        \* history: entries replaced by a second load or cleared

threadVars == <<pc, want, handle>>
vars == <<entries, cached, madeFor, threadVars, loads, evictions, gone>>

InCache(k) == \E i \in 1..Len(entries) : entries[i] = k

Init ==
    /\ entries = <<>>
    /\ cached = [k \in Keys |-> None]
    /\ madeFor = <<>>
    /\ pc = [t \in Threads |-> "idle"]
    /\ want \in [Threads -> Keys]
    /\ handle = [t \in Threads |-> None]
    /\ loads = 0
    /\ evictions = 0
    /\ gone = 0

-----------------------------------------------------------------------------
(* get_or_load *)

\* move_to_end of a key that is there.
Touch(k) ==
    \E i \in 1..Len(entries) :
        /\ entries[i] = k
        /\ entries' = Append(RemoveAt(entries, i), k)

\* Mutant: the hit returns the most recently used value, not the key's.
MutHitLast(t, k) ==
    /\ pc[t] = "idle"
    /\ MaxSize > 0
    /\ Touch(k)
    /\ pc' = [pc EXCEPT ![t] = "using"]
    /\ want' = [want EXCEPT ![t] = k]
    /\ handle' = [handle EXCEPT ![t] = cached[entries[Len(entries)]]]
    /\ UNCHANGED <<cached, madeFor, loads, evictions, gone>>

\* The lookup finds the key and moves it to the end.
Hit(t, k) ==
    /\ pc[t] = "idle"
    /\ MaxSize > 0
    /\ Touch(k)
    /\ pc' = [pc EXCEPT ![t] = "using"]
    /\ want' = [want EXCEPT ![t] = k]
    /\ handle' = [handle EXCEPT ![t] = cached[k]]
    /\ UNCHANGED <<cached, madeFor, loads, evictions, gone>>

\* The lookup misses: the thread leaves the lock and loads an instance.
Miss(t, k) ==
    /\ pc[t] = "idle"
    /\ MaxSize = 0 \/ ~InCache(k)
    /\ Len(madeFor) < MaxLoads
    /\ madeFor' = Append(madeFor, k)
    /\ pc' = [pc EXCEPT ![t] = "loading"]
    /\ want' = [want EXCEPT ![t] = k]
    /\ handle' = [handle EXCEPT ![t] = Len(madeFor) + 1]
    /\ UNCHANGED <<entries, cached, loads, evictions, gone>>

LoadRaises(t) ==
    /\ pc[t] = "loading"
    /\ pc' = [pc EXCEPT ![t] = "idle"]
    /\ handle' = [handle EXCEPT ![t] = None]
    /\ UNCHANGED <<entries, cached, madeFor, want, loads, evictions, gone>>

\* Mutant: a key that is already there is appended again.
MutStoredTwice(k) == Append(entries, k)

\* Assigning an existing key of an OrderedDict keeps its place in the order.
Stored(k) == IF InCache(k) THEN entries ELSE Append(entries, k)

\* The loop pops from the front until the size is within the bound.
Overflow(s) == IF Len(s) > MaxSize THEN Len(s) - MaxSize ELSE 0

\* Mutant: the newest entry is popped (popitem(last=True)).
MutEvictsNewest(t) ==
    /\ pc[t] = "loading"
    /\ pc' = [pc EXCEPT ![t] = "using"]
    /\ loads' = loads + 1
    /\ IF MaxSize = 0
       THEN UNCHANGED <<entries, cached, evictions, gone>>
       ELSE LET k == want[t]
                all == Stored(k)
                keep == Len(all) - Overflow(all)
            IN /\ entries' = SubSeq(all, 1, keep)
               /\ cached' = [j \in Keys |->
                                IF \E i \in keep + 1 .. Len(all) : all[i] = j THEN None
                                ELSE IF j = k THEN handle[t] ELSE cached[j]]
               /\ evictions' = evictions + Overflow(all)
               /\ gone' = IF InCache(k) THEN gone + 1 ELSE gone
    /\ UNCHANGED <<madeFor, want, handle>>

\* Mutant: an eviction is counted for every store.
MutCountsStores(t) ==
    /\ pc[t] = "loading"
    /\ pc' = [pc EXCEPT ![t] = "using"]
    /\ loads' = loads + 1
    /\ IF MaxSize = 0
       THEN UNCHANGED <<entries, cached, evictions, gone>>
       ELSE LET k == want[t]
                all == Stored(k)
                out == Overflow(all)
            IN /\ entries' = SubSeq(all, out + 1, Len(all))
               /\ cached' = [j \in Keys |->
                                IF \E i \in 1..out : all[i] = j THEN None
                                ELSE IF j = k THEN handle[t] ELSE cached[j]]
               /\ evictions' = evictions + 1
               /\ gone' = IF InCache(k) THEN gone + 1 ELSE gone
    /\ UNCHANGED <<madeFor, want, handle>>

\* The store of a loaded instance, with the eviction loop under the same lock.
LoadReturns(t) ==
    /\ pc[t] = "loading"
    /\ pc' = [pc EXCEPT ![t] = "using"]
    /\ loads' = loads + 1
    /\ IF MaxSize = 0
       THEN UNCHANGED <<entries, cached, evictions, gone>>
       ELSE LET k == want[t]
                all == Stored(k)
                out == Overflow(all)
            IN /\ entries' = SubSeq(all, out + 1, Len(all))
               /\ cached' = [j \in Keys |->
                                IF \E i \in 1..out : all[i] = j THEN None
                                ELSE IF j = k THEN handle[t] ELSE cached[j]]
               /\ evictions' = evictions + out
               /\ gone' = IF InCache(k) THEN gone + 1 ELSE gone
    /\ UNCHANGED <<madeFor, want, handle>>

-----------------------------------------------------------------------------
(* The users of a handle, and clear() *)

\* _SharedModel.next_token_logits holds the lock of its instance.
Infer(t) ==
    /\ pc[t] = "using"
    /\ \A u \in Threads : ~(pc[u] = "inferring" /\ handle[u] = handle[t])
    /\ pc' = [pc EXCEPT ![t] = "inferring"]
    /\ UNCHANGED <<entries, cached, madeFor, want, handle, loads, evictions, gone>>

InferReturns(t) ==
    /\ pc[t] = "inferring"
    /\ pc' = [pc EXCEPT ![t] = "using"]
    /\ UNCHANGED <<entries, cached, madeFor, want, handle, loads, evictions, gone>>

\* The caller drops its reference.
Drop(t) ==
    /\ pc[t] = "using"
    /\ pc' = [pc EXCEPT ![t] = "idle"]
    /\ handle' = [handle EXCEPT ![t] = None]
    /\ UNCHANGED <<entries, cached, madeFor, want, loads, evictions, gone>>

clear ==
    /\ entries # <<>>
    /\ entries' = <<>>
    /\ cached' = [k \in Keys |-> None]
    /\ gone' = gone + Len(entries)
    /\ UNCHANGED <<madeFor, threadVars, loads, evictions>>

Next ==
    \/ \E t \in Threads, k \in Keys : Hit(t, k) \/ Miss(t, k)
    \/ \E t \in Threads : LoadRaises(t) \/ LoadReturns(t) \/ Infer(t)
                            \/ InferReturns(t) \/ Drop(t)
    \/ clear

Spec == Init /\ [][Next]_vars

-----------------------------------------------------------------------------
(* Properties *)

\* Every variable has its type, and a thread has an instance exactly while it
\* loads or uses one.
TypeOK ==
    /\ entries \in Seq(Keys)
    /\ cached \in [Keys -> Instances \cup {None}]
    /\ madeFor \in Seq(Keys) /\ Len(madeFor) <= MaxLoads
    /\ pc \in [Threads -> {"idle", "loading", "using", "inferring"}]
    /\ want \in [Threads -> Keys]
    /\ handle \in [Threads -> Instances \cup {None}]
    /\ loads \in Nat /\ evictions \in Nat /\ gone \in Nat
    /\ \A t \in Threads : (handle[t] = None) <=> (pc[t] = "idle")

\* The cache holds at most MaxSize entries, each key once, and a value for
\* exactly the keys in its order, however many threads load and store at once
\* (loading.py:22).
Bounded ==
    /\ Len(entries) <= MaxSize
    /\ \A i, j \in 1..Len(entries) : entries[i] = entries[j] => i = j
    /\ \A k \in Keys : InCache(k) <=> cached[k] # None

\* Configurations never contaminate each other: what a thread uses, and what is
\* cached under a key, was loaded for that key (loading.py:10-13).
RightArtifact ==
    /\ \A t \in Threads : handle[t] # None => madeFor[handle[t]] = want[t]
    /\ \A k \in Keys : cached[k] # None => madeFor[cached[k]] = k

\* The counters add up: a finished load is cached, was evicted and counted, was
\* replaced by a concurrent load of its key, or was cleared.
Conserved == MaxSize > 0 => loads = Len(entries) + evictions + gone

\* Eviction never throws out the instance that was just stored (loading.py:141-143).
StoredStays ==
    [][\A t \in Threads : pc[t] = "loading" /\ pc'[t] = "using" /\ MaxSize > 0 =>
          cached'[want[t]] = handle[t]]_vars

\* loading.py:120-121: "concurrent first-use from many threads invokes loader
\* exactly once": two threads never load the same key at once.
SingleFlight ==
    \A t, u \in Threads : pc[t] = "loading" /\ pc[u] = "loading" /\ want[t] = want[u] => t = u
=============================================================================
