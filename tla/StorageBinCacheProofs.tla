----------------------- MODULE StorageBinCacheProofs ------------------------
(***************************************************************************)
(* Proofs about StorageBinCache, for any threads, keys, stripes and sizes. *)
(*                                                                         *)
(* IndInv ties five things together.  Threaded: what each thread holds at  *)
(* each step, and that a store keeps its own stripe, with no record for    *)
(* its key, until it inserts one.  Space: the cells of records, of threads *)
(* and of the free map share out the opened bins.  Content: a record's     *)
(* cells hold all of its object, and the number in a cell never goes back, *)
(* neither under a reader nor under the index file.  Indexing: a record    *)
(* the index file or the worker's copy lacks is announced.  Ordered and    *)
(* Summed: the eviction order and the byte count agree with the records.   *)
(*                                                                         *)
(* Content needs encryption: what a restart revives without it may be a    *)
(* torn object.  The rest holds either way.                                *)
(*                                                                         *)
(* The budget follows from Space: disjoint extents within MaxSize cells    *)
(* cannot add up to more.  The sums are reasoned about by picking a least  *)
(* set for which a claim would fail (LeastSet).                            *)
(***************************************************************************)
EXTENDS StorageBinCache, FiniteSetTheorems, TLAPS

(* An extent within the bins.                                              *)
Placed == {e \in Extents : CellsOf(e) \subseteq Cells}

Types ==
    /\ objects \in [Keys -> Placed \cup {None}]
    /\ index \in [Keys -> Placed \cup {None}] /\ copy \in [Keys -> Placed \cup {None}]
    /\ free \subseteq Cells /\ nextBin \in Nat
    /\ cells \in [Cells -> [id : Nat, part : Nat, len : Nat]]
    /\ lock \in [Stripes -> Threads \cup {None}]
    /\ flush \in {"sleep", "snap", "write"} /\ dirty \in BOOLEAN /\ up \in BOOLEAN
    /\ pc \in [Threads -> Steps] /\ job \in [Threads -> Jobs]
    /\ offers \in Seq(Keys) /\ ops \in 0..MaxOps /\ restarts \in 0..MaxRestarts

(* What a thread has in its hands at each of its steps.                    *)
Storing == {"admit", "lockKey", "removeOwn", "releaseOwn", "allocate", "write", "persist"}
Removing == {"pick", "lock", "release"}
Carries(t) ==
    /\ pc[t] \in Storing \/ (pc[t] \in Removing /\ job[t].back # "idle") =>
           job[t].key \in Keys /\ job[t].len \in Lengths
    /\ pc[t] \in {"lock", "release"} => job[t].victim \in Keys
    /\ pc[t] \in {"read", "touch"} => job[t].key \in Keys
    /\ InHand(t) \/ pc[t] = "read" => job[t].extent \in Placed
    /\ pc[t] = "write" => job[t].extent.len = job[t].len /\ job[t].todo \subseteq 0..(job[t].len - 1)

(* The stripe a store holds from lock_key_mutation to the end, the victim's *)
(* while a record is being removed; under its own stripe, past the removal *)
(* of the old object, a store's key has no record.                         *)
OwnStripe(t) ==
    \/ pc[t] \in {"removeOwn", "releaseOwn", "allocate", "write"}
    \/ pc[t] \in Removing /\ job[t].back = "allocate"
Locked(t) ==
    /\ OwnStripe(t) => lock[Stripe[job[t].key]] = t
    /\ pc[t] = "release" => lock[Stripe[job[t].victim]] = t
    /\ pc[t] = "release" /\ job[t].back = "allocate" => Stripe[job[t].victim] # Stripe[job[t].key]
    /\ OwnStripe(t) /\ pc[t] # "removeOwn" => objects[job[t].key] = None

Threaded ==
    /\ \A t \in Threads : Carries(t) /\ Locked(t)
    /\ ~up => restarts > 0 /\ \A t \in Threads : pc[t] = "idle"

(* The cells of each record and of each thread, and how they share out the *)
(* cells of the opened bins with the free map.                             *)
OfKeys == [k \in Keys |-> IF objects[k] = None THEN {} ELSE CellsOf(objects[k])]
OfThreads == [t \in Threads |-> IF InHand(t) THEN CellsOf(job[t].extent) ELSE {}]
Below(n) == {c \in Cells : BinOf(c) < n}
Taken(K, T) == (UNION {K[k] : k \in Keys}) \cup (UNION {T[t] : t \in Threads})
Shared(K, T, f, n, r) ==
    /\ \A k, j \in Keys : k # j => K[k] \cap K[j] = {}
    /\ \A t, u \in Threads : t # u => T[t] \cap T[u] = {}
    /\ \A k \in Keys, t \in Threads : K[k] \cap T[t] = {}
    /\ Taken(K, T) \cap f = {} /\ Taken(K, T) \cup f \subseteq Below(n)
    /\ \A b \in 0..(n - 1) :
          \/ BinCells(b) \subseteq f \cup Taken(K, T)
          \/ r > 0 /\ BinCells(b) \cap (f \cup Taken(K, T)) = {}
Space == Shared(OfKeys, OfThreads, free, nextBin, restarts)

(* What the bins hold: records are whole, a writer has written what it has *)
(* no longer to do, and the number in a cell only grows.                   *)
Whole(e) == \A p \in 0..(e.len - 1) : cells[e.start + p] = Part(e.id, p, e.len)
Offered(i, k) == i \in DOMAIN offers /\ offers[i] = k
Reached(e) == cells[e.start].id >= e.id
Numbered == \A c \in Cells : cells[c].id <= Len(offers)
RecordIsWhole(k) == objects[k] # None => Whole(objects[k]) /\ Offered(objects[k].id, k)
FilesReached(k) ==
    /\ index[k] # None => Reached(index[k])
    /\ copy[k] # None => Reached(copy[k])
Writes(t) == pc[t] = "write" =>
    /\ Offered(job[t].extent.id, job[t].key)
    /\ \A c \in CellsOf(job[t].extent) : cells[c].id <= job[t].extent.id
    /\ \A p \in (0..(job[t].len - 1)) \ job[t].todo :
          cells[job[t].extent.start + p] = Part(job[t].extent.id, p, job[t].len)
Reads(t) == pc[t] = "read" => cells[job[t].extent.start].id >= job[t].floor
Content ==
    /\ Numbered
    /\ \A k \in Keys : RecordIsWhole(k) /\ FilesReached(k)
    /\ \A t \in Threads : Writes(t) /\ Reads(t)
    /\ HitsGenuine

(* A change the index worker has not yet seen.                             *)
Announced(k) ==
    \/ dirty
    \/ \E t \in Threads :
          \/ pc[t] = "release" /\ job[t].victim = k
          \/ pc[t] \in {"releaseOwn", "persist"} /\ job[t].key = k
Indexing == up => \A k \in Keys :
    /\ flush = "sleep" /\ objects[k] # index[k] => Announced(k)
    /\ flush = "write" /\ objects[k] # copy[k] => Announced(k)

Ordered == order \in Seq(Keys) /\ IsInjective(order) /\ ToSet(order) = Recorded
Summed == bytes = SumFunctionOnSet(SizesOf(objects), Recorded)

IndInv ==
    /\ Types /\ Threaded /\ Space /\ (Encrypted => Content) /\ Indexing
    /\ Ordered /\ Summed
-----------------------------------------------------------------------------
(***************************************************************************)
(* Bins, and least and greatest numbers                                    *)
(***************************************************************************)

LEMMA BinIsNatural ==
    ASSUME NEW c \in Nat
    PROVE  BinOf(c) \in Nat /\ BinOf(c) <= c
<1>1. BinSize \in Nat /\ BinSize > 0
  BY SizesPositive
<1> QED
  BY <1>1 DEF BinOf

LEMMA CellIsNatural == Cells \subseteq Nat
  BY SizesPositive DEF Cells

LEMMA LeastNumber ==
    ASSUME NEW S, S \subseteq Nat, S # {}
    PROVE  Min(S) \in S /\ \A y \in S : Min(S) <= y
<1> DEFINE R == OpToRel(<, Nat)
<1>0. IsWellFoundedOn(R, Nat) /\ \A x, y \in Nat : y < x => <<y, x>> \in R
  BY NatLessThanWellFounded DEF OpToRel
<1> HIDE DEF R
<1>1. PICK x \in S : \A y \in S : ~(<<y, x>> \in R)
  BY <1>0, WFMin
<1>2. ASSUME NEW y \in S PROVE x <= y
  <2>1. x \in Nat /\ y \in Nat /\ ~(y < x)
    BY <1>0, <1>1
  <2> QED
    BY <2>1
<1>3. \E m \in S : \A y \in S : m <= y
  BY <1>2
<1> QED
  BY <1>3 DEF Min

LEMMA GreatestNumber ==
    ASSUME NEW S, S \subseteq Nat, S # {}, NEW n \in Nat, \A y \in S : y <= n
    PROVE  Max(S) \in S /\ \A y \in S : y <= Max(S)
<1> DEFINE U == {m \in Nat : \A y \in S : y <= m}
           l == Min(U)
<1>1. l \in U /\ \A m \in U : l <= m
  <2>1. U \subseteq Nat /\ U # {}
    OBVIOUS
  <2> HIDE DEF U
  <2> QED
    BY <2>1, LeastNumber
<1> HIDE DEF l
<1>2. l \in S
  <2> SUFFICES ASSUME l \notin S PROVE FALSE
    OBVIOUS
  <2>1. \A y \in S : y <= l - 1
    BY <1>1
  <2>2. l - 1 \in Nat
    <3>1. PICK y \in S : y <= l - 1
      BY <2>1
    <3> QED
      BY <1>1, <3>1
  <2>3. l - 1 \in U
    BY <2>1, <2>2
  <2> QED
    BY <1>1, <2>2, <2>3
<1>3. \E m \in S : \A y \in S : m >= y
  BY <1>1, <1>2
<1>4. Max(S) \in S /\ \A y \in S : Max(S) >= y
  BY <1>3 DEF Max
<1> QED
  BY <1>4
-----------------------------------------------------------------------------
(***************************************************************************)
(* Sums over finite sets                                                   *)
(***************************************************************************)

(* Induction over the subsets of a finite set, as a least counterexample.  *)
LEMMA LeastSet ==
    ASSUME NEW S, IsFiniteSet(S), NEW B, B \subseteq SUBSET S, B # {}
    PROVE  \E T \in B : \A U \in B : U \subseteq T => U = T
<1>1. IsWellFoundedOn(StrictSubsetOrdering(S), SUBSET S)
  BY FS_StrictSubsetOrderingWellFounded, FS_FiniteSubsetsOfFinite
<1>2. PICK T \in B : \A U \in B : ~(<<U, T>> \in StrictSubsetOrdering(S))
  BY <1>1, WFMin
<1> QED
  BY <1>2 DEF StrictSubsetOrdering

(* The function behind a sum over the subsets of T.                        *)
AnyOf(s) == CHOOSE x \in s : TRUE
Step(g, F, s) == IF s = {} THEN 0 ELSE g[AnyOf(s)] + F[s \ {AnyOf(s)}]
Adds(g, T, F) == F = [s \in SUBSET T |-> Step(g, F, s)]

LEMMA AnyOfIsIn == \A s : s # {} => AnyOf(s) \in s
  BY DEF AnyOf

LEMMA AddsOnce ==
    ASSUME NEW g, NEW T, IsFiniteSet(T), NEW F, NEW G, Adds(g, T, F), Adds(g, T, G)
    PROVE  F = G
<1> DEFINE B == {s \in SUBSET T : F[s] # G[s]}
<1>1. SUFFICES ASSUME B # {} PROVE FALSE
  <2>1. \A s \in SUBSET T : F[s] = G[s]
    BY <1>1
  <2> QED
    BY <2>1 DEF Adds
<1>2. PICK s \in B : \A U \in B : U \subseteq s => U = s
  <2>1. B \subseteq SUBSET T
    OBVIOUS
  <2> HIDE DEF B
  <2> QED
    BY <1>1, <2>1, LeastSet
<1>3. s \in SUBSET T /\ F[s] = Step(g, F, s) /\ G[s] = Step(g, G, s)
  BY DEF Adds
<1>4. CASE s = {}
  BY <1>3, <1>4 DEF Step
<1>5. CASE s # {}
  <2>1. AnyOf(s) \in s
    BY <1>5, AnyOfIsIn
  <2>2. s \ {AnyOf(s)} \notin B
    BY <2>1, <1>2
  <2> QED
    BY <2>2, <1>2, <1>3, <1>5 DEF Step
<1> QED
  BY <1>4, <1>5

LEMMA AddsWithin ==
    ASSUME NEW g, NEW T, NEW F, Adds(g, T, F), NEW U, U \subseteq T
    PROVE  Adds(g, U, [s \in SUBSET U |-> F[s]])
<1> DEFINE G == [s \in SUBSET U |-> F[s]]
<1>1. \A s \in SUBSET U : Step(g, F, s) = Step(g, G, s)
  BY AnyOfIsIn DEF Step
<1>2. \A s \in SUBSET U : G[s] = Step(g, G, s)
  BY <1>1 DEF Adds
<1> QED
  BY <1>2 DEF Adds

LEMMA AddsExists ==
    ASSUME NEW g, NEW S, IsFiniteSet(S)
    PROVE  \E F : Adds(g, S, F)
<1> DEFINE B == {T \in SUBSET S : ~\E F : Adds(g, T, F)}
<1>1. SUFFICES ASSUME B # {} PROVE FALSE
  BY <1>1
<1>2. PICK T \in B : \A U \in B : U \subseteq T => U = T
  <2>1. B \subseteq SUBSET S
    OBVIOUS
  <2> HIDE DEF B
  <2> QED
    BY <1>1, <2>1, LeastSet
<1> DEFINE P(U) == CHOOSE F : Adds(g, U, F)
           Q == [U \in SUBSET T |-> P(U)[U]]
           G == [s \in SUBSET T |-> Step(g, Q, s)]
<1>3. ASSUME NEW U, U \subseteq T, U # T PROVE Adds(g, U, P(U))
  <2>1. \E F : Adds(g, U, F)
    BY <1>2, <1>3
  <2> QED
    BY <2>1
<1> HIDE DEF P
<1>4. ASSUME NEW U, U \subseteq T, U # T PROVE Q[U] = Step(g, Q, U)
  <2>1. Adds(g, U, P(U))
    BY <1>3, <1>4
  <2>2. Q[U] = Step(g, P(U), U)
    BY <2>1, <1>4 DEF Adds
  <2>3. CASE U = {}
    BY <2>2, <2>3 DEF Step
  <2>4. CASE U # {}
    <3> DEFINE V == U \ {AnyOf(U)}
    <3>1. AnyOf(U) \in U /\ V \subseteq U /\ V \subseteq T /\ V # T
      BY <2>4, <1>4, AnyOfIsIn
    <3>2. Adds(g, V, P(V))
      BY <1>3, <3>1
    <3>3. Adds(g, V, [s \in SUBSET V |-> P(U)[s]])
      BY <2>1, <3>1, AddsWithin
    <3>4. IsFiniteSet(V)
      BY <1>2, <3>1, FS_Subset
    <3>5. P(V) = [s \in SUBSET V |-> P(U)[s]]
      BY <3>2, <3>3, <3>4, AddsOnce
    <3>6. Q[V] = P(U)[V]
      BY <3>1, <3>5
    <3> QED
      BY <3>6, <2>2, <2>4 DEF Step
  <2> QED
    BY <2>3, <2>4
<1>5. \A s \in SUBSET T : s # T => G[s] = Q[s]
  BY <1>4
<1>6. \A s \in SUBSET T : Step(g, Q, s) = Step(g, G, s)
  BY <1>5, AnyOfIsIn DEF Step
<1>7. Adds(g, T, G)
  BY <1>6 DEF Adds
<1> QED
  BY <1>7, <1>2

LEMMA SumIs ==
    ASSUME NEW g, NEW S
    PROVE  SumFunctionOnSet(g, S) = (CHOOSE F : Adds(g, S, F))[S]
  BY DEF SumFunctionOnSet, FoldFunctionOnSet, MapThenFoldSet, Adds, AnyOf, Step

LEMMA SumStep ==
    ASSUME NEW g, NEW S, IsFiniteSet(S)
    PROVE  /\ S = {} => SumFunctionOnSet(g, S) = 0
           /\ S # {} => AnyOf(S) \in S /\ SumFunctionOnSet(g, S) = g[AnyOf(S)] + SumFunctionOnSet(g, S \ {AnyOf(S)})
<1> DEFINE P(U) == CHOOSE F : Adds(g, U, F)
<1>1. ASSUME NEW U, U \subseteq S PROVE Adds(g, U, P(U)) /\ SumFunctionOnSet(g, U) = P(U)[U]
  <2>1. \E F : Adds(g, U, F)
    BY <1>1, AddsExists, FS_Subset
  <2> QED
    BY <2>1, SumIs
<1> HIDE DEF P
<1>2. P(S)[S] = Step(g, P(S), S)
  BY <1>1 DEF Adds
<1>3. CASE S = {}
  BY <1>1, <1>2, <1>3 DEF Step
<1>4. CASE S # {}
  <2> DEFINE V == S \ {AnyOf(S)}
  <2>2. Adds(g, V, P(V)) /\ SumFunctionOnSet(g, V) = P(V)[V]
    BY <1>1
  <2>3. Adds(g, V, [s \in SUBSET V |-> P(S)[s]])
    BY <1>1, AddsWithin
  <2>4. P(V) = [s \in SUBSET V |-> P(S)[s]]
    BY <2>2, <2>3, AddsOnce, FS_Subset
  <2>5. P(V)[V] = P(S)[V]
    BY <2>4
  <2> QED
    BY <1>2, <2>2, <2>5, <1>1, <1>4, AnyOfIsIn DEF Step
<1> QED
  BY <1>3, <1>4
-----------------------------------------------------------------------------
(* Sums of natural numbers.                                                *)
LEMMA SumIsNatural ==
    ASSUME NEW S, IsFiniteSet(S), NEW g \in [S -> Nat]
    PROVE  \A T \in SUBSET S : SumFunctionOnSet(g, T) \in Nat
<1> DEFINE B == {T \in SUBSET S : SumFunctionOnSet(g, T) \notin Nat}
<1>1. SUFFICES ASSUME B # {} PROVE FALSE
  BY <1>1
<1>2. PICK T \in B : \A U \in B : U \subseteq T => U = T
  <2>1. B \subseteq SUBSET S
    OBVIOUS
  <2> HIDE DEF B
  <2> QED
    BY <1>1, <2>1, LeastSet
<1>3. IsFiniteSet(T)
  BY FS_Subset
<1>4. T # {} /\ AnyOf(T) \in T /\ SumFunctionOnSet(g, T) = g[AnyOf(T)] + SumFunctionOnSet(g, T \ {AnyOf(T)})
  <2>1. T = {} => SumFunctionOnSet(g, T) = 0
    BY <1>3, SumStep
  <2>2. T # {}
    BY <2>1, <1>2
  <2> QED
    BY <1>3, <2>2, SumStep
<1>5. T \ {AnyOf(T)} \notin B
  BY <1>2, <1>4
<1> QED
  BY <1>2, <1>4, <1>5

LEMMA SumTakes ==
    ASSUME NEW S, IsFiniteSet(S), NEW g \in [S -> Nat]
    PROVE  \A T \in SUBSET S : \A x \in T : SumFunctionOnSet(g, T) = g[x] + SumFunctionOnSet(g, T \ {x})
<1> DEFINE B == {T \in SUBSET S : \E x \in T : SumFunctionOnSet(g, T) # g[x] + SumFunctionOnSet(g, T \ {x})}
<1>1. SUFFICES ASSUME B # {} PROVE FALSE
  BY <1>1
<1>2. PICK T \in B : \A U \in B : U \subseteq T => U = T
  <2>1. B \subseteq SUBSET S
    OBVIOUS
  <2> HIDE DEF B
  <2> QED
    BY <1>1, <2>1, LeastSet
<1>3. PICK x \in T : SumFunctionOnSet(g, T) # g[x] + SumFunctionOnSet(g, T \ {x})
  BY <1>2
<1>4. IsFiniteSet(T)
  BY FS_Subset
<1> DEFINE y == AnyOf(T)
<1>5. y \in T /\ SumFunctionOnSet(g, T) = g[y] + SumFunctionOnSet(g, T \ {y})
  BY <1>3, <1>4, SumStep
<1> HIDE DEF y
<1>6. x # y
  BY <1>3, <1>5
<1>7. T \ {x} \notin B /\ T \ {y} \notin B
  BY <1>2, <1>3, <1>5
<1>8. /\ SumFunctionOnSet(g, T \ {y}) = g[x] + SumFunctionOnSet(g, (T \ {y}) \ {x})
      /\ SumFunctionOnSet(g, T \ {x}) = g[y] + SumFunctionOnSet(g, (T \ {x}) \ {y})
  BY <1>5, <1>6, <1>7
<1>9. (T \ {y}) \ {x} = (T \ {x}) \ {y}
  OBVIOUS
<1>10. /\ SumFunctionOnSet(g, (T \ {x}) \ {y}) \in Nat
       /\ g[x] \in Nat /\ g[y] \in Nat
  BY <1>3, <1>5, SumIsNatural
<1> QED
  BY <1>3, <1>5, <1>8, <1>9, <1>10

LEMMA SumAgrees ==
    ASSUME NEW S, IsFiniteSet(S), NEW g, NEW h, \A x \in S : g[x] = h[x]
    PROVE  SumFunctionOnSet(g, S) = SumFunctionOnSet(h, S)
<1> DEFINE B == {T \in SUBSET S : SumFunctionOnSet(g, T) # SumFunctionOnSet(h, T)}
<1>1. SUFFICES ASSUME B # {} PROVE FALSE
  BY <1>1
<1>2. PICK T \in B : \A U \in B : U \subseteq T => U = T
  <2>1. B \subseteq SUBSET S
    OBVIOUS
  <2> HIDE DEF B
  <2> QED
    BY <1>1, <2>1, LeastSet
<1>3. IsFiniteSet(T)
  BY FS_Subset
<1>4. T # {}
  BY <1>2, <1>3, SumStep
<1>5. AnyOf(T) \in T /\ SumFunctionOnSet(g, T) = g[AnyOf(T)] + SumFunctionOnSet(g, T \ {AnyOf(T)})
                   /\ SumFunctionOnSet(h, T) = h[AnyOf(T)] + SumFunctionOnSet(h, T \ {AnyOf(T)})
  BY <1>3, <1>4, SumStep
<1>6. T \ {AnyOf(T)} \notin B
  BY <1>2, <1>5
<1> QED
  BY <1>2, <1>5, <1>6

(* Disjoint sets have as many elements together as their sizes add up to.  *)
LEMMA SumOfDisjoint ==
    ASSUME NEW S, IsFiniteSet(S), NEW D, IsFiniteSet(D), NEW C \in [S -> SUBSET D],
           \A x, y \in S : x # y => C[x] \cap C[y] = {},
           NEW g \in [S -> Nat], \A x \in S : Cardinality(C[x]) = g[x]
    PROVE  SumFunctionOnSet(g, S) <= Cardinality(D)
<1> DEFINE W(T) == UNION {C[x] : x \in T}
           B == {T \in SUBSET S : Cardinality(W(T)) # SumFunctionOnSet(g, T)}
<1>0. ASSUME NEW T \in SUBSET S PROVE W(T) \in SUBSET D
  OBVIOUS
<1>1. ASSUME B # {} PROVE FALSE
  <2>1. PICK T \in B : \A U \in B : U \subseteq T => U = T
    <3>1. B \subseteq SUBSET S
      OBVIOUS
    <3> HIDE DEF B
    <3> QED
      BY <1>1, <3>1, LeastSet
  <2>2. IsFiniteSet(T)
    BY FS_Subset
  <2>3. T # {}
    <3>1. W({}) = {}
      OBVIOUS
    <3> QED
      BY <3>1, <2>1, <2>2, SumStep, FS_EmptySet
  <2> DEFINE x == AnyOf(T)
             V == T \ {x}
  <2>4. x \in T /\ SumFunctionOnSet(g, T) = g[x] + SumFunctionOnSet(g, V)
    BY <2>2, <2>3, SumStep
  <2> HIDE DEF x
  <2>5. Cardinality(W(V)) = SumFunctionOnSet(g, V)
    BY <2>1, <2>4
  <2>6. W(T) = C[x] \cup W(V) /\ C[x] \cap W(V) = {}
    BY <2>4
  <2>7. IsFiniteSet(W(V)) /\ IsFiniteSet(C[x])
    <3>1. W(V) \in SUBSET D /\ C[x] \in SUBSET D
      BY <2>4
    <3> HIDE DEF W
    <3> QED
      BY <3>1, FS_Subset
  <2>8. Cardinality(W(T)) = Cardinality(C[x]) + Cardinality(W(V))
    <3> HIDE DEF W
    <3>1. Cardinality(C[x] \cup W(V))
             = Cardinality(C[x]) + Cardinality(W(V)) - Cardinality(C[x] \cap W(V))
      BY <2>7, FS_Union
    <3>2. Cardinality(C[x]) \in Nat /\ Cardinality(W(V)) \in Nat
      BY <2>7, FS_CardinalityType
    <3>4. Cardinality(C[x] \cap W(V)) = 0
      BY <2>6, FS_EmptySet, Zenon
    <3>3. Cardinality(C[x] \cup W(V)) = Cardinality(C[x]) + Cardinality(W(V))
      BY <3>1, <3>2, <3>4
    <3> QED
      BY <3>3, <2>6, Zenon
  <2> QED
    BY <2>1, <2>4, <2>5, <2>8
<1>2. Cardinality(W(S)) = SumFunctionOnSet(g, S)
  BY <1>1
<1> HIDE DEF W
<1> QED
  BY <1>0, <1>2, FS_Subset
-----------------------------------------------------------------------------
(***************************************************************************)
(* The eviction order                                                      *)
(***************************************************************************)

LEMMA RemoveAtIs ==
    ASSUME NEW S, NEW s \in Seq(S), NEW i \in 1..Len(s)
    PROVE  /\ RemoveAt(s, i) \in Seq(S) /\ Len(RemoveAt(s, i)) = Len(s) - 1
           /\ \A j \in 1..(Len(s) - 1) : RemoveAt(s, i)[j] = s[IF j < i THEN j ELSE j + 1]
<1> DEFINE a == SubSeq(s, 1, i - 1)
           b == SubSeq(s, i + 1, Len(s))
<1>1. a \in Seq(S) /\ Len(a) = i - 1 /\ \A j \in 1..(i - 1) : a[j] = s[j]
  OBVIOUS
<1>2. b \in Seq(S) /\ Len(b) = Len(s) - i /\ \A j \in 1..(Len(s) - i) : b[j] = s[i + j]
  OBVIOUS
<1>3. RemoveAt(s, i) = a \o b
  BY DEF RemoveAt
<1> HIDE DEF a, b
<1>4. Len(s) \in Nat /\ i \in Nat /\ 1 <= i /\ i <= Len(s)
  OBVIOUS
<1>5. a \o b \in Seq(S) /\ Len(a \o b) = Len(s) - 1
  <2>1. \A x, y \in Seq(S) : x \o y \in Seq(S) /\ Len(x \o y) = Len(x) + Len(y)
    OBVIOUS
  <2>2. a \o b \in Seq(S) /\ Len(a \o b) = Len(a) + Len(b)
    BY <2>1, <1>1, <1>2, Zenon
  <2>3. Len(a) + Len(b) = Len(s) - 1
    BY <1>1, <1>2, <1>4
  <2> QED
    BY <2>2, <2>3
<1>6. ASSUME NEW j \in 1..(Len(s) - 1) PROVE (a \o b)[j] = s[IF j < i THEN j ELSE j + 1]
  <2>1. CASE j < i
    <3>1. j \in 1..(i - 1)
      BY <2>1, <1>4
    <3> QED
      BY <2>1, <3>1, <1>1, <1>2, <1>4
  <2>2. CASE ~(j < i)
    <3>1. j - (i - 1) \in 1..(Len(s) - i) /\ i + (j - (i - 1)) = j + 1
      BY <2>2, <1>4
    <3>2. (a \o b)[j] = b[j - (i - 1)]
      BY <2>2, <1>1, <1>2, <1>4
    <3> QED
      BY <2>2, <3>1, <3>2, <1>2
  <2> QED
    BY <2>1, <2>2
<1> QED
  BY <1>3, <1>5, <1>6

LEMMA RemovedFromOrder ==
    ASSUME NEW S, NEW s \in Seq(S), IsInjective(s), NEW k
    PROVE  /\ RemoveFirst(s, k) \in Seq(S) /\ IsInjective(RemoveFirst(s, k))
           /\ ToSet(RemoveFirst(s, k)) = ToSet(s) \ {k}
<1>0. Len(s) \in Nat /\ DOMAIN s = 1..Len(s)
  OBVIOUS
<1>1. CASE ~\E i \in 1..Len(s) : s[i] = k
  <2>1. RemoveFirst(s, k) = s
    BY <1>1 DEF RemoveFirst
  <2>2. k \notin ToSet(s)
    BY <1>0, <1>1 DEF ToSet
  <2> QED
    BY <2>1, <2>2
<1>2. CASE \E i \in 1..Len(s) : s[i] = k
  <2> DEFINE I == {i \in 1..Len(s) : s[i] = k}
             i == Min(I)
  <2>1. i \in I
    <3>1. I \subseteq Nat /\ I # {}
      BY <1>2
    <3> HIDE DEF I
    <3> QED
      BY <3>1, LeastNumber
  <2>2. RemoveFirst(s, k) = RemoveAt(s, i)
    BY <1>2 DEF RemoveFirst, SelectInSeq
  <2> HIDE DEF i
  <2> DEFINE r == RemoveAt(s, i)
             at(j) == IF j < i THEN j ELSE j + 1
  <2>3. /\ i \in 1..Len(s) /\ s[i] = k
        /\ r \in Seq(S) /\ Len(r) = Len(s) - 1
        /\ \A j \in 1..(Len(s) - 1) : r[j] = s[at(j)]
    BY <2>1, RemoveAtIs
  <2> HIDE DEF r
  <2>4. DOMAIN r = 1..(Len(s) - 1)
    BY <2>3
  <2>5. \A j \in 1..(Len(s) - 1) : at(j) \in 1..Len(s) /\ at(j) # i
    BY <1>0, <2>3
  <2>6. \A j, m \in 1..(Len(s) - 1) : at(j) = at(m) => j = m
    BY <1>0, <2>3
  <2>7. \A n \in 1..Len(s) : n # i => \E j \in 1..(Len(s) - 1) : n = at(j)
    <3> TAKE n \in 1..Len(s)
    <3> HAVE n # i
    <3>1. CASE n < i
      <4>1. n \in 1..(Len(s) - 1) /\ n = at(n)
        BY <3>1, <1>0, <2>3
      <4> QED
        BY <4>1
    <3>2. CASE n > i
      <4>1. n - 1 \in 1..(Len(s) - 1) /\ n = at(n - 1)
        BY <3>2, <1>0, <2>3
      <4> QED
        BY <4>1
    <3> QED
      BY <3>1, <3>2, <1>0, <2>3
  <2> HIDE DEF at
  <2>8. \A a, b \in 1..Len(s) : s[a] = s[b] => a = b
    BY <1>0 DEF IsInjective
  <2>9. IsInjective(r)
    BY <2>3, <2>4, <2>5, <2>6, <2>8 DEF IsInjective
  <2>10. ToSet(r) \subseteq ToSet(s) \ {k}
    BY <1>0, <2>3, <2>4, <2>5, <2>8 DEF ToSet
  <2>11. ASSUME NEW x \in ToSet(s), x # k PROVE x \in ToSet(r)
    <3>1. PICK n \in 1..Len(s) : x = s[n]
      BY <1>0 DEF ToSet
    <3>2. PICK j \in 1..(Len(s) - 1) : n = at(j)
      BY <3>1, <2>11, <2>3, <2>7
    <3> QED
      BY <3>1, <3>2, <2>3, <2>4 DEF ToSet
  <2> QED
    BY <2>2, <2>3, <2>9, <2>10, <2>11 DEF r
<1> QED
  BY <1>1, <1>2

LEMMA AppendedToOrder ==
    ASSUME NEW S, NEW s \in Seq(S), IsInjective(s), NEW k \in S, k \notin ToSet(s)
    PROVE  /\ Append(s, k) \in Seq(S) /\ IsInjective(Append(s, k))
           /\ ToSet(Append(s, k)) = ToSet(s) \cup {k}
<1> DEFINE r == Append(s, k)
<1>1. /\ Len(s) \in Nat /\ DOMAIN s = 1..Len(s)
      /\ r \in Seq(S) /\ DOMAIN r = 1..(Len(s) + 1)
      /\ r[Len(s) + 1] = k /\ \A i \in 1..Len(s) : r[i] = s[i]
  OBVIOUS
<1> HIDE DEF r
<1>2. \A i \in 1..(Len(s) + 1) : i \in 1..Len(s) \/ i = Len(s) + 1
  BY <1>1
<1>3. \A i \in 1..Len(s) : s[i] # k
  BY <1>1 DEF ToSet
<1>4. IsInjective(r)
  BY <1>1, <1>2, <1>3 DEF IsInjective
<1>5. ToSet(r) \subseteq ToSet(s) \cup {k}
  BY <1>1, <1>2 DEF ToSet
<1>6. ToSet(s) \cup {k} \subseteq ToSet(r)
  <2>1. Len(s) + 1 \in 1..(Len(s) + 1) /\ 1..Len(s) \subseteq 1..(Len(s) + 1)
    BY <1>1
  <2> QED
    BY <1>1, <2>1 DEF ToSet
<1> QED
  BY <1>1, <1>4, <1>5, <1>6 DEF r
-----------------------------------------------------------------------------
(***************************************************************************)
(* How cells change hands                                                  *)
(***************************************************************************)

LEMMA TakenIs ==
    ASSUME NEW K, NEW T
    PROVE  \A c : c \in Taken(K, T) <=> \/ \E k \in Keys : c \in K[k]
                                        \/ \E t \in Threads : c \in T[t]
<1> TAKE c
<1>1. c \in UNION {K[k] : k \in Keys} <=> \E k \in Keys : c \in K[k]
  OBVIOUS
<1>2. c \in UNION {T[t] : t \in Threads} <=> \E t \in Threads : c \in T[t]
  OBVIOUS
<1>3. c \in Taken(K, T) <=> \/ c \in UNION {K[k] : k \in Keys}
                             \/ c \in UNION {T[t] : t \in Threads}
  BY Zenon DEF Taken
<1> QED
  BY <1>1, <1>2, <1>3, Zenon

(* A record's cells go into the hands of a thread that had none.           *)
LEMMA CellsLeaveTheRecord ==
    ASSUME NEW K \in [Keys -> SUBSET Cells], NEW T \in [Threads -> SUBSET Cells],
           NEW f, NEW n \in Nat, NEW r, Shared(K, T, f, n, r),
           NEW k \in Keys, NEW t \in Threads, T[t] = {}
    PROVE  Shared([K EXCEPT ![k] = {}], [T EXCEPT ![t] = K[k]], f, n, r)
<1> DEFINE K2 == [K EXCEPT ![k] = {}]
           T2 == [T EXCEPT ![t] = K[k]]
<1>1. Taken(K2, T2) = Taken(K, T)
  <2>1. ASSUME NEW c, c \in Taken(K, T) PROVE c \in Taken(K2, T2)
    BY <2>1, TakenIs
  <2>2. ASSUME NEW c, c \in Taken(K2, T2) PROVE c \in Taken(K, T)
    <3>1. (\E j \in Keys : c \in K2[j]) \/ (\E u \in Threads : c \in T2[u])
      BY <2>2, TakenIs
    <3>2. (\E j \in Keys : c \in K[j]) \/ (\E u \in Threads : c \in T[u])
      BY <3>1
    <3> QED
      BY <3>2, TakenIs
  <2> QED
    BY <2>1, <2>2
<1>2. /\ \A j, m \in Keys : j # m => K2[j] \cap K2[m] = {}
      /\ \A u, v \in Threads : u # v => T2[u] \cap T2[v] = {}
      /\ \A j \in Keys, u \in Threads : K2[j] \cap T2[u] = {}
  BY DEF Shared
<1> QED
  BY <1>1, <1>2 DEF Shared

(* A thread's cells become those of a key that had none.                   *)
LEMMA CellsEnterTheRecord ==
    ASSUME NEW K \in [Keys -> SUBSET Cells], NEW T \in [Threads -> SUBSET Cells],
           NEW f, NEW n \in Nat, NEW r, Shared(K, T, f, n, r),
           NEW k \in Keys, NEW t \in Threads, K[k] = {}
    PROVE  Shared([K EXCEPT ![k] = T[t]], [T EXCEPT ![t] = {}], f, n, r)
<1> DEFINE K2 == [K EXCEPT ![k] = T[t]]
           T2 == [T EXCEPT ![t] = {}]
<1>1. Taken(K2, T2) = Taken(K, T)
  <2>1. ASSUME NEW c, c \in Taken(K, T) PROVE c \in Taken(K2, T2)
    BY <2>1, TakenIs
  <2>2. ASSUME NEW c, c \in Taken(K2, T2) PROVE c \in Taken(K, T)
    <3>1. (\E j \in Keys : c \in K2[j]) \/ (\E u \in Threads : c \in T2[u])
      BY <2>2, TakenIs
    <3>2. (\E j \in Keys : c \in K[j]) \/ (\E u \in Threads : c \in T[u])
      BY <3>1
    <3> QED
      BY <3>2, TakenIs
  <2> QED
    BY <2>1, <2>2
<1>2. /\ \A j, m \in Keys : j # m => K2[j] \cap K2[m] = {}
      /\ \A u, v \in Threads : u # v => T2[u] \cap T2[v] = {}
      /\ \A j \in Keys, u \in Threads : K2[j] \cap T2[u] = {}
  BY DEF Shared
<1> QED
  BY <1>1, <1>2 DEF Shared

(* The bins reclaim_free_tail_bins keeps: the ones above are free.         *)
LEMMA BinsKeptIs ==
    ASSUME NEW f, nextBin \in Nat
    PROVE  /\ BinsKept(f) \in 0..nextBin
           /\ \A b \in BinsKept(f)..(nextBin - 1) : BinCells(b) \subseteq f
<1> DEFINE S == {n \in 0..nextBin : \A b \in n..(nextBin - 1) : BinCells(b) \subseteq f}
<1>1. nextBin \in S
  <2>1. \A b \in nextBin..(nextBin - 1) : FALSE
    OBVIOUS
  <2>2. nextBin \in 0..nextBin
    OBVIOUS
  <2> QED
    BY <2>1, <2>2
<1>2. Min(S) \in S
  <2>1. S \subseteq Nat
    OBVIOUS
  <2> HIDE DEF S
  <2> QED
    BY <1>1, <2>1, LeastNumber
<1> QED
  BY <1>2 DEF BinsKept

(* A thread's cells return to the free map, and free tail bins are closed. *)
LEMMA CellsAreReleased ==
    ASSUME NEW K \in [Keys -> SUBSET Cells], NEW T \in [Threads -> SUBSET Cells],
           NEW f, NEW n \in Nat, NEW r, Shared(K, T, f, n, r), NEW t \in Threads,
           NEW m \in Nat, m <= n, \A b \in m..(n - 1) : BinCells(b) \subseteq f \cup T[t],
           NEW f2, f2 = {c \in f \cup T[t] : BinOf(c) < m}
    PROVE  Shared(K, [T EXCEPT ![t] = {}], f2, m, r)
<1> DEFINE T2 == [T EXCEPT ![t] = {}]
           freed == f \cup T[t]
<1>1. ASSUME NEW c, c \in Taken(K, T2) PROVE c \in Taken(K, T)
  <2>1. (\E j \in Keys : c \in K[j]) \/ (\E u \in Threads : c \in T2[u])
    BY <1>1, TakenIs
  <2>2. (\E j \in Keys : c \in K[j]) \/ (\E u \in Threads : c \in T[u])
    BY <2>1
  <2> QED
    BY <2>2, TakenIs
<1>2. ASSUME NEW c, c \in Taken(K, T), c \notin T[t] PROVE c \in Taken(K, T2)
  <2>1. (\E j \in Keys : c \in K[j]) \/ (\E u \in Threads : c \in T2[u])
    BY <1>2, TakenIs
  <2> QED
    BY <2>1, TakenIs
<1>3. \A c \in T[t] : c \in Taken(K, T)
  BY TakenIs
<1>4. ASSUME NEW c \in freed, c \in Taken(K, T2) PROVE FALSE
  <2>1. c \in T[t]
    BY <1>1, <1>4 DEF Shared
  <2>2. (\E j \in Keys : c \in K[j]) \/ (\E u \in Threads : c \in T2[u])
    BY <1>4, TakenIs
  <2> QED
    BY <2>1, <2>2 DEF Shared
<1>5. \A c \in freed \cup Taken(K, T2) : c \in Cells /\ BinOf(c) \in Nat /\ BinOf(c) < n
  BY <1>1, <1>3, BinIsNatural, CellIsNatural DEF Shared, Below
<1>6. ASSUME NEW c \in Taken(K, T2) PROVE BinOf(c) < m
  <2> SUFFICES ASSUME ~(BinOf(c) < m) PROVE FALSE
    OBVIOUS
  <2>1. BinOf(c) \in Nat /\ BinOf(c) < n /\ c \in BinCells(BinOf(c))
    BY <1>5 DEF BinCells
  <2>2. BinOf(c) \in m..(n - 1)
    BY <2>1
  <2> QED
    BY <2>1, <2>2, <1>4
<1>7. Taken(K, T2) \cap f2 = {} /\ Taken(K, T2) \cup f2 \subseteq Below(m)
  BY <1>4, <1>5, <1>6 DEF Below
<1>8. ASSUME NEW b \in 0..(m - 1)
      PROVE  \/ BinCells(b) \subseteq f2 \cup Taken(K, T2)
             \/ r > 0 /\ BinCells(b) \cap (f2 \cup Taken(K, T2)) = {}
  <2>1. b \in 0..(n - 1) /\ b < m
    OBVIOUS
  <2>2. \A c \in BinCells(b) : c \in f2 \cup Taken(K, T2) <=> c \in f \cup Taken(K, T)
    BY <1>1, <1>2, <1>3, <2>1 DEF BinCells
  <2>3. \/ BinCells(b) \subseteq f \cup Taken(K, T)
        \/ r > 0 /\ BinCells(b) \cap (f \cup Taken(K, T)) = {}
    BY <2>1 DEF Shared
  <2> QED
    BY <2>2, <2>3
<1>9. /\ \A u, v \in Threads : u # v => T2[u] \cap T2[v] = {}
      /\ \A j \in Keys, u \in Threads : K[j] \cap T2[u] = {}
      /\ \A k, j \in Keys : k # j => K[k] \cap K[j] = {}
  BY DEF Shared
<1> QED
  BY <1>7, <1>8, <1>9 DEF Shared

LEMMA ExtentIsReleased ==
    ASSUME nextBin \in Nat, free \subseteq Cells,
           NEW K \in [Keys -> SUBSET Cells], NEW T \in [Threads -> SUBSET Cells],
           NEW r, Shared(K, T, free, nextBin, r),
           NEW t \in Threads, NEW e, T[t] = CellsOf(e), ReleaseExtent(e)
    PROVE  Shared(K, [T EXCEPT ![t] = {}], free', nextBin', r) /\ nextBin' \in Nat /\ free' \subseteq Cells
<1> DEFINE freed == free \cup T[t]
           m == BinsKept(freed)
<1>1. /\ m \in 0..nextBin
      /\ \A b \in m..(nextBin - 1) : BinCells(b) \subseteq freed
  BY BinsKeptIs
<1>2. nextBin' = m /\ free' = {c \in freed : BinOf(c) < m}
  BY DEF ReleaseExtent
<1> HIDE DEF m
<1>3. m \in Nat /\ m <= nextBin
  BY <1>1
<1>4. Shared(K, [T EXCEPT ![t] = {}], free', m, r)
  BY <1>1, <1>2, <1>3, CellsAreReleased
<1>5. freed \subseteq Cells
  OBVIOUS
<1> QED
  BY <1>2, <1>3, <1>4, <1>5

LEMMA FitsWithin ==
    ASSUME NEW n \in Nat \ {0}, NEW f, NEW c \in Fits(n, f), c \in Nat
    PROVE  c..(c + n - 1) \subseteq f
  BY DEF Fits

(* A thread that had no cells is given some.                               *)
LEMMA CellsAreAllocated ==
    ASSUME nextBin \in Nat, NEW K \in [Keys -> SUBSET Cells], NEW T \in [Threads -> SUBSET Cells],
           NEW r, Shared(K, T, free, nextBin, r), free \subseteq Cells,
           NEW t \in Threads, T[t] = {}, NEW n \in Nat \ {0}, NEW c \in Cells, AllocateAt(n, c)
    PROVE  /\ Shared(K, [T EXCEPT ![t] = c..(c + n - 1)], free', nextBin', r)
           /\ nextBin' \in Nat /\ free' \subseteq Cells /\ c..(c + n - 1) \subseteq Cells
<1> DEFINE N == c..(c + n - 1)
           T2 == [T EXCEPT ![t] = N]
<1>1. \A d : d \in Taken(K, T2) <=> d \in Taken(K, T) \/ d \in N
  <2>1. ASSUME NEW d, d \in Taken(K, T) \/ d \in N PROVE d \in Taken(K, T2)
    BY <2>1, TakenIs
  <2>2. ASSUME NEW d, d \in Taken(K, T2) PROVE d \in Taken(K, T) \/ d \in N
    <3>1. (\E j \in Keys : d \in K[j]) \/ (\E u \in Threads : d \in T2[u])
      BY <2>2, TakenIs
    <3>2. (\E j \in Keys : d \in K[j]) \/ (\E u \in Threads : d \in T[u]) \/ d \in N
      BY <3>1
    <3> QED
      BY <3>2, TakenIs
  <2> QED
    BY <2>1, <2>2
<1>2. ASSUME N \cap Taken(K, T) = {}
      PROVE /\ \A u, v \in Threads : u # v => T2[u] \cap T2[v] = {}
            /\ \A j \in Keys, u \in Threads : K[j] \cap T2[u] = {}
            /\ \A k, j \in Keys : k # j => K[k] \cap K[j] = {}
  BY <1>2, TakenIs DEF Shared
<1>3. CASE /\ Fits(n, free) # {} /\ c = Min(Fits(n, free))
           /\ free' = free \ N
           /\ UNCHANGED nextBin
  <2>1. N \subseteq free
    <3>1. Fits(n, free) \subseteq Nat
      BY CellIsNatural DEF Fits
    <3>2. c \in Fits(n, free)
      BY <1>3, <3>1, LeastNumber
    <3> QED
      BY <3>2, FitsWithin, CellIsNatural
  <2>2. N \cap Taken(K, T) = {}
    BY <2>1 DEF Shared
  <2>3. \A d : d \in free' \cup Taken(K, T2) <=> d \in free \cup Taken(K, T)
    BY <1>1, <1>3, <2>1
  <2>4. Taken(K, T2) \cap free' = {} /\ Taken(K, T2) \cup free' \subseteq Below(nextBin')
    BY <1>1, <1>3, <2>1, <2>3 DEF Shared
  <2>5. \A b \in 0..(nextBin' - 1) :
          \/ BinCells(b) \subseteq free' \cup Taken(K, T2)
          \/ r > 0 /\ BinCells(b) \cap (free' \cup Taken(K, T2)) = {}
    BY <1>3, <2>3 DEF Shared
  <2> QED
    BY <1>3, <1>2, <2>1, <2>2, <2>4, <2>5 DEF Shared
<1>4. CASE /\ Fits(n, free) = {} /\ c = nextBin * BinSize
           /\ c \in Fits(n, BinCells(nextBin))
           /\ free' = free \cup (BinCells(nextBin) \ N)
           /\ nextBin' = nextBin + 1
  <2>1. N \subseteq BinCells(nextBin)
    BY <1>4, FitsWithin, CellIsNatural
  <2>2. BinCells(nextBin) \cap (free \cup Taken(K, T)) = {}
    <3>1. \A d \in Below(nextBin) : BinOf(d) < nextBin /\ BinOf(d) \in Nat
      BY BinIsNatural, CellIsNatural DEF Below
    <3>2. \A d \in BinCells(nextBin) : BinOf(d) = nextBin
      BY DEF BinCells
    <3> QED
      BY <3>1, <3>2 DEF Shared
  <2>3. \A d : d \in free' \cup Taken(K, T2) <=> d \in free \cup Taken(K, T) \/ d \in BinCells(nextBin)
    BY <1>1, <1>4, <2>1
  <2>4. Below(nextBin + 1) = Below(nextBin) \cup BinCells(nextBin)
    <3>1. \A d \in Cells : BinOf(d) \in Nat
      BY BinIsNatural, CellIsNatural
    <3>2. \A d \in Cells : BinOf(d) < nextBin + 1 <=> BinOf(d) < nextBin \/ BinOf(d) = nextBin
      BY <3>1
    <3> QED
      BY <3>2 DEF Below, BinCells
  <2>5. Taken(K, T2) \cap free' = {} /\ Taken(K, T2) \cup free' \subseteq Below(nextBin')
    BY <1>1, <1>4, <2>1, <2>2, <2>3, <2>4 DEF Shared
  <2>6. ASSUME NEW b \in 0..(nextBin' - 1)
        PROVE  \/ BinCells(b) \subseteq free' \cup Taken(K, T2)
               \/ r > 0 /\ BinCells(b) \cap (free' \cup Taken(K, T2)) = {}
    <3>1. CASE b = nextBin
      BY <3>1, <2>3
    <3>2. CASE b # nextBin
      <4>1. b \in 0..(nextBin - 1)
        BY <3>2, <1>4
      <4>2. BinCells(b) \cap BinCells(nextBin) = {}
        BY <3>2 DEF BinCells
      <4> QED
        BY <4>1, <4>2, <2>3 DEF Shared
    <3> QED
      BY <3>1, <3>2
  <2>7. N \cap Taken(K, T) = {}
    BY <2>1, <2>2
  <2> QED
    <3>1. nextBin' \in Nat
      BY <1>4
    <3>2. free' \subseteq Cells /\ N \subseteq Cells
      BY <1>4, <2>1 DEF BinCells
    <3> QED
      BY <3>1, <3>2, <1>2, <2>5, <2>6, <2>7 DEF Shared
<1> QED
  BY <1>3, <1>4 DEF AllocateAt
-----------------------------------------------------------------------------
(***************************************************************************)
(* Steps of one thread                                                     *)
(***************************************************************************)

(* The other threads stay where they are, keep the stripes they hold, and  *)
(* no key gets a record unless its stripe is with the thread that moves.   *)
Only(t) == \A u \in Threads \ {t} : pc'[u] = pc[u] /\ job'[u] = job[u]
LeavesLocks(t) == \A s \in Stripes : lock[s] \in Threads \ {t} => lock'[s] = lock[s]
LeavesGone(t) == \A k \in Keys : objects[k] = None /\ lock[Stripe[k]] # t => objects'[k] = None

LEMMA Moves ==
    ASSUME Types, NEW t \in Threads, NEW step \in Steps, Goto(t, step),
           NEW j \in Jobs, job' = [job EXCEPT ![t] = j]
    PROVE  /\ pc' \in [Threads -> Steps] /\ job' \in [Threads -> Jobs]
           /\ pc'[t] = step /\ job'[t] = j /\ Only(t)
  BY DEF Types, Goto, Only

LEMMA NoJobIsJob == NoJob \in Jobs
  BY DEF NoJob, Jobs

LEMMA PlacedIsExtent == Placed \subseteq Extents
  BY DEF Placed

LEMMA ExtentIs ==
    ASSUME NEW e \in Extents
    PROVE  /\ e.start \in Cells /\ e.start \in Nat /\ e.id \in Nat /\ e.id > 0
           /\ e.len \in Lengths /\ e.len \in Nat /\ e.len > 0
           /\ 0 \in 0..(e.len - 1) /\ e.start \in CellsOf(e)
<1>1. /\ e.start \in Cells /\ e.start \in Nat /\ e.id \in Nat /\ e.id > 0
      /\ e.len \in Lengths /\ e.len \in Nat /\ e.len > 0
  <2>1. e.start \in Cells /\ e.len \in Lengths /\ e.id \in Nat \ {0}
    BY DEF Extents
  <2>2. e.len \in Nat \ {0}
    BY <2>1, SizesPositive
  <2>3. \A n \in Nat \ {0} : n \in Nat /\ n > 0
    OBVIOUS
  <2> QED
    BY <2>1, <2>2, <2>3, CellIsNatural, Zenon
<1> QED
  BY <1>1 DEF CellsOf

LEMMA JobChanges ==
    ASSUME NEW j \in Jobs
    PROVE  /\ \A e \in Extents \cup {None} : [j EXCEPT !.extent = e] \in Jobs
           /\ \A k \in Keys \cup {None} : [j EXCEPT !.victim = k] \in Jobs
           /\ \A k \in Keys \cup {None} : [j EXCEPT !.key = k] \in Jobs
           /\ \A b \in {"idle", "admit", "allocate"} : [j EXCEPT !.back = b] \in Jobs
           /\ \A s \in SUBSET Nat : [j EXCEPT !.todo = s] \in Jobs /\ [j EXCEPT !.hit = s] \in Jobs
           /\ \A n \in Nat : [j EXCEPT !.len = n] \in Jobs /\ [j EXCEPT !.floor = n] \in Jobs
  BY DEF Jobs

LEMMA OthersStay ==
    ASSUME Types, Threaded, NEW t \in Threads, Only(t), LeavesLocks(t), LeavesGone(t),
           NEW u \in Threads \ {t}
    PROVE  Carries(u)' /\ Locked(u)'
<1>1. pc'[u] = pc[u] /\ job'[u] = job[u]
  BY DEF Only
<1>2. Carries(u) /\ Locked(u)
  BY DEF Threaded
<1>3. Carries(u)'
  BY <1>1, <1>2 DEF Carries, InHand
<1>4. ASSUME NEW k \in Keys, lock[Stripe[k]] = u
      PROVE  lock'[Stripe[k]] = u /\ (objects[k] = None => objects'[k] = None)
  BY <1>4, StripeOfEveryKey DEF LeavesLocks, LeavesGone
<1>5. OwnStripe(u) => job[u].key \in Keys
  BY <1>2 DEF Carries, OwnStripe, Storing, Removing
<1>6. pc[u] = "release" => job[u].victim \in Keys
  BY <1>2 DEF Carries
<1>7. OwnStripe(u)' <=> OwnStripe(u)
  BY <1>1 DEF OwnStripe
<1>8. Locked(u)'
  BY <1>1, <1>2, <1>4, <1>5, <1>6, <1>7 DEF Locked
<1> QED
  BY <1>3, <1>8

LEMMA ThreadsStay ==
    ASSUME Types, Threaded, NEW t \in Threads, Only(t), LeavesLocks(t), LeavesGone(t),
           Carries(t)', Locked(t)', up' = TRUE
    PROVE  Threaded'
<1>1. \A u \in Threads : Carries(u)' /\ Locked(u)'
  BY OthersStay
<1> QED
  BY <1>1 DEF Threaded
(* A step of a thread that holds no extent and changes no record, no space *)
(* and no file.                                                            *)
Quiet == UNCHANGED <<objects, bytes, free, nextBin, cells, index, copy, flush, offers, restarts, up>>

LEMMA OthersAnnounce ==
    ASSUME NEW t \in Threads, Only(t), NEW k \in Keys, Announced(k),
           dirty' = dirty \/ dirty' = TRUE,
           pc[t] \in {"release", "releaseOwn", "persist"} => dirty' = TRUE
    PROVE  Announced(k)'
<1>1. CASE dirty
  BY <1>1 DEF Announced
<1>2. CASE \E u \in Threads :
             \/ pc[u] = "release" /\ job[u].victim = k
             \/ pc[u] \in {"releaseOwn", "persist"} /\ job[u].key = k
  <2>1. PICK u \in Threads :
             \/ pc[u] = "release" /\ job[u].victim = k
             \/ pc[u] \in {"releaseOwn", "persist"} /\ job[u].key = k
    BY <1>2
  <2>2. CASE u = t
    BY <2>1, <2>2 DEF Announced
  <2>3. CASE u # t
    BY <2>1, <2>3 DEF Announced, Only
  <2> QED
    BY <2>2, <2>3
<1> QED
  BY <1>1, <1>2 DEF Announced

LEMMA OthersRead ==
    ASSUME NEW t \in Threads, Only(t), Content, UNCHANGED <<objects, cells, index, copy, offers>>,
           pc'[t] # "write",
           pc'[t] = "read" => cells[job'[t].extent.start].id >= job'[t].floor,
           pc'[t] = "touch" => \E i \in DOMAIN offers :
               job'[t].hit = {i} /\ offers[i] = job'[t].key /\ i >= job'[t].floor
    PROVE  Content'
<1>1. \A u \in Threads : Reads(u)'
  BY DEF Only, Content, Reads
<1>2. \A u \in Threads : Writes(u)'
  <2> TAKE u \in Threads
  <2>1. CASE u = t
    BY <2>1 DEF Writes
  <2>2. CASE u # t
    <3>1. Writes(u) /\ pc'[u] = pc[u] /\ job'[u] = job[u]
      BY <2>2 DEF Only, Content
    <3> QED
      BY <3>1 DEF Writes, Offered, CellsOf, Part
  <2> QED
    BY <2>1, <2>2
<1>3. HitsGenuine'
  BY DEF Only, Content, HitsGenuine
<1>4. \A k \in Keys : RecordIsWhole(k)' /\ FilesReached(k)'
  BY DEF Content, RecordIsWhole, FilesReached, Whole, Reached, Offered, Part
<1> QED
  BY <1>1, <1>2, <1>3, <1>4 DEF Content, Numbered

LEMMA QuietStep ==
    ASSUME IndInv, NEW t \in Threads, Quiet, Only(t), LeavesLocks(t),
           pc' \in [Threads -> Steps], job' \in [Threads -> Jobs],
           lock' \in [Stripes -> Threads \cup {None}], ops' \in 0..MaxOps,
           ~InHand(t), ~InHand(t)', Carries(t)', Locked(t)', up = TRUE,
           dirty' = dirty \/ dirty' = TRUE, pc[t] = "persist" => dirty' = TRUE,
           Encrypted /\ pc'[t] = "read" => cells[job'[t].extent.start].id >= job'[t].floor,
           Encrypted /\ pc'[t] = "touch" => \E i \in DOMAIN offers :
               job'[t].hit = {i} /\ offers[i] = job'[t].key /\ i >= job'[t].floor,
           Ordered'
    PROVE  IndInv'
<1> USE DEF IndInv
<1>1. Types'
  BY DEF Types, Quiet
<1>2. Threaded'
  <2>1. LeavesGone(t)
    BY DEF LeavesGone, Quiet
  <2> QED
    BY <2>1, ThreadsStay DEF Quiet
<1>3. Space'
  <2>1. OfKeys' = OfKeys
    BY DEF OfKeys, Quiet
  <2>2. \A u \in Threads : (IF InHand(u)' THEN CellsOf(job'[u].extent) ELSE {})
                         = (IF InHand(u) THEN CellsOf(job[u].extent) ELSE {})
    BY DEF Only, InHand
  <2>3. OfThreads' = OfThreads
    BY <2>2 DEF OfThreads, CellsOf
  <2> QED
    BY <2>1, <2>3 DEF Space, Quiet
<1>4. Encrypted => Content'
  BY OthersRead DEF Quiet, InHand
<1>5. Indexing'
  <2>1. \A k \in Keys : Announced(k) => Announced(k)'
    BY OthersAnnounce DEF InHand
  <2> QED
    BY <2>1 DEF Indexing, Quiet
<1>6. Summed'
  BY DEF Summed, Quiet, SizesOf, Recorded
<1> QED
  BY <1>1, <1>2, <1>3, <1>4, <1>5, <1>6
LEMMA OrderStays ==
    ASSUME Ordered, UNCHANGED <<order, objects>>
    PROVE  Ordered'
  BY DEF Ordered, Recorded

LEMMA IdleIsFine ==
    ASSUME NEW t \in Threads, pc'[t] = "idle"
    PROVE  Carries(t)' /\ Locked(t)' /\ ~InHand(t)'
  BY DEF Carries, Locked, InHand, OwnStripe, Storing, Removing

LEMMA StartStep ==
    ASSUME IndInv, NEW t \in Threads, NEW step \in Steps, NEW j \in Jobs, Start(t, step, j),
           step \in {"lock", "admit", "read"}, j.back = "idle",
           step = "lock" => j.victim \in Keys,
           step = "admit" => j.key \in Keys /\ j.len \in Lengths,
           step = "read" => j.key \in Keys /\ j.extent \in Placed,
           Encrypted /\ step = "read" => cells[j.extent.start].id >= j.floor
    PROVE  IndInv'
<1>1. /\ pc' \in [Threads -> Steps] /\ job' \in [Threads -> Jobs]
      /\ pc'[t] = step /\ job'[t] = j /\ Only(t)
  BY Moves DEF IndInv, Start
<1>2. Quiet /\ UNCHANGED <<order, lock, dirty>>
  BY DEF Quiet, Start, state, space, worker
<1>3. Carries(t)' /\ Locked(t)' /\ ~InHand(t)' /\ ~InHand(t)
  BY <1>1 DEF Carries, Locked, InHand, OwnStripe, Storing, Removing, Start, At
<1>4. up = TRUE /\ pc[t] = "idle" /\ ops' \in 0..MaxOps
  BY BoundsNatural DEF IndInv, Types, Start, At
<1>5. LeavesLocks(t) /\ lock' \in [Stripes -> Threads \cup {None}]
  BY <1>2 DEF LeavesLocks, IndInv, Types
<1>6. Ordered'
  BY <1>2, OrderStays DEF IndInv, Quiet
<1> QED
  BY <1>1, <1>2, <1>3, <1>4, <1>5, <1>6, QuietStep

LEMMA StartRemoveStep ==
    ASSUME IndInv, NEW t \in Threads, NEW k \in Keys, StartRemove(t, k)
    PROVE  IndInv'
<1> DEFINE j == [NoJob EXCEPT !.victim = k]
<1>1. j \in Jobs /\ j.back = "idle" /\ j.victim \in Keys
  BY NoJobIsJob, JobChanges DEF NoJob
<1>2. "lock" \in Steps
  BY DEF Steps
<1>3. Start(t, "lock", j)
  BY DEF StartRemove
<1> QED
  BY <1>1, <1>2, <1>3, StartStep

LEMMA StartStoreStep ==
    ASSUME IndInv, NEW t \in Threads, NEW k \in Keys, NEW n \in Lengths, StartStore(t, k, n)
    PROVE  IndInv'
<1> DEFINE j == [NoJob EXCEPT !.key = k, !.len = n]
<1>1. j \in Jobs /\ j.back = "idle" /\ j.key \in Keys /\ j.len \in Lengths
  BY SizesPositive DEF NoJob, Jobs
<1>2. "admit" \in Steps
  BY DEF Steps
<1>3. Start(t, "admit", j)
  BY DEF StartStore
<1> QED
  BY <1>1, <1>2, <1>3, StartStep

LEMMA StartGetStep ==
    ASSUME IndInv, NEW t \in Threads, NEW k \in Keys, StartGet(t, k)
    PROVE  IndInv'
<1> DEFINE e == objects[k]
           j == [NoJob EXCEPT !.key = k, !.extent = e, !.floor = e.id]
<1>1. e \in Placed /\ e \in Extents /\ e.id \in Nat
  BY PlacedIsExtent DEF StartGet, IndInv, Types, Extents
<1>2. j \in Jobs /\ j.back = "idle" /\ j.key = k /\ j.extent = e /\ j.floor = e.id
  BY <1>1 DEF NoJob, Jobs
<1>3. "read" \in Steps
  BY DEF Steps
<1>4. Encrypted => cells[e.start].id >= e.id
  <2>1. ASSUME Encrypted PROVE cells[e.start] = Part(e.id, 0, e.len)
    <3>1. Whole(e)
      BY <2>1 DEF IndInv, Content, RecordIsWhole, StartGet
    <3>2. 0 \in 0..(e.len - 1) /\ e.start + 0 = e.start
      BY <1>1, ExtentIs
    <3> QED
      BY <3>1, <3>2 DEF Whole
  <2> QED
    BY <1>1, <2>1 DEF Part
<1>5. Start(t, "read", j)
  BY DEF StartGet
<1> HIDE DEF j
<1> QED
  BY <1>1, <1>2, <1>3, <1>4, <1>5, StartStep
(* The operation ends, and with it the hold on its stripe.                 *)
LEMMA FinishIs ==
    ASSUME Types, NEW t \in Threads, Finish(t)
    PROVE  /\ pc' \in [Threads -> Steps] /\ job' \in [Threads -> Jobs]
           /\ pc'[t] = "idle" /\ job'[t] = NoJob /\ Only(t)
           /\ Carries(t)' /\ Locked(t)' /\ ~InHand(t)'
<1>1. "idle" \in Steps
  BY DEF Steps
<1>2. /\ pc' \in [Threads -> Steps] /\ job' \in [Threads -> Jobs]
      /\ pc'[t] = "idle" /\ job'[t] = NoJob /\ Only(t)
  BY <1>1, NoJobIsJob, Moves DEF Finish
<1> QED
  BY <1>2, IdleIsFine

LEMMA UnlockIs ==
    ASSUME Types, NEW t \in Threads, NEW s \in Stripes, lock[s] = t, Unlock(s)
    PROVE  /\ lock' \in [Stripes -> Threads \cup {None}] /\ LeavesLocks(t)
           /\ \A r \in Stripes : r # s => lock'[r] = lock[r]
  BY DEF Types, Unlock, LeavesLocks

LEMMA GiveUpStep ==
    ASSUME IndInv, NEW t \in Threads, up = TRUE, pc[t] \in {"pick", "lock"}, GiveUp(t),
           UNCHANGED <<space, cells, worker, dirty, offers, bounds>>
    PROVE  IndInv'
<1>1. Types /\ Carries(t) /\ Locked(t)
  BY DEF IndInv, Threaded
<1>2. /\ pc' \in [Threads -> Steps] /\ job' \in [Threads -> Jobs]
      /\ pc'[t] = "idle" /\ Only(t) /\ Carries(t)' /\ Locked(t)' /\ ~InHand(t)'
  BY <1>1, FinishIs DEF GiveUp
<1>3. lock' \in [Stripes -> Threads \cup {None}] /\ LeavesLocks(t)
  <2>1. CASE job[t].back = "allocate"
    <3>1. job[t].key \in Keys /\ lock[Stripe[job[t].key]] = t
      BY <2>1, <1>1 DEF Carries, Locked, OwnStripe, Removing
    <3>2. Stripe[job[t].key] \in Stripes
      BY <3>1, StripeOfEveryKey
    <3>3. Unlock(Stripe[job[t].key])
      BY <2>1 DEF GiveUp
    <3> QED
      BY <1>1, <3>1, <3>2, <3>3, UnlockIs
  <2>2. CASE job[t].back # "allocate"
    BY <2>2, <1>1 DEF GiveUp, LeavesLocks, Types
  <2> QED
    BY <2>1, <2>2
<1>4. Quiet /\ UNCHANGED <<order, dirty, ops>>
  BY DEF Quiet, GiveUp, state, space, worker, bounds
<1>5. Ordered' /\ ops' \in 0..MaxOps /\ ~InHand(t)
  BY <1>4, OrderStays DEF IndInv, Types, Quiet, InHand
<1> QED
  BY <1>2, <1>3, <1>4, <1>5, QuietStep

LEMMA PickVictimStep ==
    ASSUME IndInv, NEW t \in Threads, PickVictim(t)
    PROVE  IndInv'
<1>0. Types /\ Carries(t) /\ Locked(t) /\ up = TRUE /\ pc[t] = "pick"
  BY DEF IndInv, Threaded, Types, PickVictim, At
<1>1. CASE GiveUp(t)
  BY <1>0, <1>1, GiveUpStep DEF PickVictim
<1>2. CASE /\ order # <<>>
           /\ job' = [job EXCEPT ![t].victim = Head(order)]
           /\ Goto(t, "lock")
           /\ UNCHANGED <<state, lock>>
  <2> DEFINE j == [job[t] EXCEPT !.victim = Head(order)]
  <2>1. Head(order) \in Keys
    BY <1>2 DEF IndInv, Ordered
  <2>2. j \in Jobs
    BY <2>1, <1>0, JobChanges DEF Types
  <2>3. "lock" \in Steps /\ job' = [job EXCEPT ![t] = j]
    BY <1>2 DEF Steps
  <2>4. /\ pc' \in [Threads -> Steps] /\ job' \in [Threads -> Jobs]
        /\ pc'[t] = "lock" /\ job'[t] = j /\ Only(t)
    BY <1>0, <1>2, <2>2, <2>3, Moves
  <2>5. /\ j.victim = Head(order) /\ j.back = job[t].back
        /\ j.key = job[t].key /\ j.len = job[t].len
    BY <1>0 DEF Types, Jobs
  <2> HIDE DEF j
  <2>6. Quiet /\ UNCHANGED <<order, lock, dirty, ops>>
    BY <1>2 DEF Quiet, PickVictim, state, space, worker, bounds
  <2>7. Carries(t)' /\ ~InHand(t) /\ ~InHand(t)'
    BY <1>0, <2>1, <2>4, <2>5 DEF Carries, InHand, Storing, Removing
  <2>8. Locked(t)'
    BY <1>0, <2>4, <2>5, <2>6 DEF Locked, OwnStripe, Removing, Quiet
  <2>9. Ordered' /\ ops' \in 0..MaxOps /\ LeavesLocks(t) /\ lock' \in [Stripes -> Threads \cup {None}]
    BY <1>0, <2>6, OrderStays DEF IndInv, Types, Quiet, LeavesLocks
  <2> QED
    BY <1>0, <2>4, <2>6, <2>7, <2>8, <2>9, QuietStep
<1> QED
  BY <1>1, <1>2 DEF PickVictim

LEMMA AdmitStep ==
    ASSUME IndInv, NEW t \in Threads, Admit(t)
    PROVE  IndInv'
<1>0. Types /\ Carries(t) /\ Locked(t) /\ up = TRUE /\ pc[t] = "admit" /\ ~InHand(t)
  BY DEF IndInv, Threaded, Types, Admit, At, InHand
<1>1. PICK step \in {"lockKey", "pick"}, b \in {"idle", "admit", "allocate"} :
         /\ Goto(t, step) /\ job' = [job EXCEPT ![t] = [job[t] EXCEPT !.back = b]]
         /\ step = "pick" => b = "admit"
  <2>1. CASE Goto(t, "lockKey") /\ UNCHANGED job
    <3>1. job[t].back \in {"idle", "admit", "allocate"} /\ job[t] = [job[t] EXCEPT !.back = job[t].back]
      BY <1>0 DEF Types, Jobs
    <3>2. job' = [job EXCEPT ![t] = [job[t] EXCEPT !.back = job[t].back]]
      BY <1>0, <2>1, <3>1 DEF Types
    <3> QED
      BY <2>1, <3>1, <3>2
  <2>2. CASE job' = [job EXCEPT ![t].back = "admit"] /\ Goto(t, "pick")
    BY <2>2
  <2> QED
    BY <2>1, <2>2 DEF Admit
<1> DEFINE j == [job[t] EXCEPT !.back = b]
<1>2. j \in Jobs
  BY <1>0, JobChanges DEF Types
<1>3. step \in Steps
  BY DEF Steps
<1>4. /\ pc' \in [Threads -> Steps] /\ job' \in [Threads -> Jobs]
      /\ pc'[t] = step /\ job'[t] = j /\ Only(t)
  BY <1>0, <1>1, <1>2, <1>3, Moves
<1>5. j.back = b /\ j.key = job[t].key /\ j.len = job[t].len
  BY <1>0 DEF Types, Jobs
<1> HIDE DEF j
<1>6. Quiet /\ UNCHANGED <<order, lock, dirty, ops>>
  BY DEF Quiet, Admit, state, space, worker, bounds
<1>7. Carries(t)' /\ ~InHand(t)'
  BY <1>0, <1>4, <1>5 DEF Carries, InHand, Storing, Removing
<1>8. Locked(t)'
  BY <1>0, <1>1, <1>4, <1>5, <1>6 DEF Locked, OwnStripe, Removing, Quiet
<1>9. Ordered' /\ ops' \in 0..MaxOps /\ LeavesLocks(t) /\ lock' \in [Stripes -> Threads \cup {None}]
  BY <1>0, <1>6, OrderStays DEF IndInv, Types, Quiet, LeavesLocks
<1> QED
  BY <1>0, <1>4, <1>6, <1>7, <1>8, <1>9, QuietStep

LEMMA LockKeyStep ==
    ASSUME IndInv, NEW t \in Threads, LockKey(t)
    PROVE  IndInv'
<1> DEFINE k == job[t].key
<1>0. Types /\ Carries(t) /\ Locked(t) /\ up = TRUE /\ pc[t] = "lockKey" /\ ~InHand(t)
  BY DEF IndInv, Threaded, Types, LockKey, At, InHand
<1>1. k \in Keys /\ Stripe[k] \in Stripes /\ lock[Stripe[k]] = None /\ job[t].len \in Lengths
  BY <1>0, StripeOfEveryKey DEF LockKey, Carries, Storing
<1>2. UNCHANGED job /\ Quiet /\ UNCHANGED <<order, dirty, ops>>
  BY DEF Quiet, LockKey, state, space, worker, bounds
<1>3. PICK step \in {"removeOwn", "admit"} : Goto(t, step)
  BY DEF LockKey
<1>4. pc' \in [Threads -> Steps] /\ pc'[t] = step /\ Only(t) /\ job' \in [Threads -> Jobs]
  BY <1>0, <1>2, <1>3 DEF Types, Goto, Only, Steps
<1>5. CASE Acquire(t, Stripe[k]) /\ Goto(t, "removeOwn")
  <2>1. lock' \in [Stripes -> Threads \cup {None}] /\ LeavesLocks(t) /\ lock'[Stripe[k]] = t
    BY <1>0, <1>1, <1>5, NoneIsNoOther DEF Acquire, Types, LeavesLocks
  <2>2. pc'[t] = "removeOwn"
    BY <1>0, <1>5 DEF Goto, Types
  <2>3. Carries(t)' /\ Locked(t)' /\ ~InHand(t)'
    BY <1>0, <1>1, <1>2, <2>1, <2>2 DEF Carries, Locked, InHand, OwnStripe, Removing, Storing
  <2>4. Ordered' /\ ops' \in 0..MaxOps
    BY <1>0, <1>2, OrderStays DEF IndInv, Types, Quiet
  <2> QED
    BY <1>0, <1>2, <1>4, <2>1, <2>2, <2>3, <2>4, QuietStep
<1>6. CASE Goto(t, "admit") /\ UNCHANGED lock
  <2>1. lock' \in [Stripes -> Threads \cup {None}] /\ LeavesLocks(t)
    BY <1>0, <1>6 DEF Types, LeavesLocks
  <2>2. pc'[t] = "admit"
    BY <1>0, <1>6 DEF Goto, Types
  <2>3. Carries(t)' /\ Locked(t)' /\ ~InHand(t)'
    BY <1>0, <1>1, <1>2, <2>2 DEF Carries, Locked, InHand, OwnStripe, Removing, Storing
  <2>4. Ordered' /\ ops' \in 0..MaxOps
    BY <1>0, <1>2, OrderStays DEF IndInv, Types, Quiet
  <2> QED
    BY <1>0, <1>2, <1>4, <2>1, <2>2, <2>3, <2>4, QuietStep
<1> QED
  BY <1>5, <1>6 DEF LockKey

LEMMA PersistStep ==
    ASSUME IndInv, NEW t \in Threads, Persist(t)
    PROVE  IndInv'
<1>0. Types /\ up = TRUE /\ pc[t] = "persist" /\ ~InHand(t)
  BY DEF IndInv, Types, Persist, At, InHand
<1>1. /\ pc' \in [Threads -> Steps] /\ job' \in [Threads -> Jobs]
      /\ pc'[t] = "idle" /\ Only(t) /\ Carries(t)' /\ Locked(t)' /\ ~InHand(t)'
  BY <1>0, FinishIs DEF Persist
<1>2. Quiet /\ UNCHANGED <<order, lock, ops>> /\ dirty' = TRUE
  BY DEF Quiet, Persist, state, space, worker, bounds
<1>3. Ordered' /\ ops' \in 0..MaxOps /\ LeavesLocks(t) /\ lock' \in [Stripes -> Threads \cup {None}]
  BY <1>0, <1>2, OrderStays DEF IndInv, Types, Quiet, LeavesLocks
<1> QED
  BY <1>0, <1>1, <1>2, <1>3, QuietStep

LEMMA TouchStep ==
    ASSUME IndInv, NEW t \in Threads, Touch(t)
    PROVE  IndInv'
<1> DEFINE k == job[t].key
<1>0. Types /\ Carries(t) /\ up = TRUE /\ pc[t] = "touch" /\ ~InHand(t)
  BY DEF IndInv, Threaded, Types, Touch, At, InHand
<1>1. /\ pc' \in [Threads -> Steps] /\ job' \in [Threads -> Jobs]
      /\ pc'[t] = "idle" /\ Only(t) /\ Carries(t)' /\ Locked(t)' /\ ~InHand(t)'
  BY <1>0, FinishIs DEF Touch
<1>2. Quiet /\ UNCHANGED <<lock, ops>> /\ dirty' = TRUE
  BY DEF Quiet, Touch, space, worker, bounds
<1>3. ops' \in 0..MaxOps /\ LeavesLocks(t) /\ lock' \in [Stripes -> Threads \cup {None}]
  BY <1>0, <1>2 DEF Types, LeavesLocks
<1>4. Ordered'
  <2>1. CASE objects[k] = None
    BY <2>1, <1>2, OrderStays DEF IndInv, Touch, Quiet
  <2>2. CASE objects[k] # None
    <3> DEFINE r == RemoveFirst(order, k)
    <3>1. k \in Keys /\ k \in Recorded
      BY <1>0, <2>2 DEF Carries, Recorded
    <3>2. r \in Seq(Keys) /\ IsInjective(r) /\ ToSet(r) = Recorded \ {k}
      BY RemovedFromOrder DEF IndInv, Ordered
    <3>3. order' = Append(r, k)
      BY <2>2 DEF Touch
    <3> HIDE DEF r
    <3>4. order' \in Seq(Keys) /\ IsInjective(order') /\ ToSet(order') = (Recorded \ {k}) \cup {k}
      BY <3>1, <3>2, <3>3, AppendedToOrder
    <3> QED
      BY <3>1, <3>4, <1>2 DEF Ordered, Quiet, Recorded
  <2> QED
    BY <2>1, <2>2
<1> QED
  BY <1>0, <1>1, <1>2, <1>3, <1>4, QuietStep
(* An unlocked read of an extent, if decoding accepts it, sees one object, *)
(* no older than the one whose record named the extent.                    *)
LEMMA AuthenticatedRead ==
    ASSUME Types, Encrypted, NEW e \in Placed, NEW i \in Nat, ReadsAs(e, i)
    PROVE  {cells[c].id : c \in CellsOf(e)} = {i} /\ cells[e.start].id = i
<1>1. \A c \in CellsOf(e) : c \in Cells /\ c - e.start \in 0..(e.len - 1) /\ c = e.start + (c - e.start)
  BY ExtentIs, PlacedIsExtent, CellIsNatural DEF CellsOf, Placed
<1>2. \A c \in CellsOf(e) : cells[c].id = i
  <2> TAKE c \in CellsOf(e)
  <2>1. cells[c] = Part(i, c - e.start, e.len)
    BY <1>1 DEF ReadsAs
  <2> QED
    BY <2>1 DEF Part
<1>3. e.start \in CellsOf(e)
  BY ExtentIs, PlacedIsExtent
<1> QED
  BY <1>2, <1>3

LEMMA ReadStep ==
    ASSUME IndInv, NEW t \in Threads, Read(t)
    PROVE  IndInv'
<1> DEFINE e == job[t].extent
           k == job[t].key
<1>0. Types /\ Carries(t) /\ Locked(t) /\ up = TRUE /\ pc[t] = "read" /\ ~InHand(t)
  BY DEF IndInv, Threaded, Types, Read, At, InHand
<1>1. k \in Keys /\ e \in Placed
  BY <1>0 DEF Carries
<1>2. Quiet /\ UNCHANGED <<order, lock, dirty, ops>>
  BY DEF Quiet, Read, state, space, worker, bounds
<1>3. Ordered' /\ ops' \in 0..MaxOps /\ LeavesLocks(t) /\ lock' \in [Stripes -> Threads \cup {None}]
  BY <1>0, <1>2, OrderStays DEF IndInv, Types, Quiet, LeavesLocks
<1>4. CASE /\ \E i \in DOMAIN offers : ReadsAs(e, i) /\ offers[i] = k
           /\ job' = [job EXCEPT ![t].hit = {cells[c].id : c \in CellsOf(e)}]
           /\ Goto(t, "touch")
  <2> DEFINE H == {cells[c].id : c \in CellsOf(e)}
             j == [job[t] EXCEPT !.hit = H]
  <2>1. H \in SUBSET Nat
    <3>1. \A c \in CellsOf(e) : cells[c].id \in Nat
      BY <1>0, <1>1 DEF Types, Placed
    <3> QED
      BY <3>1
  <2>2. Encrypted => \E i \in DOMAIN offers : H = {i} /\ offers[i] = k /\ i >= job[t].floor
    <3> SUFFICES ASSUME Encrypted
                 PROVE  \E i \in DOMAIN offers : H = {i} /\ offers[i] = k /\ i >= job[t].floor
      OBVIOUS
    <3>1. PICK i \in DOMAIN offers : ReadsAs(e, i) /\ offers[i] = k
      BY <1>4
    <3>2. i \in Nat
      BY <1>0 DEF Types
    <3>3. H = {i} /\ cells[e.start].id = i
      BY <3>1, <3>2, <1>0, <1>1, AuthenticatedRead
    <3>4. cells[e.start].id >= job[t].floor
      BY <1>0 DEF IndInv, Content, Reads
    <3> QED
      BY <3>1, <3>3, <3>4
  <2> HIDE DEF H
  <2>3. j \in Jobs
    BY <1>0, <2>1, JobChanges DEF Types
  <2>4. j.hit = H /\ j.key = k /\ j.floor = job[t].floor
    BY <1>0 DEF Types, Jobs
  <2>5. "touch" \in Steps /\ job' = [job EXCEPT ![t] = j]
    BY <1>4 DEF Steps, H
  <2>6. /\ pc' \in [Threads -> Steps] /\ job' \in [Threads -> Jobs]
        /\ pc'[t] = "touch" /\ job'[t] = j /\ Only(t)
    BY <1>0, <1>4, <2>3, <2>5, Moves
  <2> HIDE DEF j
  <2>7. Carries(t)' /\ Locked(t)' /\ ~InHand(t)'
    BY <1>1, <2>4, <2>6 DEF Carries, Locked, InHand, OwnStripe, Removing, Storing
  <2>8. Encrypted /\ pc'[t] = "touch" => \E i \in DOMAIN offers :
               job'[t].hit = {i} /\ offers[i] = job'[t].key /\ i >= job'[t].floor
    BY <2>2, <2>4, <2>6
  <2> QED
    BY <1>0, <1>2, <1>3, <2>6, <2>7, <2>8, QuietStep
<1>5. CASE /\ job' = [job EXCEPT ![t] = [NoJob EXCEPT !.victim = k]]
           /\ Goto(t, "lock")
  <2> DEFINE j == [NoJob EXCEPT !.victim = k]
  <2>1. j \in Jobs /\ j.victim = k /\ j.back = "idle" /\ "lock" \in Steps
    BY <1>1, NoJobIsJob, JobChanges DEF NoJob, Steps
  <2> HIDE DEF j
  <2>2. /\ pc' \in [Threads -> Steps] /\ job' \in [Threads -> Jobs]
        /\ pc'[t] = "lock" /\ job'[t] = j /\ Only(t)
    BY <1>0, <1>5, <2>1, Moves DEF j
  <2>3. Carries(t)' /\ Locked(t)' /\ ~InHand(t)'
    BY <1>1, <2>1, <2>2 DEF Carries, Locked, InHand, OwnStripe, Removing, Storing
  <2> QED
    BY <1>0, <1>2, <1>3, <2>2, <2>3, QuietStep
<1> QED
  BY <1>4, <1>5 DEF Read
-----------------------------------------------------------------------------
(***************************************************************************)
(* Steps that move an extent                                               *)
(***************************************************************************)

LEMMA CellsInHands ==
    ASSUME Types, Threaded
    PROVE  OfKeys \in [Keys -> SUBSET Cells] /\ OfThreads \in [Threads -> SUBSET Cells]
<1>1. \A k \in Keys : objects[k] # None => CellsOf(objects[k]) \subseteq Cells
  BY DEF Types, Placed
<1>2. \A t \in Threads : InHand(t) => CellsOf(job[t].extent) \subseteq Cells
  BY DEF Threaded, Carries, Placed
<1> QED
  BY <1>1, <1>2 DEF OfKeys, OfThreads

LEMMA SizesAreNatural ==
    ASSUME Types
    PROVE  /\ SizesOf(objects) \in [Keys -> Nat] /\ SizesOf(index) \in [Keys -> Nat]
           /\ Recorded \subseteq Keys
<1>1. \A k \in Keys : /\ objects[k] # None => objects[k].len \in Nat
                      /\ index[k] # None => index[k].len \in Nat
  BY PlacedIsExtent, ExtentIs DEF Types
<1> QED
  BY <1>1 DEF SizesOf, Recorded

LEMMA RecordLeaves ==
    ASSUME IndInv, NEW t \in Threads, up = TRUE, NEW k \in Keys, objects[k] # None, RemoveRecord(k),
           UNCHANGED <<space, cells, worker, dirty, offers, bounds>>, Only(t),
           pc' \in [Threads -> Steps], job' \in [Threads -> Jobs],
           lock' \in [Stripes -> Threads \cup {None}], LeavesLocks(t),
           ~InHand(t), pc[t] # "persist", job'[t].extent = objects[k], Carries(t)', Locked(t)',
           \/ pc'[t] = "release" /\ job'[t].victim = k
           \/ pc'[t] = "releaseOwn" /\ job'[t].key = k
    PROVE  IndInv'
<1>0. Types /\ Threaded /\ Space /\ Indexing /\ Ordered /\ Summed
  BY DEF IndInv
<1>1. objects' = [objects EXCEPT ![k] = None]
  BY DEF RemoveRecord
<1>2. UNCHANGED <<free, nextBin, cells, flush, copy, index, dirty, offers, ops, restarts, up>>
  BY DEF space, worker, bounds
<1>3. Types'
  BY <1>0, <1>1, <1>2 DEF Types
<1>4. Threaded'
  <2>1. LeavesGone(t)
    BY <1>0, <1>1 DEF LeavesGone, Types
  <2> QED
    BY <1>0, <1>2, <2>1, ThreadsStay
<1>5. Space'
  <2>1. OfKeys' = [OfKeys EXCEPT ![k] = {}]
    BY <1>0, <1>1 DEF OfKeys, Types, CellsOf
  <2>2. OfThreads[t] = {}
    BY DEF OfThreads
  <2>3. InHand(t)' /\ \A u \in Threads \ {t} : InHand(u)' = InHand(u) /\ job'[u] = job[u]
    BY DEF InHand, Only
  <2>4. OfThreads' = [OfThreads EXCEPT ![t] = OfKeys[k]]
    BY <2>3 DEF OfThreads, OfKeys, CellsOf
  <2>5. nextBin \in Nat
    BY <1>0 DEF Types
  <2>6. Shared([OfKeys EXCEPT ![k] = {}], [OfThreads EXCEPT ![t] = OfKeys[k]], free, nextBin, restarts)
    BY <1>0, <2>2, <2>5, CellsInHands, CellsLeaveTheRecord DEF Space
  <2> QED
    BY <1>2, <2>1, <2>4, <2>6 DEF Space
<1>6. Encrypted => Content'
  <2> SUFFICES ASSUME Encrypted PROVE Content'
    OBVIOUS
  <2>1. Content
    BY DEF IndInv
  <2>2. \A j \in Keys : RecordIsWhole(j)'
    <3> TAKE j \in Keys
    <3>1. objects'[j] # None => objects'[j] = objects[j]
      BY <1>0, <1>1 DEF Types
    <3> QED
      BY <2>1, <3>1, <1>2 DEF Content, RecordIsWhole, Whole, Offered, Part
  <2>3. \A j \in Keys : FilesReached(j)'
    BY <2>1, <1>2 DEF Content, FilesReached, Reached
  <2>4. \A u \in Threads : Writes(u)' /\ Reads(u)'
    <3> TAKE u \in Threads
    <3>1. CASE u = t
      BY <3>1 DEF Writes, Reads
    <3>2. CASE u # t
      <4>1. Writes(u) /\ Reads(u) /\ pc'[u] = pc[u] /\ job'[u] = job[u]
        BY <2>1, <3>2 DEF Only, Content
      <4> QED
        BY <4>1, <1>2 DEF Writes, Reads, Offered, CellsOf, Part
    <3> QED
      BY <3>1, <3>2
  <2>5. HitsGenuine'
    BY <2>1, <1>2 DEF Only, Content, HitsGenuine
  <2> QED
    BY <2>1, <2>2, <2>3, <2>4, <2>5, <1>2 DEF Content, Numbered
<1>7. Indexing'
  <2>1. \A j \in Keys : Announced(j) => Announced(j)'
    BY <1>2, OthersAnnounce DEF InHand
  <2>2. Announced(k)'
    BY DEF Announced
  <2>3. \A j \in Keys : j # k => objects'[j] = objects[j]
    BY <1>0, <1>1 DEF Types
  <2> QED
    BY <1>0, <1>2, <2>1, <2>2, <2>3 DEF Indexing
<1>8. Recorded' = Recorded \ {k} /\ k \in Recorded
  BY <1>0, <1>1 DEF Recorded, Types
<1>9. Ordered'
  <2>1. order' = RemoveFirst(order, k)
    BY DEF RemoveRecord
  <2>2. /\ RemoveFirst(order, k) \in Seq(Keys) /\ IsInjective(RemoveFirst(order, k))
        /\ ToSet(RemoveFirst(order, k)) = ToSet(order) \ {k}
    BY <1>0, RemovedFromOrder DEF Ordered
  <2> QED
    BY <1>0, <1>8, <2>1, <2>2 DEF Ordered
<1>10. Summed'
  <2> DEFINE g == SizesOf(objects)
             h == SizesOf(objects)'
             R == Recorded \ {k}
  <2>1. g \in [Keys -> Nat] /\ Recorded \in SUBSET Keys /\ R \in SUBSET Keys
    BY <1>0, SizesAreNatural
  <2>2. g[k] = objects[k].len /\ \A j \in R : g[j] = h[j]
    <3>1. \A j \in R : j \in Keys /\ objects'[j] = objects[j]
      BY <1>0, <1>1 DEF Types, Recorded
    <3> QED
      BY <3>1 DEF SizesOf
  <2> HIDE DEF g, h
  <2>3. SumFunctionOnSet(g, Recorded) = g[k] + SumFunctionOnSet(g, R)
    BY <2>1, <1>8, KeysFinite, SumTakes
  <2>4. SumFunctionOnSet(g, R) \in Nat /\ g[k] \in Nat
    BY <2>1, KeysFinite, SumIsNatural
  <2>5. IsFiniteSet(R)
    BY <2>1, KeysFinite, FS_Subset
  <2>6. SumFunctionOnSet(g, R) = SumFunctionOnSet(h, R)
    BY <2>2, <2>5, SumAgrees
  <2>7. bytes = SumFunctionOnSet(g, Recorded)
    BY <1>0 DEF Summed, g
  <2>8. bytes' = bytes - g[k]
    BY <2>2 DEF RemoveRecord
  <2>9. bytes' = SumFunctionOnSet(h, R)
    BY <2>3, <2>4, <2>6, <2>7, <2>8
  <2> QED
    BY <2>9, <1>8 DEF Summed, h
<1> QED
  BY <1>3, <1>4, <1>5, <1>6, <1>7, <1>9, <1>10 DEF IndInv
LEMMA LockVictimStep ==
    ASSUME IndInv, NEW t \in Threads, LockVictim(t)
    PROVE  IndInv'
<1> DEFINE k == job[t].victim
<1>0. Types /\ Carries(t) /\ Locked(t) /\ up = TRUE /\ pc[t] = "lock" /\ ~InHand(t)
  BY DEF IndInv, Threaded, Types, LockVictim, At, InHand
<1>1. k \in Keys /\ Stripe[k] \in Stripes /\ lock[Stripe[k]] = None
  BY <1>0, StripeOfEveryKey DEF LockVictim, Carries
<1>2. UNCHANGED <<space, cells, worker, dirty, offers, bounds>>
  BY DEF LockVictim
<1>3. CASE GiveUp(t)
  BY <1>0, <1>2, <1>3, GiveUpStep
<1>4. CASE /\ objects[k] # None
           /\ Acquire(t, Stripe[k])
           /\ RemoveRecord(k)
           /\ job' = [job EXCEPT ![t].extent = objects[k]]
           /\ Goto(t, "release")
  <2> DEFINE e == objects[k]
             j == [job[t] EXCEPT !.extent = e]
  <2>1. e \in Placed /\ e \in Extents
    BY <1>0, <1>1, <1>4, PlacedIsExtent DEF Types
  <2>2. j \in Jobs
    BY <1>0, <2>1, JobChanges DEF Types
  <2>3. "release" \in Steps /\ job' = [job EXCEPT ![t] = j]
    BY <1>4 DEF Steps
  <2>4. /\ pc' \in [Threads -> Steps] /\ job' \in [Threads -> Jobs]
        /\ pc'[t] = "release" /\ job'[t] = j /\ Only(t)
    BY <1>0, <1>4, <2>2, <2>3, Moves
  <2>5. /\ j.extent = e /\ j.victim = k /\ j.back = job[t].back
        /\ j.key = job[t].key /\ j.len = job[t].len
    BY <1>0 DEF Types, Jobs
  <2> HIDE DEF j
  <2>6. /\ lock' \in [Stripes -> Threads \cup {None}] /\ LeavesLocks(t) /\ lock'[Stripe[k]] = t
        /\ \A s \in Stripes : lock[s] = t => lock'[s] = t /\ s # Stripe[k]
    BY <1>0, <1>1, <1>4, NoneIsNoOther DEF Acquire, Types, LeavesLocks
  <2>7. Carries(t)'
    BY <1>0, <1>1, <2>1, <2>4, <2>5 DEF Carries, InHand, Storing, Removing
  <2>8. Locked(t)'
    <3>1. OwnStripe(t)' <=> job[t].back = "allocate"
      BY <2>4, <2>5 DEF OwnStripe, Removing
    <3>2. CASE job[t].back = "allocate"
      <4>1. job[t].key \in Keys /\ lock[Stripe[job[t].key]] = t /\ objects[job[t].key] = None
        BY <3>2, <1>0 DEF Carries, Locked, OwnStripe, Removing
      <4>2. Stripe[job[t].key] \in Stripes
        BY <4>1, StripeOfEveryKey
      <4>3. objects'[job[t].key] = None
        BY <4>1, <1>0, <1>4 DEF RemoveRecord, Types
      <4> QED
        BY <2>4, <2>5, <2>6, <4>1, <4>2, <4>3 DEF Locked
    <3>3. CASE job[t].back # "allocate"
      BY <3>1, <3>3, <2>4, <2>5, <2>6 DEF Locked
    <3> QED
      BY <3>2, <3>3
  <2> QED
    BY <1>0, <1>1, <1>2, <1>4, <2>4, <2>5, <2>6, <2>7, <2>8, RecordLeaves
<1> QED
  BY <1>3, <1>4 DEF LockVictim

LEMMA RemoveOwnStep ==
    ASSUME IndInv, NEW t \in Threads, RemoveOwn(t)
    PROVE  IndInv'
<1> DEFINE k == job[t].key
<1>0. Types /\ Carries(t) /\ Locked(t) /\ up = TRUE /\ pc[t] = "removeOwn" /\ ~InHand(t)
  BY DEF IndInv, Threaded, Types, RemoveOwn, At, InHand
<1>1. k \in Keys /\ job[t].len \in Lengths /\ lock[Stripe[k]] = t
  BY <1>0 DEF Carries, Storing, Locked, OwnStripe
<1>2. UNCHANGED <<space, cells, lock, worker, dirty, offers, bounds>>
  BY DEF RemoveOwn
<1>3. LeavesLocks(t) /\ lock' \in [Stripes -> Threads \cup {None}]
  BY <1>0, <1>2 DEF LeavesLocks, Types
<1>4. CASE objects[k] = None /\ Goto(t, "allocate") /\ UNCHANGED <<state, job>>
  <2>1. pc' \in [Threads -> Steps] /\ pc'[t] = "allocate" /\ Only(t) /\ job' \in [Threads -> Jobs]
    BY <1>0, <1>4 DEF Types, Goto, Only, Steps
  <2>2. Quiet /\ UNCHANGED <<order, lock, dirty, ops>>
    BY <1>2, <1>4 DEF Quiet, state, space, worker, bounds
  <2>3. Carries(t)' /\ Locked(t)' /\ ~InHand(t)'
    BY <1>1, <1>4, <2>1, <2>2 DEF Carries, Locked, InHand, OwnStripe, Removing, Storing, Quiet
  <2>4. Ordered' /\ ops' \in 0..MaxOps
    BY <1>0, <2>2, OrderStays DEF IndInv, Types, Quiet
  <2> QED
    BY <1>0, <1>3, <2>1, <2>2, <2>3, <2>4, QuietStep
<1>5. CASE /\ objects[k] # None
           /\ RemoveRecord(k)
           /\ job' = [job EXCEPT ![t].extent = objects[k]]
           /\ Goto(t, "releaseOwn")
  <2> DEFINE e == objects[k]
             j == [job[t] EXCEPT !.extent = e]
  <2>1. e \in Placed /\ e \in Extents
    BY <1>0, <1>1, <1>5, PlacedIsExtent DEF Types
  <2>2. j \in Jobs
    BY <1>0, <2>1, JobChanges DEF Types
  <2>3. "releaseOwn" \in Steps /\ job' = [job EXCEPT ![t] = j]
    BY <1>5 DEF Steps
  <2>4. /\ pc' \in [Threads -> Steps] /\ job' \in [Threads -> Jobs]
        /\ pc'[t] = "releaseOwn" /\ job'[t] = j /\ Only(t)
    BY <1>0, <1>5, <2>2, <2>3, Moves
  <2>5. j.extent = e /\ j.key = k /\ j.len = job[t].len
    BY <1>0 DEF Types, Jobs
  <2> HIDE DEF j
  <2>6. objects'[k] = None
    BY <1>0, <1>1, <1>5 DEF RemoveRecord, Types
  <2>7. Carries(t)' /\ Locked(t)'
    BY <1>1, <1>2, <2>1, <2>4, <2>5, <2>6 DEF Carries, Locked, InHand, OwnStripe, Removing, Storing
  <2> QED
    BY <1>0, <1>1, <1>2, <1>3, <1>5, <2>4, <2>5, <2>7, RecordLeaves
<1> QED
  BY <1>4, <1>5 DEF RemoveOwn

LEMMA ExtentReturns ==
    ASSUME IndInv, NEW t \in Threads, up = TRUE, InHand(t), ReleaseExtent(job[t].extent),
           UNCHANGED <<state, cells, worker, offers, bounds>>, Only(t),
           pc' \in [Threads -> Steps], job' \in [Threads -> Jobs],
           lock' \in [Stripes -> Threads \cup {None}], LeavesLocks(t),
           pc'[t] \in {"idle", "admit", "allocate"}, Carries(t)', Locked(t)',
           dirty' = dirty \/ dirty' = TRUE, pc[t] # "write" => dirty' = TRUE
    PROVE  IndInv'
<1>0. Types /\ Threaded /\ Space /\ Indexing /\ Ordered /\ Summed
  BY DEF IndInv
<1>1. UNCHANGED <<objects, order, bytes, cells, flush, copy, index, offers, ops, restarts, up>>
  BY DEF state, worker, bounds
<1>2. Space' /\ nextBin' \in Nat /\ free' \subseteq Cells
  <2>1. OfKeys' = OfKeys
    BY <1>1 DEF OfKeys
  <2>2. OfThreads[t] = CellsOf(job[t].extent)
    BY DEF OfThreads
  <2>3. ~InHand(t)' /\ \A u \in Threads \ {t} : InHand(u)' = InHand(u) /\ job'[u] = job[u]
    BY DEF InHand, Only
  <2>4. OfThreads' = [OfThreads EXCEPT ![t] = {}]
    BY <2>3 DEF OfThreads, CellsOf
  <2>5. nextBin \in Nat /\ free \subseteq Cells
    BY <1>0 DEF Types
  <2>6. /\ Shared(OfKeys, [OfThreads EXCEPT ![t] = {}], free', nextBin', restarts)
        /\ nextBin' \in Nat /\ free' \subseteq Cells
    BY <1>0, <2>2, <2>5, CellsInHands, ExtentIsReleased DEF Space
  <2> QED
    BY <1>1, <2>1, <2>4, <2>6 DEF Space
<1>3. Types'
  BY <1>0, <1>1, <1>2 DEF Types
<1>4. Threaded'
  <2>1. LeavesGone(t)
    BY <1>1 DEF LeavesGone
  <2> QED
    BY <1>0, <1>1, <2>1, ThreadsStay
<1>5. Encrypted => Content'
  BY <1>1, OthersRead DEF IndInv
<1>6. Indexing'
  <2>1. \A j \in Keys : Announced(j) => Announced(j)'
    BY OthersAnnounce
  <2> QED
    BY <1>0, <1>1, <2>1 DEF Indexing
<1>7. Ordered' /\ Summed'
  BY <1>0, <1>1, OrderStays DEF Summed, SizesOf, Recorded
<1> QED
  BY <1>2, <1>3, <1>4, <1>5, <1>6, <1>7 DEF IndInv

LEMMA ReleaseStep ==
    ASSUME IndInv, NEW t \in Threads, Release(t)
    PROVE  IndInv'
<1> DEFINE k == job[t].victim
<1>0. Types /\ Carries(t) /\ Locked(t) /\ up = TRUE /\ pc[t] = "release" /\ InHand(t)
  BY DEF IndInv, Threaded, Types, Release, At, InHand
<1>1. k \in Keys /\ Stripe[k] \in Stripes /\ lock[Stripe[k]] = t
  BY <1>0, StripeOfEveryKey DEF Carries, Locked
<1>2. /\ lock' \in [Stripes -> Threads \cup {None}] /\ LeavesLocks(t)
      /\ \A s \in Stripes : s # Stripe[k] => lock'[s] = lock[s]
  BY <1>0, <1>1, UnlockIs DEF Release
<1>3. /\ UNCHANGED <<state, cells, worker, offers, bounds>> /\ dirty' = TRUE
      /\ ReleaseExtent(job[t].extent)
  BY DEF Release
<1>4. CASE Finish(t)
  <2>1. /\ pc' \in [Threads -> Steps] /\ job' \in [Threads -> Jobs]
        /\ pc'[t] = "idle" /\ Only(t) /\ Carries(t)' /\ Locked(t)'
    BY <1>0, <1>4, FinishIs
  <2> QED
    BY <1>0, <1>2, <1>3, <2>1, ExtentReturns
<1>5. CASE /\ job[t].back # "idle"
           /\ job' = [job EXCEPT ![t].extent = None, ![t].victim = None, ![t].back = "idle"]
           /\ Goto(t, job[t].back)
  <2> DEFINE step == job[t].back
             j == [job[t] EXCEPT !.extent = None, !.victim = None, !.back = "idle"]
  <2>1. step \in {"admit", "allocate"} /\ step \in Steps
    BY <1>0, <1>5 DEF Types, Jobs, Steps
  <2>2. /\ j \in Jobs /\ j.key = job[t].key /\ j.len = job[t].len
        /\ job[t] \in Jobs
    BY <1>0 DEF Types, Jobs
  <2>3. job' = [job EXCEPT ![t] = j]
    BY <1>0, <1>5 DEF Types
  <2> HIDE DEF j
  <2>4. /\ pc' \in [Threads -> Steps] /\ job' \in [Threads -> Jobs]
        /\ pc'[t] = step /\ job'[t] = j /\ Only(t)
    BY <1>0, <1>5, <2>1, <2>2, <2>3, Moves
  <2>5. job[t].key \in Keys /\ job[t].len \in Lengths /\ Stripe[job[t].key] \in Stripes
    BY <1>0, <1>5, StripeOfEveryKey DEF Carries, Removing
  <2>6. Carries(t)'
    BY <2>1, <2>2, <2>4, <2>5 DEF Carries, InHand, Storing, Removing
  <2>7. Locked(t)'
    <3>1. CASE step = "allocate"
      <4>1. /\ lock[Stripe[job[t].key]] = t /\ Stripe[job[t].key] # Stripe[k]
            /\ objects[job[t].key] = None
        BY <3>1, <1>0 DEF Locked, OwnStripe, Removing
      <4>2. UNCHANGED objects
        BY <1>3 DEF state
      <4> QED
        BY <3>1, <4>1, <4>2, <1>2, <2>2, <2>4, <2>5 DEF Locked, OwnStripe, Removing
    <3>2. CASE step = "admit"
      BY <3>2, <2>4 DEF Locked, OwnStripe, Removing
    <3> QED
      BY <2>1, <3>1, <3>2
  <2> QED
    BY <1>0, <1>2, <1>3, <2>1, <2>4, <2>6, <2>7, ExtentReturns
<1> QED
  BY <1>4, <1>5 DEF Release

LEMMA ReleaseOwnStep ==
    ASSUME IndInv, NEW t \in Threads, ReleaseOwn(t)
    PROVE  IndInv'
<1>0. Types /\ Carries(t) /\ Locked(t) /\ up = TRUE /\ pc[t] = "releaseOwn" /\ InHand(t)
  BY DEF IndInv, Threaded, Types, ReleaseOwn, At, InHand
<1>1. /\ job[t].key \in Keys /\ job[t].len \in Lengths
      /\ lock[Stripe[job[t].key]] = t /\ objects[job[t].key] = None
  BY <1>0 DEF Carries, Storing, Locked, OwnStripe
<1>2. /\ UNCHANGED <<state, cells, worker, offers, bounds>> /\ dirty' = TRUE
      /\ ReleaseExtent(job[t].extent) /\ UNCHANGED <<objects, lock>>
  BY DEF ReleaseOwn, state
<1> DEFINE j == [job[t] EXCEPT !.extent = None]
<1>3. j \in Jobs /\ "allocate" \in Steps /\ job' = [job EXCEPT ![t] = j]
  BY <1>0, JobChanges DEF Types, Steps, ReleaseOwn
<1>4. j.key = job[t].key /\ j.len = job[t].len
  BY <1>0 DEF Types, Jobs
<1> HIDE DEF j
<1>5. /\ pc' \in [Threads -> Steps] /\ job' \in [Threads -> Jobs]
      /\ pc'[t] = "allocate" /\ job'[t] = j /\ Only(t)
  BY <1>0, <1>3, Moves DEF ReleaseOwn
<1>6. Carries(t)' /\ Locked(t)'
  BY <1>1, <1>2, <1>4, <1>5 DEF Carries, Locked, InHand, OwnStripe, Removing, Storing
<1>7. LeavesLocks(t) /\ lock' \in [Stripes -> Threads \cup {None}]
  BY <1>0, <1>2 DEF LeavesLocks, Types
<1> QED
  BY <1>0, <1>2, <1>5, <1>6, <1>7, ExtentReturns

LEMMA WriteFailsStep ==
    ASSUME IndInv, NEW t \in Threads, WriteFails(t)
    PROVE  IndInv'
<1> DEFINE k == job[t].key
<1>0. Types /\ Carries(t) /\ Locked(t) /\ up = TRUE /\ pc[t] = "write" /\ InHand(t)
  BY DEF IndInv, Threaded, Types, WriteFails, At, InHand
<1>1. k \in Keys /\ Stripe[k] \in Stripes /\ lock[Stripe[k]] = t
  BY <1>0, StripeOfEveryKey DEF Carries, Storing, Locked, OwnStripe
<1>2. lock' \in [Stripes -> Threads \cup {None}] /\ LeavesLocks(t)
  BY <1>0, <1>1, UnlockIs DEF WriteFails
<1>3. UNCHANGED <<state, cells, worker, offers, bounds>> /\ dirty' = dirty /\ ReleaseExtent(job[t].extent)
  BY DEF WriteFails
<1>4. /\ pc' \in [Threads -> Steps] /\ job' \in [Threads -> Jobs]
      /\ pc'[t] = "idle" /\ Only(t) /\ Carries(t)' /\ Locked(t)'
  BY <1>0, FinishIs DEF WriteFails
<1> QED
  BY <1>0, <1>2, <1>3, <1>4, ExtentReturns
LEMMA AllocateStep ==
    ASSUME IndInv, NEW t \in Threads, Allocate(t)
    PROVE  IndInv'
<1> DEFINE n == job[t].len
           k == job[t].key
<1>0. /\ Types /\ Threaded /\ Space /\ Indexing /\ Ordered /\ Summed
      /\ Carries(t) /\ Locked(t) /\ up = TRUE /\ pc[t] = "allocate" /\ ~InHand(t)
  BY DEF IndInv, Threaded, Types, Allocate, At, InHand
<1>1. /\ k \in Keys /\ n \in Lengths /\ n \in Nat \ {0}
      /\ lock[Stripe[k]] = t /\ objects[k] = None
  BY <1>0, SizesPositive DEF Carries, Storing, Locked, OwnStripe
<1>2. UNCHANGED <<objects, order, bytes, cells, lock, flush, copy, index, dirty, ops, restarts, up>>
  BY DEF Allocate, state, worker, bounds
<1>3. LeavesLocks(t) /\ LeavesGone(t) /\ lock' \in [Stripes -> Threads \cup {None}]
  BY <1>0, <1>2 DEF LeavesLocks, LeavesGone, Types
<1>4. ASSUME NEW c \in Cells, AllocateAt(n, c), offers' = Append(offers, k),
             job' = [job EXCEPT ![t].extent = [start |-> c, len |-> n, id |-> Len(offers')],
                                ![t].todo = 0..(n - 1)],
             Goto(t, "write")
      PROVE  IndInv'
  <2> DEFINE i == Len(offers) + 1
             e == [start |-> c, len |-> n, id |-> i]
             j == [job[t] EXCEPT !.extent = e, !.todo = 0..(n - 1)]
             K == OfKeys
             T == OfThreads
  <2>1. /\ offers' \in Seq(Keys) /\ Len(offers') = i /\ i \in Nat \ {0} /\ Len(offers) \in Nat
        /\ i \in DOMAIN offers' /\ offers'[i] = k
        /\ \A m \in DOMAIN offers : m \in DOMAIN offers' /\ offers'[m] = offers[m]
    BY <1>0, <1>1, <1>4 DEF Types
  <2>2. e \in Extents /\ CellsOf(e) = c..(c + n - 1)
    BY <1>1, <2>1 DEF Extents, CellsOf
  <2>3. 0..(n - 1) \in SUBSET Nat
    BY <1>1
  <2>4. j \in Jobs /\ j.extent = e /\ j.todo = 0..(n - 1) /\ j.key = k /\ j.len = n
    BY <1>0, <2>2, <2>3 DEF Types, Jobs
  <2>5. job' = [job EXCEPT ![t] = j]
    BY <1>0, <1>4, <2>1 DEF Types
  <2> HIDE DEF j
  <2>6. /\ pc' \in [Threads -> Steps] /\ job' \in [Threads -> Jobs]
        /\ pc'[t] = "write" /\ job'[t] = j /\ Only(t)
    <3>1. "write" \in Steps
      BY DEF Steps
    <3> QED
      BY <1>0, <1>4, <2>4, <2>5, <3>1, Moves
  <2>7. Space' /\ nextBin' \in Nat /\ free' \subseteq Cells /\ CellsOf(e) \subseteq Cells
    <3>1. K \in [Keys -> SUBSET Cells] /\ T \in [Threads -> SUBSET Cells] /\ T[t] = {}
      BY <1>0, CellsInHands DEF OfThreads
    <3>2. nextBin \in Nat /\ free \subseteq Cells
      BY <1>0 DEF Types
    <3>3. /\ Shared(K, [T EXCEPT ![t] = c..(c + n - 1)], free', nextBin', restarts)
          /\ nextBin' \in Nat /\ free' \subseteq Cells /\ c..(c + n - 1) \subseteq Cells
      BY <1>0, <1>1, <1>4, <3>1, <3>2, CellsAreAllocated DEF Space
    <3>4. OfKeys' = K
      BY <1>2 DEF OfKeys
    <3>5. InHand(t)' /\ \A u \in Threads \ {t} : InHand(u)' = InHand(u) /\ job'[u] = job[u]
      BY <2>6 DEF InHand, Only
    <3>6. OfThreads' = [T EXCEPT ![t] = c..(c + n - 1)]
      BY <3>5, <2>2, <2>4, <2>6 DEF OfThreads, CellsOf
    <3> QED
      BY <1>2, <2>2, <3>3, <3>4, <3>6 DEF Space
  <2>8. Types'
    BY <1>0, <1>2, <2>1, <2>6, <2>7 DEF Types
  <2>9. Threaded'
    <3>1. e \in Placed /\ e.len = n
      BY <2>2, <2>7 DEF Placed
    <3>2. Carries(t)'
      BY <1>1, <2>4, <2>6, <3>1 DEF Carries, InHand, Storing, Removing
    <3>3. Locked(t)'
      BY <1>1, <1>2, <2>4, <2>6 DEF Locked, OwnStripe, Removing
    <3> QED
      BY <1>0, <1>2, <1>3, <2>6, <3>2, <3>3, ThreadsStay
  <2>10. ASSUME Encrypted PROVE Content'
    <3>1. Content
      BY <2>10 DEF IndInv
    <3>2. \A d \in Cells : cells[d].id \in Nat /\ cells[d].id <= i
      BY <1>0, <2>1, <3>1 DEF Content, Numbered, Types
    <3>3. \A x \in Keys : RecordIsWhole(x)' /\ FilesReached(x)'
      BY <1>2, <2>1, <3>1 DEF Content, RecordIsWhole, FilesReached, Whole, Offered, Reached, Part
    <3>4. Writes(t)' /\ Reads(t)'
      <4>1. e.id \in DOMAIN offers' /\ offers'[e.id] = k
        BY <2>1
      <4>2. \A d \in CellsOf(e) : cells'[d].id <= e.id
        BY <1>2, <2>7, <3>2
      <4>3. (0..(n - 1)) \ (0..(n - 1)) = {}
        OBVIOUS
      <4> QED
        BY <2>4, <2>6, <4>1, <4>2, <4>3 DEF Writes, Reads, CellsOf, Offered
    <3>5. \A u \in Threads \ {t} : Writes(u)' /\ Reads(u)'
      <4> TAKE u \in Threads \ {t}
      <4>1. Writes(u) /\ Reads(u) /\ pc'[u] = pc[u] /\ job'[u] = job[u]
        BY <3>1, <2>6 DEF Content, Only
      <4> QED
        BY <1>2, <2>1, <4>1 DEF Writes, Reads, Offered, CellsOf, Part
    <3>6. HitsGenuine'
      BY <2>1, <2>6, <3>1 DEF HitsGenuine, Content, Only
    <3>7. Numbered'
      BY <1>2, <2>1, <3>2 DEF Numbered
    <3> QED
      BY <3>3, <3>4, <3>5, <3>6, <3>7 DEF Content
  <2>11. Indexing'
    <3>1. \A x \in Keys : Announced(x) => Announced(x)'
      BY <1>0, <1>2, <2>6, OthersAnnounce
    <3> QED
      BY <1>0, <1>2, <3>1 DEF Indexing
  <2>12. Ordered' /\ Summed'
    BY <1>0, <1>2, OrderStays DEF Summed, SizesOf, Recorded
  <2> QED
    BY <2>7, <2>8, <2>9, <2>10, <2>11, <2>12 DEF IndInv
<1>5. CASE /\ job' = [job EXCEPT ![t].back = "allocate"]
           /\ Goto(t, "pick")
           /\ UNCHANGED <<space, offers>>
  <2> DEFINE j == [job[t] EXCEPT !.back = "allocate"]
  <2>1. j \in Jobs /\ "pick" \in Steps /\ job' = [job EXCEPT ![t] = j]
    BY <1>0, <1>5, JobChanges DEF Types, Steps
  <2>2. j.key = k /\ j.len = n /\ j.back = "allocate"
    BY <1>0 DEF Types, Jobs
  <2> HIDE DEF j
  <2>3. /\ pc' \in [Threads -> Steps] /\ job' \in [Threads -> Jobs]
        /\ pc'[t] = "pick" /\ job'[t] = j /\ Only(t)
    BY <1>0, <1>5, <2>1, Moves
  <2>4. Carries(t)' /\ Locked(t)' /\ ~InHand(t)'
    BY <1>1, <1>2, <2>2, <2>3 DEF Carries, Locked, InHand, OwnStripe, Removing, Storing
  <2>5. Quiet
    BY <1>2, <1>5 DEF Quiet, space
  <2>6. Ordered' /\ ops' \in 0..MaxOps
    BY <1>0, <1>2, OrderStays DEF Types
  <2> QED
    BY <1>0, <1>2, <1>3, <2>3, <2>4, <2>5, <2>6, QuietStep
<1> QED
  BY <1>4, <1>5 DEF Allocate

LEMMA WritePartStep ==
    ASSUME IndInv, NEW t \in Threads, WritePart(t)
    PROVE  IndInv'
<1> DEFINE e == job[t].extent
           k == job[t].key
<1>0. /\ Types /\ Threaded /\ Space /\ Indexing /\ Ordered /\ Summed
      /\ Carries(t) /\ Locked(t) /\ up = TRUE /\ pc[t] = "write" /\ InHand(t)
  BY DEF IndInv, Threaded, Types, WritePart, At, InHand
<1>1. PICK p \in job[t].todo :
          /\ cells' = [cells EXCEPT ![e.start + p] = Part(e.id, p, e.len)]
          /\ job' = [job EXCEPT ![t].todo = @ \ {p}]
  BY DEF WritePart
<1>2. UNCHANGED <<objects, order, bytes, free, nextBin, lock, flush, copy, index, dirty, pc, offers, ops, restarts, up>>
  BY DEF WritePart, state, space, worker, bounds
<1>3. /\ k \in Keys /\ e \in Placed /\ e \in Extents /\ e.len = job[t].len
      /\ job[t].todo \subseteq 0..(e.len - 1) /\ job[t].len \in Lengths
  BY <1>0, PlacedIsExtent DEF Carries, InHand, Storing
<1>4. e.start \in Nat /\ e.len \in Nat /\ e.len > 0 /\ e.id \in Nat /\ p \in Nat /\ p \in 0..(e.len - 1)
  BY <1>1, <1>3, ExtentIs
<1> DEFINE a == e.start + p
           new == Part(e.id, p, e.len)
           j == [job[t] EXCEPT !.todo = @ \ {p}]
<1>5. a \in CellsOf(e) /\ a \in Cells
  BY <1>3, <1>4 DEF CellsOf, Placed
<1>6. /\ j \in Jobs /\ j.todo = job[t].todo \ {p} /\ j.key = k /\ j.len = job[t].len
      /\ j.extent = e
  BY <1>0 DEF Types, Jobs
<1>7. job' = [job EXCEPT ![t] = j]
  BY <1>0, <1>1 DEF Types
<1> HIDE DEF j
<1>8. job' \in [Threads -> Jobs] /\ job'[t] = j /\ Only(t)
  BY <1>0, <1>2, <1>6, <1>7 DEF Types, Only
<1>9. new \in [id : Nat, part : Nat, len : Nat] /\ new.id = e.id
  BY <1>4 DEF Part
<1>10. /\ cells' \in [Cells -> [id : Nat, part : Nat, len : Nat]]
       /\ cells'[a] = new /\ \A d \in Cells : d # a => cells'[d] = cells[d]
  BY <1>0, <1>1, <1>5, <1>9 DEF Types
<1> HIDE DEF new
<1>11. Types'
  BY <1>0, <1>2, <1>8, <1>10 DEF Types
<1>12. Threaded'
  <2>1. LeavesLocks(t) /\ LeavesGone(t)
    BY <1>2 DEF LeavesLocks, LeavesGone
  <2>2. Carries(t)'
    BY <1>0, <1>2, <1>3, <1>6, <1>8 DEF Carries, InHand, Storing, Removing
  <2>3. Locked(t)'
    BY <1>0, <1>2, <1>6, <1>8 DEF Locked, OwnStripe, Removing
  <2> QED
    BY <1>0, <1>2, <1>8, <2>1, <2>2, <2>3, ThreadsStay
<1>13. Space'
  <2>1. OfKeys' = OfKeys
    BY <1>2 DEF OfKeys
  <2>2. \A u \in Threads : job'[u].extent = job[u].extent
    BY <1>6, <1>8 DEF Only
  <2>3. OfThreads' = OfThreads
    BY <1>2, <2>2 DEF OfThreads, InHand, CellsOf
  <2> QED
    BY <1>0, <1>2, <2>1, <2>3 DEF Space
<1>14. ASSUME Encrypted PROVE Content'
  <2>1. Content
    BY <1>14 DEF IndInv
  <2>2. /\ Offered(e.id, k) /\ cells[a].id <= e.id
        /\ \A d \in CellsOf(e) : cells[d].id <= e.id
        /\ \A q \in (0..(job[t].len - 1)) \ job[t].todo : cells[e.start + q] = Part(e.id, q, job[t].len)
    BY <1>0, <1>5, <2>1 DEF Content, Writes
  <2>3. \A d \in Cells : cells[d].id \in Nat /\ cells'[d].id \in Nat /\ cells'[d].id >= cells[d].id
    <3>1. \A d \in Cells : cells[d].id \in Nat /\ cells'[d].id \in Nat
      BY <1>0, <1>10 DEF Types
    <3>2. cells'[a].id >= cells[a].id
      BY <1>4, <1>5, <1>9, <1>10, <2>2, <3>1
    <3> QED
      BY <1>10, <3>1, <3>2
  <2>4. Numbered'
    <3>1. e.id <= Len(offers)
      BY <1>0, <1>4, <2>2 DEF Offered, Types
    <3> QED
      BY <1>2, <1>9, <1>10, <2>1, <3>1 DEF Content, Numbered
  <2>5. \A x \in Keys : RecordIsWhole(x)'
    <3> SUFFICES ASSUME NEW x \in Keys, objects[x] # None PROVE RecordIsWhole(x)'
      BY <1>2 DEF RecordIsWhole
    <3> DEFINE f == objects[x]
    <3>1. f \in Placed /\ Whole(f) /\ Offered(f.id, x)
      BY <1>0, <2>1 DEF Types, Content, RecordIsWhole
    <3>2. CellsOf(f) \cap CellsOf(e) = {}
      BY <1>0 DEF Space, Shared, OfKeys, OfThreads
    <3>3. \A q \in 0..(f.len - 1) : f.start + q \in CellsOf(f) /\ f.start + q \in Cells
      BY <3>1, PlacedIsExtent, ExtentIs DEF CellsOf, Placed
    <3>4. \A q \in 0..(f.len - 1) : cells'[f.start + q] = cells[f.start + q]
      BY <3>2, <3>3, <1>5, <1>10
    <3> QED
      BY <1>2, <3>1, <3>4 DEF RecordIsWhole, Whole, Offered, Part
  <2>6. \A x \in Keys : FilesReached(x)'
    <3> TAKE x \in Keys
    <3>1. ASSUME NEW f \in Placed, Reached(f) PROVE cells'[f.start].id >= f.id
      <4>1. f.start \in Cells /\ f.id \in Nat
        BY PlacedIsExtent, ExtentIs
      <4> QED
        BY <3>1, <4>1, <2>3 DEF Reached
    <3> QED
      BY <1>0, <1>2, <2>1, <3>1 DEF Types, Content, FilesReached, Reached
  <2>7. Writes(t)' /\ Reads(t)'
    <3>1. \A d \in CellsOf(e) : cells'[d].id <= e.id
      BY <1>3, <1>4, <1>9, <1>10, <2>2 DEF Placed
    <3>2. ASSUME NEW q \in (0..(e.len - 1)) \ (job[t].todo \ {p})
          PROVE  cells'[e.start + q] = Part(e.id, q, e.len)
      <4>1. CASE q = p
        BY <4>1, <1>10 DEF new
      <4>2. CASE q # p
        <5>1. e.start + q # a /\ e.start + q \in CellsOf(e)
          BY <4>2, <1>4 DEF CellsOf
        <5>2. cells'[e.start + q] = cells[e.start + q]
          BY <5>1, <1>3, <1>10 DEF Placed
        <5> QED
          BY <4>2, <5>2, <2>2, <1>3
      <4> QED
        BY <4>1, <4>2
    <3> QED
      BY <1>0, <1>2, <1>3, <1>6, <1>8, <2>2, <3>1, <3>2 DEF Writes, Reads, Offered, CellsOf, Part
  <2>8. ASSUME NEW u \in Threads, u # t PROVE Writes(u)' /\ Reads(u)'
    <3>1. Writes(u) /\ Reads(u) /\ pc'[u] = pc[u] /\ job'[u] = job[u] /\ Carries(u)
      BY <1>0, <1>2, <1>8, <2>1, <2>8 DEF Content, Only, Threaded
    <3> DEFINE f == job[u].extent
    <3>2. Reads(u)'
      <4> SUFFICES ASSUME pc[u] = "read" PROVE Reads(u)'
        BY <3>1 DEF Reads
      <4>1. f.start \in Cells /\ job[u].floor \in Nat
        BY <1>0, <3>1, PlacedIsExtent, ExtentIs DEF Carries, Types, Jobs
      <4> QED
        BY <3>1, <4>1, <2>3 DEF Reads
    <3>3. Writes(u)'
      <4> SUFFICES ASSUME pc[u] = "write" PROVE Writes(u)'
        BY <3>1 DEF Writes
      <4>1. f \in Placed /\ f.len = job[u].len
        BY <3>1 DEF Carries, InHand
      <4>2. CellsOf(f) \cap CellsOf(e) = {}
        BY <1>0, <2>8 DEF Space, Shared, OfThreads, InHand
      <4>3. \A d \in CellsOf(f) : cells'[d] = cells[d]
        BY <4>1, <4>2, <1>5, <1>10 DEF Placed
      <4>4. \A q \in 0..(f.len - 1) : f.start + q \in CellsOf(f)
        BY <4>1, PlacedIsExtent, ExtentIs DEF CellsOf
      <4> QED
        BY <3>1, <4>1, <4>3, <4>4, <1>2 DEF Writes, Offered, CellsOf, Part
    <3> QED
      BY <3>2, <3>3
  <2>9. HitsGenuine'
    <3>1. \A u \in Threads : pc[u] = "touch" => job'[u] = job[u]
      BY <1>0, <1>8 DEF Only
    <3> QED
      BY <1>2, <2>1, <3>1 DEF Content, HitsGenuine
  <2> QED
    BY <2>4, <2>5, <2>6, <2>7, <2>8, <2>9 DEF Content
<1>15. Indexing'
  <2>1. \A x \in Keys : Announced(x) => Announced(x)'
    BY <1>0, <1>2, <1>8, OthersAnnounce
  <2> QED
    BY <1>0, <1>2, <2>1 DEF Indexing
<1>16. Ordered' /\ Summed'
  BY <1>0, <1>2, OrderStays DEF Summed, SizesOf, Recorded
<1> QED
  BY <1>11, <1>12, <1>13, <1>14, <1>15, <1>16 DEF IndInv
LEMMA InsertStep ==
    ASSUME IndInv, NEW t \in Threads, Insert(t)
    PROVE  IndInv'
<1> DEFINE e == job[t].extent
           k == job[t].key
<1>0. /\ Types /\ Threaded /\ Space /\ Indexing /\ Ordered /\ Summed
      /\ Carries(t) /\ Locked(t) /\ up = TRUE /\ pc[t] = "write" /\ InHand(t)
  BY DEF IndInv, Threaded, Types, Insert, At, InHand
<1>1. /\ k \in Keys /\ e \in Placed /\ e \in Extents /\ e.len = job[t].len /\ job[t].len \in Lengths
      /\ Stripe[k] \in Stripes /\ lock[Stripe[k]] = t /\ objects[k] = None
  BY <1>0, PlacedIsExtent, StripeOfEveryKey DEF Carries, InHand, Storing, Locked, OwnStripe
<1>2. /\ UNCHANGED <<free, nextBin, cells, flush, copy, index, dirty, job, offers, ops, restarts, up>>
      /\ objects' = [objects EXCEPT ![k] = e] /\ job[t].todo = {} /\ Goto(t, "persist")
  BY DEF Insert, space, worker, bounds
<1>3. /\ objects' \in [Keys -> Placed \cup {None}] /\ objects'[k] = e
      /\ \A x \in Keys : x # k => objects'[x] = objects[x]
  BY <1>0, <1>1, <1>2 DEF Types
<1>4. pc' \in [Threads -> Steps] /\ pc'[t] = "persist" /\ Only(t)
  BY <1>0, <1>2 DEF Types, Goto, Only, Steps
<1>5. lock' \in [Stripes -> Threads \cup {None}] /\ LeavesLocks(t)
  BY <1>0, <1>1, UnlockIs DEF Insert
<1>6. Types'
  BY <1>0, <1>2, <1>3, <1>4, <1>5 DEF Types
<1>7. Threaded'
  <2>1. LeavesGone(t)
    BY <1>1, <1>3 DEF LeavesGone
  <2>2. Carries(t)' /\ Locked(t)'
    BY <1>1, <1>2, <1>4 DEF Carries, Locked, InHand, Storing, Removing, OwnStripe
  <2> QED
    BY <1>0, <1>2, <1>4, <1>5, <2>1, <2>2, ThreadsStay
<1>8. Space'
  <2> DEFINE K == OfKeys
             T == OfThreads
  <2>1. K \in [Keys -> SUBSET Cells] /\ T \in [Threads -> SUBSET Cells]
    BY <1>0, CellsInHands
  <2>2. K[k] = {} /\ T[t] = CellsOf(e)
    BY <1>0, <1>1 DEF OfKeys, OfThreads
  <2>3. e # None
    BY <1>1, NoneIsNoExtent
  <2>4. OfKeys' = [K EXCEPT ![k] = T[t]]
    BY <1>0, <1>1, <1>3, <2>2, <2>3 DEF OfKeys, CellsOf
  <2>5. ~InHand(t)' /\ \A u \in Threads \ {t} : InHand(u)' = InHand(u)
    BY <1>4 DEF InHand, Only
  <2>6. OfThreads' = [T EXCEPT ![t] = {}]
    BY <1>2, <2>5 DEF OfThreads, CellsOf
  <2>7. nextBin \in Nat
    BY <1>0 DEF Types
  <2>8. Shared([K EXCEPT ![k] = T[t]], [T EXCEPT ![t] = {}], free, nextBin, restarts)
    BY <1>0, <1>1, <2>1, <2>2, <2>7, CellsEnterTheRecord DEF Space
  <2> QED
    BY <1>2, <2>4, <2>6, <2>8 DEF Space
<1>9. ASSUME Encrypted PROVE Content'
  <2>1. Content
    BY <1>9 DEF IndInv
  <2>2. Whole(e) /\ Offered(e.id, k)
    BY <1>0, <1>1, <1>2, <2>1 DEF Content, Writes, Whole
  <2>3. \A x \in Keys : RecordIsWhole(x)'
    <3> TAKE x \in Keys
    <3>1. CASE x = k
      BY <3>1, <2>2, <1>2, <1>3 DEF RecordIsWhole, Whole, Offered, Part
    <3>2. CASE x # k
      BY <3>2, <2>1, <1>2, <1>3 DEF Content, RecordIsWhole, Whole, Offered, Part
    <3> QED
      BY <3>1, <3>2
  <2>4. \A x \in Keys : FilesReached(x)'
    BY <2>1, <1>2 DEF Content, FilesReached, Reached
  <2>5. \A u \in Threads : Writes(u)' /\ Reads(u)'
    <3> TAKE u \in Threads
    <3>1. CASE u = t
      BY <3>1, <1>4 DEF Writes, Reads
    <3>2. CASE u # t
      <4>1. Writes(u) /\ Reads(u) /\ pc'[u] = pc[u] /\ job'[u] = job[u]
        BY <2>1, <1>4, <3>2 DEF Only, Content
      <4> QED
        BY <4>1, <1>2 DEF Writes, Reads, Offered, CellsOf, Part
    <3> QED
      BY <3>1, <3>2
  <2>6. HitsGenuine'
    BY <2>1, <1>2, <1>4 DEF Only, Content, HitsGenuine
  <2> QED
    BY <2>1, <2>3, <2>4, <2>5, <2>6, <1>2 DEF Content, Numbered
<1>10. Indexing'
  <2>1. \A x \in Keys : Announced(x) => Announced(x)'
    BY <1>0, <1>2, <1>4, OthersAnnounce
  <2>2. Announced(k)'
    BY <1>2, <1>4 DEF Announced
  <2> QED
    BY <1>0, <1>2, <1>3, <2>1, <2>2 DEF Indexing
<1>11. Recorded' = Recorded \cup {k} /\ k \notin Recorded
  BY <1>1, <1>3, NoneIsNoExtent DEF Recorded
<1>12. Ordered'
  <2> DEFINE r == RemoveFirst(order, k)
  <2>1. r \in Seq(Keys) /\ IsInjective(r) /\ ToSet(r) = Recorded \ {k}
    BY <1>0, RemovedFromOrder DEF Ordered
  <2>2. order' = Append(r, k)
    BY DEF Insert
  <2> HIDE DEF r
  <2>3. order' \in Seq(Keys) /\ IsInjective(order') /\ ToSet(order') = (Recorded \ {k}) \cup {k}
    BY <1>1, <2>1, <2>2, AppendedToOrder
  <2> QED
    BY <2>3, <1>11 DEF Ordered
<1>13. Summed'
  <2> DEFINE g == SizesOf(objects)
             h == SizesOf(objects)'
             R == Recorded \cup {k}
  <2>1. g \in [Keys -> Nat] /\ Recorded \in SUBSET Keys
    BY <1>0, SizesAreNatural
  <2>2. h \in [Keys -> Nat] /\ R \in SUBSET Keys
    <3>1. (Types => SizesOf(objects) \in [Keys -> Nat])'
      BY SizesAreNatural, PTL
    <3> QED
      BY <3>1, <1>1, <1>6, <2>1
  <2>3. h[k] = e.len /\ \A j \in Recorded : h[j] = g[j]
    <3>1. e # None
      BY <1>1, NoneIsNoExtent
    <3>2. \A j \in Recorded : j \in Keys /\ j # k /\ objects'[j] = objects[j]
      BY <1>3, <1>11 DEF Recorded
    <3> QED
      BY <1>1, <1>3, <3>1, <3>2 DEF SizesOf
  <2> HIDE DEF g, h
  <2>4. SumFunctionOnSet(h, R) = h[k] + SumFunctionOnSet(h, R \ {k})
    BY <2>2, KeysFinite, SumTakes
  <2>5. R \ {k} = Recorded
    BY <1>11
  <2>6. SumFunctionOnSet(h, Recorded) = SumFunctionOnSet(g, Recorded)
    BY <2>1, <2>3, KeysFinite, FS_Subset, SumAgrees
  <2>7. SumFunctionOnSet(g, Recorded) \in Nat /\ e.len \in Nat
    BY <1>1, <2>1, KeysFinite, SumIsNatural, ExtentIs
  <2>8. bytes = SumFunctionOnSet(g, Recorded) /\ bytes' = bytes + e.len
    BY <1>0, <1>1 DEF Summed, g, Insert
  <2>9. bytes' = SumFunctionOnSet(h, R)
    <3>1. SumFunctionOnSet(h, R) = e.len + SumFunctionOnSet(g, Recorded)
      BY <2>3, <2>4, <2>5, <2>6
    <3> HIDE DEF R
    <3> QED
      BY <3>1, <2>7, <2>8
  <2> QED
    BY <2>9, <1>11 DEF Summed, h
<1> QED
  BY <1>6, <1>7, <1>8, <1>9, <1>10, <1>12, <1>13 DEF IndInv
-----------------------------------------------------------------------------
(***************************************************************************)
(* The index worker, the end of the process, and a restart                 *)
(***************************************************************************)

(* A record's cells carry its number.                                      *)
LEMMA RecordsAreReached ==
    ASSUME Types, Content, NEW k \in Keys, objects[k] # None
    PROVE  Reached(objects[k])
<1> DEFINE e == objects[k]
<1>1. e \in Extents /\ Whole(e)
  BY PlacedIsExtent DEF Types, Content, RecordIsWhole
<1>2. 0 \in 0..(e.len - 1) /\ e.start + 0 = e.start /\ e.id \in Nat
  BY <1>1, ExtentIs
<1>3. cells[e.start] = Part(e.id, 0, e.len)
  BY <1>1, <1>2 DEF Whole
<1> QED
  BY <1>2, <1>3 DEF Reached, Part

(* What the index worker leaves alone.                                     *)
LEMMA WorkerStep ==
    ASSUME IndInv,
           UNCHANGED <<objects, order, bytes, free, nextBin, cells, lock, pc, job, offers, ops, restarts, up>>,
           index' \in [Keys -> Placed \cup {None}], copy' \in [Keys -> Placed \cup {None}],
           flush' \in {"sleep", "snap", "write"}, dirty' \in BOOLEAN, Indexing',
           Encrypted => \A k \in Keys : FilesReached(k)'
    PROVE  IndInv'
<1>0. Types /\ Threaded /\ Space /\ Ordered /\ Summed
  BY DEF IndInv
<1>1. Types'
  BY <1>0 DEF Types
<1>2. Threaded'
  BY <1>0 DEF Threaded, Carries, Locked, InHand, OwnStripe
<1>3. Space'
  <2>1. OfKeys' = OfKeys /\ OfThreads' = OfThreads
    BY DEF OfKeys, OfThreads, InHand, CellsOf
  <2> QED
    BY <1>0, <2>1 DEF Space
<1>4. ASSUME Encrypted PROVE Content'
  <2>1. Content
    BY <1>4 DEF IndInv
  <2>2. \A k \in Keys : RecordIsWhole(k)'
    BY <2>1 DEF Content, RecordIsWhole, Whole, Offered, Part
  <2>3. \A t \in Threads : Writes(t)' /\ Reads(t)'
    BY <2>1 DEF Content, Writes, Reads, Offered, CellsOf, Part
  <2>4. HitsGenuine' /\ Numbered'
    BY <2>1 DEF Content, HitsGenuine, Numbered
  <2> QED
    BY <1>4, <2>2, <2>3, <2>4 DEF Content
<1>5. Ordered' /\ Summed'
  BY <1>0, OrderStays DEF Summed, SizesOf, Recorded
<1> QED
  BY <1>1, <1>2, <1>3, <1>4, <1>5 DEF IndInv

LEMMA FlushClaimStep ==
    ASSUME IndInv, FlushClaim
    PROVE  IndInv'
<1>1. /\ UNCHANGED <<objects, order, bytes, free, nextBin, cells, lock, pc, job, offers, ops, restarts, up>>
      /\ UNCHANGED <<copy, index>> /\ flush' = "snap" /\ dirty' = FALSE
  BY DEF FlushClaim, state, space, bounds
<1>2. Indexing'
  BY <1>1 DEF Indexing
<1>3. index' \in [Keys -> Placed \cup {None}] /\ copy' \in [Keys -> Placed \cup {None}]
  BY <1>1 DEF IndInv, Types
<1>4. Encrypted => \A k \in Keys : FilesReached(k)'
  BY <1>1 DEF IndInv, Content, FilesReached, Reached
<1> QED
  BY <1>1, <1>2, <1>3, <1>4, WorkerStep

LEMMA FlushSnapshotStep ==
    ASSUME IndInv, FlushSnapshot
    PROVE  IndInv'
<1>1. /\ UNCHANGED <<objects, order, bytes, free, nextBin, cells, lock, pc, job, offers, ops, restarts, up>>
      /\ UNCHANGED <<dirty, index>> /\ flush' = "write" /\ copy' = objects
  BY DEF FlushSnapshot, state, space, bounds
<1>2. Indexing'
  BY <1>1 DEF Indexing
<1>3. /\ index' \in [Keys -> Placed \cup {None}] /\ copy' \in [Keys -> Placed \cup {None}]
      /\ dirty' \in BOOLEAN
  BY <1>1 DEF IndInv, Types
<1>4. Encrypted => \A k \in Keys : FilesReached(k)'
  <2> SUFFICES ASSUME Encrypted, NEW k \in Keys PROVE FilesReached(k)'
    OBVIOUS
  <2>1. FilesReached(k) /\ (objects[k] # None => Reached(objects[k]))
    BY RecordsAreReached DEF IndInv, Content
  <2> QED
    BY <1>1, <2>1 DEF FilesReached, Reached
<1> QED
  BY <1>1, <1>2, <1>3, <1>4, WorkerStep

LEMMA FlushWriteStep ==
    ASSUME IndInv, FlushWrite
    PROVE  IndInv'
<1>1. /\ UNCHANGED <<objects, order, bytes, free, nextBin, cells, lock, pc, job, offers, ops, restarts, up>>
      /\ flush = "write" /\ flush' = "sleep" /\ copy' = NoExtents /\ index' \in {copy, index}
      /\ (index' = copy /\ dirty' = dirty) \/ dirty' = TRUE
  BY DEF FlushWrite, state, space, bounds
<1>2. Indexing'
  <2>1. \A k \in Keys : Announced(k) => Announced(k)'
    BY <1>1 DEF Announced
  <2>2. CASE dirty' = TRUE
    BY <2>2 DEF Indexing, Announced
  <2>3. CASE index' = copy
    BY <1>1, <2>1, <2>3 DEF IndInv, Indexing
  <2> QED
    BY <1>1, <2>2, <2>3
<1>3. /\ index' \in [Keys -> Placed \cup {None}] /\ copy' \in [Keys -> Placed \cup {None}]
      /\ dirty' \in BOOLEAN
  BY <1>1 DEF IndInv, Types, NoExtents
<1>4. Encrypted => \A k \in Keys : FilesReached(k)'
  BY <1>1 DEF IndInv, Content, FilesReached, Reached, NoExtents
<1> QED
  BY <1>1, <1>2, <1>3, <1>4, WorkerStep

(* The process may end at any moment; the files stay as they are, but for  *)
(* the index a shutdown may write.                                         *)
LEMMA ProcessEndsStep ==
    ASSUME IndInv, ProcessEnds, index' \in {objects, index}
    PROVE  IndInv'
<1>0. Types
  BY DEF IndInv
<1>1. /\ up' = FALSE /\ restarts' = restarts + 1 /\ restarts' \in 0..MaxRestarts /\ restarts' > 0
      /\ objects' = NoExtents /\ order' = <<>> /\ bytes' = 0 /\ free' = {} /\ nextBin' = 0
      /\ lock' = [s \in Stripes |-> None] /\ dirty' = FALSE /\ flush' = "sleep" /\ copy' = NoExtents
      /\ pc' = [t \in Threads |-> "idle"] /\ job' = [t \in Threads |-> NoJob]
      /\ UNCHANGED <<cells, offers, ops>>
  BY <1>0, BoundsNatural DEF ProcessEnds, Types
<1>2. Types'
  <2>1. index' \in [Keys -> Placed \cup {None}] /\ NoExtents \in [Keys -> Placed \cup {None}]
    BY <1>0 DEF Types, NoExtents
  <2>2. pc' \in [Threads -> Steps] /\ job' \in [Threads -> Jobs]
    BY <1>1, NoJobIsJob DEF Steps
  <2> QED
    BY <1>0, <1>1, <2>1, <2>2 DEF Types
<1>3. \A t \in Threads : pc'[t] = "idle"
  BY <1>1
<1>4. Threaded'
  BY <1>1, <1>3, IdleIsFine DEF Threaded
<1>5. Space'
  <2>1. \A k \in Keys : OfKeys'[k] = {}
    BY <1>1 DEF OfKeys, NoExtents
  <2>2. \A t \in Threads : OfThreads'[t] = {}
    BY <1>3 DEF OfThreads, InHand
  <2>3. Taken(OfKeys', OfThreads') = {}
    BY <2>1, <2>2, TakenIs
  <2> QED
    BY <1>1, <2>1, <2>2, <2>3 DEF Space, Shared
<1>6. ASSUME Encrypted PROVE Content'
  <2>1. Content
    BY <1>6 DEF IndInv
  <2>2. \A k \in Keys : RecordIsWhole(k)'
    BY <1>1 DEF RecordIsWhole, NoExtents
  <2>3. \A k \in Keys : FilesReached(k)'
    <3> TAKE k \in Keys
    <3>1. FilesReached(k) /\ (objects[k] # None => Reached(objects[k]))
      BY <1>0, <2>1, RecordsAreReached DEF Content
    <3> QED
      BY <1>1, <3>1 DEF FilesReached, Reached, NoExtents
  <2>4. \A t \in Threads : Writes(t)' /\ Reads(t)'
    BY <1>3 DEF Writes, Reads
  <2>5. HitsGenuine' /\ Numbered'
    BY <1>1, <1>3, <2>1 DEF HitsGenuine, Content, Numbered
  <2> QED
    BY <2>2, <2>3, <2>4, <2>5 DEF Content
<1>7. Indexing'
  BY <1>1 DEF Indexing
<1>8. Recorded' = {}
  BY <1>1 DEF Recorded, NoExtents
<1>9. Ordered'
  BY <1>1, <1>8 DEF Ordered, IsInjective, ToSet
<1>10. Summed'
  BY <1>1, <1>8, FS_EmptySet, SumStep DEF Summed
<1> QED
  BY <1>2, <1>4, <1>5, <1>6, <1>7, <1>9, <1>10 DEF IndInv
(* from_occupied shares out the bins that hold a surviving object; a bin   *)
(* without one, below the last, is lost.                                   *)
LEMMA BinsAreRebuilt ==
    ASSUME NEW K \in [Keys -> SUBSET Cells], NEW T \in [Threads -> SUBSET Cells],
           \A t \in Threads : T[t] = {},
           \A k, j \in Keys : k # j => K[k] \cap K[j] = {},
           NEW held, held = UNION {K[k] : k \in Keys},
           NEW used, used = {BinOf(c) : c \in held},
           NEW n, n = (IF used = {} THEN 0 ELSE Max(used) + 1),
           NEW f, f = {c \in Cells : BinOf(c) \in used} \ held,
           NEW r, r > 0
    PROVE  Shared(K, T, f, n, r) /\ n \in Nat /\ f \subseteq Cells
<1>1. Taken(K, T) = held /\ held \subseteq Cells
  BY TakenIs
<1>2. used \subseteq Nat /\ \A b \in used : b <= MaxSize
  <2> SUFFICES ASSUME NEW c \in held PROVE BinOf(c) \in Nat /\ BinOf(c) <= MaxSize
    OBVIOUS
  <2>1. c \in Nat /\ c <= MaxSize /\ MaxSize \in Nat
    BY <1>1, SizesPositive DEF Cells
  <2> QED
    BY <2>1, BinIsNatural
<1>3. n \in Nat /\ \A b \in used : b < n
  <2>1. CASE used = {}
    BY <2>1
  <2>2. CASE used # {}
    <3>1. Max(used) \in used /\ \A b \in used : b <= Max(used)
      BY <1>2, <2>2, SizesPositive, GreatestNumber
    <3>2. n = Max(used) + 1 /\ Max(used) \in Nat
      BY <1>2, <2>2, <3>1
    <3>3. ASSUME NEW b \in used PROVE b < n
      <4>1. b \in Nat /\ b <= Max(used)
        BY <1>2, <3>1
      <4> QED
        BY <3>2, <4>1
    <3> QED
      BY <3>2, <3>3
  <2> QED
    BY <2>1, <2>2
<1>4. \A c \in held : BinOf(c) \in used
  OBVIOUS
<1>5. held \cap f = {} /\ held \cup f \subseteq Below(n)
  BY <1>1, <1>3, <1>4 DEF Below
<1>6. \A b \in 0..(n - 1) : \/ BinCells(b) \subseteq f \cup held
                            \/ BinCells(b) \cap (f \cup held) = {}
  <2> TAKE b \in 0..(n - 1)
  <2>1. CASE b \in used
    BY <2>1 DEF BinCells
  <2>2. CASE b \notin used
    BY <2>2, <1>4 DEF BinCells
  <2> QED
    BY <2>1, <2>2
<1> QED
  BY <1>1, <1>3, <1>5, <1>6 DEF Shared

LEMMA RestartStep ==
    ASSUME IndInv, Restart
    PROVE  IndInv'
<1>0. Types /\ Threaded /\ Space /\ Ordered /\ Summed
  BY DEF IndInv
<1>1. /\ up = FALSE /\ up' = TRUE /\ dirty' = TRUE
      /\ UNCHANGED <<cells, lock, flush, copy, index, pc, job, offers, ops, restarts>>
  BY <1>0 DEF Restart, Types, worker
<1>2. restarts > 0 /\ \A t \in Threads : pc[t] = "idle"
  BY <1>0, <1>1 DEF Threaded
<1>3. Threaded'
  <2>1. \A t \in Threads : pc'[t] = "idle"
    BY <1>1, <1>2
  <2> QED
    BY <1>1, <2>1, IdleIsFine DEF Threaded
<1>4. Indexing'
  BY <1>1 DEF Indexing, Announced
<1>5. ASSUME Encrypted, \A k \in Keys : RecordIsWhole(k)'
      PROVE  Content'
  <2>1. Content
    BY <1>5 DEF IndInv
  <2>2. \A k \in Keys : FilesReached(k)'
    BY <1>1, <2>1 DEF Content, FilesReached, Reached
  <2>3. \A t \in Threads : Writes(t)' /\ Reads(t)'
    BY <1>1, <1>2 DEF Writes, Reads
  <2>4. HitsGenuine' /\ Numbered'
    BY <1>1, <1>2, <2>1 DEF HitsGenuine, Content, Numbered
  <2> QED
    BY <1>5, <2>2, <2>3, <2>4 DEF Content
<1>6. CASE UNCHANGED <<state, space>>
  <2>1. UNCHANGED <<objects, order, bytes, free, nextBin>>
    BY <1>6 DEF state, space
  <2>2. Types'
    BY <1>0, <1>1, <2>1 DEF Types
  <2>3. OfKeys' = OfKeys /\ OfThreads' = OfThreads
    BY <1>1, <2>1 DEF OfKeys, OfThreads, InHand, CellsOf
  <2>4. Space'
    BY <1>0, <1>1, <2>1, <2>3 DEF Space
  <2>5. Ordered' /\ Summed'
    BY <1>0, <2>1, OrderStays DEF Summed, SizesOf, Recorded
  <2>6. Encrypted => \A k \in Keys : RecordIsWhole(k)'
    BY <1>1, <2>1 DEF IndInv, Content, RecordIsWhole, Whole, Offered, Part
  <2> QED
    BY <1>3, <1>4, <1>5, <2>2, <2>4, <2>5, <2>6 DEF IndInv
<1>7. ASSUME NEW K \in SUBSET Survivors, NEW young \in Injection(1..Cardinality(K), K),
             ~Overlapping(K),
             objects' = [k \in Keys |-> IF k \in K THEN Revived(k) ELSE None],
             order' = young, bytes' = SumFunctionOnSet(SizesOf(index), K), FromOccupied(K)
      PROVE  IndInv'
  <2>1. K \subseteq Keys /\ IsFiniteSet(K)
    <3>1. K \subseteq Keys
      BY DEF Survivors
    <3> QED
      BY <3>1, KeysFinite, FS_Subset
  <2>2. ASSUME NEW k \in K
        PROVE  /\ index[k] \in Placed /\ Revived(k) \in Placed /\ Revived(k) # None
               /\ CellsOf(Revived(k)) = CellsOf(index[k])
               /\ Revived(k).start = index[k].start /\ Revived(k).len = index[k].len
               /\ Encrypted => /\ Offered(Revived(k).id, k)
                               /\ \A p \in 0..(index[k].len - 1) :
                                     cells[index[k].start + p] = Part(Revived(k).id, p, index[k].len)
    <3> DEFINE e == index[k]
    <3>1. k \in Keys /\ e \in Placed /\ e \in Extents
      BY <1>0, PlacedIsExtent DEF Survivors, Types
    <3>2. PICK i \in DOMAIN offers : ReadsAs(e, i) /\ offers[i] = k
      BY DEF Survivors
    <3>3. i \in Nat \ {0} /\ cells[e.start].id = i
      BY <1>0, <3>2 DEF Types, ReadsAs, Part
    <3>4. Revived(k) = [e EXCEPT !.id = i]
      BY <3>3 DEF Revived
    <3>5. /\ Revived(k) \in Extents /\ Revived(k).start = e.start
          /\ Revived(k).len = e.len /\ Revived(k).id = i
      BY <3>1, <3>3, <3>4 DEF Extents
    <3>6. CellsOf(Revived(k)) = CellsOf(e)
      BY <3>5 DEF CellsOf
    <3> QED
      BY <3>1, <3>2, <3>5, <3>6, NoneIsNoExtent DEF Placed, ReadsAs, Offered
  <2>3. /\ \A k \in K : objects'[k] = Revived(k)
        /\ \A k \in Keys \ K : objects'[k] = None
        /\ objects' \in [Keys -> Placed \cup {None}]
    BY <1>7, <2>1, <2>2
  <2>4. \A k \in Keys : objects'[k] # None <=> k \in K
    BY <2>2, <2>3
  <2>5. Recorded' = K
    BY <2>1, <2>4 DEF Recorded
  <2>6. /\ OfKeys' \in [Keys -> SUBSET Cells]
        /\ \A k \in Keys : OfKeys'[k] = IF k \in K THEN CellsOf(index[k]) ELSE {}
    <3>1. \A k \in Keys : OfKeys'[k] = IF k \in K THEN CellsOf(index[k]) ELSE {}
      BY <2>2, <2>3, <2>4 DEF OfKeys, CellsOf
    <3>2. \A k \in K : CellsOf(index[k]) \subseteq Cells
      BY <2>2 DEF Placed
    <3>3. DOMAIN OfKeys' = Keys /\ OfKeys' = [k \in Keys |-> OfKeys'[k]]
      BY DEF OfKeys
    <3> QED
      BY <3>1, <3>2, <3>3
  <2>7. OfThreads' \in [Threads -> SUBSET Cells] /\ \A t \in Threads : OfThreads'[t] = {}
    BY <1>1, <1>2 DEF OfThreads, InHand
  <2>8. Space' /\ nextBin' \in Nat /\ free' \subseteq Cells
    <3> DEFINE held == UNION {CellsOf(index[k]) : k \in K}
               used == {BinOf(c) : c \in held}
    <3>1. held = UNION {OfKeys'[k] : k \in Keys}
      <4>1. ASSUME NEW c, c \in held PROVE c \in UNION {OfKeys'[k] : k \in Keys}
        BY <4>1, <2>1, <2>6
      <4>2. ASSUME NEW c, c \in UNION {OfKeys'[k] : k \in Keys} PROVE c \in held
        BY <4>2, <2>6
      <4> QED
        BY <4>1, <4>2
    <3>2. \A k, j \in Keys : k # j => OfKeys'[k] \cap OfKeys'[j] = {}
      BY <1>7, <2>6 DEF Overlapping
    <3>3. /\ nextBin' = IF used = {} THEN 0 ELSE Max(used) + 1
          /\ free' = {c \in Cells : BinOf(c) \in used} \ held
      BY <1>7 DEF FromOccupied
    <3>4. /\ Shared(OfKeys', OfThreads', free', nextBin', restarts)
          /\ nextBin' \in Nat /\ free' \subseteq Cells
      <4> HIDE DEF held
      <4> QED
        BY <1>2, <2>6, <2>7, <3>1, <3>2, <3>3, BinsAreRebuilt
    <3> QED
      BY <1>1, <3>4 DEF Space
  <2>9. Types'
    BY <1>0, <1>1, <2>3, <2>8 DEF Types
  <2>10. Ordered'
    <3>1. young \in Surjection(1..Cardinality(K), K) /\ Cardinality(K) \in Nat
      <4>1. Cardinality(K) \in Nat
        BY <2>1, FS_CardinalityType
      <4>2. Cardinality(1..Cardinality(K)) = Cardinality(K)
        BY <4>1, FS_Interval
      <4> QED
        BY <4>1, <4>2, <2>1, FS_Injection
    <3>2. young \in [1..Cardinality(K) -> K] /\ IsInjective(young)
      BY DEF Injection
    <3>3. young \in Seq(Keys)
      BY <2>1, <3>1, <3>2
    <3>4. ToSet(young) = K
      BY <3>1, <3>2 DEF Surjection, ToSet
    <3> QED
      BY <1>7, <2>5, <3>2, <3>3, <3>4 DEF Ordered
  <2>11. Summed'
    <3> DEFINE g == SizesOf(index)
               h == SizesOf(objects)'
    <3>1. \A k \in K : g[k] = h[k]
      <4>1. \A k \in K : k \in Keys /\ index[k] # None /\ objects'[k] # None /\ objects'[k].len = index[k].len
        BY <2>1, <2>2, <2>3, <2>4, PlacedIsExtent, NoneIsNoExtent
      <4> QED
        BY <4>1 DEF SizesOf
    <3> HIDE DEF g, h
    <3>2. SumFunctionOnSet(g, K) = SumFunctionOnSet(h, K)
      BY <2>1, <3>1, SumAgrees
    <3> QED
      BY <1>7, <2>5, <3>2 DEF Summed, g, h
  <2>12. ASSUME Encrypted PROVE \A k \in Keys : RecordIsWhole(k)'
    <3> TAKE k \in Keys
    <3>1. CASE k \in K
      BY <2>12, <3>1, <2>2, <2>3, <1>1 DEF RecordIsWhole, Whole, Offered, Part
    <3>2. CASE k \notin K
      BY <3>2, <2>3 DEF RecordIsWhole
    <3> QED
      BY <3>1, <3>2
  <2> QED
    BY <1>3, <1>4, <1>5, <2>8, <2>9, <2>10, <2>11, <2>12 DEF IndInv
<1>8. PICK K \in SUBSET Survivors : \E young \in Injection(1..Cardinality(K), K) :
          IF Overlapping(K)
          THEN UNCHANGED <<state, space>>
          ELSE /\ objects' = [k \in Keys |-> IF k \in K THEN Revived(k) ELSE None]
               /\ order' = young
               /\ bytes' = SumFunctionOnSet(SizesOf(index), K)
               /\ FromOccupied(K)
  BY DEF Restart
<1> QED
  BY <1>6, <1>7, <1>8
-----------------------------------------------------------------------------
(***************************************************************************)
(* The invariant holds                                                     *)
(***************************************************************************)

LEMMA InitHolds == Init => IndInv
<1> SUFFICES ASSUME Init PROVE IndInv
  OBVIOUS
<1>1. /\ objects = NoExtents /\ order = <<>> /\ bytes = 0
      /\ free = {} /\ nextBin = 0 /\ cells = [c \in Cells |-> Blank]
      /\ lock = [s \in Stripes |-> None]
      /\ index = NoExtents /\ copy = NoExtents /\ dirty = TRUE /\ flush = "sleep"
      /\ pc = [t \in Threads |-> "idle"] /\ job = [t \in Threads |-> NoJob]
      /\ up = TRUE /\ offers = <<>> /\ ops = 0 /\ restarts = 0
  BY DEF Init
<1>2. Types
  <2>1. NoExtents \in [Keys -> Placed \cup {None}]
    BY DEF NoExtents
  <2>2. pc \in [Threads -> Steps] /\ job \in [Threads -> Jobs]
    BY <1>1, NoJobIsJob DEF Steps
  <2>3. cells \in [Cells -> [id : Nat, part : Nat, len : Nat]]
    BY <1>1 DEF Blank
  <2> QED
    BY <1>1, <2>1, <2>2, <2>3, BoundsNatural DEF Types
<1>3. \A t \in Threads : pc[t] = "idle"
  BY <1>1
<1>4. Threaded
  BY <1>1, <1>3 DEF Threaded, Carries, Locked, InHand, OwnStripe, Storing, Removing
<1>5. Space
  <2>1. \A k \in Keys : OfKeys[k] = {}
    BY <1>1 DEF OfKeys, NoExtents
  <2>2. \A t \in Threads : OfThreads[t] = {}
    BY <1>3 DEF OfThreads, InHand
  <2>3. Taken(OfKeys, OfThreads) = {}
    BY <2>1, <2>2, TakenIs
  <2> QED
    BY <1>1, <2>1, <2>2, <2>3 DEF Space, Shared
<1>6. Content
  <2>1. \A k \in Keys : RecordIsWhole(k) /\ FilesReached(k)
    BY <1>1 DEF RecordIsWhole, FilesReached, NoExtents
  <2>2. \A t \in Threads : Writes(t) /\ Reads(t)
    BY <1>3 DEF Writes, Reads
  <2>3. HitsGenuine /\ Numbered
    BY <1>1, <1>3 DEF HitsGenuine, Numbered, Blank
  <2> QED
    BY <2>1, <2>2, <2>3 DEF Content
<1>7. Indexing
  BY <1>1 DEF Indexing, Announced
<1>8. Recorded = {}
  BY <1>1 DEF Recorded, NoExtents
<1>9. Ordered
  BY <1>1, <1>8 DEF Ordered, IsInjective, ToSet
<1>10. Summed
  BY <1>1, <1>8, FS_EmptySet, SumStep DEF Summed
<1> QED
  BY <1>2, <1>4, <1>5, <1>6, <1>7, <1>9, <1>10 DEF IndInv

LEMMA StutterKeeps ==
    ASSUME IndInv, UNCHANGED vars
    PROVE  IndInv'
<1>1. /\ UNCHANGED <<objects, order, bytes, free, nextBin, cells, lock, pc, job, offers, ops, restarts, up>>
      /\ UNCHANGED <<index, copy, flush, dirty>>
  BY DEF vars, state, space, worker, bounds
<1>2. Types /\ Indexing
  BY DEF IndInv
<1>3. /\ index' \in [Keys -> Placed \cup {None}] /\ copy' \in [Keys -> Placed \cup {None}]
      /\ flush' \in {"sleep", "snap", "write"} /\ dirty' \in BOOLEAN
  BY <1>1, <1>2 DEF Types
<1>4. Indexing'
  BY <1>1, <1>2 DEF Indexing, Announced
<1>5. Encrypted => \A k \in Keys : FilesReached(k)'
  BY <1>1 DEF IndInv, Content, FilesReached, Reached
<1> QED
  BY <1>1, <1>3, <1>4, <1>5, WorkerStep

LEMMA WorkKeeps ==
    ASSUME IndInv, NEW t \in Threads, Work(t)
    PROVE  IndInv'
  BY PickVictimStep, LockVictimStep, ReleaseStep, AdmitStep, LockKeyStep, RemoveOwnStep,
     ReleaseOwnStep, AllocateStep, WritePartStep, WriteFailsStep, InsertStep, PersistStep,
     ReadStep, TouchStep DEF Work

LEMMA NextKeeps == IndInv /\ [Next]_vars => IndInv'
<1> SUFFICES ASSUME IndInv, [Next]_vars PROVE IndInv'
  OBVIOUS
<1>1. CASE \E t \in Threads : \E k \in Keys :
              \/ StartRemove(t, k) \/ StartGet(t, k)
              \/ \E n \in Lengths : StartStore(t, k, n)
  BY <1>1, StartRemoveStep, StartGetStep, StartStoreStep
<1>2. CASE \E t \in Threads : Work(t)
  BY <1>2, WorkKeeps
<1>3. CASE FlushClaim \/ FlushSnapshot \/ FlushWrite
  BY <1>3, FlushClaimStep, FlushSnapshotStep, FlushWriteStep
<1>4. CASE Crash
  BY <1>4, ProcessEndsStep DEF Crash
<1>5. CASE Shutdown
  BY <1>5, ProcessEndsStep DEF Shutdown
<1>6. CASE Restart
  BY <1>6, RestartStep
<1>7. CASE UNCHANGED vars
  BY <1>7, StutterKeeps
<1> QED
  BY <1>1, <1>2, <1>3, <1>4, <1>5, <1>6, <1>7 DEF Next

(* The threads, the bins, the records and the index file fit together in   *)
(* every state the cache can reach, with any number of threads, keys,      *)
(* stripes and bins.                                                       *)
THEOREM Invariance == Spec => []IndInv
  BY InitHolds, NextKeeps, PTL DEF Spec
-----------------------------------------------------------------------------
(***************************************************************************)
(* What the invariant gives                                                *)
(***************************************************************************)

LEMMA TypesHold == IndInv => TypeOK
<1> SUFFICES ASSUME IndInv PROVE TypeOK
  OBVIOUS
<1>0. Types /\ Ordered /\ Summed
  BY DEF IndInv
<1>1. bytes \in Nat
  <2>1. Recorded \in SUBSET Keys
    BY DEF Recorded
  <2> QED
    BY <1>0, <2>1, SizesAreNatural, KeysFinite, SumIsNatural DEF Summed
<1>2. \A f \in [Keys -> Placed \cup {None}] : f \in [Keys -> Extents \cup {None}]
  BY PlacedIsExtent
<1> QED
  BY <1>0, <1>1, <1>2 DEF TypeOK, Types, Ordered

LEMMA CellsAreShared == IndInv => CellsPartitioned
<1> SUFFICES ASSUME IndInv PROVE CellsPartitioned
  OBVIOUS
<1> DEFINE CellsOfUse(u) == CellsOf(ExtentOf(u))
           used == UNION {CellsOfUse(u) : u \in Uses}
<1>0. Types /\ Shared(OfKeys, OfThreads, free, nextBin, restarts)
  BY DEF IndInv, Space
<1>1. ASSUME NEW u \in Uses
      PROVE  \/ \E k \in Keys : u = <<"object", k>> /\ CellsOfUse(u) = OfKeys[k]
             \/ \E t \in Threads : u = <<"thread", t>> /\ CellsOfUse(u) = OfThreads[t]
  <2>1. CASE \E k \in Recorded : u = <<"object", k>>
    <3>1. PICK k \in Recorded : u = <<"object", k>>
      BY <2>1
    <3>2. k \in Keys /\ objects[k] # None
      BY DEF Recorded
    <3>3. ExtentOf(u) = objects[k]
      BY <3>1 DEF ExtentOf
    <3> QED
      BY <3>1, <3>2, <3>3 DEF OfKeys
  <2>2. CASE \E t \in {v \in Threads : InHand(v)} : u = <<"thread", t>>
    <3>1. PICK t \in Threads : InHand(t) /\ u = <<"thread", t>>
      BY <2>2
    <3>2. ExtentOf(u) = job[t].extent
      BY <3>1 DEF ExtentOf
    <3> QED
      BY <3>1, <3>2 DEF OfThreads
  <2> QED
    BY <2>1, <2>2 DEF Uses
<1>2. ASSUME NEW k \in Keys, OfKeys[k] # {}
      PROVE  <<"object", k>> \in Uses /\ CellsOfUse(<<"object", k>>) = OfKeys[k]
  BY <1>2 DEF OfKeys, Uses, Recorded, ExtentOf
<1>3. ASSUME NEW t \in Threads, OfThreads[t] # {}
      PROVE  <<"thread", t>> \in Uses /\ CellsOfUse(<<"thread", t>>) = OfThreads[t]
  BY <1>3 DEF OfThreads, Uses, ExtentOf
<1> HIDE DEF CellsOfUse
<1>4. ASSUME NEW u \in Uses, NEW v \in Uses, u # v PROVE CellsOfUse(u) \cap CellsOfUse(v) = {}
  BY <1>0, <1>1, <1>4 DEF Shared
<1>5. used = Taken(OfKeys, OfThreads)
  <2>1. \A c : c \in used <=> \E u \in Uses : c \in CellsOfUse(u)
    OBVIOUS
  <2>2. ASSUME NEW c, c \in used PROVE c \in Taken(OfKeys, OfThreads)
    BY <1>1, <2>1, <2>2, TakenIs
  <2>3. ASSUME NEW c, c \in Taken(OfKeys, OfThreads) PROVE c \in used
    <3>1. CASE \E k \in Keys : c \in OfKeys[k]
      BY <1>2, <2>1, <3>1
    <3>2. CASE \E t \in Threads : c \in OfThreads[t]
      BY <1>3, <2>1, <3>2
    <3> QED
      BY <2>3, <3>1, <3>2, TakenIs
  <2> QED
    BY <2>2, <2>3
<1> HIDE DEF used
<1>6. used \subseteq Opened \ free /\ free \subseteq Opened
  BY <1>0, <1>5 DEF Shared, Below, Opened
<1>7. \A n \in 0..(nextBin - 1) :
          \/ BinCells(n) \subseteq free \cup used
          \/ restarts > 0 /\ BinCells(n) \cap (free \cup used) = {}
  BY <1>0, <1>5 DEF Shared
<1> QED
  BY <1>4, <1>6, <1>7 DEF CellsPartitioned, CellsOfUse, used

LEMMA SumIsWithinBudget == IndInv => BudgetKept
<1> SUFFICES ASSUME IndInv PROVE BudgetKept
  OBVIOUS
<1> DEFINE g == [k \in Recorded |-> SizesOf(objects)[k]]
           C == [k \in Recorded |-> OfKeys[k]]
<1>0. Types /\ Summed /\ Shared(OfKeys, OfThreads, free, nextBin, restarts)
  BY DEF IndInv, Space
<1>1. Recorded \subseteq Keys /\ IsFiniteSet(Recorded)
  BY KeysFinite, FS_Subset DEF Recorded
<1>2. MaxSize \in Nat /\ IsFiniteSet(Cells) /\ Cardinality(Cells) = MaxSize
  <2>1. MaxSize \in Nat
    BY SizesPositive
  <2>2. /\ IsFiniteSet(0..(MaxSize - 1))
        /\ Cardinality(0..(MaxSize - 1)) = IF 0 > MaxSize - 1 THEN 0 ELSE (MaxSize - 1) - 0 + 1
    BY <2>1, FS_Interval
  <2> QED
    BY <2>1, <2>2 DEF Cells
<1>3. ASSUME NEW k \in Recorded
      PROVE  /\ OfKeys[k] \in SUBSET Cells /\ SizesOf(objects)[k] \in Nat
             /\ Cardinality(OfKeys[k]) = SizesOf(objects)[k]
  <2>1. k \in Keys /\ objects[k] # None /\ objects[k] \in Placed
    BY <1>0 DEF Types, Recorded
  <2>2. /\ objects[k].start \in Nat /\ objects[k].len \in Nat /\ objects[k].len > 0
        /\ CellsOf(objects[k]) \subseteq Cells
    BY <2>1, PlacedIsExtent, ExtentIs DEF Placed
  <2>3. OfKeys[k] = CellsOf(objects[k]) /\ SizesOf(objects)[k] = objects[k].len
    BY <2>1 DEF OfKeys, SizesOf
  <2>4. ASSUME NEW s \in Nat, NEW n \in Nat, n > 0 PROVE Cardinality(s..(s + n - 1)) = n
    <3>1. s + n - 1 \in Int
      OBVIOUS
    <3>2. Cardinality(s..(s + n - 1)) = IF s > s + n - 1 THEN 0 ELSE (s + n - 1) - s + 1
      BY <3>1, FS_Interval
    <3> QED
      BY <2>4, <3>2
  <2> QED
    BY <2>2, <2>3, <2>4 DEF CellsOf
<1>4. C \in [Recorded -> SUBSET Cells] /\ g \in [Recorded -> Nat]
  BY <1>3
<1>5. \A k, j \in Recorded : k # j => C[k] \cap C[j] = {}
  BY <1>0, <1>1 DEF Shared
<1>6. \A k \in Recorded : Cardinality(C[k]) = g[k] /\ g[k] = SizesOf(objects)[k]
  BY <1>3
<1> HIDE DEF g, C
<1>7. SumFunctionOnSet(g, Recorded) <= Cardinality(Cells)
  BY <1>1, <1>2, <1>4, <1>5, <1>6, SumOfDisjoint
<1>8. SumFunctionOnSet(g, Recorded) = SumFunctionOnSet(SizesOf(objects), Recorded)
  BY <1>1, <1>6, SumAgrees
<1> QED
  BY <1>0, <1>2, <1>7, <1>8 DEF BudgetKept, Summed

LEMMA ChangesAreAnnounced == IndInv => DirtyCovers
<1> SUFFICES ASSUME IndInv, up, NEW k \in Keys, objects[k] # index[k]
             PROVE  \/ dirty \/ flush = "snap"
                    \/ flush = "write" /\ copy[k] = objects[k]
                    \/ \E t \in Threads :
                          \/ pc[t] = "release" /\ job[t].victim = k
                          \/ pc[t] \in {"releaseOwn", "persist"} /\ job[t].key = k
  BY DEF DirtyCovers
<1>1. flush \in {"sleep", "snap", "write"} /\ Indexing
  BY DEF IndInv, Types
<1> QED
  BY <1>1 DEF Indexing, Announced

(* Every variable of the storage-bin cache keeps the type its code         *)
(* declares, and eviction_order names exactly the recorded keys.           *)
THEOREM TypeCorrect == Spec => []TypeOK
  BY Invariance, TypesHold, PTL

(* StorageBinFreeMap never hands out a cell twice and never loses one,     *)
(* whatever threads store, evict, purge and fail at the same time and      *)
(* wherever the process ends.                                              *)
THEOREM ExtentsNeverOverlap == Spec => []CellsPartitioned
  BY Invariance, CellsAreShared, PTL

(* total_bytes is the sum of the recorded lengths and never more than      *)
(* max_bytes, although admission is checked before the record goes in.     *)
THEOREM BudgetNeverExceeded == Spec => []BudgetKept
  BY Invariance, SumIsWithinBudget, PTL

(* NativeStorageBinIndexTask never sleeps on a change: whatever the index  *)
(* file lacks is covered by the dirty flag, by the worker's own snapshot   *)
(* or by a thread about to set the flag.                                   *)
THEOREM NoChangeIsForgotten == Spec => []DirtyCovers
  BY Invariance, ChangesAreAnnounced, PTL

(* With disk encryption, a hit of get_combined is one whole object, stored *)
(* for the requested key and no older than the one recorded when the       *)
(* lookup began, although the bin is read without a lock.                  *)
THEOREM HitsAreGenuine ==
    ASSUME Encrypted
    PROVE  Spec => []HitsGenuine
<1>1. IndInv => HitsGenuine
  BY DEF IndInv, Content
<1> QED
  BY <1>1, Invariance, PTL
-----------------------------------------------------------------------------
(***************************************************************************)
(* The refinement of DiskCache                                             *)
(***************************************************************************)

(* A record is whole, so what the bins hold for a key is what the record   *)
(* names.                                                                  *)
LEMMA ContentsAreIds ==
    ASSUME Types, Content
    PROVE  Contents = Ids(objects)
<1>1. ASSUME NEW k \in Keys, objects[k] # None
      PROVE  \A p \in 0..(objects[k].len - 1) :
                 cells[objects[k].start + p] = Part(objects[k].id, p, objects[k].len)
  BY <1>1 DEF Content, RecordIsWhole, Whole
<1> QED
  BY <1>1 DEF Contents, Ids

(* The mapped variables of a step, as numbers of extents.                  *)
LEMMA StepsAsIds ==
    ASSUME Encrypted, IndInv, IndInv'
    PROVE  /\ Contents = Ids(objects) /\ Contents' = Ids(objects')
           /\ Ids(copy)' = Ids(copy') /\ Ids(index)' = Ids(index')
<1>1. Contents = Ids(objects)
  BY ContentsAreIds DEF IndInv
<1>2. (Types /\ Content => Contents = Ids(objects))'
  BY ContentsAreIds, PTL
<1>3. Contents' = Ids(objects)'
  BY <1>2 DEF IndInv
<1>4. Ids(objects)' = Ids(objects') /\ Ids(copy)' = Ids(copy') /\ Ids(index)' = Ids(index')
  BY DEF Ids
<1> QED
  BY <1>1, <1>3, <1>4

LEMMA IdsOfNothing == Ids(NoExtents) = Disk!Nothing
  BY DEF Ids, NoExtents, Disk!Nothing

LEMMA IdsWithout ==
    ASSUME Types, NEW k \in Keys
    PROVE  /\ Ids([objects EXCEPT ![k] = None]) = [Ids(objects) EXCEPT ![k] = None]
           /\ \A e \in Extents : Ids([objects EXCEPT ![k] = e]) = [Ids(objects) EXCEPT ![k] = e.id]
  BY NoneIsNoExtent DEF Ids, Types

(* A step that changes no record, no file and offers nothing.              *)
LEMMA StutterMaps ==
    ASSUME Encrypted, IndInv, IndInv', UNCHANGED <<objects, copy, index, offers>>
    PROVE  UNCHANGED Disk!vars
  BY StepsAsIds DEF Disk!vars

LEMMA RemoveRecordMaps ==
    ASSUME Encrypted, IndInv, IndInv', NEW k \in Keys, RemoveRecord(k), UNCHANGED <<copy, index, offers>>
    PROVE  Disk!Drop(k)
<1>1. Types /\ objects' = [objects EXCEPT ![k] = None]
  BY DEF IndInv, RemoveRecord
<1> QED
  BY <1>1, StepsAsIds, IdsWithout DEF Disk!Drop

LEMMA InsertMaps ==
    ASSUME Encrypted, IndInv, IndInv', NEW t \in Threads, Insert(t)
    PROVE  Disk!Next
<1> DEFINE k == job[t].key
           e == job[t].extent
<1>0. Types /\ Carries(t) /\ Locked(t) /\ Writes(t)
  BY DEF IndInv, Threaded, Content
<1>1. pc[t] = "write" /\ objects' = [objects EXCEPT ![k] = e] /\ UNCHANGED <<copy, index, offers>>
  BY DEF Insert, At, worker
<1>2. k \in Keys /\ e \in Extents /\ objects[k] = None
  BY <1>0, <1>1, PlacedIsExtent DEF Carries, Locked, OwnStripe, Storing, InHand
<1>3. e.id \in DOMAIN offers /\ offers[e.id] = k
  BY <1>0, <1>1 DEF Writes, Offered
<1>4. Contents[k] = None
  BY <1>2 DEF Contents
<1> HIDE DEF k, e
<1>5. Contents' = [Contents EXCEPT ![k] = e.id]
  BY <1>0, <1>1, <1>2, StepsAsIds, IdsWithout
<1>6. Disk!Settle(k, e.id)
  BY <1>1, <1>3, <1>4, <1>5, StepsAsIds DEF Disk!Settle
<1> QED
  BY <1>2, <1>3, <1>6 DEF Disk!Next

LEMMA AllocateMaps ==
    ASSUME Encrypted, IndInv, IndInv', NEW t \in Threads, Allocate(t)
    PROVE  Disk!Next \/ UNCHANGED Disk!vars
<1>0. Types /\ Carries(t)
  BY DEF IndInv, Threaded
<1>1. pc[t] = "allocate" /\ UNCHANGED <<objects, copy, index>>
  BY DEF Allocate, At, state, worker
<1>2. job[t].key \in Keys
  BY <1>0, <1>1 DEF Carries, Storing
<1>3. CASE offers' = Append(offers, job[t].key)
  <2>1. Disk!Offer(job[t].key)
    BY <1>1, <1>3, StepsAsIds DEF Disk!Offer
  <2> QED
    BY <1>2, <2>1 DEF Disk!Next
<1>4. CASE UNCHANGED offers
  BY <1>1, <1>4, StutterMaps
<1> QED
  BY <1>3, <1>4 DEF Allocate

LEMMA FlushMaps ==
    ASSUME Encrypted, IndInv, IndInv'
    PROVE  /\ FlushSnapshot => Disk!Snapshot
           /\ FlushWrite => Disk!Save
           /\ FlushClaim => UNCHANGED Disk!vars
<1>1. ASSUME FlushSnapshot PROVE Disk!Snapshot
  <2>1. copy' = objects /\ UNCHANGED <<objects, index, offers>>
    BY <1>1 DEF FlushSnapshot, state
  <2> QED
    BY <2>1, StepsAsIds DEF Disk!Snapshot
<1>2. ASSUME FlushWrite PROVE Disk!Save
  <2>1. copy' = NoExtents /\ index' \in {copy, index} /\ UNCHANGED <<objects, offers>>
    BY <1>2 DEF FlushWrite, state
  <2> QED
    BY <2>1, StepsAsIds, IdsOfNothing DEF Disk!Save
<1>3. ASSUME FlushClaim PROVE UNCHANGED Disk!vars
  BY <1>3, StutterMaps DEF FlushClaim, state
<1> QED
  BY <1>1, <1>2, <1>3

LEMMA ProcessEndsMaps ==
    ASSUME Encrypted, IndInv, IndInv', ProcessEnds, index' \in {objects, index}
    PROVE  Disk!Stop
<1>1. objects' = NoExtents /\ copy' = NoExtents /\ UNCHANGED offers
  BY DEF ProcessEnds
<1> QED
  BY <1>1, StepsAsIds, IdsOfNothing DEF Disk!Stop

(* Whatever a restart revives is read from the cells the index names, and  *)
(* those never go back to an older object.                                 *)
LEMMA RestartMaps ==
    ASSUME Encrypted, IndInv, IndInv', Restart
    PROVE  Disk!Restart \/ UNCHANGED Disk!vars
<1>0. Types /\ \A k \in Keys : FilesReached(k)
  BY DEF IndInv, Content
<1>1. UNCHANGED <<cells, copy, index, offers>>
  BY DEF Restart, worker
<1>2. CASE UNCHANGED objects
  BY <1>1, <1>2, StutterMaps
<1>3. ASSUME NEW K \in SUBSET Survivors, objects' = [k \in Keys |-> IF k \in K THEN Revived(k) ELSE None]
      PROVE  Disk!Restart
  <2>1. ASSUME NEW k \in Keys
        PROVE  IF k \in K
               THEN /\ objects'[k] # None /\ index[k] # None /\ objects'[k].id >= index[k].id
                    /\ objects'[k].id \in DOMAIN offers /\ offers[objects'[k].id] = k
               ELSE objects'[k] = None
    <3>1. CASE k \notin K
      BY <1>3, <3>1
    <3>2. CASE k \in K
      <4>1. index[k] # None /\ \E i \in DOMAIN offers : ReadsAs(index[k], i) /\ offers[i] = k
        BY <3>2 DEF Survivors
      <4>2. PICK i \in DOMAIN offers : ReadsAs(index[k], i) /\ offers[i] = k
        BY <4>1
      <4>3. index[k] \in Extents
        BY <1>0, <4>1, PlacedIsExtent DEF Types
      <4>4. cells[index[k].start].id = i
        BY <4>2 DEF ReadsAs, Part
      <4>5. objects'[k] = Revived(k) /\ objects'[k].id = i
        BY <1>3, <3>2, <4>3, <4>4 DEF Revived, Extents
      <4>6. i >= index[k].id
        BY <1>0, <4>1, <4>4 DEF FilesReached, Reached
      <4>7. objects'[k] # None
        <5>1. i \in Nat \ {0}
          BY <1>0 DEF Types
        <5>2. Revived(k) \in Extents
          BY <4>3, <4>4, <5>1 DEF Revived, Extents
        <5> QED
          BY <4>5, <5>2, NoneIsNoExtent
      <4> QED
        BY <3>2, <4>1, <4>2, <4>5, <4>6, <4>7
    <3> QED
      BY <3>1, <3>2
  <2> DEFINE C == Ids(objects')
  <2>2. ASSUME NEW k \in Keys
        PROVE  /\ C[k] \in {None} \cup DOMAIN offers
               /\ C[k] # None => /\ offers[C[k]] = k
                                 /\ Ids(index)[k] # None /\ C[k] >= Ids(index)[k]
    <3>1. CASE k \in K
      <4>1. C[k] = objects'[k].id /\ Ids(index)[k] = index[k].id
        BY <2>1, <3>1 DEF Ids
      <4>2. index[k].id # None
        <5>1. index[k] \in Extents
          BY <1>0, <2>1, <3>1, PlacedIsExtent DEF Types
        <5> QED
          BY <5>1, ExtentIs, NoneIsNoOther
      <4> QED
        BY <2>1, <3>1, <4>1, <4>2
    <3>2. CASE k \notin K
      BY <2>1, <3>2 DEF Ids
    <3> QED
      BY <3>1, <3>2
  <2>3. C \in [Keys -> {None} \cup DOMAIN offers]
    <3>1. C = [k \in Keys |-> C[k]]
      BY DEF Ids
    <3> HIDE DEF C
    <3> QED
      BY <2>2, <3>1
  <2>4. Contents' = C
    BY StepsAsIds
  <2> HIDE DEF C
  <2> QED
    BY <1>1, <2>2, <2>3, <2>4 DEF Disk!Restart
<1>4. PICK K \in SUBSET Survivors : \E young \in Injection(1..Cardinality(K), K) :
          IF Overlapping(K)
          THEN UNCHANGED <<state, space>>
          ELSE /\ objects' = [k \in Keys |-> IF k \in K THEN Revived(k) ELSE None]
               /\ order' = young
               /\ bytes' = SumFunctionOnSet(SizesOf(index), K)
               /\ FromOccupied(K)
  BY DEF Restart
<1> QED
  BY <1>2, <1>3, <1>4 DEF state

LEMMA WorkMaps ==
    ASSUME Encrypted, IndInv, IndInv', NEW t \in Threads, Work(t)
    PROVE  Disk!Next \/ UNCHANGED Disk!vars
<1>0. Carries(t)
  BY DEF IndInv, Threaded
<1>1. CASE UNCHANGED <<objects, copy, index, offers>>
  BY <1>1, StutterMaps
<1>2. ASSUME NEW k \in Keys, RemoveRecord(k), UNCHANGED <<copy, index, offers>> PROVE Disk!Next
  BY <1>2, RemoveRecordMaps DEF Disk!Next
<1>3. CASE PickVictim(t)
  BY <1>1, <1>3 DEF PickVictim, GiveUp, state, worker
<1>4. CASE LockVictim(t)
  <2>1. job[t].victim \in Keys /\ UNCHANGED <<copy, index, offers>>
    BY <1>0, <1>4 DEF LockVictim, At, Carries, worker
  <2> QED
    BY <1>1, <1>2, <1>4, <2>1 DEF LockVictim, GiveUp, state
<1>5. CASE RemoveOwn(t)
  <2>1. job[t].key \in Keys /\ UNCHANGED <<copy, index, offers>>
    BY <1>0, <1>5 DEF RemoveOwn, At, Carries, Storing, worker
  <2> QED
    BY <1>1, <1>2, <1>5, <2>1 DEF RemoveOwn, state
<1>6. CASE Release(t) \/ Admit(t) \/ LockKey(t) \/ ReleaseOwn(t)
  BY <1>1, <1>6 DEF Release, Admit, LockKey, ReleaseOwn, state, worker
<1>7. CASE WritePart(t) \/ WriteFails(t) \/ Persist(t) \/ Read(t) \/ Touch(t)
  BY <1>1, <1>7 DEF WritePart, WriteFails, Persist, Read, Touch, state, worker
<1>8. CASE Allocate(t)
  BY <1>8, AllocateMaps
<1>9. CASE Insert(t)
  BY <1>9, InsertMaps
<1> QED
  BY <1>3, <1>4, <1>5, <1>6, <1>7, <1>8, <1>9 DEF Work

(* With disk encryption the storage-bin backend keeps every promise of     *)
(* DiskCache: each record reads back as the whole object it names, and     *)
(* from_config revives nothing older than the index file says.             *)
THEOREM BinsImplementDiskCache ==
    ASSUME Encrypted
    PROVE  Spec => ImplementsDiskCache
<1>1. Init => Disk!Init
  <2> SUFFICES ASSUME Init PROVE Disk!Init
    OBVIOUS
  <2>1. objects = NoExtents /\ copy = NoExtents /\ index = NoExtents /\ offers = <<>>
    BY DEF Init
  <2>2. Contents = Disk!Nothing
    BY <2>1 DEF Contents, NoExtents, Disk!Nothing
  <2> QED
    BY <2>1, <2>2, IdsOfNothing DEF Disk!Init
<1>2. IndInv /\ IndInv' /\ [Next]_vars => [Disk!Next]_(Disk!vars)
  <2> SUFFICES ASSUME IndInv, IndInv', [Next]_vars PROVE Disk!Next \/ UNCHANGED Disk!vars
    OBVIOUS
  <2>1. CASE \E t \in Threads : \E k \in Keys :
                \/ StartRemove(t, k) \/ StartGet(t, k)
                \/ \E n \in Lengths : StartStore(t, k, n)
    <3>1. UNCHANGED <<objects, copy, index, offers>>
      BY <2>1 DEF StartRemove, StartGet, StartStore, Start, state, worker
    <3> QED
      BY <3>1, StutterMaps
  <2>2. CASE \E t \in Threads : Work(t)
    BY <2>2, WorkMaps
  <2>3. CASE FlushClaim \/ FlushSnapshot \/ FlushWrite
    BY <2>3, FlushMaps DEF Disk!Next
  <2>4. CASE Crash
    BY <2>4, ProcessEndsMaps DEF Crash, Disk!Next
  <2>5. CASE Shutdown
    BY <2>5, ProcessEndsMaps DEF Shutdown, Disk!Next
  <2>6. CASE Restart
    BY <2>6, RestartMaps DEF Disk!Next
  <2>7. CASE UNCHANGED vars
    BY <2>7, StutterMaps DEF vars, state, worker
  <2> QED
    BY <2>1, <2>2, <2>3, <2>4, <2>5, <2>6, <2>7 DEF Next
<1> QED
  BY <1>1, <1>2, Invariance, PTL DEF Spec, ImplementsDiskCache, Disk!Spec
=============================================================================
