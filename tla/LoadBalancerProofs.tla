------------------------- MODULE LoadBalancerProofs -------------------------
(***************************************************************************)
(* Proofs about LoadBalancer for any number of requests, members, counters *)
(* and any limits.                                                         *)
(*                                                                         *)
(* Shape says what a request's fields may be at each of its steps.  Given  *)
(* it, each counter is exact by counting: a step moves one request in or   *)
(* out of the set the counter counts.                                      *)
(***************************************************************************)
EXTENDS LoadBalancer, FiniteSetTheorems, TLAPS

Selecting == {"select", "prune", "load", "choose", "permit", "acquire"}
Admitted == {"commit", "send", "reserve", "release", "finish"}

(* What the fields of a request hold at each step.                         *)
Linked(q) ==
    /\ q.counter # None <=> q.pc \in Admitted \cup {"acquire"}
    /\ q.pc \in Admitted \cup {"permit", "acquire"} => q.pick # None
Phased(q) ==
    /\ q.phase = "queued" => q.pc \in Selecting \cup {"waiting"}
    /\ q.pc = "waiting" => q.phase = "queued"
    /\ q.pc \in {"idle", "enqueue"} => q.phase = "initial"
    /\ q.pc = "commit" => q.phase = "retry"
    /\ q.reserved # "no" <=> (q.phase = "retry" /\ q.pc \in Selecting \cup {"commit"}) \/ q.pc = "release"
Counted(q) ==
    /\ q.reserved # "no" \/ q.pc = "reserve" => q.left >= 1
    /\ q.pc \in Selecting \cup {"waiting", "enqueue", "idle"} /\ q.phase # "retry" =>
           q.attempted = {} /\ q.sends = 0
    /\ q.sends = 0 => q.left <= MaxRetries
    /\ q.sends > 0 => q.sends + q.left <= 1 + MaxRetries
    /\ q.phase = "retry" /\ q.pc \in {"permit", "acquire", "commit"} => q.pick \notin q.attempted
    /\ IsFiniteSet(q.attempted) /\ Cardinality(q.attempted) = q.sends

Shape == req \in [Requests -> Request] /\ \A r \in Requests : Linked(req[r]) /\ Phased(req[r]) /\ Counted(req[r])
-----------------------------------------------------------------------------
(* The limits one by one, as the arithmetic below needs them.              *)
LEMMA LimitsAreNatural ==
    /\ Cap \in Nat /\ MaxWaiting \in Nat /\ Budget \in Nat /\ MaxRetries \in Nat /\ Floor \in Nat
    /\ QueueTicks \in Nat \ {0} /\ WindowTicks \in Nat \ {0}
    /\ Threshold \in Nat \ {0} /\ EjectTicks \in Nat \ {0}
BY LimitsAssumption

(* Only one request moves.                                                 *)
OthersStay(r) == \A s \in Requests : s # r => req'[s] = req[s]

(* A request that has not arrived, or has left, satisfies Shape.           *)
LEMMA IdleIsARequest == Idle \in Request
BY DEF Request, Idle, Steps, Phases

(* The three parts of Shape hold of it.                                    *)
LEMMA IdleIsSound == Linked(Idle) /\ Phased(Idle) /\ Counted(Idle)
BY FS_EmptySet, LimitsAreNatural DEF Idle, Linked, Phased, Counted, Selecting, Admitted

(* To preserve Shape it is enough that the request that moved keeps it.    *)
LEMMA ShapeOfOne ==
    ASSUME Shape, NEW r \in Requests, NEW new \in Request, req' = [req EXCEPT ![r] = new],
           Linked(new), Phased(new), Counted(new)
    PROVE  Shape' /\ OthersStay(r) /\ req'[r] = new
<1>1. req' \in [Requests -> Request] /\ req'[r] = new /\ OthersStay(r)
  BY DEF Shape, OthersStay
<1>2. ASSUME NEW s \in Requests PROVE Linked(req'[s]) /\ Phased(req'[s]) /\ Counted(req'[s])
  <2>1. CASE s = r
    BY <1>1, <2>1
  <2>2. CASE s # r
    BY <1>1, <2>2 DEF Shape, OthersStay
  <2> QED BY <2>1, <2>2
<1>3. (\A s \in Requests : Linked(req[s]) /\ Phased(req[s]) /\ Counted(req[s]))'
  BY <1>2 DEF Linked, Phased, Counted
<1> QED BY <1>1, <1>3 DEF Shape

-----------------------------------------------------------------------------
(***************************************************************************)
(* Counting                                                                *)
(***************************************************************************)
Bit(condition) == IF condition THEN 1 ELSE 0

(* Two sets that agree except on one element differ by it.                 *)
LEMMA Exchange ==
    ASSUME NEW A, NEW B, NEW r, IsFiniteSet(A), \A x : x # r => (x \in A <=> x \in B)
    PROVE  /\ IsFiniteSet(B)
           /\ Cardinality(A) \in Nat /\ Cardinality(B) \in Nat
           /\ Cardinality(B) + Bit(r \in A) = Cardinality(A) + Bit(r \in B)
<1>1. Cardinality(A) \in Nat
  BY FS_CardinalityType
<1>2. CASE r \in B /\ r \notin A
  <2>1. B = A \cup {r}
    BY <1>2
  <2> QED BY <1>1, <1>2, <2>1, FS_AddElement DEF Bit
<1>3. CASE r \notin B /\ r \in A
  <2>1. B = A \ {r}
    BY <1>3
  <2>2. IsFiniteSet(B) /\ Cardinality(B) = Cardinality(A) - 1
    BY <1>3, <2>1, FS_RemoveElement
  <2>3. Cardinality(B) \in Nat
    BY <2>2, FS_CardinalityType
  <2> QED BY <1>1, <1>3, <2>2, <2>3 DEF Bit
<1>4. CASE r \in B <=> r \in A
  <2>1. B = A
    BY <1>4
  <2> QED BY <1>1, <2>1 DEF Bit
<1> QED BY <1>2, <1>3, <1>4

(* A finite set with an element is not counted as empty.                   *)
LEMMA Positive ==
    ASSUME NEW A, IsFiniteSet(A), NEW x \in A
    PROVE  Cardinality(A) \in Nat /\ Cardinality(A) >= 1
<1>1. Cardinality(A) \in Nat
  BY FS_CardinalityType
<1>2. Cardinality(A) # 0
  BY FS_EmptySet
<1> QED BY <1>1, <1>2

Queued == {s \in Requests : req[s].phase = "queued"}
Charged == {s \in Requests : req[s].reserved = "current"}
Holds(q, c) == q.counter = c /\ q.pc \in Admitted

(* Requests are finitely many, so every set the invariants count is finite.*)
LEMMA TheCountedAreFinite ==
    /\ IsFiniteSet(Queued) /\ IsFiniteSet(Charged)
    /\ \A c : IsFiniteSet(Holding(c)) /\ Holding(c) = {s \in Requests : Holds(req[s], c)}
BY SetsAssumption, FS_Subset DEF Queued, Charged, Holding, Holds, Admitted

IndInv == TypeOK /\ Shape /\ QueueExact /\ BudgetExact /\ CountersExact

(* Only r moved, to new.                                                   *)
Moved(r, new) == req' = [req EXCEPT ![r] = new]

(* The queue's count stays exact when it changes by what one request did.  *)
LEMMA QueueAfter ==
    ASSUME IndInv, NEW r \in Requests, NEW new, Moved(r, new),
           waiting' + Bit(req[r].phase = "queued") = waiting + Bit(new.phase = "queued"),
           waiting' \in Nat
    PROVE  QueueExact'
<1>1. req \in [Requests -> Request] /\ waiting \in Nat /\ waiting = Cardinality(Queued)
  BY LimitsAreNatural DEF IndInv, TypeOK, QueueExact, Queued
<1> DEFINE B == {s \in Requests : req'[s].phase = "queued"}
<1>2. \A x : x # r => (x \in Queued <=> x \in B)
  BY <1>1 DEF Moved, Queued
<1>3. (r \in Queued <=> req[r].phase = "queued") /\ (r \in B <=> new.phase = "queued")
  BY <1>1 DEF Moved, Queued
<1> HIDE DEF B
<1>4. /\ Cardinality(Queued) \in Nat /\ Cardinality(B) \in Nat
      /\ Cardinality(B) + Bit(r \in Queued) = Cardinality(Queued) + Bit(r \in B)
  BY <1>2, Exchange, TheCountedAreFinite
<1>5. waiting' = Cardinality(B)
  BY <1>1, <1>3, <1>4 DEF Bit
<1> QED BY <1>5 DEF QueueExact, B

(* The same of the retry window.                                           *)
LEMMA BudgetAfter ==
    ASSUME IndInv, NEW r \in Requests, NEW new, Moved(r, new), used' \in Nat, spent' \in Nat,
           used' + spent + Bit(req[r].reserved = "current") = used + spent' + Bit(new.reserved = "current")
    PROVE  BudgetExact'
<1>1. /\ req \in [Requests -> Request] /\ used \in Nat /\ spent \in Nat
      /\ used = spent + Cardinality(Charged)
  BY LimitsAreNatural DEF IndInv, TypeOK, BudgetExact, Charged
<1> DEFINE B == {s \in Requests : req'[s].reserved = "current"}
<1>2. \A x : x # r => (x \in Charged <=> x \in B)
  BY <1>1 DEF Moved, Charged
<1>3. (r \in Charged <=> req[r].reserved = "current") /\ (r \in B <=> new.reserved = "current")
  BY <1>1 DEF Moved, Charged
<1> HIDE DEF B
<1>4. /\ Cardinality(Charged) \in Nat /\ Cardinality(B) \in Nat
      /\ Cardinality(B) + Bit(r \in Charged) = Cardinality(Charged) + Bit(r \in B)
  BY <1>2, Exchange, TheCountedAreFinite
<1>5. used' = spent' + Cardinality(B)
  BY <1>1, <1>3, <1>4 DEF Bit
<1> QED BY <1>5 DEF BudgetExact, B

(* Counters stay exact when no step but r's own changes what is held, and  *)
(* nothing starts to refer to a counter nothing referred to.               *)
LEMMA CountersAfter ==
    ASSUME IndInv, NEW r \in Requests, NEW new, Moved(r, new), count' \in [Counters -> Nat],
           \A b \in Backends : table'[b] = table[b] \/ table'[b] = None,
           new.counter \in {None, req[r].counter} \/ \E b \in Backends : table[b] = new.counter,
           \A c \in Counters : count'[c] + Bit(Holds(req[r], c)) = count[c] + Bit(Holds(new, c))
    PROVE  CountersExact'
<1> SUFFICES ASSUME NEW c \in Counters, ~Unreferenced(c)'
             PROVE  count'[c] = Cardinality({s \in Requests : Holds(req'[s], c)})
  BY DEF CountersExact, Holding, Holds, Admitted
<1>0. req \in [Requests -> Request] /\ count \in [Counters -> Nat]
  BY LimitsAreNatural DEF IndInv, TypeOK
<1>1. ~Unreferenced(c)
  BY <1>0, SetsAssumption DEF Unreferenced, Moved
<1>2. count[c] = Cardinality(Holding(c))
  BY <1>1 DEF IndInv, CountersExact
<1> DEFINE B == {s \in Requests : Holds(req'[s], c)}
<1>3. \A x : x # r => (x \in Holding(c) <=> x \in B)
  BY <1>0, TheCountedAreFinite DEF Moved
<1>4. (r \in Holding(c) <=> Holds(req[r], c)) /\ (r \in B <=> Holds(new, c))
  BY <1>0, TheCountedAreFinite DEF Moved
<1> HIDE DEF B
<1>5. /\ Cardinality(Holding(c)) \in Nat /\ Cardinality(B) \in Nat
      /\ Cardinality(B) + Bit(r \in Holding(c)) = Cardinality(Holding(c)) + Bit(r \in B)
  BY <1>3, Exchange, TheCountedAreFinite
<1>6. count'[c] = Cardinality(B)
  BY <1>0, <1>2, <1>4, <1>5 DEF Bit
<1> QED BY <1>6 DEF B

(* What a request holds has been counted.                                  *)
LEMMA HeldIsCounted ==
    ASSUME IndInv, NEW r \in Requests
    PROVE  /\ req[r].pc \in Admitted => count[req[r].counter] >= 1 /\ req[r].counter \in Counters
           /\ req[r].phase = "queued" => waiting >= 1
           /\ req[r].reserved = "current" => used >= 1
<1>1. ASSUME req[r].pc \in Admitted PROVE count[req[r].counter] >= 1 /\ req[r].counter \in Counters
  <2>1. req[r].counter \in Counters /\ r \in Holding(req[r].counter)
    BY <1>1, TheCountedAreFinite DEF IndInv, Shape, Linked, Request, Holds
  <2>2. count[req[r].counter] = Cardinality(Holding(req[r].counter))
    BY <2>1 DEF IndInv, CountersExact, Unreferenced
  <2>3. IsFiniteSet(Holding(req[r].counter))
    BY TheCountedAreFinite
  <2> QED BY <2>1, <2>2, <2>3, Positive
<1>2. ASSUME req[r].phase = "queued" PROVE waiting >= 1
  <2>1. r \in Queued /\ IsFiniteSet(Queued)
    BY <1>2, TheCountedAreFinite DEF Queued
  <2>2. Cardinality(Queued) >= 1
    BY <2>1, Positive
  <2> QED BY <2>2 DEF IndInv, QueueExact, Queued
<1>3. ASSUME req[r].reserved = "current" PROVE used >= 1
  <2>1. r \in Charged /\ IsFiniteSet(Charged)
    BY <1>3, TheCountedAreFinite DEF Charged
  <2>2. Cardinality(Charged) \in Nat /\ Cardinality(Charged) >= 1
    BY <2>1, Positive
  <2>3. spent \in Nat /\ used = spent + Cardinality(Charged)
    BY DEF IndInv, TypeOK, BudgetExact, Charged
  <2> QED BY <2>2, <2>3
<1> QED BY <1>1, <1>2, <1>3
-----------------------------------------------------------------------------
(***************************************************************************)
(* Steps of one request                                                    *)
(***************************************************************************)

(* TypeOK without the requests.                                            *)
Typed ==
    /\ pool \in (SUBSET Backends) \ {{}}
    /\ table \in [Backends -> Counters \cup {None}]
    /\ count \in [Counters -> 0..Cap]
    /\ override \in [Backends -> Overrides]
    /\ failures \in [Backends -> 0..(Threshold - 1)]
    /\ ejected \in [Backends -> 0..EjectTicks]
    /\ waiting \in 0..MaxWaiting
    /\ used \in 0..Budget /\ age \in 0..WindowTicks /\ spent \in Nat
    /\ admin \in [Admins -> [pc : {"idle", "swap", "clear", "live", "prune"},
                             member : Backends \cup {None}, by : Backends \cup {None},
                             live : SUBSET Backends]]

(* A step of one request preserves the invariant if that request keeps its *)
(* shape and each count changes by what it did.                            *)
LEMMA OneStep ==
    ASSUME IndInv, NEW r \in Requests, NEW new \in Request, Moved(r, new), Typed',
           Linked(new), Phased(new), Counted(new),
           waiting' + Bit(req[r].phase = "queued") = waiting + Bit(new.phase = "queued"),
           used' + spent + Bit(req[r].reserved = "current") = used + spent' + Bit(new.reserved = "current"),
           \A b \in Backends : table'[b] = table[b] \/ table'[b] = None,
           new.counter \in {None, req[r].counter} \/ \E b \in Backends : table[b] = new.counter,
           \A c \in Counters : count'[c] + Bit(Holds(req[r], c)) = count[c] + Bit(Holds(new, c))
    PROVE  IndInv'
<1>1. Shape'
  BY ShapeOfOne DEF IndInv, Moved
<1>2. /\ waiting' \in Nat /\ used' \in Nat /\ spent' \in Nat /\ count' \in [Counters -> Nat]
  BY LimitsAreNatural DEF Typed
<1>3. TypeOK'
  BY <1>1 DEF Typed, TypeOK, Shape
<1>4. QueueExact'
  BY <1>2, QueueAfter
<1>5. BudgetExact'
  BY <1>2, BudgetAfter
<1>6. CountersExact'
  BY <1>2, CountersAfter
<1> QED BY <1>1, <1>3, <1>4, <1>5, <1>6 DEF IndInv

(* Facts about the request that is about to move.                          *)
LEMMA Before ==
    ASSUME IndInv, NEW r \in Requests
    PROVE  /\ req \in [Requests -> Request] /\ req[r] \in Request
           /\ Linked(req[r]) /\ Phased(req[r]) /\ Counted(req[r]) /\ Typed
           /\ pool \subseteq Backends /\ waiting \in Nat /\ used \in Nat /\ spent \in Nat
           /\ count \in [Counters -> Nat]
<1>1. Typed
  BY DEF IndInv, TypeOK, Typed
<1> QED BY <1>1, LimitsAreNatural DEF IndInv, Shape, Typed

(* Pruning forgets counters, drains and failures; it invents none.         *)
LEMMA PruneIsTyped ==
    ASSUME Typed, NEW live, PruneStale(live)
    PROVE  /\ table' \in [Backends -> Counters \cup {None}]
           /\ override' \in [Backends -> Overrides]
           /\ failures' \in [Backends -> 0..(Threshold - 1)]
           /\ \A b \in Backends : table'[b] = table[b] \/ table'[b] = None
<1>1. 0 \in 0..(Threshold - 1)
  BY LimitsAreNatural
<1> QED BY <1>1 DEF Typed, PruneStale, Overrides

(* Up to the choice of a member.                                           *)
LEMMA SelectionPreserves ==
    ASSUME IndInv, NEW r \in Requests,
           Arrive(r) \/ StartPrune(r) \/ Prune(r) \/ LoadView(r) \/ Wake(r)
    PROVE  IndInv'
<1> USE LimitsAreNatural, SetsAssumption
<1>0. /\ req \in [Requests -> Request] /\ req[r] \in Request
      /\ Linked(req[r]) /\ Phased(req[r]) /\ Counted(req[r]) /\ Typed
      /\ pool \subseteq Backends /\ waiting \in Nat /\ used \in Nat /\ spent \in Nat
      /\ count \in [Counters -> Nat]
  BY Before
<1>1. CASE Arrive(r)
  <2>0. PICK n \in {0, MaxRetries} : req' = [req EXCEPT ![r] = [Idle EXCEPT !.pc = "select", !.left = n]]
    BY <1>1 DEF Arrive
  <2>n. n \in Nat /\ n <= MaxRetries
    OBVIOUS
  <2> DEFINE new == [Idle EXCEPT !.pc = "select", !.left = n]
  <2>1. Moved(r, new) /\ new \in Request
    BY <2>0, <2>n, IdleIsARequest DEF Moved, Request, Steps
  <2>2. Linked(new) /\ Phased(new)
    BY DEF Linked, Phased, Idle, Selecting, Admitted
  <2>3. Counted(new)
    BY <2>n, FS_EmptySet DEF Counted, Idle, Selecting
  <2>4. UNCHANGED <<waiting, used, spent, table, count>> /\ Typed'
    BY <1>0, <1>1 DEF Typed, Arrive, membership, passive, budget
  <2>5. /\ new.phase = "initial" /\ new.reserved = "no" /\ new.counter = None /\ new.pc = "select"
        /\ req[r].phase = "initial" /\ req[r].reserved = "no" /\ req[r].pc = "idle"
    BY <1>0, <1>1 DEF Idle, Arrive, At, Phased, Selecting
  <2>6. \A c \in Counters : count'[c] + Bit(Holds(req[r], c)) = count[c] + Bit(Holds(new, c))
    BY <2>4, <2>5 DEF Holds, Admitted
  <2> HIDE DEF new
  <2>7. /\ waiting' + Bit(req[r].phase = "queued") = waiting + Bit(new.phase = "queued")
        /\ used' + spent + Bit(req[r].reserved = "current") = used + spent' + Bit(new.reserved = "current")
    BY <2>4, <2>5 DEF Bit
  <2> QED BY <2>1, <2>2, <2>3, <2>4, <2>5, <2>6, <2>7, OneStep
<1>2. CASE StartPrune(r)
  <2> DEFINE new == [req[r] EXCEPT !.pc = "prune", !.view = pool]
  <2>1. Moved(r, new) /\ new \in Request
    BY <1>0, <1>2 DEF StartPrune, Moved, Request, Steps, Phases
  <2>2. Linked(new) /\ Phased(new)
    BY <1>0, <1>2 DEF StartPrune, At, Request, Linked, Phased, Selecting, Admitted
  <2>3. Counted(new)
    BY <1>0, <1>2 DEF StartPrune, At, Request, Phased, Counted, Selecting, Admitted
  <2>4. Typed'
    BY <1>0, <1>2 DEF Typed, StartPrune, membership, passive, budget
  <2>5. waiting' + Bit(req[r].phase = "queued") = waiting + Bit(new.phase = "queued")
    BY <1>0, <1>2 DEF StartPrune, budget, Bit, Request, At, Phased
  <2>6. used' + spent + Bit(req[r].reserved = "current") = used + spent' + Bit(new.reserved = "current")
    BY <1>0, <1>2 DEF StartPrune, budget, Bit, Request, At, Phased
  <2>7. /\ \A b \in Backends : table'[b] = table[b] \/ table'[b] = None
        /\ new.counter \in {None, req[r].counter} \/ \E b \in Backends : table[b] = new.counter
    BY <1>0, <1>2 DEF StartPrune, membership, Request
  <2>8. \A c \in Counters : count'[c] + Bit(Holds(req[r], c)) = count[c] + Bit(Holds(new, c))
    BY <1>0, <1>2 DEF StartPrune, Holds, Bit, Request, At, Linked, Admitted
  <2> HIDE DEF new
  <2> QED BY <2>1, <2>2, <2>3, <2>4, <2>5, <2>6, <2>7, <2>8, OneStep
<1>3. CASE Prune(r)
  <2> DEFINE new == [req[r] EXCEPT !.pc = "load", !.view = {}]
  <2>1. Moved(r, new) /\ new \in Request
    BY <1>0, <1>3 DEF Prune, Moved, Request, Steps, Phases
  <2>2. Linked(new) /\ Phased(new)
    BY <1>0, <1>3 DEF Prune, At, Request, Linked, Phased, Selecting, Admitted
  <2>3. Counted(new)
    BY <1>0, <1>3 DEF Prune, At, Request, Phased, Counted, Selecting, Admitted
  <2>4. Typed'
    BY <1>0, <1>3, PruneIsTyped DEF Typed, Prune, budget
  <2>5. waiting' + Bit(req[r].phase = "queued") = waiting + Bit(new.phase = "queued")
    BY <1>0, <1>3 DEF Prune, budget, Bit, Request, At, Phased
  <2>6. used' + spent + Bit(req[r].reserved = "current") = used + spent' + Bit(new.reserved = "current")
    BY <1>0, <1>3 DEF Prune, budget, Bit, Request, At, Phased
  <2>7. /\ \A b \in Backends : table'[b] = table[b] \/ table'[b] = None
        /\ new.counter \in {None, req[r].counter} \/ \E b \in Backends : table[b] = new.counter
    BY <1>0, <1>3, PruneIsTyped DEF Prune, Request
  <2>8. \A c \in Counters : count'[c] + Bit(Holds(req[r], c)) = count[c] + Bit(Holds(new, c))
    BY <1>0, <1>3 DEF Prune, Holds, Bit, Request, At, Linked, Admitted
  <2> HIDE DEF new
  <2> QED BY <2>1, <2>2, <2>3, <2>4, <2>5, <2>6, <2>7, <2>8, OneStep
<1>4. CASE LoadView(r)
  <2> DEFINE new == [req[r] EXCEPT !.pc = "choose", !.view = pool]
  <2>1. Moved(r, new) /\ new \in Request
    BY <1>0, <1>4 DEF LoadView, Moved, Request, Steps, Phases
  <2>2. Linked(new) /\ Phased(new)
    BY <1>0, <1>4 DEF LoadView, At, Request, Linked, Phased, Selecting, Admitted
  <2>3. Counted(new)
    BY <1>0, <1>4 DEF LoadView, At, Request, Phased, Counted, Selecting, Admitted
  <2>4. Typed'
    BY <1>0, <1>4 DEF Typed, LoadView, membership, passive, budget
  <2>5. waiting' + Bit(req[r].phase = "queued") = waiting + Bit(new.phase = "queued")
    BY <1>0, <1>4 DEF LoadView, budget, Bit, Request, At, Phased
  <2>6. used' + spent + Bit(req[r].reserved = "current") = used + spent' + Bit(new.reserved = "current")
    BY <1>0, <1>4 DEF LoadView, budget, Bit, Request, At, Phased
  <2>7. /\ \A b \in Backends : table'[b] = table[b] \/ table'[b] = None
        /\ new.counter \in {None, req[r].counter} \/ \E b \in Backends : table[b] = new.counter
    BY <1>0, <1>4 DEF LoadView, membership, Request
  <2>8. \A c \in Counters : count'[c] + Bit(Holds(req[r], c)) = count[c] + Bit(Holds(new, c))
    BY <1>0, <1>4 DEF LoadView, Holds, Bit, Request, At, Linked, Admitted
  <2> HIDE DEF new
  <2> QED BY <2>1, <2>2, <2>3, <2>4, <2>5, <2>6, <2>7, <2>8, OneStep
<1>5. CASE Wake(r)
  <2> DEFINE new == [req[r] EXCEPT !.pc = "select"]
  <2>1. Moved(r, new) /\ new \in Request
    BY <1>0, <1>5 DEF Wake, Moved, Request, Steps, Phases
  <2>2. Linked(new) /\ Phased(new)
    BY <1>0, <1>5 DEF Wake, At, Request, Linked, Phased, Selecting, Admitted
  <2>3. Counted(new)
    BY <1>0, <1>5 DEF Wake, At, Request, Phased, Counted, Selecting, Admitted
  <2>4. Typed'
    BY <1>0, <1>5 DEF Typed, Wake, membership, passive, budget
  <2>5. waiting' + Bit(req[r].phase = "queued") = waiting + Bit(new.phase = "queued")
    BY <1>0, <1>5 DEF Wake, budget, Bit, Request, At, Phased
  <2>6. used' + spent + Bit(req[r].reserved = "current") = used + spent' + Bit(new.reserved = "current")
    BY <1>0, <1>5 DEF Wake, budget, Bit, Request, At, Phased
  <2>7. /\ \A b \in Backends : table'[b] = table[b] \/ table'[b] = None
        /\ new.counter \in {None, req[r].counter} \/ \E b \in Backends : table[b] = new.counter
    BY <1>0, <1>5 DEF Wake, membership, Request
  <2>8. \A c \in Counters : count'[c] + Bit(Holds(req[r], c)) = count[c] + Bit(Holds(new, c))
    BY <1>0, <1>5 DEF Wake, Holds, Bit, Request, At, Linked, Admitted
  <2> HIDE DEF new
  <2> QED BY <2>1, <2>2, <2>3, <2>4, <2>5, <2>6, <2>7, <2>8, OneStep
<1> QED BY <1>1, <1>2, <1>3, <1>4, <1>5

(* No member was to be had: the request queues up, waits on or ends.       *)
LEMMA UnselectedPreserves ==
    ASSUME IndInv, NEW r \in Requests, Unselected(r), req[r].pc \in {"choose", "acquire"},
           UNCHANGED <<membership, count, passive, age, spent, admin>>
    PROVE  IndInv'
<1> USE LimitsAreNatural, SetsAssumption
<1>0. /\ req \in [Requests -> Request] /\ req[r] \in Request
      /\ Linked(req[r]) /\ Phased(req[r]) /\ Counted(req[r]) /\ Typed
      /\ pool \subseteq Backends /\ waiting \in Nat /\ used \in Nat /\ spent \in Nat
      /\ count \in [Counters -> Nat]
  BY Before
<1>p. /\ req[r].phase = "queued" => waiting >= 1
      /\ req[r].reserved = "current" => used >= 1
  BY HeldIsCounted
<1>t. UNCHANGED table
  BY DEF membership
<1>1. CASE req[r].phase = "initial" /\ req' = Leave(r, "enqueue") /\ UNCHANGED <<waiting, used>>
  <2> DEFINE new == [req[r] EXCEPT !.pc = "enqueue", !.counter = None, !.pick = None]
  <2>1. Moved(r, new) /\ new \in Request
    BY <1>0, <1>1 DEF Moved, Leave, Request, Steps, KeepWaiting
  <2>2. Linked(new) /\ Phased(new)
    BY <1>0, <1>1 DEF Request, Linked, Phased, Selecting, Admitted, KeepWaiting
  <2>3. Counted(new)
    BY <1>0, <1>1 DEF Request, Phased, Counted, Selecting, Admitted, KeepWaiting
  <2>4. Typed' /\ UNCHANGED <<waiting, used>>
    BY <1>0, <1>1 DEF Typed, membership, passive, KeepWaiting
  <2>5. /\ new.phase = req[r].phase /\ new.reserved = req[r].reserved /\ new.counter = None
        /\ new.pc \notin Admitted /\ req[r].pc \notin Admitted
    BY <1>0 DEF Request, Admitted
  <2>6. \A c \in Counters : count'[c] + Bit(Holds(req[r], c)) = count[c] + Bit(Holds(new, c))
    BY <2>5 DEF Holds
  <2> HIDE DEF new
  <2>7. /\ waiting' + Bit(req[r].phase = "queued") = waiting + Bit(new.phase = "queued")
        /\ used' + spent + Bit(req[r].reserved = "current") = used + spent' + Bit(new.reserved = "current")
    BY <2>4, <2>5
  <2> QED BY <1>t, <2>1, <2>2, <2>3, <2>4, <2>5, <2>6, <2>7, OneStep
<1>2. CASE KeepWaiting(r)
  <2> DEFINE new == [req[r] EXCEPT !.pc = "waiting", !.counter = None, !.pick = None]
  <2>1. Moved(r, new) /\ new \in Request
    BY <1>0, <1>2 DEF Moved, Leave, Request, Steps, KeepWaiting
  <2>2. Linked(new) /\ Phased(new)
    BY <1>0, <1>2 DEF Request, Linked, Phased, Selecting, Admitted, KeepWaiting
  <2>3. Counted(new)
    BY <1>0, <1>2 DEF Request, Phased, Counted, Selecting, Admitted, KeepWaiting
  <2>4. Typed' /\ UNCHANGED <<waiting, used>>
    BY <1>0, <1>2 DEF Typed, membership, passive, KeepWaiting
  <2>5. /\ new.phase = req[r].phase /\ new.reserved = req[r].reserved /\ new.counter = None
        /\ new.pc \notin Admitted /\ req[r].pc \notin Admitted
    BY <1>0 DEF Request, Admitted
  <2>6. \A c \in Counters : count'[c] + Bit(Holds(req[r], c)) = count[c] + Bit(Holds(new, c))
    BY <2>5 DEF Holds
  <2> HIDE DEF new
  <2>7. /\ waiting' + Bit(req[r].phase = "queued") = waiting + Bit(new.phase = "queued")
        /\ used' + spent + Bit(req[r].reserved = "current") = used + spent' + Bit(new.reserved = "current")
    BY <2>4, <2>5
  <2> QED BY <1>t, <2>1, <2>2, <2>3, <2>4, <2>5, <2>6, <2>7, OneStep
<1>3. CASE TimeOut(r)
  <2>1. Moved(r, Idle)
    BY <1>3 DEF TimeOut, Moved
  <2>2. Typed'
    BY <1>0, <1>p, <1>3 DEF Typed, TimeOut, membership, passive
  <2>3. Idle.phase = "initial" /\ Idle.reserved = "no" /\ Idle.counter = None /\ Idle.pc = "idle"
    BY DEF Idle
  <2>4. \A c \in Counters : count'[c] + Bit(Holds(req[r], c)) = count[c] + Bit(Holds(Idle, c))
    BY <2>3 DEF Holds, Admitted
  <2>5. /\ waiting' + Bit(req[r].phase = "queued") = waiting + Bit(Idle.phase = "queued")
        /\ used' + spent + Bit(req[r].reserved = "current") = used + spent' + Bit(Idle.reserved = "current")
    BY <1>0, <1>3, <2>3 DEF TimeOut, Bit, Phased, Selecting
  <2> QED BY <1>t, <2>1, <2>2, <2>3, <2>4, <2>5, IdleIsARequest, IdleIsSound, OneStep
<1>4. CASE GiveUpRetry(r)
  <2>1. Moved(r, Idle)
    BY <1>4 DEF GiveUpRetry, Moved
  <2>2. Typed'
    BY <1>0, <1>p, <1>4 DEF Typed, GiveUpRetry, Refund, membership, passive
  <2>3. Idle.phase = "initial" /\ Idle.reserved = "no" /\ Idle.counter = None /\ Idle.pc = "idle"
    BY DEF Idle
  <2>4. \A c \in Counters : count'[c] + Bit(Holds(req[r], c)) = count[c] + Bit(Holds(Idle, c))
    BY <2>3 DEF Holds, Admitted
  <2>5. /\ waiting' + Bit(req[r].phase = "queued") = waiting + Bit(Idle.phase = "queued")
        /\ used' + spent + Bit(req[r].reserved = "current") = used + spent' + Bit(Idle.reserved = "current")
    BY <1>0, <1>p, <1>4, <2>3 DEF GiveUpRetry, Refund, Bit
  <2> QED BY <1>t, <2>1, <2>2, <2>3, <2>4, <2>5, IdleIsARequest, IdleIsSound, OneStep
<1> QED BY <1>1, <1>2, <1>3, <1>4 DEF Unselected

(* Choosing a member and taking its counter.                               *)
LEMMA ChoicePreserves ==
    ASSUME IndInv, NEW r \in Requests, Choose(r)
    PROVE  IndInv'
<1> USE LimitsAreNatural, SetsAssumption
<1>0. /\ req \in [Requests -> Request] /\ req[r] \in Request
      /\ Linked(req[r]) /\ Phased(req[r]) /\ Counted(req[r]) /\ Typed
      /\ pool \subseteq Backends /\ waiting \in Nat /\ used \in Nat /\ spent \in Nat
      /\ count \in [Counters -> Nat]
  BY Before
<1>1. CASE \E b \in Eligible(r) : req' = [req EXCEPT ![r].pc = "permit", ![r].pick = b]
                                /\ UNCHANGED <<waiting, used>>
  <2>0. PICK b \in Eligible(r) : req' = [req EXCEPT ![r].pc = "permit", ![r].pick = b]
    BY <1>1
  <2>b. b \in Backends /\ b \notin req[r].attempted
    BY <1>0 DEF Eligible, BaseAllowed, Request
  <2> DEFINE new == [req[r] EXCEPT !.pc = "permit", !.pick = b]
  <2>1. Moved(r, new) /\ new \in Request
    BY <1>0, <2>0, <2>b DEF Moved, Request, Steps
  <2>2. Linked(new) /\ Phased(new)
    BY <1>0, <2>b DEF Choose, At, Request, Linked, Phased, Selecting, Admitted
  <2>3. Counted(new)
    BY <1>0, <2>b DEF Choose, At, Request, Counted, Phased, Selecting, Admitted
  <2>4. Typed' /\ UNCHANGED <<waiting, used, spent, table, count>>
    BY <1>0, <1>1 DEF Typed, Choose, membership, passive
  <2>5. /\ new.phase = req[r].phase /\ new.reserved = req[r].reserved /\ new.counter = req[r].counter
        /\ new.pc \notin Admitted /\ req[r].pc \notin Admitted
    BY <1>0 DEF Choose, At, Request, Admitted
  <2>6. \A c \in Counters : count'[c] + Bit(Holds(req[r], c)) = count[c] + Bit(Holds(new, c))
    BY <2>4, <2>5 DEF Holds
  <2> HIDE DEF new
  <2>7. /\ waiting' + Bit(req[r].phase = "queued") = waiting + Bit(new.phase = "queued")
        /\ used' + spent + Bit(req[r].reserved = "current") = used + spent' + Bit(new.reserved = "current")
    BY <2>4, <2>5
  <2> QED BY <2>1, <2>2, <2>3, <2>4, <2>5, <2>6, <2>7, OneStep
<1>2. CASE Unselected(r)
  BY <1>2, UnselectedPreserves DEF Choose, At
<1> QED BY <1>1, <1>2 DEF Choose

(* A new counter starts at zero, on a cell nobody refers to; every other   *)
(* counter keeps its holders.                                              *)
LEMMA CounterPreserves ==
    ASSUME IndInv, NEW r \in Requests, TakeCounter(r)
    PROVE  IndInv'
<1> USE LimitsAreNatural, SetsAssumption
<1>0. /\ req \in [Requests -> Request] /\ req[r] \in Request
      /\ Linked(req[r]) /\ Phased(req[r]) /\ Counted(req[r]) /\ Typed
      /\ pool \subseteq Backends /\ waiting \in Nat /\ used \in Nat /\ spent \in Nat
      /\ count \in [Counters -> Nat]
  BY Before
<1>b. req[r].pick \in Backends /\ req[r].pc = "permit"
  BY <1>0 DEF TakeCounter, At, Linked, Request
<1>1. CASE table[req[r].pick] # None
  <2> DEFINE new == [req[r] EXCEPT !.pc = "acquire", !.counter = table[req[r].pick]]
  <2>1. Moved(r, new) /\ new \in Request
    BY <1>0, <1>1, <1>b DEF TakeCounter, Typed, Moved, Request, Steps, Phases
  <2>2. Linked(new) /\ Phased(new)
    BY <1>0, <1>1, <1>b DEF TakeCounter, Typed, At, Request, Linked, Phased, Selecting, Admitted
  <2>3. Counted(new)
    BY <1>0, <1>1, <1>b DEF TakeCounter, Typed, At, Request, Phased, Counted, Selecting, Admitted
  <2>4. Typed'
    BY <1>0, <1>1, <1>b DEF Typed, TakeCounter, membership, passive, budget
  <2>5. waiting' + Bit(req[r].phase = "queued") = waiting + Bit(new.phase = "queued")
    BY <1>0, <1>1, <1>b DEF TakeCounter, Typed, budget, Bit, Request, At, Phased
  <2>6. used' + spent + Bit(req[r].reserved = "current") = used + spent' + Bit(new.reserved = "current")
    BY <1>0, <1>1, <1>b DEF TakeCounter, Typed, budget, Bit, Request, At, Phased
  <2>7. /\ \A b \in Backends : table'[b] = table[b] \/ table'[b] = None
        /\ new.counter \in {None, req[r].counter} \/ \E b \in Backends : table[b] = new.counter
    BY <1>0, <1>1, <1>b DEF TakeCounter, Typed, membership, Request
  <2>8. \A c \in Counters : count'[c] + Bit(Holds(req[r], c)) = count[c] + Bit(Holds(new, c))
    BY <1>0, <1>1, <1>b DEF TakeCounter, Typed, Holds, Bit, Request, At, Linked, Admitted
  <2> HIDE DEF new
  <2> QED BY <2>1, <2>2, <2>3, <2>4, <2>5, <2>6, <2>7, <2>8, OneStep
<1>2. CASE table[req[r].pick] = None
  <2>0. PICK c \in Counters :
            /\ LeastUnreferenced(c)
            /\ table' = [table EXCEPT ![req[r].pick] = c]
            /\ count' = [count EXCEPT ![c] = 0]
            /\ req' = [req EXCEPT ![r].pc = "acquire", ![r].counter = c]
    BY <1>2 DEF TakeCounter
  <2> DEFINE new == [req[r] EXCEPT !.pc = "acquire", !.counter = c]
  <2>1. Moved(r, new) /\ new \in Request
    BY <1>0, <2>0 DEF Moved, Request, Steps
  <2>2. Linked(new) /\ Phased(new)
    BY <1>0, <1>b DEF Request, Linked, Phased, Selecting, Admitted
  <2>3. Counted(new)
    BY <1>0, <1>b DEF Request, Counted, Phased, Selecting, Admitted
  <2>4. Typed' /\ UNCHANGED <<waiting, used, spent>>
    <3>1. 0 \in 0..Cap
      OBVIOUS
    <3>2. count' \in [Counters -> 0..Cap] /\ table' \in [Backends -> Counters \cup {None}]
      BY <1>0, <2>0, <3>1 DEF Typed
    <3> QED BY <1>0, <3>2 DEF Typed, TakeCounter, passive, budget
  <2>5. /\ new.phase = req[r].phase /\ new.reserved = req[r].reserved /\ new.pc \notin Admitted
        /\ req[r].pc \notin Admitted /\ new.counter = c
    BY <1>0, <1>b DEF Request, Admitted
  <2>6. Unreferenced(c)
    BY <2>0 DEF LeastUnreferenced
  <2> HIDE DEF new
  <2>7. Shape' /\ OthersStay(r) /\ req'[r] = new
    BY <2>1, <2>2, <2>3, ShapeOfOne DEF IndInv, Moved
  <2>8. TypeOK'
    BY <2>4, <2>7 DEF Typed, TypeOK, Shape
  <2>9. QueueExact' /\ BudgetExact'
    BY <1>0, <2>1, <2>4, <2>5, QueueAfter, BudgetAfter
  <2>10. CountersExact'
    <3> SUFFICES ASSUME NEW d \in Counters, ~Unreferenced(d)'
                 PROVE  count'[d] = Cardinality({s \in Requests : Holds(req'[s], d)})
      BY DEF CountersExact, Holding, Holds, Admitted
    <3>1. \A s \in Requests : Holds(req'[s], d) <=> Holds(req[s], d)
      BY <2>5, <2>7 DEF OthersStay, Holds
    <3>2. {s \in Requests : Holds(req'[s], d)} = Holding(d)
      BY <3>1, TheCountedAreFinite
    <3>3. CASE d = c
      <4>1. Holding(d) = {}
        BY <2>6, <3>3, TheCountedAreFinite DEF Unreferenced, Holds
      <4> QED BY <1>0, <2>0, <3>2, <3>3, <4>1, FS_EmptySet
    <3>4. CASE d # c
      <4>1. ~Unreferenced(d)
        BY <1>0, <2>0, <2>5, <2>7, <3>4 DEF Unreferenced, OthersStay, Typed
      <4> QED BY <1>0, <2>0, <3>2, <3>4, <4>1 DEF IndInv, CountersExact
    <3> QED BY <3>3, <3>4
  <2> QED BY <2>7, <2>8, <2>9, <2>10 DEF IndInv
<1> QED BY <1>1, <1>2

(* The compare-and-swap on the counter.                                    *)
LEMMA AcquirePreserves ==
    ASSUME IndInv, NEW r \in Requests, Acquire(r)
    PROVE  IndInv'
<1> USE LimitsAreNatural, SetsAssumption
<1>0. /\ req \in [Requests -> Request] /\ req[r] \in Request
      /\ Linked(req[r]) /\ Phased(req[r]) /\ Counted(req[r]) /\ Typed
      /\ pool \subseteq Backends /\ waiting \in Nat /\ used \in Nat /\ spent \in Nat
      /\ count \in [Counters -> Nat]
  BY Before
<1>h. req[r].pc \in Admitted => count[req[r].counter] >= 1 /\ req[r].counter \in Counters
  BY HeldIsCounted
<1>p. /\ req[r].phase = "queued" => waiting >= 1
      /\ req[r].reserved = "current" => used >= 1
  BY HeldIsCounted
<1>c. req[r].counter \in Counters /\ req[r].pick \in Backends /\ req[r].pc = "acquire"
  BY <1>0 DEF Acquire, At, Linked, Admitted, Request
<1>1. CASE Unselected(r) /\ UNCHANGED count
  BY <1>1, <1>c, UnselectedPreserves DEF Acquire
<1>2. CASE count[req[r].counter] < Cap /\ count' = [count EXCEPT ![req[r].counter] = @ + 1]
           /\ ~(Unselected(r) /\ UNCHANGED count)
  <2>0. /\ UNCHANGED <<table, used, spent>>
        /\ waiting' = IF req[r].phase = "queued" THEN waiting - 1 ELSE waiting
    BY <1>2 DEF Acquire, membership
  <2>1. Typed'
    <3>a. count[req[r].counter] \in Nat
      BY <1>0, <1>c
    <3>0. count[req[r].counter] + 1 \in 0..Cap
      BY <1>2, <3>a
    <3>1. count' \in [Counters -> 0..Cap]
      BY <1>0, <1>2, <1>c, <3>0 DEF Typed
    <3>2. waiting' \in 0..MaxWaiting
      BY <1>0, <1>p, <2>0 DEF Typed
    <3> QED BY <1>0, <2>0, <3>1, <3>2 DEF Typed, Acquire, membership, passive
  <2>2. CASE req[r].phase = "retry"
    <3> DEFINE new == [req[r] EXCEPT !.pc = "commit"]
    <3>1. Moved(r, new) /\ new \in Request
      BY <1>0, <1>2, <2>2 DEF Acquire, Moved, Request, Steps
    <3>2. Linked(new) /\ Phased(new)
      BY <1>0, <1>c, <2>2 DEF Request, Linked, Phased, Selecting, Admitted
    <3>3. Counted(new)
      BY <1>0, <1>c, <2>2 DEF Request, Counted, Phased, Selecting, Admitted
    <3>4. /\ new.phase = req[r].phase /\ new.reserved = req[r].reserved
          /\ new.counter = req[r].counter /\ new.pc = "commit"
      BY <1>0 DEF Request
    <3>5. \A c \in Counters : count'[c] + Bit(Holds(req[r], c)) = count[c] + Bit(Holds(new, c))
      BY <1>0, <1>2, <1>c, <3>4 DEF Holds, Bit, Admitted
    <3> HIDE DEF new
    <3>6. /\ waiting' + Bit(req[r].phase = "queued") = waiting + Bit(new.phase = "queued")
          /\ used' + spent + Bit(req[r].reserved = "current") = used + spent' + Bit(new.reserved = "current")
      BY <2>0, <2>2, <3>4
    <3> QED BY <2>0, <2>1, <3>1, <3>2, <3>3, <3>4, <3>5, <3>6, OneStep
  <2>3. CASE req[r].phase # "retry"
    <3> DEFINE new == [req[r] EXCEPT !.pc = "send", !.attempted = {req[r].pick}, !.sends = 1,
                                     !.phase = "initial", !.deadline = 0]
    <3>1. Moved(r, new) /\ new \in Request
      BY <1>0, <1>2, <1>c, <2>3 DEF Acquire, Moved, Request, Steps, Phases
    <3>2. Linked(new) /\ Phased(new)
      BY <1>0, <1>c, <2>3 DEF Request, Linked, Phased, Selecting, Admitted
    <3>3. Counted(new)
      <4>1. req[r].reserved = "no" /\ req[r].left \in Nat /\ req[r].left <= MaxRetries
        BY <1>0, <1>c, <2>3 DEF Request, Phased, Counted, Selecting
      <4>2. IsFiniteSet({req[r].pick}) /\ Cardinality({req[r].pick}) = 1
        BY FS_Singleton
      <4>3. /\ new.reserved = "no" /\ new.left = req[r].left /\ new.pc = "send" /\ new.sends = 1
            /\ new.attempted = {req[r].pick} /\ new.phase = "initial"
        BY <1>0, <4>1 DEF Request
      <4> HIDE DEF new
      <4> QED BY <4>1, <4>2, <4>3 DEF Counted, Selecting
    <3>4. /\ new.phase = "initial" /\ new.reserved = req[r].reserved
          /\ new.counter = req[r].counter /\ new.pc = "send"
      BY <1>0 DEF Request
    <3>5. \A c \in Counters : count'[c] + Bit(Holds(req[r], c)) = count[c] + Bit(Holds(new, c))
      BY <1>0, <1>2, <1>c, <3>4 DEF Holds, Bit, Admitted
    <3> HIDE DEF new
    <3>6. /\ waiting' + Bit(req[r].phase = "queued") = waiting + Bit(new.phase = "queued")
          /\ used' + spent + Bit(req[r].reserved = "current") = used + spent' + Bit(new.reserved = "current")
      BY <1>0, <2>0, <2>3, <3>4 DEF Bit
    <3> QED BY <2>0, <2>1, <3>1, <3>2, <3>3, <3>4, <3>5, <3>6, OneStep
  <2> QED BY <2>2, <2>3
<1> QED BY <1>1, <1>2 DEF Acquire

(* Queueing, sending and the end of a dispatch.                            *)
LEMMA SendingPreserves ==
    ASSUME IndInv, NEW r \in Requests,
           \/ Enqueue(r) \/ Release(r) \/ Commit(r)
           \/ \E failed, retryable \in BOOLEAN : Respond(r, failed, retryable)
    PROVE  IndInv'
<1> USE LimitsAreNatural, SetsAssumption
<1>0. /\ req \in [Requests -> Request] /\ req[r] \in Request
      /\ Linked(req[r]) /\ Phased(req[r]) /\ Counted(req[r]) /\ Typed
      /\ pool \subseteq Backends /\ waiting \in Nat /\ used \in Nat /\ spent \in Nat
      /\ count \in [Counters -> Nat]
  BY Before
<1>h. req[r].pc \in Admitted => count[req[r].counter] >= 1 /\ req[r].counter \in Counters
  BY HeldIsCounted
<1>p. /\ req[r].phase = "queued" => waiting >= 1
      /\ req[r].reserved = "current" => used >= 1
  BY HeldIsCounted
<1>1. CASE Enqueue(r) /\ waiting < MaxWaiting
  <2> DEFINE new == [req[r] EXCEPT !.pc = "select", !.phase = "queued", !.deadline = QueueTicks]
  <2>a. req' = [req EXCEPT ![r].pc = "select", ![r].phase = "queued", ![r].deadline = QueueTicks]
    BY <1>0, <1>1 DEF Enqueue
  <2>1. Moved(r, new) /\ new \in Request
    BY <1>0, <2>a DEF Moved, Request, Steps, Phases
  <2>2. Linked(new) /\ Phased(new)
    BY <1>0, <1>1 DEF Enqueue, At, Request, Linked, Phased, Selecting, Admitted
  <2>3. Counted(new)
    BY <1>0, <1>1 DEF Enqueue, At, Request, Phased, Counted, Selecting, Admitted
  <2>4. Typed' /\ UNCHANGED table
    BY <1>0, <1>1 DEF Typed, Enqueue, membership, passive, budget
  <2>5. /\ new.phase = "queued" /\ new.reserved = req[r].reserved
        /\ new.counter = req[r].counter /\ new.pc = "select"
    BY <1>0 DEF Request
  <2>6. \A c \in Counters : count'[c] + Bit(Holds(req[r], c)) = count[c] + Bit(Holds(new, c))
    BY <1>0, <1>1, <2>5 DEF Enqueue, At, Holds, Bit, Admitted, Linked
  <2> HIDE DEF new
  <2>7. /\ waiting' + Bit(req[r].phase = "queued") = waiting + Bit(new.phase = "queued")
        /\ used' + spent + Bit(req[r].reserved = "current") = used + spent' + Bit(new.reserved = "current")
    BY <1>0, <1>1, <2>5 DEF Enqueue, At, Phased, Bit, budget
  <2> QED BY <2>1, <2>2, <2>3, <2>4, <2>5, <2>6, <2>7, OneStep
<1>2. CASE Enqueue(r) /\ waiting >= MaxWaiting
  <2>1. Moved(r, Idle) /\ UNCHANGED <<table, count, waiting, used, spent>>
    BY <1>0, <1>2 DEF Enqueue, Moved, membership, budget, Typed
  <2>2. Typed'
    BY <1>0, <1>2, <2>1 DEF Typed, Enqueue, membership, passive, budget
  <2>3. /\ Idle.phase = "initial" /\ Idle.reserved = "no" /\ Idle.counter = None /\ Idle.pc = "idle"
        /\ req[r].phase = "initial" /\ req[r].reserved = "no" /\ req[r].pc = "enqueue"
    BY <1>0, <1>2 DEF Idle, Enqueue, At, Phased, Selecting
  <2>4. \A c \in Counters : count'[c] + Bit(Holds(req[r], c)) = count[c] + Bit(Holds(Idle, c))
    BY <2>1, <2>3 DEF Holds, Admitted
  <2> QED BY <2>1, <2>2, <2>3, <2>4, IdleIsARequest, IdleIsSound, OneStep
<1>3. ASSUME NEW failed \in BOOLEAN, NEW retryable \in BOOLEAN, Respond(r, failed, retryable)
      PROVE  IndInv'
  <2> DEFINE new == [req[r] EXCEPT !.pc = IF retryable /\ req[r].left > 0 THEN "reserve" ELSE "finish"]
  <2>1. Moved(r, new) /\ new \in Request
    BY <1>0, <1>3 DEF Respond, Moved, Request, Steps, Phases
  <2>2. Linked(new) /\ Phased(new)
    BY <1>0, <1>3 DEF Respond, At, Request, Linked, Phased, Selecting, Admitted
  <2>3. Counted(new)
    BY <1>0, <1>3 DEF Respond, At, Request, Phased, Counted, Selecting, Admitted
  <2>4. Typed' /\ UNCHANGED table
    <3>1. req[r].pick \in Backends
      BY <1>0, <1>3 DEF Respond, At, Linked, Admitted, Request
    <3>2. failures' \in [Backends -> 0..(Threshold - 1)] /\ ejected' \in [Backends -> 0..EjectTicks]
      <4>1. CASE RecordFailure(req[r].pick)
        <5>1. failures[req[r].pick] \in 0..(Threshold - 1) /\ 0 \in 0..(Threshold - 1) /\ EjectTicks \in 0..EjectTicks
          BY <1>0, <3>1 DEF Typed
        <5>2. failures[req[r].pick] + 1 >= Threshold \/ failures[req[r].pick] + 1 \in 0..(Threshold - 1)
          BY <5>1
        <5> QED BY <1>0, <3>1, <4>1, <5>1, <5>2 DEF Typed, RecordFailure
      <4>2. CASE RecordSuccess(req[r].pick)
        <5>1. 0 \in 0..(Threshold - 1) /\ 0 \in 0..EjectTicks
          OBVIOUS
        <5> QED BY <1>0, <3>1, <4>2, <5>1 DEF Typed, RecordSuccess
      <4> QED BY <1>3, <4>1, <4>2 DEF Respond
    <3> QED BY <1>0, <1>3, <3>2 DEF Typed, Respond, membership, budget
  <2>5. /\ new.phase = req[r].phase /\ new.reserved = req[r].reserved
        /\ new.counter = req[r].counter /\ new.pc \in {"reserve", "finish"}
    BY <1>0 DEF Request
  <2>6. \A c \in Counters : count'[c] + Bit(Holds(req[r], c)) = count[c] + Bit(Holds(new, c))
    BY <1>0, <1>3, <2>5 DEF Respond, At, Holds, Bit, Admitted, Linked
  <2> HIDE DEF new
  <2>7. /\ waiting' + Bit(req[r].phase = "queued") = waiting + Bit(new.phase = "queued")
        /\ used' + spent + Bit(req[r].reserved = "current") = used + spent' + Bit(new.reserved = "current")
    BY <1>0, <1>3, <2>5 DEF Respond, At, Phased, Bit, budget
  <2> QED BY <2>1, <2>2, <2>3, <2>4, <2>5, <2>6, <2>7, OneStep
<1>m. req[r].pc = "commit" => req[r].left >= 1 /\ req[r].pick \notin req[r].attempted /\ req[r].pick \in Backends
  BY <1>0 DEF Phased, Counted, Linked, Request, Selecting, Admitted
<1>4. CASE Release(r)
  <2> DEFINE new == [req[r] EXCEPT !.pc = "select", !.phase = "retry", !.counter = None, !.pick = None]
  <2>1. Moved(r, new) /\ new \in Request
    BY <1>0, <1>4, <1>h DEF Release, Decrement, Moved, Request, Steps, Phases
  <2>2. Linked(new) /\ Phased(new)
    BY <1>0, <1>4, <1>h DEF Release, Decrement, At, Request, Linked, Phased, Selecting, Admitted
  <2>3. Counted(new)
    BY <1>0, <1>4, <1>h DEF Release, Decrement, At, Request, Phased, Counted, Selecting, Admitted
  <2>4. Typed' /\ UNCHANGED table
    <3>1. req[r].counter \in Counters /\ count[req[r].counter] - 1 \in 0..Cap
      BY <1>0, <1>4, <1>h DEF Release, At, Admitted, Typed
    <3>2. count' \in [Counters -> 0..Cap]
      BY <1>0, <1>4, <3>1 DEF Typed, Release, Decrement
    <3> QED BY <1>0, <1>4, <3>2 DEF Typed, Release, membership, passive, budget
  <2>5. /\ new.phase = "retry" /\ new.reserved = req[r].reserved
        /\ new.counter = None /\ new.pc = "select"
    BY <1>0 DEF Request
  <2>6. \A c \in Counters : count'[c] + Bit(Holds(req[r], c)) = count[c] + Bit(Holds(new, c))
    BY <1>0, <1>4, <1>h, <2>5 DEF Release, Decrement, At, Holds, Bit, Admitted, Linked
  <2> HIDE DEF new
  <2>7. /\ waiting' + Bit(req[r].phase = "queued") = waiting + Bit(new.phase = "queued")
        /\ used' + spent + Bit(req[r].reserved = "current") = used + spent' + Bit(new.reserved = "current")
    BY <1>0, <1>4, <2>5 DEF Release, At, Phased, Selecting, Bit, budget
  <2> QED BY <2>1, <2>2, <2>3, <2>4, <2>5, <2>6, <2>7, OneStep
<1>5. CASE Commit(r)
  <2> DEFINE new == [req[r] EXCEPT !.pc = "send", !.reserved = "no", !.left = @ - 1,
                          !.attempted = @ \cup {req[r].pick}, !.sends = @ + 1]
  <2>1. Moved(r, new) /\ new \in Request
    BY <1>0, <1>5, <1>m DEF Commit, Moved, Request, Steps, Phases
  <2>2. Linked(new) /\ Phased(new)
    BY <1>0, <1>5, <1>m DEF Commit, At, Request, Linked, Phased, Selecting, Admitted
  <2>3. Counted(new)
    <3>1. req[r].attempted \in SUBSET Backends /\ req[r].sends \in Nat /\ req[r].left \in Nat
      BY <1>0 DEF Request
    <3>2. /\ IsFiniteSet(req[r].attempted \cup {req[r].pick})
          /\ Cardinality(req[r].attempted \cup {req[r].pick}) = req[r].sends + 1
      BY <1>0, <1>m, <1>5, FS_AddElement DEF Counted, Commit, At
    <3>3. /\ new.attempted = req[r].attempted \cup {req[r].pick} /\ new.sends = req[r].sends + 1
          /\ new.left = req[r].left - 1 /\ new.pc = "send" /\ new.reserved = "no"
      BY <1>0 DEF Request
    <3>4. req[r].sends + req[r].left <= 1 + MaxRetries
      BY <1>0, <3>1 DEF Counted
    <3> HIDE DEF new
    <3> QED BY <1>5, <1>m, <3>1, <3>2, <3>3, <3>4 DEF Counted, Selecting, Commit, At
  <2>4. Typed' /\ UNCHANGED table
    BY <1>0, <1>5, <1>m DEF Typed, Commit, membership, passive, budget
  <2>5. /\ new.phase = req[r].phase /\ new.reserved = "no"
        /\ new.counter = req[r].counter /\ new.pc = "send"
    BY <1>0 DEF Request
  <2>6. \A c \in Counters : count'[c] + Bit(Holds(req[r], c)) = count[c] + Bit(Holds(new, c))
    BY <1>0, <1>5, <1>m, <2>5 DEF Commit, At, Holds, Bit, Admitted, Linked
  <2> HIDE DEF new
  <2>7. /\ waiting' + Bit(req[r].phase = "queued") = waiting + Bit(new.phase = "queued")
        /\ used' + spent + Bit(req[r].reserved = "current") = used + spent' + Bit(new.reserved = "current")
    BY <1>0, <1>5, <1>m, <2>5 DEF Commit, At, Phased, Bit, budget
  <2> QED BY <2>1, <2>2, <2>3, <2>4, <2>5, <2>6, <2>7, OneStep
<1> QED BY <1>1, <1>2, <1>3, <1>4, <1>5 DEF Enqueue

(* Dropping a permit that is held.                                         *)
LEMMA DecrementIsTyped ==
    ASSUME IndInv, NEW r \in Requests, req[r].pc \in Admitted, Decrement(req[r].counter)
    PROVE  /\ count' \in [Counters -> 0..Cap]
           /\ \A c \in Counters : count'[c] + Bit(Holds(req[r], c)) = count[c] + Bit(Holds(Idle, c))
<1>1. count[req[r].counter] >= 1 /\ req[r].counter \in Counters /\ count \in [Counters -> 0..Cap]
  BY HeldIsCounted DEF IndInv, TypeOK
<1>2. count[req[r].counter] - 1 \in 0..Cap
  BY <1>1, LimitsAreNatural
<1>3. count' \in [Counters -> 0..Cap]
  BY <1>1, <1>2 DEF Decrement
<1>4. Idle.pc \notin Admitted
  BY DEF Idle, Admitted
<1> QED BY <1>1, <1>3, <1>4, LimitsAreNatural DEF Decrement, Holds, Bit

(* The end of a dispatch: what it held is given back.                      *)
LEMMA EndingPreserves ==
    ASSUME IndInv, NEW r \in Requests, Abandon(r) \/ Finish(r) \/ Cancel(r)
    PROVE  IndInv'
<1> USE LimitsAreNatural, SetsAssumption
<1>0. /\ req \in [Requests -> Request] /\ req[r] \in Request
      /\ Linked(req[r]) /\ Phased(req[r]) /\ Counted(req[r]) /\ Typed
      /\ pool \subseteq Backends /\ waiting \in Nat /\ used \in Nat /\ spent \in Nat
      /\ count \in [Counters -> Nat]
  BY Before
<1>h. req[r].pc \in Admitted => count[req[r].counter] >= 1 /\ req[r].counter \in Counters
  BY HeldIsCounted
<1>p. /\ req[r].phase = "queued" => waiting >= 1
      /\ req[r].reserved = "current" => used >= 1
  BY HeldIsCounted
<1>i. Idle.phase = "initial" /\ Idle.reserved = "no" /\ Idle.counter = None /\ Idle.pc = "idle"
  BY DEF Idle
<1>t. Moved(r, Idle) /\ UNCHANGED <<table, spent>>
  BY DEF Abandon, Finish, Cancel, Moved, membership, budget
<1>1. CASE Abandon(r)
  <2>1. req[r].pc \in Admitted /\ Decrement(req[r].counter) /\ req[r].phase # "queued" /\ UNCHANGED waiting
    BY <1>0, <1>1 DEF Abandon, At, Admitted, Phased, Selecting
  <2>2. used' \in 0..Budget
    BY <1>0, <1>1, <1>p DEF Typed, Abandon, Refund
  <2>3. Typed'
    BY <1>0, <1>1, <2>1, <2>2, DecrementIsTyped DEF Typed, Abandon, membership, passive
  <2>4. used' + spent + Bit(req[r].reserved = "current") = used + spent' + Bit(Idle.reserved = "current")
    BY <1>0, <1>1, <1>p, <1>t, <1>i DEF Abandon, Refund, Bit
  <2>5. waiting' + Bit(req[r].phase = "queued") = waiting + Bit(Idle.phase = "queued")
    BY <1>i, <2>1
  <2> QED BY <1>t, <1>i, <2>1, <2>3, <2>4, <2>5, DecrementIsTyped, IdleIsARequest, IdleIsSound, OneStep
<1>2. CASE Finish(r) \/ (Cancel(r) /\ req[r].pc = "send")
  <2>1. /\ req[r].pc \in Admitted /\ Decrement(req[r].counter) /\ UNCHANGED <<waiting, used>>
        /\ req[r].phase # "queued" /\ req[r].reserved = "no"
    BY <1>0, <1>2 DEF Finish, Cancel, At, Admitted, Phased, Selecting, budget
  <2>2. Typed'
    BY <1>0, <1>2, <2>1, DecrementIsTyped DEF Typed, Finish, Cancel, membership, passive, budget
  <2>3. /\ waiting' + Bit(req[r].phase = "queued") = waiting + Bit(Idle.phase = "queued")
        /\ used' + spent + Bit(req[r].reserved = "current") = used + spent' + Bit(Idle.reserved = "current")
    BY <1>t, <1>i, <2>1
  <2> QED BY <1>t, <1>i, <2>1, <2>2, <2>3, DecrementIsTyped, IdleIsARequest, IdleIsSound, OneStep
<1>3. CASE Cancel(r) /\ req[r].pc # "send"
  <2>1. /\ req[r].pc = "waiting" /\ req[r].phase = "queued" /\ req[r].reserved = "no"
        /\ waiting' = waiting - 1 /\ UNCHANGED <<count, used>>
    BY <1>0, <1>3 DEF Cancel, At, Phased, Selecting, budget
  <2>2. Typed'
    BY <1>0, <1>3, <1>p, <2>1 DEF Typed, Cancel, membership, passive, budget
  <2>3. /\ waiting' + Bit(req[r].phase = "queued") = waiting + Bit(Idle.phase = "queued")
        /\ used' + spent + Bit(req[r].reserved = "current") = used + spent' + Bit(Idle.reserved = "current")
    BY <1>0, <1>t, <1>i, <2>1 DEF Bit
  <2>4. \A c \in Counters : count'[c] + Bit(Holds(req[r], c)) = count[c] + Bit(Holds(Idle, c))
    BY <1>i, <2>1 DEF Holds, Admitted
  <2> QED BY <1>t, <1>i, <2>2, <2>3, <2>4, IdleIsARequest, IdleIsSound, OneStep
<1> QED BY <1>1, <1>2, <1>3
-----------------------------------------------------------------------------
(***************************************************************************)
(* Steps that touch every request, or none                                 *)
(***************************************************************************)

(* What QueueExact and CountersExact count does not change when every      *)
(* request keeps its phase and its hold on a counter.                      *)
LEMMA ExactWhenKept ==
    ASSUME IndInv, UNCHANGED <<count, waiting>>,
           \A b \in Backends : table'[b] = table[b] \/ table'[b] = None,
           \A s \in Requests : /\ req'[s].phase = "queued" <=> req[s].phase = "queued"
                               /\ req'[s].counter = req[s].counter
                               /\ req'[s].pc \in Admitted <=> req[s].pc \in Admitted
    PROVE  QueueExact' /\ CountersExact'
<1>1. {s \in Requests : req'[s].phase = "queued"} = {s \in Requests : req[s].phase = "queued"}
  OBVIOUS
<1>2. QueueExact'
  BY <1>1 DEF IndInv, QueueExact
<1>3. CountersExact'
  <2> SUFFICES ASSUME NEW c \in Counters, ~Unreferenced(c)'
               PROVE  count'[c] = Cardinality({s \in Requests : Holds(req'[s], c)})
    BY DEF CountersExact, Holding, Holds, Admitted
  <2>1. ~Unreferenced(c)
    BY SetsAssumption DEF Unreferenced
  <2>2. {s \in Requests : Holds(req'[s], c)} = Holding(c)
    BY TheCountedAreFinite DEF Holds
  <2> QED BY <2>1, <2>2 DEF IndInv, CountersExact
<1> QED BY <1>2, <1>3

(* A reservation: an expired window turns every other reservation old.     *)
LEMMA ReservePreserves ==
    ASSUME IndInv, NEW r \in Requests, Reserve(r)
    PROVE  IndInv'
<1> USE LimitsAreNatural, SetsAssumption
<1>0. /\ req \in [Requests -> Request] /\ req[r] \in Request
      /\ Linked(req[r]) /\ Phased(req[r]) /\ Counted(req[r]) /\ Typed
      /\ pool \subseteq Backends /\ waiting \in Nat /\ used \in Nat /\ spent \in Nat
      /\ count \in [Counters -> Nat]
  BY Before
<1>h. req[r].pc \in Admitted => count[req[r].counter] >= 1 /\ req[r].counter \in Counters
  BY HeldIsCounted
<1>p. /\ req[r].phase = "queued" => waiting >= 1
      /\ req[r].reserved = "current" => used >= 1
  BY HeldIsCounted
<1> DEFINE expired == age >= WindowTicks
           charged == IF expired THEN 0 ELSE used
           Aged(s) == IF expired /\ req[s].reserved = "current" THEN "old" ELSE req[s].reserved
<1>1. /\ req[r].pc = "reserve" /\ req[r].reserved = "no" /\ req[r].phase # "queued" /\ req[r].left >= 1
      /\ spent' = (IF expired THEN 0 ELSE spent)
      /\ used' = (IF charged < Budget THEN charged + 1 ELSE charged)
      /\ UNCHANGED <<table, count, waiting>>
  BY <1>0 DEF Reserve, At, Phased, Counted, Selecting, membership
<1>2. ASSUME NEW s \in Requests, s # r
      PROVE  req'[s] = [req[s] EXCEPT !.reserved = Aged(s)]
  BY <1>2 DEF Reserve
<1>3. req'[r] = IF charged < Budget THEN [req[r] EXCEPT !.pc = "release", !.reserved = "current"]
                ELSE [req[r] EXCEPT !.pc = "finish"]
  BY DEF Reserve
<1>4. ASSUME NEW s \in Requests
      PROVE  req'[s] \in Request /\ Linked(req'[s]) /\ Phased(req'[s]) /\ Counted(req'[s])
  <2>0. req[s] \in Request /\ Linked(req[s]) /\ Phased(req[s]) /\ Counted(req[s])
    BY Before
  <2>1. CASE s # r
    <3> DEFINE new == [req[s] EXCEPT !.reserved = Aged(s)]
    <3>1. new \in Request
      BY <2>0 DEF Request
    <3>2. Linked(new) /\ Phased(new)
      BY <2>0 DEF Linked, Phased, Request
    <3>3. Counted(new)
      BY <2>0 DEF Counted, Request
    <3> HIDE DEF new
    <3> QED BY <1>2, <2>1, <3>1, <3>2, <3>3 DEF new
  <2>2. CASE s = r /\ charged < Budget
    <3> DEFINE new == [req[r] EXCEPT !.pc = "release", !.reserved = "current"]
    <3>1. new \in Request
      BY <1>0 DEF Request, Steps
    <3>2. Linked(new) /\ Phased(new)
      BY <1>0, <1>1 DEF Linked, Phased, Request, Selecting, Admitted
    <3>3. Counted(new)
      BY <1>0, <1>1 DEF Counted, Request, Selecting
    <3>4. req'[s] = new
      BY <1>3, <2>2
    <3> HIDE DEF new
    <3> QED BY <3>1, <3>2, <3>3, <3>4
  <2>3. CASE s = r /\ ~(charged < Budget)
    <3> DEFINE new == [req[r] EXCEPT !.pc = "finish"]
    <3>1. new \in Request
      BY <1>0 DEF Request, Steps
    <3>2. Linked(new) /\ Phased(new)
      BY <1>0, <1>1 DEF Linked, Phased, Request, Selecting, Admitted
    <3>3. Counted(new)
      BY <1>0, <1>1 DEF Counted, Request, Selecting
    <3>4. req'[s] = new
      BY <1>3, <2>3
    <3> HIDE DEF new
    <3> QED BY <3>1, <3>2, <3>3, <3>4
  <2> QED BY <2>1, <2>2, <2>3
<1>5. Shape'
  <2>1. req' \in [Requests -> Request]
    BY <1>4 DEF Reserve
  <2>2. (\A s \in Requests : Linked(req[s]) /\ Phased(req[s]) /\ Counted(req[s]))'
    BY <1>4 DEF Linked, Phased, Counted
  <2> QED BY <2>1, <2>2 DEF Shape
<1>6. TypeOK'
  BY <1>0, <1>5 DEF Typed, TypeOK, Shape, Reserve, membership, passive
<1>7. QueueExact' /\ CountersExact'
  <2>1. ASSUME NEW s \in Requests
        PROVE  /\ req'[s].phase = req[s].phase /\ req'[s].counter = req[s].counter
               /\ req'[s].pc \in Admitted <=> req[s].pc \in Admitted
    <3>0. req[s] \in Request
      BY <1>0
    <3>1. CASE s # r
      BY <1>2, <3>0, <3>1 DEF Request
    <3>2. CASE s = r
      BY <1>0, <1>1, <1>3, <3>2 DEF Request, Admitted
    <3> QED BY <3>1, <3>2
  <2> QED BY <1>1, <2>1, ExactWhenKept
<1>8. BudgetExact'
  <2> DEFINE B == {s \in Requests : req'[s].reserved = "current"}
  <2>0. used = spent + Cardinality(Charged) /\ IsFiniteSet(Charged) /\ Cardinality(Charged) \in Nat
    BY TheCountedAreFinite, FS_CardinalityType DEF IndInv, BudgetExact, Charged
  <2>1. r \in B <=> charged < Budget
    BY <1>0, <1>1, <1>3 DEF Request
  <2>2. CASE expired
    <3>1. \A s \in Requests : s # r => s \notin B
      BY <1>0, <1>2, <2>2 DEF Request
    <3>2. B = IF charged < Budget THEN {r} ELSE {}
      BY <2>1, <3>1
    <3> HIDE DEF B
    <3>3. used' = spent' + Cardinality(B)
      <4>1. Cardinality(B) = IF 0 < Budget THEN 1 ELSE 0
        BY <2>2, <3>2, FS_EmptySet, FS_Singleton
      <4> QED BY <1>1, <2>2, <4>1
    <3> QED BY <3>3 DEF BudgetExact, B
  <2>3. CASE ~expired
    <3>1. \A x : x # r => (x \in Charged <=> x \in B)
      BY <1>0, <1>2, <2>3 DEF Request, Charged
    <3>2. r \notin Charged
      BY <1>1 DEF Charged
    <3> HIDE DEF B
    <3>3. /\ Cardinality(B) \in Nat
          /\ Cardinality(B) + Bit(r \in Charged) = Cardinality(Charged) + Bit(r \in B)
      BY <2>0, <3>1, Exchange
    <3>4. used' = spent' + Cardinality(B)
      BY <1>0, <1>1, <2>0, <2>1, <2>3, <3>2, <3>3 DEF Bit
    <3> QED BY <3>4 DEF BudgetExact, B
  <2> QED BY <2>2, <2>3
<1> QED BY <1>5, <1>6, <1>7, <1>8 DEF IndInv

(* Time passing.                                                           *)
LEMMA TickPreserves ==
    ASSUME IndInv, Tick
    PROVE  IndInv'
<1> USE LimitsAreNatural, SetsAssumption
<1>0. Typed /\ req \in [Requests -> Request]
  BY DEF IndInv, Shape, TypeOK, Typed
<1>1. ASSUME NEW n \in Nat PROVE Less(n) \in Nat /\ Less(n) <= n
  BY <1>1 DEF Less
<1>2. ASSUME NEW s \in Requests
      PROVE  /\ req'[s] \in Request /\ Linked(req'[s]) /\ Phased(req'[s]) /\ Counted(req'[s])
             /\ req'[s].phase = req[s].phase /\ req'[s].counter = req[s].counter
             /\ req'[s].pc = req[s].pc /\ req'[s].reserved = req[s].reserved
  <2>0. req[s] \in Request /\ Linked(req[s]) /\ Phased(req[s]) /\ Counted(req[s])
    BY Before
  <2>1. req'[s] = [req[s] EXCEPT !.deadline = Less(req[s].deadline)] /\ Less(req[s].deadline) \in Nat
    BY <1>1, <2>0 DEF Tick, Request
  <2> DEFINE new == [req[s] EXCEPT !.deadline = Less(req[s].deadline)]
  <2>2. new \in Request
    BY <2>0, <2>1 DEF Request
  <2>3. Linked(new) /\ Phased(new)
    BY <2>0 DEF Linked, Phased, Request
  <2>4. Counted(new)
    BY <2>0 DEF Counted, Request
  <2>5. /\ new.phase = req[s].phase /\ new.counter = req[s].counter
        /\ new.pc = req[s].pc /\ new.reserved = req[s].reserved
    BY <2>0 DEF Request
  <2> HIDE DEF new
  <2> QED BY <2>1, <2>2, <2>3, <2>4, <2>5 DEF new
<1>3. Shape'
  <2>1. req' \in [Requests -> Request]
    BY <1>2 DEF Tick
  <2>2. (\A s \in Requests : Linked(req[s]) /\ Phased(req[s]) /\ Counted(req[s]))'
    BY <1>2 DEF Linked, Phased, Counted
  <2> QED BY <2>1, <2>2 DEF Shape
<1>4. TypeOK'
  <2>1. ejected' \in [Backends -> 0..EjectTicks]
    BY <1>0, <1>1 DEF Typed, Tick
  <2>2. age' \in 0..WindowTicks
    BY <1>0 DEF Typed, Tick
  <2> QED BY <1>0, <1>3, <2>1, <2>2 DEF Typed, TypeOK, Shape, Tick, membership
<1>5. QueueExact' /\ CountersExact'
  BY <1>2, ExactWhenKept DEF Tick, membership
<1>6. BudgetExact'
  <2>1. {s \in Requests : req'[s].reserved = "current"} = {s \in Requests : req[s].reserved = "current"}
    BY <1>2
  <2> QED BY <2>1 DEF IndInv, BudgetExact, Tick
<1> QED BY <1>3, <1>4, <1>5, <1>6 DEF IndInv

(* Steps that leave the requests alone need only keep the other types.     *)
LEMMA RequestsUntouched ==
    ASSUME IndInv, Typed', UNCHANGED <<count, waiting, used, spent, req>>,
           \A b \in Backends : table'[b] = table[b] \/ table'[b] = None
    PROVE  IndInv'
<1>1. Shape'
  <2>1. (\A s \in Requests : Linked(req[s]) /\ Phased(req[s]) /\ Counted(req[s]))'
    BY DEF IndInv, Shape, Linked, Phased, Counted
  <2> QED BY <2>1 DEF IndInv, Shape
<1>2. TypeOK'
  BY <1>1 DEF Typed, TypeOK, Shape
<1>3. QueueExact' /\ CountersExact'
  BY ExactWhenKept
<1>4. BudgetExact'
  BY DEF IndInv, BudgetExact
<1> QED BY <1>1, <1>2, <1>3, <1>4 DEF IndInv

(* Admin operations.                                                       *)
LEMMA AdminPreserves ==
    ASSUME IndInv, NEW a \in Admins, AdminStep(a)
    PROVE  IndInv'
<1> USE LimitsAreNatural, SetsAssumption
<1> DEFINE Call == [pc : {"idle", "swap", "clear", "live", "prune"}, member : Backends \cup {None},
                    by : Backends \cup {None}, live : SUBSET Backends]
<1>0. Typed /\ admin \in [Admins -> Call] /\ admin[a] \in Call /\ AdminIdle \in Call
  BY DEF IndInv, TypeOK, Typed, AdminIdle
<1>z. 0 \in 0..(Threshold - 1) /\ 0 \in 0..EjectTicks
  OBVIOUS
<1>1. ASSUME NEW b \in Backends, NEW state \in Overrides, NEW resume \in BOOLEAN, SetState(a, b, state, resume)
      PROVE  IndInv'
  <2>1. /\ override' \in [Backends -> Overrides] /\ failures' \in [Backends -> 0..(Threshold - 1)]
        /\ ejected' \in [Backends -> 0..EjectTicks]
    BY <1>0, <1>1, <1>z DEF Typed, SetState
  <2> QED BY <1>0, <1>1, <2>1, RequestsUntouched DEF Typed, SetState, budget
<1>2. ASSUME NEW b \in Backends, AddMember(a, b) PROVE IndInv'
  BY <1>0, <1>2, RequestsUntouched DEF Typed, AddMember, passive, budget
<1>3. ASSUME NEW b \in Backends, NEW by \in Backends \cup {None}, BeginRemoval(a, b, by) PROVE IndInv'
  <2>1. admin' \in [Admins -> Call]
    BY <1>0, <1>3 DEF BeginRemoval
  <2> QED BY <1>0, <1>3, <2>1, RequestsUntouched DEF Typed, BeginRemoval, membership, passive, budget
<1>4. CASE SwapSnapshot(a)
  <2>1. admin' \in [Admins -> Call]
    BY <1>0, <1>4 DEF SwapSnapshot
  <2>2. pool' \in (SUBSET Backends) \ {{}}
    <3>1. CASE UNCHANGED pool
      BY <1>0, <3>1 DEF Typed
    <3>2. CASE /\ pool' = (pool \ {admin[a].member}) \cup ({admin[a].by} \ {None})
               /\ IF admin[a].by = None THEN Cardinality(pool) > 1 ELSE admin[a].by \notin pool
      <4>1. pool' \subseteq Backends
        BY <1>0, <3>2 DEF Typed
      <4>2. CASE admin[a].by # None
        BY <3>2, <4>1, <4>2
      <4>3. CASE admin[a].by = None
        <5>0. Cardinality({admin[a].member}) = 1
          BY FS_Singleton
        <5>1. pool # {admin[a].member}
          BY <3>2, <4>3, <5>0
        <5>2. pool # {}
          BY <1>0 DEF Typed
        <5>3. PICK x \in pool : x # admin[a].member
          BY <5>1, <5>2
        <5> QED BY <3>2, <4>1, <5>3
      <4> QED BY <4>2, <4>3
    <3> QED BY <1>4, <3>1, <3>2 DEF SwapSnapshot
  <2> QED BY <1>0, <1>4, <2>1, <2>2, RequestsUntouched DEF Typed, SwapSnapshot, passive, budget
<1>5. CASE ClearRemoved(a)
  <2>1. /\ admin' \in [Admins -> Call] /\ override' \in [Backends -> Overrides]
        /\ failures' \in [Backends -> 0..(Threshold - 1)] /\ ejected' \in [Backends -> 0..EjectTicks]
    BY <1>0, <1>5, <1>z DEF Typed, ClearRemoved, Overrides
  <2> QED BY <1>0, <1>5, <2>1, RequestsUntouched DEF Typed, ClearRemoved, budget
<1>6. CASE ReadLive(a)
  <2>1. admin' \in [Admins -> Call]
    BY <1>0, <1>6 DEF ReadLive, Typed
  <2> QED BY <1>0, <1>6, <2>1, RequestsUntouched DEF Typed, ReadLive, membership, passive, budget
<1>7. CASE PruneRemoved(a)
  <2>1. admin' \in [Admins -> Call]
    BY <1>0, <1>7 DEF PruneRemoved
  <2>2. /\ table' \in [Backends -> Counters \cup {None}] /\ override' \in [Backends -> Overrides]
        /\ failures' \in [Backends -> 0..(Threshold - 1)]
        /\ \A b \in Backends : table'[b] = table[b] \/ table'[b] = None
    BY <1>0, <1>7, PruneIsTyped DEF PruneRemoved
  <2> QED BY <1>0, <1>7, <2>1, <2>2, RequestsUntouched DEF Typed, PruneRemoved, budget
<1> QED BY <1>1, <1>2, <1>3, <1>4, <1>5, <1>6, <1>7 DEF AdminStep
-----------------------------------------------------------------------------
(* A fresh balancer, whatever overrides it restored, satisfies IndInv.     *)
LEMMA InitEstablishes == Init => IndInv
<1> USE LimitsAreNatural, SetsAssumption
<1> SUFFICES ASSUME Init PROVE IndInv
  OBVIOUS
<1>1. \A s \in Requests : req[s] = Idle
  BY DEF Init
<1>2. Shape
  BY <1>1, IdleIsARequest, IdleIsSound DEF Init, Shape
<1>3. TypeOK
  <2>1. AdminIdle \in [pc : {"idle", "swap", "clear", "live", "prune"}, member : Backends \cup {None},
                      by : Backends \cup {None}, live : SUBSET Backends]
    BY DEF AdminIdle
  <2>2. /\ count \in [Counters -> 0..Cap] /\ failures \in [Backends -> 0..(Threshold - 1)]
        /\ ejected \in [Backends -> 0..EjectTicks] /\ override \in [Backends -> Overrides]
    BY DEF Init, Overrides
  <2> QED BY <1>2, <2>1, <2>2 DEF Init, TypeOK, Shape
<1>4. /\ Idle.phase = "initial" /\ Idle.reserved = "no" /\ Idle.counter = None
  BY DEF Idle
<1>5. /\ {s \in Requests : req[s].phase = "queued"} = {}
      /\ {s \in Requests : req[s].reserved = "current"} = {}
  BY <1>1, <1>4
<1>6. QueueExact /\ BudgetExact
  <2>1. waiting = 0 /\ used = 0 /\ spent = 0
    BY DEF Init
  <2>2. QueueExact
    <3>1. Cardinality({s \in Requests : req[s].phase = "queued"}) = Cardinality({})
      BY <1>5
    <3> QED BY <2>1, <3>1, FS_EmptySet DEF QueueExact
  <2>3. BudgetExact
    <3>1. Cardinality({s \in Requests : req[s].reserved = "current"}) = Cardinality({})
      BY <1>5
    <3>2. Cardinality({s \in Requests : req[s].reserved = "current"}) = 0
      BY <3>1, FS_EmptySet
    <3> QED BY <2>1, <3>2 DEF BudgetExact
  <2> QED BY <2>2, <2>3
<1>7. CountersExact
  BY <1>1, <1>4 DEF Init, CountersExact, Unreferenced
<1> QED BY <1>2, <1>3, <1>6, <1>7 DEF IndInv

(* Every step of requests, operators and the clock preserves IndInv.       *)
LEMMA NextPreserves == IndInv /\ [Next]_vars => IndInv'
<1> SUFFICES ASSUME IndInv, [Next]_vars PROVE IndInv'
  OBVIOUS
<1>1. ASSUME NEW r \in Requests, RequestStep(r) PROVE IndInv'
  <2>1. CASE Arrive(r) \/ StartPrune(r) \/ Prune(r) \/ LoadView(r) \/ Wake(r)
    BY <2>1, SelectionPreserves
  <2>2. CASE Choose(r) \/ TakeCounter(r) \/ Acquire(r) \/ Reserve(r)
    BY <2>2, ChoicePreserves, CounterPreserves, AcquirePreserves, ReservePreserves
  <2>3. CASE \/ Enqueue(r) \/ Release(r) \/ Commit(r)
             \/ \E failed, retryable \in BOOLEAN : Respond(r, failed, retryable)
    BY <2>3, SendingPreserves
  <2>4. CASE Abandon(r) \/ Finish(r) \/ Cancel(r)
    BY <2>4, EndingPreserves
  <2> QED BY <1>1, <2>1, <2>2, <2>3, <2>4 DEF RequestStep, Advance
<1>2. ASSUME NEW a \in Admins, AdminStep(a) PROVE IndInv'
  BY <1>2, AdminPreserves
<1>3. CASE Tick
  BY <1>3, TickPreserves
<1>4. CASE UNCHANGED vars
  <2>1. Typed
    BY DEF IndInv, TypeOK, Typed
  <2> QED BY <1>4, <2>1, RequestsUntouched DEF vars, Typed
<1> QED BY <1>1, <1>2, <1>3, <1>4 DEF Next

(* Whatever requests, operators and time do: the waiting queue counts the  *)
(* queued requests and never exceeds max_waiting, the retry window charges *)
(* what was sent or is reserved and never exceeds its budget.              *)
THEOREM QueueAndBudgetExact == Spec => [](TypeOK /\ AdmissionExact)
<1>1. IndInv => TypeOK /\ AdmissionExact
  BY DEF IndInv, AdmissionExact
<1> QED BY <1>1, InitEstablishes, NextPreserves, PTL DEF Spec

(* Every counter somebody can still reach says how many requests hold a    *)
(* permit taken from it.                                                   *)
THEOREM CountersAlwaysExact == Spec => []CountersExact
<1>1. IndInv => CountersExact
  BY DEF IndInv
<1> QED BY <1>1, InitEstablishes, NextPreserves, PTL DEF Spec

(* A dispatch never returns to a member it tried, and sends at most one    *)
(* request more than max_retries.                                          *)
THEOREM NoMemberTwice == Spec => []EachMemberOnce
<1>1. IndInv => EachMemberOnce
  <2> SUFFICES ASSUME IndInv, NEW r \in Requests
               PROVE  Cardinality(req[r].attempted) = req[r].sends /\ req[r].sends <= 1 + MaxRetries
    BY DEF EachMemberOnce
  <2>1. Counted(req[r]) /\ req[r].sends \in Nat /\ req[r].left \in Nat
    BY DEF IndInv, Shape, Request
  <2> QED BY <2>1, LimitsAreNatural DEF Counted
<1> QED BY <1>1, InitEstablishes, NextPreserves, PTL DEF Spec
-----------------------------------------------------------------------------
(***************************************************************************)
(* The cap, in a pool whose members are not edited                         *)
(***************************************************************************)

(* Without edits every pruning sees all members live, so a member keeps    *)
(* the counter it got first, and a request's counter is its member's.      *)
Fixed ==
    /\ pool = Backends
    /\ \A a \in Admins : admin[a].pc = "idle"
    /\ \A r \in Requests : req[r].pc = "prune" => req[r].view = Backends
    /\ \A r \in Requests : req[r].counter # None => table[req[r].pick] = req[r].counter
    /\ \A b, d \in Backends : table[b] = table[d] /\ table[b] # None => b = d

(* Fixed survives a step that creates no counter and edits no member.      *)
LEMMA FixedWhenKept ==
    ASSUME Fixed, UNCHANGED <<pool, table>>, \A a \in Admins : admin'[a].pc = "idle",
           \A r \in Requests : /\ req'[r].pc = "prune" => req'[r].view = Backends
                               /\ \/ req'[r].counter = None
                                  \/ req'[r].counter = req[r].counter /\ req'[r].pick = req[r].pick
    PROVE  Fixed'
BY DEF Fixed

(* Without member edits, every step preserves Fixed.                       *)
LEMMA FixedPreserved == IndInv /\ Fixed /\ ~Editable /\ [Next]_vars => Fixed'
<1> SUFFICES ASSUME IndInv, Fixed, ~Editable, [Next]_vars PROVE Fixed'
  OBVIOUS
<1>0. /\ req \in [Requests -> Request] /\ \A s \in Requests : Linked(req[s]) /\ Phased(req[s])
      /\ table \in [Backends -> Counters \cup {None}]
  BY DEF IndInv, Shape, TypeOK
<1>1. ASSUME NEW r \in Requests, RequestStep(r), ~TakeCounter(r) PROVE Fixed'
  <2>1. UNCHANGED <<pool, admin>>
    BY <1>1 DEF RequestStep, Advance, Arrive, StartPrune, Prune, LoadView, Choose, Acquire, Enqueue, Wake,
                Reserve, Release, Commit, Finish, Abandon, Cancel, Respond, membership
  <2>2. UNCHANGED table
    <3>1. CASE Prune(r)
      <4>1. req[r].view = Backends
        BY <3>1 DEF Prune, At, Fixed
      <4>2. table' = [b \in Backends |-> table[b]]
        BY <3>1, <4>1 DEF Prune, PruneStale
      <4> QED BY <1>0, <4>2
    <3>2. CASE ~Prune(r)
      BY <1>1, <3>2 DEF RequestStep, Advance, Arrive, StartPrune, LoadView, Choose, Acquire, Enqueue, Wake,
                Reserve, Release, Commit, Finish, Abandon, Cancel, Respond, membership
    <3> QED BY <3>1, <3>2
  <2>3. ASSUME NEW s \in Requests
        PROVE  /\ req'[s].pc = "prune" => req'[s].view = Backends
               /\ \/ req'[s].counter = None
                  \/ req'[s].counter = req[s].counter /\ req'[s].pick = req[s].pick
    <3>0. req[s] \in Request /\ req[r] \in Request /\ Linked(req[r]) /\ (req[s].pc = "prune" => req[s].view = Backends)
      BY <1>0 DEF Fixed
    <3>i. Idle.pc = "idle" /\ Idle.counter = None
      BY DEF Idle
    <3>1. CASE Arrive(r) \/ Enqueue(r) \/ Finish(r) \/ Abandon(r) \/ Cancel(r)
      <4>1. CASE s # r
        BY <1>0, <3>0, <3>1, <4>1 DEF Arrive, Enqueue, Finish, Abandon, Cancel, Leave
      <4>2. CASE s = r
        <5>1. CASE Arrive(r)
          BY <1>0, <3>i, <4>2, <5>1 DEF Arrive, Request, Idle
        <5>2. CASE Enqueue(r)
          BY <1>0, <3>0, <3>i, <4>2, <5>2 DEF Enqueue, Request
        <5>3. CASE Finish(r) \/ Abandon(r) \/ Cancel(r)
          BY <1>0, <3>i, <4>2, <5>3 DEF Finish, Abandon, Cancel, Leave
        <5> QED BY <3>1, <5>1, <5>2, <5>3
      <4> QED BY <4>1, <4>2
    <3>2. CASE StartPrune(r) \/ Prune(r) \/ LoadView(r) \/ Wake(r)
      BY <1>0, <3>0, <3>2 DEF StartPrune, Prune, LoadView, Wake, Request, Fixed
    <3>u. CASE Unselected(r)
      BY <1>0, <3>0, <3>i, <3>u DEF Unselected, KeepWaiting, TimeOut, GiveUpRetry, Leave, Request
    <3>3. CASE Choose(r)
      <4>1. req[r].counter = None
        BY <3>0, <3>3 DEF Choose, At, Linked, Admitted
      <4> QED BY <1>0, <3>0, <3>u, <3>3, <4>1 DEF Choose, Request
    <3>4. CASE Acquire(r)
      BY <1>0, <3>0, <3>u, <3>4 DEF Acquire, Request
    <3>5. CASE Release(r) \/ Commit(r)
      BY <1>0, <3>0, <3>5 DEF Release, Commit, Request
    <3>6. CASE Reserve(r)
      BY <1>0, <3>0, <3>6 DEF Reserve, Request
    <3>7. ASSUME NEW failed, NEW retryable, Respond(r, failed, retryable)
          PROVE  /\ req'[s].pc = "prune" => req'[s].view = Backends
                 /\ req'[s].counter = req[s].counter /\ req'[s].pick = req[s].pick
      BY <1>0, <3>0, <3>7 DEF Respond, Request
    <3> QED BY <1>1, <3>1, <3>2, <3>3, <3>4, <3>5, <3>6, <3>7 DEF RequestStep, Advance
  <2> QED BY <2>1, <2>2, <2>3, FixedWhenKept DEF Fixed
<1>2. ASSUME NEW r \in Requests, TakeCounter(r) PROVE Fixed'
  <2>0. req[r] \in Request /\ req[r].pick \in Backends /\ UNCHANGED <<pool, admin>>
    BY <1>0, <1>2 DEF TakeCounter, At, Linked, Admitted, Request
  <2>1. CASE table[req[r].pick] # None
    BY <1>0, <1>2, <2>0, <2>1 DEF TakeCounter, Request, Fixed
  <2>2. CASE table[req[r].pick] = None
    <3>1. PICK c \in Counters :
              /\ Unreferenced(c)
              /\ table' = [table EXCEPT ![req[r].pick] = c]
              /\ req' = [req EXCEPT ![r].pc = "acquire", ![r].counter = c]
      BY <1>2, <2>2 DEF TakeCounter, LeastUnreferenced
    <3>2. \A b, d \in Backends : table'[b] = table'[d] /\ table'[b] # None => b = d
      BY <1>0, <2>0, <3>1 DEF Fixed, Unreferenced
    <3>3. ASSUME NEW s \in Requests, req'[s].counter # None
          PROVE  table'[req'[s].pick] = req'[s].counter
      <4>1. CASE s = r
        BY <1>0, <2>0, <3>1, <4>1 DEF Request
      <4>2. CASE s # r
        <5>1. req'[s] = req[s] /\ req[s].pick \in Backends /\ req[s] \in Request
          BY <1>0, <3>1, <3>3, <4>2 DEF Linked, Request
        <5>2. table[req[s].pick] = req[s].counter /\ req[s].pick # req[r].pick
          BY <2>2, <3>3, <5>1 DEF Fixed
        <5> QED BY <1>0, <2>0, <3>1, <5>1, <5>2
      <4> QED BY <4>1, <4>2
    <3>4. \A s \in Requests : req'[s].pc = "prune" => req'[s].view = Backends
      BY <1>0, <2>0, <3>1 DEF Fixed, Request
    <3> QED BY <2>0, <3>2, <3>3, <3>4 DEF Fixed
  <2> QED BY <2>1, <2>2
<1>3. ASSUME NEW a \in Admins, AdminStep(a) PROVE Fixed'
  BY <1>3, FixedWhenKept DEF Fixed, AdminStep, SetState, AddMember, BeginRemoval, SwapSnapshot, ClearRemoved,
                             ReadLive, PruneRemoved
<1>4. CASE Tick
  <2>1. ASSUME NEW s \in Requests
        PROVE  /\ req'[s].pc = req[s].pc /\ req'[s].view = req[s].view
               /\ req'[s].counter = req[s].counter /\ req'[s].pick = req[s].pick
    BY <1>0, <1>4 DEF Tick, Request
  <2> QED BY <1>4, <2>1 DEF Fixed, Tick, membership
<1>5. CASE UNCHANGED vars
  BY <1>5 DEF Fixed, vars
<1> QED BY <1>1, <1>2, <1>3, <1>4, <1>5 DEF Next

(* In a pool whose members are not added, removed or retargeted at run     *)
(* time, no member ever serves more requests than upstream_max_in_flight.  *)
THEOREM CapHoldsWithoutEdits ==
    ASSUME ~Editable
    PROVE  Spec => []CapHolds
<1>1. Init => Fixed
  BY DEF Init, Fixed, Idle, AdminIdle
<1>2. IndInv /\ Fixed => CapHolds
  <2> SUFFICES ASSUME IndInv, Fixed, NEW b \in Backends
               PROVE  Cardinality({r \in Requests : req[r].pick = b /\ \E c \in Counters : r \in Holding(c)}) <= Cap
    BY DEF CapHolds
  <2> DEFINE S == {r \in Requests : req[r].pick = b /\ \E c \in Counters : r \in Holding(c)}
  <2>0. /\ req \in [Requests -> Request] /\ \A s \in Requests : Linked(req[s])
        /\ table \in [Backends -> Counters \cup {None}] /\ count \in [Counters -> 0..Cap]
    BY DEF IndInv, Shape, TypeOK
  <2>1. \A r \in S : r \in Holding(table[b]) /\ table[b] # None
    BY <2>0, SetsAssumption DEF Fixed, Holding
  <2>2. CASE S = {}
    BY <2>2, FS_EmptySet, LimitsAreNatural
  <2>3. CASE S # {}
    <3>1. table[b] \in Counters /\ S \subseteq Holding(table[b])
      BY <2>0, <2>1, <2>3
    <3>2. count[table[b]] = Cardinality(Holding(table[b]))
      BY <3>1 DEF IndInv, CountersExact, Unreferenced
    <3>3. Cardinality(S) <= Cardinality(Holding(table[b])) /\ Cardinality(Holding(table[b])) <= Cap
      BY <2>0, <3>1, <3>2, FS_Subset, TheCountedAreFinite
    <3>4. Cardinality(S) \in Nat /\ Cardinality(Holding(table[b])) \in Nat
      BY <3>1, FS_Subset, FS_CardinalityType, TheCountedAreFinite
    <3> HIDE DEF S
    <3>5. Cardinality(S) <= Cap
      BY <3>3, <3>4, LimitsAreNatural
    <3> QED BY <3>5 DEF S
  <2> QED BY <2>2, <2>3
<1>3. IndInv /\ Fixed /\ [Next]_vars => IndInv' /\ Fixed'
  BY NextPreserves, FixedPreserved
<1>4. Init => IndInv /\ Fixed
  BY <1>1, InitEstablishes
<1> QED BY <1>2, <1>3, <1>4, PTL DEF Spec
=============================================================================
