--------------------------- MODULE FillGateProofs ---------------------------
(***************************************************************************)
(* Proofs about FillGate for any requests, keys, origin-fill budget and    *)
(* number of purges: one writer per key, no lost wakeup, nothing leaked.   *)
(*                                                                         *)
(* The invariants of the runs lean on each other and on three more facts:  *)
(* the fill of a writer that has not lapsed is in the table, an aged fill  *)
(* has lapsed, and a request under way has its key.                        *)
(***************************************************************************)
EXTENDS FillGate, FiniteSetTheorems, TLAPS

Registered == \A r \in writers \ lapsed : filling[wants[r]] = r

AgedLapsed == \A k \in aged : filling[k] \in lapsed

LapsedWrite == lapsed \subseteq writers

UnderWay == \A r \in Requests : pc[r] \notin {"idle", "done"} => wants[r] \in Keys

(* What the gate is about, and what the origin is about.                   *)
GateInv ==
    /\ FillsOwned /\ NoLostWakeup /\ Registered /\ AgedLapsed /\ LapsedWrite
    /\ UnderWay
    /\ \A r \in writers : pc[r] \in {"permit", "fetch", "settle"}

OriginInv ==
    /\ \A t \in permits : pc[t] \in {"fetch", "settle"}
    /\ BudgetExact /\ RefreshesRun

IndInv == TypeOK /\ GateInv /\ OriginInv

-----------------------------------------------------------------------------
(* The counter follows the permits: dropping a permit, if there is one.    *)
LEMMA DroppingCounts ==
    ASSUME TypeOK, BudgetExact, NEW t, DropOriginPermit(t)
    PROVE  BudgetExact' /\ fills' \in Nat /\ permits' \subseteq Tasks
<1>1. IsFiniteSet(permits)
  BY GateAssumption, FS_Union, FS_Subset DEF TypeOK, Tasks
<1>2. Cardinality(permits) \in Nat /\ Cardinality(permits \ {t}) \in Nat
  BY <1>1, FS_CardinalityType, FS_RemoveElement
<1>3. Cardinality(permits \ {t}) = IF t \in permits THEN Cardinality(permits) - 1
                                   ELSE Cardinality(permits)
  BY <1>1, FS_RemoveElement
<1> QED BY <1>2, <1>3, GateAssumption DEF BudgetExact, DropOriginPermit, TypeOK

(* The end of a request keeps the invariant, wherever it comes.            *)
LEMMA RequestEnds ==
    ASSUME IndInv, NEW r \in Requests, End(r), UNCHANGED <<revalidating, purges>>
    PROVE  IndInv'
<1> USE GateAssumption
<1>1. BudgetExact' /\ fills' \in Nat /\ permits' \subseteq Tasks
  BY DroppingCounts DEF IndInv, OriginInv, End
<1>2. pc' = [pc EXCEPT ![r] = "done"] /\ wants' = [wants EXCEPT ![r] = None]
      /\ permits' = permits \ {r} /\ r \notin Keys /\ r \in Tasks
  BY DEF End, DropOriginPermit, Tasks
<1>3. CASE r \in writers
  <2>1. wants[r] \in Keys /\ DropFillPermit(r)
    BY <1>3 DEF IndInv, GateInv, UnderWay, End
  <2>2. TypeOK'
    BY <1>1, <1>2, <2>1 DEF IndInv, TypeOK, DropFillPermit, Woken, Places, Tasks
  <2>3. FillsOwned'
    BY <1>2, <2>1 DEF IndInv, GateInv, FillsOwned, DropFillPermit, TypeOK
  <2>4. NoLostWakeup'
    BY <2>1 DEF IndInv, GateInv, NoLostWakeup, DropFillPermit, Woken, TypeOK
  <2>5. Registered' /\ AgedLapsed' /\ LapsedWrite'
    BY <1>2, <2>1 DEF IndInv, GateInv, FillsOwned, Registered, AgedLapsed, LapsedWrite,
       DropFillPermit, TypeOK
  <2>6. UnderWay' /\ \A q \in writers' : pc'[q] \in {"permit", "fetch", "settle"}
    BY <1>2, <2>1 DEF IndInv, GateInv, UnderWay, DropFillPermit, TypeOK
  <2>7. OriginInv'
    BY <1>1, <1>2 DEF IndInv, OriginInv, RefreshesRun, TypeOK
  <2> QED BY <2>2, <2>3, <2>4, <2>5, <2>6, <2>7 DEF IndInv, GateInv
<1>4. CASE r \notin writers
  <2>1. waits' = [waits EXCEPT ![r] = None] /\ UNCHANGED <<filling, aged, writers, lapsed>>
    BY <1>4 DEF End
  <2>2. TypeOK'
    BY <1>1, <1>2, <2>1 DEF IndInv, TypeOK, Places
  <2>3. FillsOwned' /\ NoLostWakeup'
    BY <1>2, <1>4, <2>1 DEF IndInv, GateInv, FillsOwned, NoLostWakeup, TypeOK
  <2>4. Registered' /\ AgedLapsed' /\ LapsedWrite'
    BY <1>2, <1>4, <2>1 DEF IndInv, GateInv, Registered, AgedLapsed, LapsedWrite, TypeOK
  <2>5. UnderWay' /\ \A q \in writers' : pc'[q] \in {"permit", "fetch", "settle"}
    BY <1>2, <1>4, <2>1 DEF IndInv, GateInv, UnderWay, TypeOK
  <2>6. OriginInv'
    BY <1>1, <1>2 DEF IndInv, OriginInv, RefreshesRun, TypeOK
  <2> QED BY <2>2, <2>3, <2>4, <2>5, <2>6 DEF IndInv, GateInv
<1> QED BY <1>3, <1>4

(* So does the end of a refresh that is at its fetch or was refused it.    *)
LEMMA TaskEnds ==
    ASSUME IndInv, NEW t \in Tasks, pc[t] # "idle", EndTask(t)
    PROVE  IndInv'
<1> USE GateAssumption
<1>1. CASE t \in Keys
  <2>1. EndRefresh(t) /\ UNCHANGED <<revalidating, purges>>
    BY <1>1 DEF EndTask
  <2>2. BudgetExact' /\ fills' \in Nat /\ permits' \subseteq Tasks
    BY <2>1, DroppingCounts DEF IndInv, OriginInv, EndRefresh
  <2>3. /\ pc' = [pc EXCEPT ![t] = "finish"] /\ permits' = permits \ {t}
        /\ UNCHANGED <<filling, aged, waits, writers, lapsed, wants>>
    BY <2>1 DEF EndRefresh, DropOriginPermit
  <2>4. TypeOK'
    BY <2>1, <2>2, <2>3 DEF IndInv, TypeOK, Places
  <2>5. GateInv'
    BY <1>1, <2>3 DEF IndInv, GateInv, FillsOwned, NoLostWakeup, Registered, AgedLapsed,
       LapsedWrite, UnderWay, TypeOK
  <2>6. OriginInv'
    BY <1>1, <2>1, <2>2, <2>3 DEF IndInv, OriginInv, RefreshesRun, TypeOK
  <2> QED BY <2>4, <2>5, <2>6 DEF IndInv
<1>2. CASE t \in Requests
  <2>1. End(t) /\ UNCHANGED <<revalidating, purges>>
    BY <1>2 DEF EndTask
  <2> QED BY <1>2, <2>1, RequestEnds
<1> QED BY <1>1, <1>2 DEF Tasks

-----------------------------------------------------------------------------
(* The initial state satisfies the invariant.                              *)
LEMMA InitInv == Init => IndInv
<1> SUFFICES ASSUME Init PROVE IndInv
  OBVIOUS
<1>1. TypeOK
  BY GateAssumption DEF Init, TypeOK, Places, Tasks
<1>2. GateInv
  BY DEF Init, GateInv, FillsOwned, NoLostWakeup, Registered, AgedLapsed, LapsedWrite,
     UnderWay, Tasks
<1>3. OriginInv
  BY GateAssumption, FS_EmptySet DEF Init, OriginInv, BudgetExact, RefreshesRun, Tasks
<1> QED BY <1>1, <1>2, <1>3 DEF IndInv

(* A step of one task to another place that touches neither table nor      *)
(* permits.                                                                *)
LEMMA MovesOn ==
    ASSUME IndInv, NEW r \in Requests, r \notin writers, r \notin permits,
           NEW place \in Places \ {"idle", "done"}, wants[r] \in Keys,
           pc' = [pc EXCEPT ![r] = place],
           UNCHANGED <<filling, aged, waits, revalidating, fills, wants, writers,
                       permits, purges, lapsed>>
    PROVE  IndInv'
<1> USE GateAssumption
<1>1. TypeOK'
  BY DEF IndInv, TypeOK, Tasks
<1>2. GateInv'
  BY DEF IndInv, GateInv, FillsOwned, NoLostWakeup, Registered, AgedLapsed, LapsedWrite,
     UnderWay, TypeOK
<1>3. OriginInv'
  BY DEF IndInv, OriginInv, BudgetExact, RefreshesRun, TypeOK, Tasks
<1> QED BY <1>1, <1>2, <1>3 DEF IndInv
(* Becoming a writer: an aged fill that is replaced has lapsed, so its     *)
(* owner may lose its place in the table; its waiters wait no more.        *)
LEMMA WriterEnters ==
    ASSUME IndInv, NEW r \in Requests, BecomeWriter(r)
    PROVE  IndInv'
<1> USE GateAssumption
<1> DEFINE k == wants[r]
<1>1. /\ pc[r] = "gate" /\ k \in Keys /\ r \notin writers /\ r \notin permits
      /\ r \notin lapsed /\ r \notin Keys /\ r \in Tasks
  BY DEF IndInv, GateInv, OriginInv, UnderWay, LapsedWrite, BecomeWriter, Tasks
<1>2. /\ filling' = [filling EXCEPT ![k] = r] /\ aged' = aged \ {k}
      /\ writers' = writers \cup {r} /\ pc' = [pc EXCEPT ![r] = "permit"]
      /\ waits' = IF filling[k] = None THEN waits ELSE Woken(filling[k])
      /\ filling[k] = None \/ k \in aged
      /\ UNCHANGED <<revalidating, fills, wants, permits, purges, lapsed>>
  BY DEF BecomeWriter
<1> HIDE DEF k
<1>3. TypeOK'
  BY <1>1, <1>2 DEF IndInv, TypeOK, Woken, Places
<1>4. FillsOwned'
  BY <1>1, <1>2 DEF IndInv, GateInv, FillsOwned, TypeOK, k
<1>5. NoLostWakeup'
  BY <1>1, <1>2 DEF IndInv, GateInv, NoLostWakeup, TypeOK, Woken
<1>6. Registered'
  <2> SUFFICES ASSUME NEW q \in writers', q \notin lapsed' PROVE filling'[wants'[q]] = q
    BY DEF Registered
  <2>1. CASE q = r
    BY <1>1, <1>2, <2>1 DEF IndInv, TypeOK, k
  <2>2. CASE q # r
    <3>1. q \in writers /\ q \notin lapsed /\ filling[wants[q]] = q /\ q # None
      BY <1>2, <2>2 DEF IndInv, GateInv, Registered, TypeOK
    <3>2. wants[q] # k
      BY <1>2, <3>1 DEF IndInv, GateInv, AgedLapsed
    <3> QED BY <1>2, <3>1, <3>2 DEF IndInv, TypeOK
  <2> QED BY <2>1, <2>2
<1>7. AgedLapsed' /\ LapsedWrite'
  BY <1>1, <1>2 DEF IndInv, GateInv, AgedLapsed, LapsedWrite, TypeOK
<1>8. UnderWay' /\ \A q \in writers' : pc'[q] \in {"permit", "fetch", "settle"}
  BY <1>1, <1>2 DEF IndInv, GateInv, UnderWay, TypeOK, k
<1>9. OriginInv'
  BY <1>1, <1>2 DEF IndInv, OriginInv, BudgetExact, RefreshesRun, TypeOK
<1> QED BY <1>3, <1>4, <1>5, <1>6, <1>7, <1>8, <1>9 DEF IndInv, GateInv

(* Becoming a waiter: the fill in the table has an owner to wait for.      *)
LEMMA WaiterEnters ==
    ASSUME IndInv, NEW r \in Requests, BecomeWaiter(r)
    PROVE  IndInv'
<1> USE GateAssumption
<1>1. /\ wants[r] \in Keys /\ r \notin writers /\ r \notin permits /\ r \notin Keys
      /\ filling[wants[r]] \in writers /\ filling[wants[r]] \in Requests
  BY DEF IndInv, GateInv, OriginInv, UnderWay, FillsOwned, BecomeWaiter, TypeOK
<1>2. /\ waits' = [waits EXCEPT ![r] = filling[wants[r]]]
      /\ pc' = [pc EXCEPT ![r] = "waiting"]
      /\ UNCHANGED <<filling, aged, revalidating, fills, wants, writers, permits,
                     purges, lapsed>>
  BY DEF BecomeWaiter
<1>3. TypeOK'
  BY <1>1, <1>2 DEF IndInv, TypeOK, Places, Tasks
<1>4. GateInv'
  BY <1>1, <1>2 DEF IndInv, GateInv, FillsOwned, NoLostWakeup, Registered, AgedLapsed,
     LapsedWrite, UnderWay, TypeOK
<1>5. OriginInv'
  BY <1>1, <1>2 DEF IndInv, OriginInv, BudgetExact, RefreshesRun, TypeOK, Tasks
<1> QED BY <1>3, <1>4, <1>5 DEF IndInv

(* Serving a stale object, with or without a new refresh.                  *)
LEMMA StaleIsServed ==
    ASSUME IndInv, NEW r \in Requests, LookupRefreshes(r)
    PROVE  IndInv'
<1> USE GateAssumption
<1>1. /\ pc[r] = "lookup" /\ wants[r] \in Keys /\ r \notin writers /\ r \notin permits
      /\ r \in Tasks /\ r \notin Keys /\ wants[r] \in Tasks
  BY DEF IndInv, GateInv, OriginInv, UnderWay, LookupRefreshes, Tasks
<1>2. CASE wants[r] \in revalidating
  <2>1. EndTask(r)
    BY <1>2 DEF LookupRefreshes
  <2> QED BY <1>1, <2>1, TaskEnds
<1>3. CASE wants[r] \notin revalidating
  <2>1. /\ revalidating' = revalidating \cup {wants[r]}
        /\ pc' = [pc EXCEPT ![r] = "done", ![wants[r]] = "permit"]
        /\ wants' = [wants EXCEPT ![r] = None]
        /\ UNCHANGED <<filling, aged, waits, fills, writers, permits, purges, lapsed>>
    BY <1>3 DEF LookupRefreshes
  <2>2. pc[wants[r]] = "idle" /\ wants[r] \notin permits /\ wants[r] # r
    BY <1>1, <1>3 DEF IndInv, OriginInv, RefreshesRun
  <2>3. TypeOK'
    BY <1>1, <2>1 DEF IndInv, TypeOK, Places
  <2>4. \A q \in Requests : /\ pc'[q] = IF q = r THEN "done" ELSE pc[q]
                            /\ wants'[q] = IF q = r THEN None ELSE wants[q]
    <3>1. \A q \in Requests : q \in Tasks /\ q # wants[r]
      BY <1>1 DEF Tasks
    <3> QED BY <1>1, <2>1, <2>2, <3>1 DEF IndInv, TypeOK
  <2>5. writers \subseteq Requests /\ r \notin writers
    BY <1>1 DEF IndInv, TypeOK
  <2>6. FillsOwned' /\ NoLostWakeup' /\ Registered' /\ AgedLapsed' /\ LapsedWrite'
    BY <2>1, <2>4, <2>5 DEF IndInv, GateInv, FillsOwned, NoLostWakeup, Registered,
       AgedLapsed, LapsedWrite
  <2>7. UnderWay' /\ \A q \in writers' : pc'[q] \in {"permit", "fetch", "settle"}
    BY <2>1, <2>4, <2>5 DEF IndInv, GateInv, UnderWay
  <2>8. OriginInv'
    <3>1. \A t \in Tasks : t # r /\ t # wants[r] => pc'[t] = pc[t]
      BY <2>1 DEF IndInv, TypeOK
    <3>2. pc'[wants[r]] = "permit" /\ r \notin permits /\ permits \subseteq Tasks
      BY <1>1, <2>1 DEF IndInv, TypeOK
    <3>3. \A t \in permits' : pc'[t] \in {"fetch", "settle"}
      BY <2>1, <2>2, <3>1, <3>2 DEF IndInv, OriginInv
    <3>4. RefreshesRun'
      BY <1>1, <2>1, <3>1, <3>2 DEF IndInv, OriginInv, RefreshesRun, Tasks
    <3>5. BudgetExact'
      BY <2>1 DEF IndInv, OriginInv, BudgetExact
    <3> QED BY <3>3, <3>4, <3>5 DEF OriginInv
  <2> QED BY <2>3, <2>6, <2>7, <2>8 DEF IndInv, GateInv
<1> QED BY <1>2, <1>3

(* Taking an origin permit counts one more, below the limit.               *)
LEMMA PermitIsTaken ==
    ASSUME IndInv, NEW t \in Tasks, TakeOriginPermit(t)
    PROVE  IndInv'
<1> USE GateAssumption
<1>1. t \notin permits /\ pc[t] = "permit"
  BY DEF IndInv, OriginInv, TakeOriginPermit
<1>2. /\ fills < MaxFills /\ fills' = fills + 1 /\ permits' = permits \cup {t}
      /\ pc' = [pc EXCEPT ![t] = "fetch"]
      /\ UNCHANGED <<filling, aged, waits, revalidating, wants, writers, purges, lapsed>>
  BY DEF TakeOriginPermit
<1>3. BudgetExact' /\ fills' \in Nat
  <2>1. IsFiniteSet(permits)
    BY FS_Union, FS_Subset DEF IndInv, TypeOK, Tasks
  <2>2. Cardinality(permits') = Cardinality(permits) + 1
    BY <1>1, <1>2, <2>1, FS_AddElement
  <2> QED BY <1>2, <2>2 DEF IndInv, OriginInv, BudgetExact, TypeOK
<1>4. TypeOK'
  BY <1>2, <1>3 DEF IndInv, TypeOK, Places
<1>5. GateInv'
  BY <1>1, <1>2 DEF IndInv, GateInv, FillsOwned, NoLostWakeup, Registered, AgedLapsed,
     LapsedWrite, UnderWay, TypeOK
<1>6. OriginInv'
  BY <1>1, <1>2, <1>3 DEF IndInv, OriginInv, RefreshesRun, TypeOK
<1> QED BY <1>4, <1>5, <1>6 DEF IndInv

(* What happens to the table from outside keeps the invariant: a fill that *)
(* ages or is purged makes its writer one that has lapsed.                 *)
LEMMA FillLapses ==
    ASSUME IndInv, NEW k \in Keys, FillAges(k) \/ Purge(k)
    PROVE  IndInv'
<1> USE GateAssumption
<1>1. UNCHANGED <<waits, revalidating, fills, pc, wants, writers, permits>>
  BY DEF FillAges, Purge
<1>2. OriginInv'
  BY <1>1 DEF IndInv, OriginInv, BudgetExact, RefreshesRun
<1>3. UnderWay' /\ NoLostWakeup' /\ \A q \in writers' : pc'[q] \in {"permit", "fetch", "settle"}
  BY <1>1 DEF IndInv, GateInv, UnderWay, NoLostWakeup
<1>4. CASE FillAges(k)
  <2>1. TypeOK'
    BY <1>1, <1>4 DEF IndInv, TypeOK, FillAges
  <2>2. FillsOwned' /\ Registered' /\ AgedLapsed' /\ LapsedWrite'
    BY <1>1, <1>4 DEF IndInv, GateInv, FillsOwned, Registered, AgedLapsed, LapsedWrite,
       TypeOK, FillAges
  <2> QED BY <1>2, <1>3, <2>1, <2>2 DEF IndInv, GateInv
<1>5. CASE Purge(k)
  <2>1. TypeOK'
    BY <1>1, <1>5 DEF IndInv, TypeOK, Purge
  <2>2. FillsOwned' /\ AgedLapsed' /\ LapsedWrite'
    BY <1>1, <1>5 DEF IndInv, GateInv, FillsOwned, AgedLapsed, LapsedWrite, TypeOK, Purge
  <2>3. Registered'
    <3> SUFFICES ASSUME NEW q \in writers', q \notin lapsed' PROVE filling'[wants'[q]] = q
      BY DEF Registered
    <3>1. filling[wants[q]] = q /\ q # None /\ q \in Requests /\ q \in writers
      BY <1>1, <1>5 DEF IndInv, GateInv, Registered, Purge, TypeOK
    <3>2. wants[q] # k
      BY <1>5, <3>1 DEF Purge
    <3> QED BY <1>1, <1>5, <3>1, <3>2 DEF Purge, IndInv, TypeOK
  <2> QED BY <1>2, <1>3, <2>1, <2>2, <2>3 DEF IndInv, GateInv
<1> QED BY <1>4, <1>5

-----------------------------------------------------------------------------
(* Every step keeps the invariant.                                         *)
LEMMA StepInv == IndInv /\ [Next]_vars => IndInv'
<1> SUFFICES ASSUME IndInv, [Next]_vars PROVE IndInv'
  OBVIOUS
<1> USE GateAssumption
<1>1. ASSUME NEW r \in Requests,
             LookupAnswers(r) \/ WaitTimesOut(r) \/ Cancel(r)
      PROVE  IndInv'
  BY <1>1, TaskEnds DEF LookupAnswers, WaitTimesOut, Cancel, Tasks
<1>2. ASSUME NEW r \in Requests, LookupMisses(r) \/ Wake(r)
      PROVE  IndInv'
  <2>1. r \notin writers /\ r \notin permits /\ wants[r] \in Keys
    BY <1>2 DEF IndInv, GateInv, OriginInv, UnderWay, LookupMisses, Wake
  <2>2. CASE LookupMisses(r)
    <3>1. "gate" \in Places \ {"idle", "done"}
      BY DEF Places
    <3> QED BY <2>1, <2>2, <3>1, MovesOn DEF LookupMisses
  <2>3. CASE Wake(r)
    <3>1. "recheck" \in Places \ {"idle", "done"}
      BY DEF Places
    <3> QED BY <2>1, <2>3, <3>1, MovesOn DEF Wake
  <2> QED BY <1>2, <2>2, <2>3
<1>3. ASSUME NEW t \in Tasks, OriginPermitRefused(t) \/ Settle(t)
      PROVE  IndInv'
  BY <1>3, TaskEnds DEF OriginPermitRefused, Settle
<1>4. ASSUME NEW t \in Tasks, Fetch(t)
      PROVE  IndInv'
  <2>1. /\ pc[t] = "fetch" /\ pc' = [pc EXCEPT ![t] = "settle"]
        /\ UNCHANGED <<filling, aged, waits, revalidating, fills, wants, writers,
                       permits, purges, lapsed>>
    BY <1>4 DEF Fetch
  <2>2. TypeOK'
    BY <2>1 DEF IndInv, TypeOK, Places
  <2>3. GateInv'
    BY <2>1 DEF IndInv, GateInv, FillsOwned, NoLostWakeup, Registered, AgedLapsed,
       LapsedWrite, UnderWay, TypeOK
  <2>4. OriginInv'
    BY <2>1 DEF IndInv, OriginInv, BudgetExact, RefreshesRun, TypeOK
  <2> QED BY <2>2, <2>3, <2>4 DEF IndInv
<1>5. ASSUME NEW r \in Requests, NEW k \in Keys, Arrive(r, k)
      PROVE  IndInv'
  <2>1. PICK place \in {"lookup", "gate"} : pc' = [pc EXCEPT ![r] = place]
    BY <1>5 DEF Arrive
  <2>2. /\ pc[r] = "idle" /\ wants' = [wants EXCEPT ![r] = k]
        /\ r \notin writers /\ r \notin permits /\ r \notin Keys /\ r \in Tasks
        /\ UNCHANGED <<filling, aged, waits, revalidating, fills, writers, permits,
                       purges, lapsed>>
    BY <1>5 DEF Arrive, IndInv, GateInv, OriginInv, Tasks
  <2>3. TypeOK'
    BY <2>1, <2>2 DEF IndInv, TypeOK, Places
  <2>4. GateInv'
    BY <2>1, <2>2 DEF IndInv, GateInv, FillsOwned, NoLostWakeup, Registered, AgedLapsed,
       LapsedWrite, UnderWay, TypeOK
  <2>5. OriginInv'
    BY <2>1, <2>2 DEF IndInv, OriginInv, BudgetExact, RefreshesRun, TypeOK
  <2> QED BY <2>3, <2>4, <2>5 DEF IndInv
<1>6. ASSUME NEW k \in Keys, FinishRefresh(k)
      PROVE  IndInv'
  <2>1. /\ pc[k] = "finish" /\ pc' = [pc EXCEPT ![k] = "idle"]
        /\ revalidating' = revalidating \ {k} /\ k \notin permits /\ k \in Tasks
        /\ UNCHANGED <<filling, aged, waits, fills, wants, writers, permits, purges, lapsed>>
    BY <1>6 DEF FinishRefresh, IndInv, OriginInv, Tasks
  <2>2. TypeOK'
    BY <2>1 DEF IndInv, TypeOK, Places
  <2>3. GateInv'
    BY <2>1 DEF IndInv, GateInv, FillsOwned, NoLostWakeup, Registered, AgedLapsed,
       LapsedWrite, UnderWay, TypeOK
  <2>4. OriginInv'
    BY <2>1 DEF IndInv, OriginInv, BudgetExact, RefreshesRun, TypeOK
  <2> QED BY <2>2, <2>3, <2>4 DEF IndInv
<1>7. CASE UNCHANGED vars
  BY <1>7 DEF vars, IndInv, TypeOK, GateInv, OriginInv, FillsOwned, NoLostWakeup,
     Registered, AgedLapsed, LapsedWrite, UnderWay, BudgetExact, RefreshesRun
<1>8. ASSUME NEW r \in Requests, RequestStep(r)
      PROVE  IndInv'
  BY <1>1, <1>2, <1>8, StaleIsServed, WriterEnters, WaiterEnters DEF RequestStep
<1>9. ASSUME NEW t \in Tasks, OriginStep(t)
      PROVE  IndInv'
  BY <1>3, <1>4, <1>9, PermitIsTaken DEF OriginStep
<1> QED
  BY <1>1, <1>5, <1>6, <1>7, <1>8, <1>9, FillLapses DEF Next

-----------------------------------------------------------------------------
(* Of two writers of one key both of which have not lapsed, each would     *)
(* have its fill in the one place the key has in the table.                *)
LEMMA InvIsSingleFlight == IndInv => SingleFlight
  BY DEF IndInv, GateInv, Registered, SingleFlight

(* The gate's types are correct in every reachable state.                  *)
THEOREM TypeCorrect == Spec => []TypeOK
<1>1. IndInv => TypeOK
  BY DEF IndInv
<1> QED BY <1>1, InitInv, StepInv, PTL DEF Spec

(* At most one request fills a key, unless the fill of another one was     *)
(* overtaken or purged: a late drop of a permit never frees the key.       *)
THEOREM OneWriterPerKey == Spec => []SingleFlight
  BY InvIsSingleFlight, InitInv, StepInv, PTL DEF Spec

(* Whoever waits, waits for a permit that is still owned; its drop wakes.  *)
THEOREM NoWakeupIsLost == Spec => []NoLostWakeup
<1>1. IndInv => NoLostWakeup
  BY DEF IndInv, GateInv
<1> QED BY <1>1, InitInv, StepInv, PTL DEF Spec

(* No exit of a request or a refresh leaves a fill, a permit, a count or a *)
(* mark behind.                                                            *)
THEOREM NothingEverLeaks == Spec => []NothingLeaks
<1>1. IndInv => NothingLeaks
  BY DEF IndInv, GateInv, OriginInv, NothingLeaks, PermitsInUse
<1> QED BY <1>1, InitInv, StepInv, PTL DEF Spec

=============================================================================
