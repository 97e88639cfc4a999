------------------------ MODULE AuditDispatchProofs -------------------------
(***************************************************************************)
(* Proofs about AuditDispatch for any number of callers, any capacity and  *)
(* any number of events.                                                   *)
(*                                                                         *)
(* The argument counts: a caller's step moves that caller in or out of the *)
(* sets the invariants count, by at most one (Moves), and the counters     *)
(* move along.                                                             *)
(***************************************************************************)
EXTENDS AuditDispatch, FiniteSetTheorems, TLAPS

(* Where events can be lost: only with the channel, and the lane counts as *)
(* alive only while the writer has neither failed nor ended.               *)
Lifecycle ==
    /\ worker # "gone" => lost = 0
    /\ worker = "gone" => queue = 0
    /\ alive => worker \notin {"drain", "drained", "uncounted", "drop", "gone"}

IndInv == TypeOK /\ Lifecycle /\ SlotsConserved /\ ReservedExact /\ EventsAccounted
-----------------------------------------------------------------------------
(* The callers at given steps are finitely many.                           *)
LEMMA TallyIsNatural ==
    ASSUME NEW steps
    PROVE  /\ IsFiniteSet({q \in Callers : caller[q] \in steps})
           /\ Tally(steps) \in Nat
<1>1. IsFiniteSet({q \in Callers : caller[q] \in steps})
  BY CallersFinite, FS_Subset
<1> QED BY <1>1, FS_CardinalityType DEF Tally

(* A caller that goes from one step to another changes the tally of a set  *)
(* of steps by one at most, up when it enters the set, down when it leaves.*)
LEMMA Moves ==
    ASSUME caller \in [Callers -> CallerSteps], NEW p \in Callers, NEW step, Goto(p, step),
           NEW steps
    PROVE  Tally(steps)' = IF step \in steps /\ caller[p] \notin steps THEN Tally(steps) + 1
                           ELSE IF step \notin steps /\ caller[p] \in steps THEN Tally(steps) - 1
                           ELSE Tally(steps)
<1> DEFINE A == {q \in Callers : caller[q] \in steps}
           B == {q \in Callers : caller'[q] \in steps}
<1>1. IsFiniteSet(A) /\ Cardinality(A) \in Nat
  BY TallyIsNatural DEF Tally
<1>2. \A q \in Callers : caller'[q] = IF q = p THEN step ELSE caller[q]
  BY DEF Goto
<1>3. CASE step \in steps /\ caller[p] \notin steps
  <2>1. B = A \cup {p} /\ p \notin A
    BY <1>2, <1>3
  <2>2. Cardinality(B) = Cardinality(A) + 1
    BY <1>1, <2>1, FS_AddElement
  <2> QED BY <1>3, <2>2 DEF Tally
<1>4. CASE step \notin steps /\ caller[p] \in steps
  <2>1. B = A \ {p} /\ p \in A
    BY <1>2, <1>4
  <2> HIDE DEF A, B
  <2>2. Cardinality(B) = Cardinality(A) - 1
    BY <1>1, <2>1, FS_RemoveElement
  <2> QED BY <1>4, <2>2 DEF Tally, A, B
<1>5. CASE (step \in steps) <=> (caller[p] \in steps)
  <2>1. B = A
    BY <1>2, <1>5
  <2> QED BY <1>5, <2>1 DEF Tally
<1> QED BY <1>3, <1>4, <1>5

(* Nobody moves: no tally changes.                                         *)
LEMMA Stays ==
    ASSUME UNCHANGED caller, NEW steps
    PROVE  Tally(steps)' = Tally(steps)
BY DEF Tally

(* A caller among the counted ones makes the tally positive.               *)
LEMMA TallyPositive ==
    ASSUME NEW p \in Callers, NEW steps, caller[p] \in steps
    PROVE  Tally(steps) >= 1
<1> DEFINE A == {q \in Callers : caller[q] \in steps}
<1>1. IsFiniteSet(A) /\ Cardinality(A) \in Nat
  BY TallyIsNatural DEF Tally
<1>2. Cardinality(A) # 0
  BY <1>1, FS_EmptySet
<1> QED BY <1>1, <1>2 DEF Tally

(* Whoever has a permit still owns its slot or has just sent its event.    *)
LEMMA PermitsAreBacked == Tally(HasPermit) <= Tally(OwnsSlot) + Tally(Sent)
<1> DEFINE P == {q \in Callers : caller[q] \in HasPermit}
           O == {q \in Callers : caller[q] \in OwnsSlot}
           S == {q \in Callers : caller[q] \in Sent}
<1>1. P \subseteq O \cup S
  BY DEF HasPermit, OwnsSlot, Sent
<1>2. IsFiniteSet(O) /\ IsFiniteSet(S) /\ IsFiniteSet(O \cap S)
  BY TallyIsNatural, FS_Intersection
<1>3. /\ IsFiniteSet(O \cup S)
      /\ Cardinality(O \cup S) = Cardinality(O) + Cardinality(S) - Cardinality(O \cap S)
  BY <1>2, FS_Union
<1>4. Cardinality(P) <= Cardinality(O \cup S)
  BY <1>1, <1>3, FS_Subset
<1>5. {Cardinality(P), Cardinality(O), Cardinality(S), Cardinality(O \cap S), Cardinality(O \cup S)} \subseteq Nat
  BY <1>1, <1>2, <1>3, FS_CardinalityType, FS_Subset
<1> QED BY <1>3, <1>4, <1>5 DEF Tally
-----------------------------------------------------------------------------
(* A lane starts with every slot free and nothing counted.                 *)
LEMMA InitEstablishes == Init => IndInv
<1> SUFFICES ASSUME Init PROVE IndInv
  OBVIOUS
<1>1. ASSUME NEW steps, "idle" \notin steps
      PROVE  Tally(steps) = 0
  <2>1. {q \in Callers : caller[q] \in steps} = {}
    BY <1>1 DEF Init
  <2> QED BY <2>1, FS_EmptySet DEF Tally
<1>2. Tally(OwnsSlot) = 0 /\ Tally(HasPermit) = 0 /\ Tally(Sent) = 0
  BY <1>1 DEF OwnsSlot, HasPermit, Sent
<1>3. TypeOK
  <2>1. alive \in BOOLEAN /\ closing \in BOOLEAN /\ ok \in BOOLEAN
    BY Zenon DEF Init
  <2> QED BY <2>1, BoundsAreNatural DEF Init, TypeOK, CallerSteps, WorkerSteps
<1> QED
  BY <1>2, <1>3, BoundsAreNatural
  DEF Init, IndInv, Lifecycle, SlotsConserved, ReservedExact, EventsAccounted, HandSlot, HandEvent, Unsettled

(* Facts every step of the induction uses.                                 *)
LEMMA Naturalness ==
    /\ Tally(OwnsSlot) \in Nat /\ Tally(HasPermit) \in Nat /\ Tally(Sent) \in Nat
    /\ Capacity \in Nat
BY TallyIsNatural, BoundsAreNatural

(* A step of a caller preserves the invariant.                             *)
LEMMA CallerStepPreserves ==
    ASSUME IndInv, NEW p \in Callers, Begin(p) \/ Emitting(p) \/ Permitted(p)
    PROVE  IndInv'
<1> USE Naturalness
<1> DEFINE O == Tally(OwnsSlot)
           P == Tally(HasPermit)
           S == Tally(Sent)
<1> USE DEF IndInv, Lifecycle, SlotsConserved, ReservedExact, EventsAccounted, HandSlot, HandEvent,
            Unsettled, writer, counters, At, TypeOK
<1>0. ASSUME NEW step, Goto(p, step), NEW steps
      PROVE  Tally(steps)' = IF step \in steps /\ caller[p] \notin steps THEN Tally(steps) + 1
                             ELSE IF step \notin steps /\ caller[p] \in steps THEN Tally(steps) - 1
                             ELSE Tally(steps)
  BY <1>0, Moves
<1>t. ASSUME NEW step \in CallerSteps, Goto(p, step)
      PROVE  caller' \in [Callers -> CallerSteps]
  BY <1>t DEF Goto
<1>1. CASE Begin(p)
  <2>1. PICK step \in {"take", "reserve"} : Goto(p, step)
    BY <1>1 DEF Begin
  <2>2. O' = O /\ P' = P /\ S' = S
    BY <1>0, <1>1, <2>1 DEF Begin, OwnsSlot, HasPermit, Sent
  <2>3. caller' \in [Callers -> CallerSteps]
    BY <1>t, <2>1 DEF CallerSteps
  <2> HIDE DEF O, P, S
  <2> QED BY <1>1, <2>2, <2>3 DEF Begin, O, P, S
<1>2. CASE TakeSlot(p)
  <2>1. CASE UNCHANGED slots /\ Goto(p, "idle")
    <3>1. O' = O /\ P' = P /\ S' = S /\ caller' \in [Callers -> CallerSteps]
      BY <1>0, <1>t, <1>2, <2>1 DEF TakeSlot, OwnsSlot, HasPermit, Sent, CallerSteps
    <3> HIDE DEF O, P, S
    <3> QED BY <1>2, <2>1, <3>1 DEF TakeSlot, O, P, S
  <2>2. CASE slots > 0 /\ slots' = slots - 1 /\ Goto(p, IF At(p, "take") THEN "send" ELSE "count")
    <3>1. O' = O + 1 /\ P' = P /\ S' = S /\ caller' \in [Callers -> CallerSteps]
      BY <1>0, <1>t, <1>2, <2>2 DEF TakeSlot, OwnsSlot, HasPermit, Sent, CallerSteps
    <3> HIDE DEF O, P, S
    <3> QED BY <1>2, <2>2, <3>1 DEF TakeSlot, O, P, S
  <2> QED BY <1>2, <2>1, <2>2 DEF TakeSlot
<1>3. CASE Send(p)
  <2>1. CASE queue' = queue + 1 /\ Goto(p, "accept")
    <3>1. O' = O - 1 /\ P' = P /\ S' = S + 1 /\ caller' \in [Callers -> CallerSteps]
      BY <1>0, <1>t, <1>3, <2>1 DEF Send, TrySend, OwnsSlot, HasPermit, Sent, CallerSteps
    <3> HIDE DEF O, P, S
    <3> QED BY <1>3, <2>1, <3>1 DEF Send, TrySend, O, P, S
  <2>2. CASE UNCHANGED queue /\ Goto(p, "return")
    <3>1. O' = O /\ P' = P /\ S' = S /\ caller' \in [Callers -> CallerSteps]
      BY <1>0, <1>t, <1>3, <2>2 DEF Send, TrySend, OwnsSlot, HasPermit, Sent, CallerSteps
    <3> HIDE DEF O, P, S
    <3> QED BY <1>3, <2>2, <3>1 DEF Send, TrySend, O, P, S
  <2> QED BY <1>3, <2>1, <2>2 DEF Send, TrySend
<1>4. CASE Accept(p)
  <2>1. O' = O /\ P' = P /\ S' = S - 1 /\ caller' \in [Callers -> CallerSteps]
    BY <1>0, <1>t, <1>4 DEF Accept, OwnsSlot, HasPermit, Sent, CallerSteps
  <2> HIDE DEF O, P, S
  <2> QED BY <1>4, <2>1 DEF Accept, O, P, S
<1>5. CASE ReturnSlot(p)
  <2>1. O' = O - 1 /\ P' = P /\ S' = S /\ caller' \in [Callers -> CallerSteps]
    BY <1>0, <1>t, <1>5 DEF ReturnSlot, OwnsSlot, HasPermit, Sent, CallerSteps
  <2>2. O >= 1
    BY <1>5, TallyPositive DEF ReturnSlot, OwnsSlot
  <2> HIDE DEF O, P, S
  <2> QED BY <1>5, <2>1, <2>2 DEF ReturnSlot, O, P, S
<1>6. CASE Grant(p)
  <2>1. O' = O /\ P' = P + 1 /\ S' = S /\ caller' \in [Callers -> CallerSteps]
    BY <1>0, <1>t, <1>6 DEF Grant, OwnsSlot, HasPermit, Sent, CallerSteps
  <2> HIDE DEF O, P, S
  <2> QED BY <1>6, <2>1 DEF Grant, O, P, S
<1>7. CASE Commit(p)
  <2>1. PICK step \in {"commit", "undo"} : Goto(p, step)
    BY <1>7 DEF Commit
  <2>2. O' = O /\ P' = P /\ S' = S
    BY <1>0, <1>7, <2>1 DEF Commit, OwnsSlot, HasPermit, Sent
  <2>3. caller' \in [Callers -> CallerSteps]
    BY <1>t, <2>1 DEF CallerSteps
  <2> HIDE DEF O, P, S
  <2> QED BY <1>7, <2>2, <2>3 DEF Commit, O, P, S
<1>8. CASE CommitSend(p)
  <2>1. CASE queue' = queue + 1 /\ Goto(p, "unreserve")
    <3>1. O' = O - 1 /\ P' = P /\ S' = S + 1 /\ caller' \in [Callers -> CallerSteps]
      BY <1>0, <1>t, <1>8, <2>1 DEF CommitSend, TrySend, OwnsSlot, HasPermit, Sent, CallerSteps
    <3> HIDE DEF O, P, S
    <3> QED BY <1>8, <2>1, <3>1 DEF CommitSend, TrySend, O, P, S
  <2>2. CASE UNCHANGED queue /\ Goto(p, "undo")
    <3>1. O' = O /\ P' = P /\ S' = S /\ caller' \in [Callers -> CallerSteps]
      BY <1>0, <1>t, <1>8, <2>2 DEF CommitSend, TrySend, OwnsSlot, HasPermit, Sent, CallerSteps
    <3> HIDE DEF O, P, S
    <3> QED BY <1>8, <2>2, <3>1 DEF CommitSend, TrySend, O, P, S
  <2> QED BY <1>8, <2>1, <2>2 DEF CommitSend, TrySend
<1>9. CASE Unreserve(p)
  <2>1. O' = O /\ P' = P - 1 /\ S' = S /\ caller' \in [Callers -> CallerSteps]
    BY <1>0, <1>t, <1>9 DEF Unreserve, OwnsSlot, HasPermit, Sent, CallerSteps
  <2>2. P >= 1
    BY <1>9, TallyPositive DEF Unreserve, HasPermit
  <2> HIDE DEF O, P, S
  <2> QED BY <1>9, <2>1, <2>2 DEF Unreserve, O, P, S
<1>10. CASE Forget(p)
  <2>1. O' = O /\ P' = P /\ S' = S /\ caller' \in [Callers -> CallerSteps]
    BY <1>0, <1>t, <1>10 DEF Forget, OwnsSlot, HasPermit, Sent, CallerSteps
  <2> HIDE DEF O, P, S
  <2> QED BY <1>10, <2>1 DEF Forget, O, P, S
<1>11. CASE Drop(p)
  <2>1. O' = O /\ P' = P - 1 /\ S' = S /\ caller' \in [Callers -> CallerSteps]
    BY <1>0, <1>t, <1>11 DEF Drop, OwnsSlot, HasPermit, Sent, CallerSteps
  <2>2. P >= 1
    BY <1>11, TallyPositive DEF Drop, HasPermit
  <2> HIDE DEF O, P, S
  <2> QED BY <1>11, <2>1, <2>2 DEF Drop, O, P, S
<1> QED
  BY <1>1, <1>2, <1>3, <1>4, <1>5, <1>6, <1>7, <1>8, <1>9, <1>10, <1>11 DEF Emitting, Permitted

(* A step of the writer preserves the invariant.                           *)
LEMMA WriterStepPreserves ==
    ASSUME IndInv, Writer
    PROVE  IndInv'
<1> USE Naturalness
<1> DEFINE O == Tally(OwnsSlot)
           P == Tally(HasPermit)
           S == Tally(Sent)
<1>1. UNCHANGED caller
  BY DEF Writer, Receive, PollClosing, Write, Complete, FreeSlot, Account, Drain, DrainFreesSlot,
         DrainCounts, Exit, DropReceiver
<1>2. O' = O /\ P' = P /\ S' = S
  BY <1>1, Stays
<1> HIDE DEF O, P, S
<1> USE <1>1, <1>2
    DEF O, P, S, IndInv, Lifecycle, SlotsConserved, ReservedExact, EventsAccounted, HandSlot, HandEvent,
        Unsettled, counters, TypeOK, WorkerSteps
<1>3. ASSUME Receive PROVE IndInv'
  BY <1>3 DEF Receive
<1>4. ASSUME PollClosing PROVE IndInv'
  BY <1>4 DEF PollClosing
<1>5. ASSUME Write PROVE IndInv'
  BY <1>5 DEF Write
<1>6. ASSUME Complete PROVE IndInv'
  BY <1>6 DEF Complete
<1>7. ASSUME FreeSlot PROVE IndInv'
  BY <1>7 DEF FreeSlot
<1>8. ASSUME Account PROVE IndInv'
  <2>1. alive' \in BOOLEAN
    BY <1>8, Zenon DEF Account
  <2>2. CASE ok
    BY <1>8, <2>1, <2>2 DEF Account
  <2>3. CASE ~ok
    BY <1>8, <2>1, <2>3 DEF Account
  <2> QED BY <2>2, <2>3
<1>9. ASSUME Drain PROVE IndInv'
  BY <1>9 DEF Drain
<1>10. ASSUME DrainFreesSlot PROVE IndInv'
  BY <1>10 DEF DrainFreesSlot
<1>11. ASSUME DrainCounts PROVE IndInv'
  BY <1>11 DEF DrainCounts
<1>12. ASSUME Exit PROVE IndInv'
  BY <1>12 DEF Exit
<1>13. ASSUME DropReceiver PROVE IndInv'
  BY <1>13 DEF DropReceiver
<1> QED
  BY <1>3, <1>4, <1>5, <1>6, <1>7, <1>8, <1>9, <1>10, <1>11, <1>12, <1>13 DEF Writer

(* Every step of callers, writer and shutdown keeps the invariant.         *)
LEMMA NextPreserves == IndInv /\ [Next]_vars => IndInv'
<1> SUFFICES ASSUME IndInv, [Next]_vars PROVE IndInv'
  OBVIOUS
<1>1. ASSUME NEW p \in Callers, Begin(p) \/ Emitting(p) \/ Permitted(p) PROVE IndInv'
  BY <1>1, CallerStepPreserves
<1>2. CASE Writer
  BY <1>2, WriterStepPreserves
<1>3. CASE Shutdown \/ UNCHANGED vars
  <2>0. closing' \in BOOLEAN
    BY <1>3, Zenon DEF Shutdown, vars, IndInv, TypeOK
  <2>1. UNCHANGED caller
    BY <1>3 DEF Shutdown, vars
  <2>2. /\ Tally(OwnsSlot)' = Tally(OwnsSlot)
        /\ Tally(HasPermit)' = Tally(HasPermit)
        /\ Tally(Sent)' = Tally(Sent)
    BY <2>1, Stays
  <2> QED
    BY <1>3, <2>0, <2>1, <2>2
    DEF Shutdown, vars, writer, counters, IndInv, TypeOK, Lifecycle, SlotsConserved, ReservedExact,
        EventsAccounted, HandSlot, HandEvent, Unsettled
<1> QED BY <1>1, <1>2, <1>3 DEF Next
-----------------------------------------------------------------------------
(* The inductive invariant holds in every behaviour: in particular no path *)
(* of a caller, a permit or the writer returns a slot twice or loses one,  *)
(* and status() counts permits and events exactly.                         *)
THEOREM LaneAccountsExactly == Spec => [](TypeOK /\ SlotsConserved /\ ReservedExact /\ EventsAccounted)
<1>1. IndInv => TypeOK /\ SlotsConserved /\ ReservedExact /\ EventsAccounted
  BY DEF IndInv
<1> QED BY <1>1, InitEstablishes, NextPreserves, PTL DEF Spec

(* No event disappears: each one try_send let in is in the channel, with   *)
(* the writer, counted complete or lost with the channel, and completed    *)
(* splits into written, failed and discarded.                              *)
THEOREM EventsNeverVanish == Spec => []EventsAccounted
BY LaneAccountsExactly, PTL

(* A caller that has taken a slot, a permit holder above all, finds room in*)
(* the channel however many others emit or reserve meanwhile.              *)
THEOREM CreditIsAlwaysAPlace == Spec => []CreditIsAPlace
<1>1. IndInv => CreditIsAPlace
  <2> SUFFICES ASSUME IndInv, NEW p \in Callers, caller[p] \in {"send", "held", "commit"}
               PROVE  queue < Capacity
    BY DEF CreditIsAPlace
  <2>1. Tally(OwnsSlot) >= 1
    BY TallyPositive DEF OwnsSlot
  <2> QED BY <2>1, Naturalness DEF IndInv, TypeOK, SlotsConserved, HandSlot
<1> QED BY <1>1, InitEstablishes, NextPreserves, PTL DEF Spec

(* Queued and in-flight events and outstanding permits, as the counters    *)
(* stand, fit the lane's capacity while it is alive.                       *)
THEOREM PendingAlwaysWithinCapacity == Spec => []PendingWithinCapacity
<1>1. IndInv => PendingWithinCapacity
  BY PermitsAreBacked, Naturalness
  DEF IndInv, TypeOK, Lifecycle, SlotsConserved, ReservedExact, EventsAccounted, HandSlot, HandEvent,
      PendingWithinCapacity
<1> QED BY <1>1, InitEstablishes, NextPreserves, PTL DEF Spec
=============================================================================
