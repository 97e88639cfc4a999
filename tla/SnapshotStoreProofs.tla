------------------------- MODULE SnapshotStoreProofs -------------------------
(***************************************************************************)
(* TLAPS proofs about SnapshotStore, for every set of handles, every set   *)
(* of ids, with and without an integrity key, with and without a legacy    *)
(* store, and for every bound.                                             *)
(***************************************************************************)
EXTENDS SnapshotStore, FiniteSetTheorems, TLAPS

(* The steps of a creation before its transaction is committed.            *)
Creating == {"migrate", "config", "meta", "integ", "commit", "undo"}

(* At most the lock holder is in the middle of an operation.               *)
LockDiscipline == \A p \in Procs : pc[p] # "idle" => lock = p

(* Where a creation stands says which files of its snapshot are in place.  *)
StageFiles ==
    \A p \in Procs :
        /\ pc[p] \in Creating => job[p] \in started
        /\ pc[p] \in {"meta", "integ", "commit"} => job[p] \in config
        /\ pc[p] \in {"integ", "commit"} => job[p] \in meta
        /\ pc[p] = "commit" /\ Keyed => integ[job[p]] # "none"

(* Files, pointers and parents only ever belong to snapshots that were     *)
(* started.                                                                *)
Provenance ==
    /\ config \subseteq started /\ named \subseteq started
    /\ current \in started \cup {None}
    /\ \A i \in Ids : parent[i] \in started \cup {None}

(* Nothing refers to the snapshot of an open transaction.                  *)
InFlightUnreferenced ==
    \A p \in Procs : pc[p] \in Creating =>
        /\ job[p] # current /\ job[p] \notin named
        /\ \A i \in Ids : parent[i] # job[p]

(* A prune under way has nothing protected left to delete.                 *)
TodoUnprotected ==
    \A p \in Procs : pc[p] = "prune" => todo[p] \cap Protected = {}

IndInv ==
    /\ TypeOK
    /\ LockDiscipline
    /\ StageFiles
    /\ Provenance
    /\ InFlightUnreferenced
    /\ TodoUnprotected
    /\ CurrentResolves

USE IdsAssumption, ProcsAssumption, KeyedAssumption, LegacyAssumption, BoundsAssumption
-----------------------------------------------------------------------------
(* The initial store, empty or a legacy one, satisfies the invariant.      *)
LEMMA InitEstablishes == Init => IndInv
  <1> SUFFICES ASSUME Init PROVE IndInv
    OBVIOUS
  <1> USE DEF Init
  <1>1. TypeOK
    BY DEF TypeOK, IdOrNone, Steps
  <1>2. LockDiscipline /\ StageFiles /\ InFlightUnreferenced /\ TodoUnprotected
    BY DEF LockDiscipline, StageFiles, InFlightUnreferenced, TodoUnprotected, Creating
  <1>3. Provenance
    BY DEF Provenance
  <1>4. CurrentResolves
    BY DEF CurrentResolves, Loadable
  <1> QED BY <1>1, <1>2, <1>3, <1>4 DEF IndInv

(* Every step keeps the variables in their types.                          *)
LEMMA TypeStep == TypeOK /\ StageFiles /\ [Next]_vars => TypeOK'
  <1> SUFFICES ASSUME TypeOK, StageFiles, [Next]_vars PROVE TypeOK'
    OBVIOUS
  <1> USE DEF TypeOK, IdOrNone, Steps, files, history, local, mishaps
  <1>0. CASE UNCHANGED vars
    BY <1>0 DEF vars
  <1> SUFFICES ASSUME NEW p \in Procs,
                      \/ Create(p) \/ Prune(p) \/ Interrupt(p)
                      \/ \E id \in Ids : SelectSnapshot(p, id)
                      \/ RollbackToParent(p)
                      \/ \E ids \in SUBSET started : SaveRuntimeState(p, ids)
               PROVE  TypeOK'
    BY <1>0 DEF Next
  <1> job[p] \in Ids \/ pc[p] \notin Creating
    BY DEF StageFiles
  <1>1. ASSUME NEW id \in Ids, NEW c, CreateBegin(p, id, c) PROVE TypeOK'
    BY <1>1 DEF CreateBegin, AcceptedCounter, PersistedCounter, NextGeneration
  <1>2. ASSUME NEW i \in Ids, MigrateLegacy(p, i) PROVE TypeOK'
    BY <1>2 DEF MigrateLegacy
  <1>3. ASSUME MigrationDone(p) \/ CreateFails(p) PROVE TypeOK'
    BY <1>3 DEF MigrationDone, CreateFails, Goto
  <1>4. ASSUME NEW ok \in BOOLEAN, PublishConfig(p, ok) PROVE TypeOK'
    BY <1>4 DEF PublishConfig, Goto, Creating
  <1>5. ASSUME NEW ok \in BOOLEAN, PublishMetadata(p, ok) PROVE TypeOK'
    BY <1>5 DEF PublishMetadata, Goto, Creating
  <1>6. ASSUME NEW ok \in BOOLEAN, PublishIntegrity(p, ok) PROVE TypeOK'
    BY <1>6 DEF PublishIntegrity, Goto, Creating
  <1>7. ASSUME NEW ok \in BOOLEAN, CommitAndSelect(p, ok) PROVE TypeOK'
    BY <1>7 DEF CommitAndSelect, Release, Creating, StageFiles
  <1>8. ASSUME NEW kept, Undo(p, kept) PROVE TypeOK'
    <2> USE <1>8 DEF Undo, Release, Creating
    <2>1. config' \subseteq Ids /\ meta' \subseteq Ids
      OBVIOUS
    <2>2. integ' \in [Ids -> {"none", "v1", "v2"}]
      OBVIOUS
    <2>3. faults' \in Nat
      OBVIOUS
    <2>4. /\ lock' \in Procs \cup {None}
          /\ pc' \in [Procs -> Steps] /\ job' \in [Procs -> IdOrNone]
          /\ todo' \in [Procs -> SUBSET Ids] /\ listed' \in [Procs -> [Ids -> Nat]]
      OBVIOUS
    <2> QED BY <2>1, <2>2, <2>3, <2>4
  <1>9. ASSUME NEW keep, NEW cutoff, PruneBegin(p, keep, cutoff) PROVE TypeOK'
    <2>1. Doomed(keep, cutoff) \subseteq Ids
      BY DEF Doomed, Listing
    <2>2. CutsFor(Doomed(keep, cutoff)) \subseteq Ids \X Ids
      BY <2>1 DEF CutsFor, Listing
    <2>3. [i \in Ids |-> MetaGen(i)] \in [Ids -> Nat]
      BY DEF MetaGen
    <2> QED BY <1>9, <2>1, <2>2, <2>3 DEF PruneBegin
  <1>10. ASSUME NEW i \in Ids, PruneConfig(p, i) \/ PruneMetadata(p, i) PROVE TypeOK'
    BY <1>10 DEF PruneConfig, PruneMetadata
  <1>11. ASSUME NEW i \in Ids, PruneIntegrity(p, i) PROVE TypeOK'
    BY <1>11 DEF PruneIntegrity
  <1>12. ASSUME PruneDone(p) PROVE TypeOK'
    BY <1>12 DEF PruneDone, Release
  <1>16. ASSUME Interrupt(p) PROVE TypeOK'
    <2>1. abandoned' \subseteq Ids
      BY <1>16 DEF Interrupt
    <2> QED BY <1>16, <2>1 DEF Interrupt, Release
  <1>13. ASSUME NEW id \in Ids, SelectSnapshot(p, id) PROVE TypeOK'
    BY <1>13 DEF SelectSnapshot
  <1>14. ASSUME RollbackToParent(p) PROVE TypeOK'
    BY <1>14 DEF RollbackToParent, SelectSnapshot, MetaParent
  <1>15. ASSUME NEW ids \in SUBSET started, SaveRuntimeState(p, ids) PROVE TypeOK'
    BY <1>15 DEF SaveRuntimeState
  <1> QED
    BY <1>1, <1>2, <1>3, <1>4, <1>5, <1>6, <1>7, <1>8, <1>9, <1>10, <1>11, <1>12,
       <1>13, <1>14, <1>15, <1>16 DEF Create, Prune

(* The rest of the invariant, one step per action.                         *)
LEMMA ActionStep ==
    ASSUME IndInv, TypeOK', NEW p \in Procs,
           \/ Create(p) \/ Prune(p) \/ Interrupt(p)
           \/ \E id \in Ids : SelectSnapshot(p, id)
           \/ RollbackToParent(p)
           \/ \E ids \in SUBSET started : SaveRuntimeState(p, ids)
    PROVE  /\ LockDiscipline' /\ StageFiles' /\ Provenance'
           /\ InFlightUnreferenced' /\ TodoUnprotected' /\ CurrentResolves'
  <1> DEFINE Kept == /\ LockDiscipline' /\ StageFiles' /\ Provenance'
                     /\ InFlightUnreferenced' /\ TodoUnprotected' /\ CurrentResolves'
  <1> USE DEF IndInv, TypeOK, IdOrNone, Steps, files, history, local, mishaps, Creating
  <1>1. ASSUME NEW id \in Ids, NEW c, CreateBegin(p, id, c) PROVE Kept
    <2> USE <1>1 DEF CreateBegin, LockFree, PersistedCounter, NextGeneration
    <2>0. \A q \in Procs : pc[q] = "idle"
      BY DEF LockDiscipline
    <2>1. LockDiscipline'
      BY <2>0 DEF LockDiscipline
    <2>2. StageFiles'
      BY <2>0 DEF StageFiles
    <2>3. Provenance'
      BY DEF Provenance
    <2>4. InFlightUnreferenced'
      BY <2>0 DEF InFlightUnreferenced, Provenance
    <2>5. TodoUnprotected'
      BY <2>0 DEF TodoUnprotected
    <2>6. CurrentResolves'
      BY DEF CurrentResolves, Loadable
    <2> QED BY <2>1, <2>2, <2>3, <2>4, <2>5, <2>6
  <1>2. ASSUME NEW i \in Ids, MigrateLegacy(p, i) PROVE Kept
    <2> USE <1>2 DEF MigrateLegacy
    <2>1. LockDiscipline' /\ Provenance' /\ InFlightUnreferenced'
      BY DEF LockDiscipline, Provenance, InFlightUnreferenced
    <2>2. StageFiles'
      BY DEF StageFiles
    <2>3. TodoUnprotected'
      BY DEF TodoUnprotected, LockDiscipline
    <2>4. CurrentResolves'
      BY DEF CurrentResolves, Loadable
    <2> QED BY <2>1, <2>2, <2>3, <2>4
  <1>3. ASSUME MigrationDone(p) \/ CreateFails(p) PROVE Kept
    <2> USE <1>3 DEF MigrationDone, CreateFails, Goto
    <2>1. LockDiscipline' /\ Provenance' /\ InFlightUnreferenced' /\ StageFiles'
      BY DEF LockDiscipline, Provenance, InFlightUnreferenced, StageFiles
    <2>3. TodoUnprotected'
      BY DEF TodoUnprotected, LockDiscipline
    <2>4. CurrentResolves'
      BY DEF CurrentResolves, Loadable
    <2> QED BY <2>1, <2>3, <2>4
  <1>4. ASSUME NEW ok \in BOOLEAN,
               PublishConfig(p, ok) \/ PublishMetadata(p, ok) \/ PublishIntegrity(p, ok)
        PROVE Kept
    <2> USE <1>4 DEF PublishConfig, PublishMetadata, PublishIntegrity, Goto
    <2>0. pc[p] \in Creating /\ job[p] \in Ids
      BY DEF StageFiles
    <2>1. LockDiscipline'
      BY DEF LockDiscipline
    <2>6. Provenance'
      BY <2>0 DEF Provenance, StageFiles
    <2>7. \A q \in Procs : pc'[q] \in Creating => pc[q] \in Creating
      BY <2>0
    <2>2. InFlightUnreferenced'
      BY <2>7 DEF InFlightUnreferenced
    <2>3. StageFiles'
      <3> SUFFICES ASSUME NEW q \in Procs
                   PROVE  /\ pc'[q] \in Creating => job'[q] \in started'
                          /\ pc'[q] \in {"meta", "integ", "commit"} => job'[q] \in config'
                          /\ pc'[q] \in {"integ", "commit"} => job'[q] \in meta'
                          /\ pc'[q] = "commit" /\ Keyed => integ'[job'[q]] # "none"
        BY DEF StageFiles
      <3>1. CASE q = p
        BY <3>1, <2>0 DEF StageFiles
      <3>2. CASE q # p
        BY <3>2, <2>0 DEF StageFiles, LockDiscipline
      <3> QED BY <3>1, <3>2
    <2>4. TodoUnprotected'
      BY DEF TodoUnprotected, LockDiscipline
    <2>5. CurrentResolves'
      BY <2>0 DEF CurrentResolves, Loadable, InFlightUnreferenced
    <2> QED BY <2>1, <2>2, <2>3, <2>4, <2>5, <2>6
  <1>5. ASSUME NEW ok \in BOOLEAN, CommitAndSelect(p, ok) PROVE Kept
    <2> USE <1>5 DEF CommitAndSelect, Release
    <2>0. /\ \A q \in Procs : pc'[q] = "idle"
          /\ job[p] \in started
      BY DEF LockDiscipline, StageFiles
    <2>1. LockDiscipline' /\ StageFiles' /\ InFlightUnreferenced' /\ TodoUnprotected'
      BY <2>0 DEF LockDiscipline, StageFiles, InFlightUnreferenced, TodoUnprotected
    <2>2. Provenance'
      BY <2>0 DEF Provenance
    <2>3. CurrentResolves'
      BY <2>0 DEF CurrentResolves, Loadable, StageFiles
    <2> QED BY <2>1, <2>2, <2>3
  <1>6. ASSUME NEW kept, Undo(p, kept) PROVE Kept
    <2> USE <1>6 DEF Undo, Release
    <2>0. /\ \A q \in Procs : pc'[q] = "idle"
          /\ job[p] \in started /\ job[p] # current
      BY DEF LockDiscipline, StageFiles, InFlightUnreferenced
    <2>1. LockDiscipline' /\ StageFiles' /\ InFlightUnreferenced' /\ TodoUnprotected'
      BY <2>0 DEF LockDiscipline, StageFiles, InFlightUnreferenced, TodoUnprotected
    <2>2. Provenance'
      BY <2>0 DEF Provenance
    <2>3. CurrentResolves'
      BY <2>0 DEF CurrentResolves, Loadable
    <2> QED BY <2>1, <2>2, <2>3
  <1>7. ASSUME NEW keep, NEW cutoff, PruneBegin(p, keep, cutoff) PROVE Kept
    <2> USE <1>7 DEF PruneBegin, LockFree
    <2>0. \A q \in Procs : pc[q] = "idle"
      BY DEF LockDiscipline
    <2>1. LockDiscipline' /\ StageFiles' /\ InFlightUnreferenced'
      BY <2>0 DEF LockDiscipline, StageFiles, InFlightUnreferenced
    <2>2. Provenance' /\ CurrentResolves'
      BY DEF Provenance, CurrentResolves, Loadable
    <2>3. Protected' = Protected
      BY DEF Protected, ProtectedRoots, ParentsOf, MetaParent, Loadable
    <2>4. Doomed(keep, cutoff) \cap Protected = {}
      BY DEF Doomed
    <2>5. TodoUnprotected'
      BY <2>0, <2>3, <2>4 DEF TodoUnprotected
    <2> QED BY <2>1, <2>2, <2>5
  <1>8. ASSUME NEW i \in Ids, PruneConfig(p, i) \/ PruneMetadata(p, i) \/ PruneIntegrity(p, i)
        PROVE Kept
    <2> USE <1>8 DEF PruneConfig, PruneMetadata, PruneIntegrity, IsVictim
    <2>0. i \notin Protected
      BY DEF TodoUnprotected
    <2>1. \A r \in ProtectedRoots : MetaParent(r)' = MetaParent(r) /\ Loadable(r)' = Loadable(r)
      BY <2>0 DEF Protected, ProtectedRoots, MetaParent, Loadable, Provenance
    <2>2. Protected' = Protected
      BY <2>1 DEF Protected, ProtectedRoots, ParentsOf
    <2>3. LockDiscipline' /\ Provenance' /\ InFlightUnreferenced'
      BY DEF LockDiscipline, Provenance, InFlightUnreferenced
    <2>4. StageFiles'
      BY DEF StageFiles, LockDiscipline
    <2>5. TodoUnprotected'
      <3>1. UNCHANGED pc /\ \A q \in Procs : todo'[q] \subseteq todo[q]
        OBVIOUS
      <3> QED BY <2>2, <3>1 DEF TodoUnprotected
    <2>6. CurrentResolves'
      BY <2>1 DEF CurrentResolves, ProtectedRoots
    <2> QED BY <2>3, <2>4, <2>5, <2>6
  <1>9. ASSUME PruneDone(p) \/ Interrupt(p) PROVE Kept
    <2> USE <1>9 DEF PruneDone, Interrupt, Release
    <2>0. \A q \in Procs : pc'[q] = "idle"
      BY DEF LockDiscipline
    <2>1. LockDiscipline' /\ StageFiles' /\ InFlightUnreferenced' /\ TodoUnprotected'
      BY <2>0 DEF LockDiscipline, StageFiles, InFlightUnreferenced, TodoUnprotected
    <2>2. Provenance' /\ CurrentResolves'
      BY DEF Provenance, CurrentResolves, Loadable
    <2> QED BY <2>1, <2>2
  <1>10. ASSUME NEW id \in Ids, SelectSnapshot(p, id) PROVE Kept
    <2> USE <1>10 DEF SelectSnapshot, LockFree
    <2>0. \A q \in Procs : pc'[q] = "idle"
      BY DEF LockDiscipline
    <2>1. LockDiscipline' /\ StageFiles' /\ InFlightUnreferenced' /\ TodoUnprotected'
      BY <2>0 DEF LockDiscipline, StageFiles, InFlightUnreferenced, TodoUnprotected
    <2>2. Provenance' /\ CurrentResolves'
      BY DEF Provenance, CurrentResolves, Loadable
    <2> QED BY <2>1, <2>2
  <1>11. ASSUME RollbackToParent(p) PROVE Kept
    <2>1. MetaParent(current) \in Ids /\ SelectSnapshot(p, MetaParent(current))
      BY <1>11 DEF RollbackToParent, MetaParent
    <2> QED BY <2>1, <1>10
  <1>12. ASSUME NEW ids \in SUBSET started, SaveRuntimeState(p, ids) PROVE Kept
    <2> USE <1>12 DEF SaveRuntimeState, LockFree
    <2>0. \A q \in Procs : pc'[q] = "idle"
      BY DEF LockDiscipline
    <2>1. LockDiscipline' /\ StageFiles' /\ InFlightUnreferenced' /\ TodoUnprotected'
      BY <2>0 DEF LockDiscipline, StageFiles, InFlightUnreferenced, TodoUnprotected
    <2>2. Provenance' /\ CurrentResolves'
      BY DEF Provenance, CurrentResolves, Loadable
    <2> QED BY <2>1, <2>2
  <1> HIDE DEF Kept
  <1>13. Kept
    BY <1>1, <1>2, <1>3, <1>4, <1>5, <1>6, <1>7, <1>8, <1>9, <1>10, <1>11, <1>12
    DEF Create, Prune
  <1> QED BY <1>13 DEF Kept

(* The invariant is inductive.                                             *)
LEMMA IndStep == IndInv /\ [Next]_vars => IndInv'
  <1> SUFFICES ASSUME IndInv, [Next]_vars PROVE IndInv'
    OBVIOUS
  <1>1. TypeOK'
    BY TypeStep DEF IndInv
  <1>2. CASE Next
    <2>1. PICK p \in Procs :
            \/ Create(p) \/ Prune(p) \/ Interrupt(p)
            \/ \E id \in Ids : SelectSnapshot(p, id)
            \/ RollbackToParent(p)
            \/ \E ids \in SUBSET started : SaveRuntimeState(p, ids)
      BY <1>2 DEF Next
    <2> QED BY <1>1, <2>1, ActionStep DEF IndInv
  <1>3. CASE UNCHANGED vars
    BY <1>3 DEF vars, IndInv, TypeOK, LockDiscipline, StageFiles, Provenance,
        InFlightUnreferenced, TodoUnprotected, CurrentResolves, Loadable,
        Protected, ProtectedRoots, ParentsOf, MetaParent
  <1> QED BY <1>2, <1>3

(* Every reachable store satisfies the invariant.                          *)
THEOREM StoreInvariant == Spec => []IndInv
  BY InitEstablishes, IndStep, PTL DEF Spec

(* The variables keep their types.                                         *)
THEOREM TypeCorrect == Spec => []TypeOK
  BY StoreInvariant, PTL DEF IndInv

(* The current pointer never dangles, for any number of handles, crashes,  *)
(* failed transactions and prunes.                                         *)
THEOREM CurrentAlwaysResolves == Spec => []CurrentResolves
  BY StoreInvariant, PTL DEF IndInv
-----------------------------------------------------------------------------
(* No step takes a file away from a loadable snapshot that recovery needs. *)
LEMMA SpareStep ==
    ASSUME IndInv, [Next]_vars, NEW i \in Protected, i \in Ids, Loadable(i)
    PROVE  Loadable(i)'
  <1> USE DEF IndInv, TypeOK, IdOrNone, Steps, files, history, local, mishaps, Creating
  <1>0. CASE UNCHANGED vars
    BY <1>0 DEF vars, Loadable
  <1> SUFFICES ASSUME NEW p \in Procs,
                      \/ Create(p) \/ Prune(p) \/ Interrupt(p)
                      \/ \E id \in Ids : SelectSnapshot(p, id)
                      \/ RollbackToParent(p)
                      \/ \E ids \in SUBSET started : SaveRuntimeState(p, ids)
               PROVE  Loadable(i)'
    BY <1>0 DEF Next
  <1>1. ASSUME NEW id \in Ids, NEW c, CreateBegin(p, id, c) PROVE Loadable(i)'
    BY <1>1 DEF CreateBegin, Loadable
  <1>2. ASSUME NEW j \in Ids, MigrateLegacy(p, j) PROVE Loadable(i)'
    BY <1>2 DEF MigrateLegacy, Loadable
  <1>3. ASSUME \/ MigrationDone(p) \/ CreateFails(p) \/ PruneDone(p) \/ Interrupt(p)
               \/ \E id \in Ids : SelectSnapshot(p, id)
               \/ RollbackToParent(p)
               \/ \E ids \in SUBSET started : SaveRuntimeState(p, ids)
               \/ \E ok \in BOOLEAN : CommitAndSelect(p, ok)
               \/ \E keep, cutoff : PruneBegin(p, keep, cutoff)
        PROVE Loadable(i)'
    <2>1. UNCHANGED files
      BY <1>3 DEF MigrationDone, CreateFails, PruneDone, Interrupt, SelectSnapshot,
                  RollbackToParent, SaveRuntimeState, CommitAndSelect, PruneBegin
    <2> QED BY <2>1 DEF Loadable
  <1>4. ASSUME NEW ok \in BOOLEAN,
               PublishConfig(p, ok) \/ PublishMetadata(p, ok) \/ PublishIntegrity(p, ok)
        PROVE Loadable(i)'
    BY <1>4 DEF PublishConfig, PublishMetadata, PublishIntegrity, Loadable
  <1>5. ASSUME NEW kept, Undo(p, kept) PROVE Loadable(i)'
    <2>1. job[p] \notin Protected
      <3>1. job[p] # current /\ job[p] \notin named /\ job[p] \in Ids
        BY <1>5 DEF Undo, InFlightUnreferenced, Provenance, StageFiles
      <3>2. \A r \in Ids : MetaParent(r) # job[p]
        <4>1. pc[p] \in Creating
          BY <1>5 DEF Undo
        <4>2. \A r \in Ids : parent[r] # job[p]
          BY <4>1 DEF InFlightUnreferenced
        <4>3. job[p] # None
          <5>1. \A k \in Ids : k # None
            BY Zenon
          <5> QED BY <3>1, <5>1, Zenon
        <4> QED BY <4>2, <4>3 DEF MetaParent
      <3>3. ProtectedRoots \subseteq Ids
        BY DEF ProtectedRoots, Provenance
      <3> QED BY <3>1, <3>2, <3>3 DEF Protected, ProtectedRoots, ParentsOf
    <2> QED BY <1>5, <2>1 DEF Undo, Loadable
  <1>6. ASSUME NEW j \in Ids, PruneConfig(p, j) \/ PruneMetadata(p, j) \/ PruneIntegrity(p, j)
        PROVE Loadable(i)'
    <2>1. j # i
      BY <1>6 DEF PruneConfig, PruneMetadata, PruneIntegrity, IsVictim, TodoUnprotected
    <2> QED BY <1>6, <2>1 DEF PruneConfig, PruneMetadata, PruneIntegrity, Loadable
  <1> QED
    BY <1>1, <1>2, <1>3, <1>4, <1>5, <1>6 DEF Create, Prune

(* Retention never takes what recovery needs, whatever the interleaving of *)
(* prunes, creations, pointer moves and saved recovery states.             *)
THEOREM RetentionSparesProtected == Spec => PruneSparesProtected
  <1>1. IndInv /\ [Next]_vars =>
          [\A i \in Protected : (i \in Ids /\ Loadable(i)) => Loadable(i)']_vars
    BY SpareStep
  <1> QED BY <1>1, StoreInvariant, PTL DEF Spec, PruneSparesProtected
-----------------------------------------------------------------------------
(* Why generations do not collide: the counter is at least every           *)
(* generation still in the store, an open creation owns the newest one,    *)
(* and the counter covers every generation this code ever handed out.      *)
GenInv ==
    /\ \A i \in config : counter # None => gen[i] <= counter
    /\ \A i, j \in config : gen[i] = gen[j] => i = j
    /\ \A p \in Procs : pc[p] \in Creating =>
           /\ counter \in Nat /\ gen[job[p]] = counter
           /\ \A k \in config \ {job[p]} : gen[k] < counter
    /\ counter = None => started \subseteq Legacy
    /\ counter # None => \A i \in started \ Legacy : gen[i] <= counter
    /\ IssuedGenerationsDistinct

(* A legacy store, and an empty one, start with distinct generations.      *)
LEMMA GenInit == Init => GenInv
  BY DEF Init, GenInv, Creating, IssuedGenerationsDistinct

(* Every step keeps generations apart.                                     *)
LEMMA GenStep == IndInv /\ GenInv /\ [Next]_vars => GenInv'
  <1> SUFFICES ASSUME IndInv, GenInv, [Next]_vars PROVE GenInv'
    OBVIOUS
  <1> USE DEF IndInv, TypeOK, IdOrNone, Steps, files, history, local, mishaps, Creating
  <1>0. CASE UNCHANGED vars
    BY <1>0 DEF vars, GenInv, IssuedGenerationsDistinct
  <1> SUFFICES ASSUME NEW p \in Procs,
                      \/ Create(p) \/ Prune(p) \/ Interrupt(p)
                      \/ \E id \in Ids : SelectSnapshot(p, id)
                      \/ RollbackToParent(p)
                      \/ \E ids \in SUBSET started : SaveRuntimeState(p, ids)
               PROVE  GenInv'
    BY <1>0 DEF Next
  <1>1. ASSUME NEW id \in Ids, NEW c, CreateBegin(p, id, c) PROVE GenInv'
    <2> USE <1>1 DEF CreateBegin, LockFree, PersistedCounter, NextGeneration
    <2>0. \A q \in Procs : pc[q] = "idle"
      BY DEF LockDiscipline
    <2>1. c \in Nat /\ counter' = c + 1 /\ c + 1 # None
      BY DEF AcceptedCounter
    <2>2. config \subseteq started /\ id \notin config
      BY DEF Provenance
    <2>3. \A k \in config : gen[k] <= c
      <3>1. CASE counter # None
        BY <3>1 DEF AcceptedCounter, GenInv
      <3>2. CASE counter = None /\ Keyed
        BY <3>2 DEF AcceptedCounter, Scanned
      <3>3. CASE counter = None /\ ~Keyed
        BY <3>3, <2>2 DEF GenInv
      <3> QED BY <3>1, <3>2, <3>3
    <2>4. \A k \in started \ Legacy : gen[k] <= c
      BY DEF AcceptedCounter, GenInv
    <2>5. \A k \in started : gen'[k] = gen[k]
      OBVIOUS
    <2>6. gen'[id] = c + 1
      OBVIOUS
    <2>7. (\A i \in config : counter # None => gen[i] <= counter)'
      BY <2>1, <2>2, <2>3, <2>5
    <2>8. (\A i, j \in config : gen[i] = gen[j] => i = j)'
      BY <2>2, <2>5 DEF GenInv
    <2>9. (\A q \in Procs : pc[q] \in Creating =>
             /\ counter \in Nat /\ gen[job[q]] = counter
             /\ \A k \in config \ {job[q]} : gen[k] < counter)'
      <3>1. \A k \in config : gen'[k] < c + 1
        BY <2>1, <2>2, <2>3, <2>5
      <3> QED BY <2>0, <2>1, <2>6, <3>1
    <2>10. (\A i \in started \ Legacy : gen[i] <= counter)'
      BY <2>1, <2>4, <2>5, <2>6
    <2>11. IssuedGenerationsDistinct'
      <3>1. \A i \in started \ Legacy : gen'[i] # gen'[id]
        BY <2>1, <2>4, <2>5, <2>6
      <3> QED BY <3>1, <2>5 DEF IssuedGenerationsDistinct, GenInv
    <2> QED BY <2>1, <2>7, <2>8, <2>9, <2>10, <2>11 DEF GenInv
  <1>2. ASSUME NEW ok \in BOOLEAN, PublishConfig(p, ok) PROVE GenInv'
    <2> USE <1>2 DEF PublishConfig, Goto
    <2>1. \A q \in Procs \ {p} : pc[q] = "idle" /\ pc'[q] = "idle"
      BY DEF LockDiscipline
    <2>2. job[p] \in Ids
      BY DEF StageFiles
    <2>3. /\ counter \in Nat /\ gen[job[p]] = counter
          /\ \A k \in config \ {job[p]} : gen[k] < counter
      BY DEF GenInv
    <2>4. (\A i, j \in config : gen[i] = gen[j] => i = j)'
      BY <2>2, <2>3 DEF GenInv
    <2>5. (\A i \in config : counter # None => gen[i] <= counter)'
      BY <2>2, <2>3
    <2>6. (\A q \in Procs : pc[q] \in Creating =>
             /\ counter \in Nat /\ gen[job[q]] = counter
             /\ \A k \in config \ {job[q]} : gen[k] < counter)'
      BY <2>1, <2>3
    <2> QED BY <2>4, <2>5, <2>6 DEF GenInv, IssuedGenerationsDistinct
  <1>3. ASSUME config' \subseteq config, UNCHANGED <<counter, gen, started>>,
               \A q \in Procs : pc'[q] \in Creating => pc[q] \in Creating /\ job'[q] = job[q]
        PROVE GenInv'
    BY <1>3 DEF GenInv, IssuedGenerationsDistinct
  <1>4. ASSUME NEW j \in Ids, MigrateLegacy(p, j) \/ PruneConfig(p, j)
                              \/ PruneMetadata(p, j) \/ PruneIntegrity(p, j)
        PROVE GenInv'
    BY <1>3, <1>4 DEF MigrateLegacy, PruneConfig, PruneMetadata, PruneIntegrity
  <1>5. ASSUME MigrationDone(p) \/ CreateFails(p) PROVE GenInv'
    BY <1>3, <1>5 DEF MigrationDone, CreateFails, Goto
  <1>6. ASSUME NEW ok \in BOOLEAN, PublishMetadata(p, ok) \/ PublishIntegrity(p, ok)
        PROVE GenInv'
    BY <1>3, <1>6 DEF PublishMetadata, PublishIntegrity, Goto
  <1>7. ASSUME NEW kept, Undo(p, kept) PROVE GenInv'
    BY <1>3, <1>7 DEF Undo, Release
  <1>8. ASSUME \/ PruneDone(p) \/ Interrupt(p)
               \/ \E ok \in BOOLEAN : CommitAndSelect(p, ok)
        PROVE GenInv'
    BY <1>3, <1>8 DEF PruneDone, Interrupt, CommitAndSelect, Release
  <1>9. ASSUME \/ \E id \in Ids : SelectSnapshot(p, id)
               \/ RollbackToParent(p)
               \/ \E ids \in SUBSET started : SaveRuntimeState(p, ids)
        PROVE GenInv'
    BY <1>3, <1>9 DEF SelectSnapshot, RollbackToParent, SaveRuntimeState
  <1>10. ASSUME NEW keep, NEW cutoff, PruneBegin(p, keep, cutoff) PROVE GenInv'
    BY <1>3, <1>10 DEF PruneBegin
  <1> QED
    BY <1>1, <1>2, <1>4, <1>5, <1>6, <1>7, <1>8, <1>9, <1>10 DEF Create, Prune

(* The generation invariant holds in every reachable state.                *)
THEOREM GenerationInvariant == Spec => []GenInv
  BY StoreInvariant, GenInit, GenStep, PTL DEF Spec

(* Two snapshots of one store never share a generation, legacy store or    *)
(* not.                                                                    *)
THEOREM StoredGenerationsAlwaysUnique == Spec => []StoredGenerationsUnique
  <1>1. IndInv /\ GenInv => StoredGenerationsUnique
    BY DEF GenInv, StoredGenerationsUnique, Listing, Loadable, MetaGen, IndInv, TypeOK
  <1> QED BY <1>1, StoreInvariant, GenerationInvariant, PTL

(* No generation is handed out twice by this code, whatever store it began *)
(* with and whatever is deleted, aborted or interrupted in between.        *)
THEOREM IssuedGenerationsAlwaysDistinct == Spec => []IssuedGenerationsDistinct
  <1>1. GenInv => IssuedGenerationsDistinct
    BY DEF GenInv
  <1> QED BY <1>1, GenerationInvariant, PTL

(* In a store that did not start as a legacy one that is all of history:   *)
(* the documented promise of generation.toml holds there.                  *)
THEOREM GenerationsAreNeverReused ==
    Spec => [](Legacy = {} => GenerationsNeverReused)
  <1>1. GenInv => (Legacy = {} => GenerationsNeverReused)
    BY DEF GenInv, IssuedGenerationsDistinct, GenerationsNeverReused
  <1> QED BY <1>1, GenerationInvariant, PTL
-----------------------------------------------------------------------------
(* Why a legacy migration can always go on: as long as there is no counter *)
(* no manifest has been rewritten, and afterwards the counter is there.    *)
MigrationInv ==
    /\ meta \subseteq started
    /\ counter = None => \A i \in config : integ[i] = "v1"

(* A legacy store starts with manifests of the old kind only.              *)
LEMMA MigrationInit == Init => MigrationInv
  BY DEF Init, MigrationInv

(* No step rewrites a manifest before the counter is written.              *)
LEMMA MigrationStep == IndInv /\ GenInv /\ MigrationInv /\ [Next]_vars => MigrationInv'
  <1> SUFFICES ASSUME IndInv, GenInv, MigrationInv, [Next]_vars PROVE MigrationInv'
    OBVIOUS
  <1> USE DEF IndInv, TypeOK, IdOrNone, Steps, files, history, local, mishaps, Creating
  <1>0. CASE UNCHANGED vars
    BY <1>0 DEF vars, MigrationInv
  <1> SUFFICES ASSUME NEW p \in Procs,
                      \/ Create(p) \/ Prune(p) \/ Interrupt(p)
                      \/ \E id \in Ids : SelectSnapshot(p, id)
                      \/ RollbackToParent(p)
                      \/ \E ids \in SUBSET started : SaveRuntimeState(p, ids)
               PROVE  MigrationInv'
    BY <1>0 DEF Next
  <1>1. ASSUME NEW id \in Ids, NEW c, CreateBegin(p, id, c) PROVE MigrationInv'
    <2>1. counter' # None /\ meta' = meta /\ started \subseteq started'
      BY <1>1 DEF CreateBegin, AcceptedCounter, PersistedCounter, NextGeneration
    <2> QED BY <2>1 DEF MigrationInv
  <1>2. ASSUME pc[p] \in Creating, meta' \subseteq meta \cup {job[p]}, UNCHANGED <<counter, started>>
        PROVE  MigrationInv'
    <2>1. counter # None /\ job[p] \in started
      BY <1>2 DEF GenInv, StageFiles
    <2> QED BY <1>2, <2>1 DEF MigrationInv
  <1>3. ASSUME NEW j \in Ids, MigrateLegacy(p, j) PROVE MigrationInv'
    BY <1>2, <1>3 DEF MigrateLegacy
  <1>4. ASSUME MigrationDone(p) \/ CreateFails(p) PROVE MigrationInv'
    BY <1>2, <1>4 DEF MigrationDone, CreateFails
  <1>5. ASSUME NEW ok \in BOOLEAN, \/ PublishConfig(p, ok) \/ PublishMetadata(p, ok)
                                   \/ PublishIntegrity(p, ok) \/ CommitAndSelect(p, ok)
        PROVE  MigrationInv'
    BY <1>2, <1>5 DEF PublishConfig, PublishMetadata, PublishIntegrity, CommitAndSelect
  <1>6. ASSUME NEW kept, Undo(p, kept) PROVE MigrationInv'
    <2>1. meta' \subseteq meta
      BY <1>6 DEF Undo
    <2> QED BY <1>2, <1>6, <2>1 DEF Undo
  <1>7. ASSUME config' \subseteq config, meta' \subseteq meta, UNCHANGED <<counter, started>>,
               \A i \in config' : integ'[i] = integ[i]
        PROVE  MigrationInv'
    BY <1>7 DEF MigrationInv
  <1>8. ASSUME NEW j \in Ids, PruneConfig(p, j) \/ PruneMetadata(p, j) \/ PruneIntegrity(p, j)
        PROVE  MigrationInv'
    BY <1>7, <1>8 DEF PruneConfig, PruneMetadata, PruneIntegrity
  <1>9. ASSUME NEW keep, NEW cutoff, PruneBegin(p, keep, cutoff) PROVE MigrationInv'
    BY <1>7, <1>9 DEF PruneBegin
  <1>10. ASSUME \/ PruneDone(p) \/ Interrupt(p)
                \/ \E id \in Ids : SelectSnapshot(p, id)
                \/ RollbackToParent(p)
                \/ \E ids \in SUBSET started : SaveRuntimeState(p, ids)
         PROVE  MigrationInv'
    BY <1>7, <1>10 DEF PruneDone, Interrupt, SelectSnapshot, RollbackToParent, SaveRuntimeState
  <1> QED
    BY <1>1, <1>3, <1>4, <1>5, <1>6, <1>8, <1>9, <1>10 DEF Create, Prune

(* A finite set of numbers has a greatest one: a least set without one     *)
(* would have none after an element is taken out either.                   *)
LEMMA FiniteHasMaximum ==
    ASSUME NEW S, IsFiniteSet(S), S \subseteq Nat, S # {}
    PROVE  \E m \in S : \A n \in S : n <= m
  <1> DEFINE B == {T \in SUBSET S : T # {} /\ ~\E m \in T : \A n \in T : n <= m}
  <1> SUFFICES ASSUME B # {} PROVE FALSE
    OBVIOUS
  <1>1. PICK T \in B : \A U \in B : ~(<<U, T>> \in StrictSubsetOrdering(S))
    <2>1. IsWellFoundedOn(StrictSubsetOrdering(S), SUBSET S)
      BY FS_StrictSubsetOrderingWellFounded, FS_FiniteSubsetsOfFinite
    <2>2. B \subseteq SUBSET S
      OBVIOUS
    <2> HIDE DEF B
    <2> QED BY <2>1, <2>2, WFMin
  <1>2. PICK x \in T : TRUE
    OBVIOUS
  <1>3. x \in Nat /\ T \subseteq Nat
    OBVIOUS
  <1>4. CASE T \ {x} = {}
    BY <1>2, <1>3, <1>4
  <1>5. CASE T \ {x} # {}
    <2>1. T \ {x} \notin B
      BY <1>1, <1>2 DEF StrictSubsetOrdering
    <2>2. PICK m \in T \ {x} : \A n \in T \ {x} : n <= m
      BY <1>5, <2>1
    <2>3. CASE x <= m
      BY <1>2, <2>2, <2>3
    <2>4. CASE m <= x
      BY <1>2, <1>3, <2>2, <2>4
    <2> QED BY <1>3, <2>2, <2>3, <2>4
  <1> QED BY <1>4, <1>5

(* Whenever the lock is free and the scan succeeds there is a counter that *)
(* allocate_generation_unlocked accepts.                                   *)
LEMMA CounterIsAccepted == IndInv /\ GenInv /\ MigrationInv => MigrationResumable
  <1> SUFFICES ASSUME IndInv, GenInv, MigrationInv, ScanSucceeds
               PROVE  \E c \in {counter} \cup {0} \cup {gen[i] : i \in Ids} : AcceptedCounter(c)
    BY DEF MigrationResumable
  <1>0. config \subseteq Ids /\ meta \subseteq Ids /\ gen \in [Ids -> Nat] /\ counter \in Nat \cup {None}
    BY DEF IndInv, TypeOK
  <1>1. CASE counter # None
    <2>1. \A i \in Scanned : gen[i] <= counter
      BY <1>1 DEF Scanned, GenInv, MigrationInv
    <2> QED BY <1>0, <1>1, <2>1 DEF AcceptedCounter
  <1>2. CASE counter = None /\ Scanned = {}
    BY <1>0, <1>2 DEF AcceptedCounter, IsMaximum
  <1>3. CASE counter = None /\ Scanned # {}
    <2>1. Keyed /\ config # {} /\ config \subseteq Legacy
      BY <1>3 DEF Scanned, GenInv, MigrationInv, IndInv, Provenance
    <2>2. Scanned = config /\ AllLegacy
      BY <1>3, <2>1 DEF Scanned, AllLegacy, LegacyIds, MigrationInv
    <2> DEFINE G == {gen[i] : i \in config}
    <2>3. IsFiniteSet(G) /\ G \subseteq Nat /\ G # {}
      <3>1. IsFiniteSet(config)
        BY <2>1, LegacyFinite, FS_Subset
      <3>2. [i \in config |-> gen[i]] \in Surjection(config, G)
        BY DEF Surjection
      <3>3. IsFiniteSet(G)
        BY <3>1, <3>2, FS_Surjection
      <3>4. G \subseteq Nat
        BY <1>0
      <3>5. G # {}
        BY <2>1
      <3> QED BY <3>3, <3>4, <3>5
    <2> HIDE DEF G
    <2>4. PICK m \in G : \A n \in G : n <= m
      BY <2>3, FiniteHasMaximum
    <2>5. m \in Nat /\ IsMaximum(m)
      BY <2>2, <2>3, <2>4 DEF IsMaximum, G
    <2>6. AcceptedCounter(m)
      BY <1>3, <2>1, <2>2, <2>5 DEF AcceptedCounter, IsMaximum
    <2>7. m \in {gen[i] : i \in Ids}
      BY <1>0, <2>4 DEF G
    <2> QED BY <2>6, <2>7
  <1> QED BY <1>1, <1>2, <1>3

(* An interrupted migration of a legacy store can always be taken up       *)
(* again: creations are never locked out for want of a counter.            *)
THEOREM MigrationAlwaysResumable == Spec => []MigrationResumable
  <1>1. Spec => []MigrationInv
    BY MigrationInit, MigrationStep, StoreInvariant, GenerationInvariant, PTL DEF Spec
  <1> QED BY <1>1, CounterIsAccepted, StoreInvariant, GenerationInvariant, PTL
-----------------------------------------------------------------------------
(* Why the cuts are on record.  A snapshot that a prune is not about to    *)
(* delete, and was not when it was interrupted, has its parent in the      *)
(* store, safe from the prune, or the cut is recorded; the parent of the   *)
(* snapshot being created is the current one.                              *)
Safe(i) ==
    \/ MetaParent(i) = None
    \/ MetaParent(i) \in config /\ \A p \in Procs : pc[p] = "prune" => MetaParent(i) \notin todo[p]
    \/ <<i, MetaParent(i)>> \in boundaries
Leaving(i) == \E p \in Procs : pc[p] = "prune" /\ i \in todo[p]
CutsInv ==
    /\ \A p \in Procs : pc[p] \in Creating => parent[job[p]] = current
    /\ \A i \in Ids : Loadable(i) => Safe(i) \/ Leaving(i) \/ i \in abandoned

(* A legacy store starts with whole chains of parents.                     *)
LEMMA CutsInit == Init => CutsInv
  BY DEF Init, CutsInv, Safe, Leaving, Loadable, MetaParent, Creating

(* No step loses the parent of a snapshot that stays without a record.     *)
LEMMA CutsStep == IndInv /\ IndInv' /\ CutsInv /\ [Next]_vars => CutsInv'
  <1> SUFFICES ASSUME IndInv, IndInv', CutsInv, [Next]_vars PROVE CutsInv'
    OBVIOUS
  <1> USE DEF IndInv, TypeOK, IdOrNone, Steps, files, history, local, mishaps, Creating
  <1>0. CASE UNCHANGED vars
    BY <1>0 DEF vars, CutsInv, Safe, Leaving, Loadable, MetaParent
  <1> SUFFICES ASSUME NEW p \in Procs,
                      \/ Create(p) \/ Prune(p) \/ Interrupt(p)
                      \/ \E id \in Ids : SelectSnapshot(p, id)
                      \/ RollbackToParent(p)
                      \/ \E ids \in SUBSET started : SaveRuntimeState(p, ids)
               PROVE  CutsInv'
    BY <1>0 DEF Next
  <1>a. ASSUME UNCHANGED <<files, parent, boundaries, abandoned>>,
               \A q \in Procs : pc'[q] \in Creating => pc[q] \in Creating /\ job'[q] = job[q] /\ UNCHANGED current,
               \A q \in Procs : /\ pc'[q] = "prune" => pc[q] = "prune" /\ todo'[q] = todo[q]
                                /\ pc[q] = "prune" => todo[q] = {} \/ (pc'[q] = "prune" /\ todo'[q] = todo[q])
        PROVE  CutsInv'
    <2>1. \A i \in Ids : /\ Loadable(i)' => Loadable(i)
                         /\ Safe(i) => Safe(i)'
                         /\ Leaving(i) => Leaving(i)'
      BY <1>a DEF Loadable, Safe, Leaving, MetaParent
    <2> QED BY <1>a, <2>1 DEF CutsInv
  <1>1. ASSUME NEW id \in Ids, NEW c, CreateBegin(p, id, c) PROVE CutsInv'
    <2> USE <1>1 DEF CreateBegin, LockFree
    <2>0. (\A q \in Procs : pc[q] = "idle")
      BY DEF LockDiscipline
    <2>1. \A q \in Procs : pc'[q] # "prune" /\ (pc'[q] \in Creating => q = p)
      BY <2>0
    <2>2. \A q \in Procs : pc'[q] \in Creating => parent'[job'[q]] = current'
      BY <2>1
    <2>3. ASSUME NEW i \in Ids, Loadable(i)', i \notin abandoned' PROVE Safe(i)'
      <3>1. Loadable(i) /\ i # id
        BY <2>3 DEF Loadable, Provenance
      <3>2. MetaParent(i)' = MetaParent(i)
        BY <3>1 DEF MetaParent
      <3>3. Safe(i)
        BY <2>0, <2>3, <3>1 DEF CutsInv, Leaving
      <3> QED BY <2>1, <3>2, <3>3 DEF Safe
    <2> QED BY <2>2, <2>3 DEF CutsInv
  <1>2. ASSUME NEW j \in Ids, MigrateLegacy(p, j) PROVE CutsInv'
    <2>1. UNCHANGED <<config, meta, parent, boundaries, current, pc, job, todo, abandoned>>
      BY <1>2 DEF MigrateLegacy
    <2>2. \A i \in Ids : /\ Loadable(i)' => Loadable(i)
                         /\ Safe(i) => Safe(i)'
                         /\ Leaving(i) => Leaving(i)'
      <3>1. integ[j] # "none" /\ \A i \in Ids \ {j} : integ'[i] = integ[i]
        BY <1>2 DEF MigrateLegacy, LegacyIds
      <3> QED BY <2>1, <3>1 DEF Loadable, Safe, Leaving, MetaParent
    <2> QED BY <2>1, <2>2 DEF CutsInv
  <1>3. ASSUME MigrationDone(p) \/ CreateFails(p) PROVE CutsInv'
    BY <1>3, <1>a DEF MigrationDone, CreateFails, Goto
  <1>4. ASSUME NEW ok \in BOOLEAN,
               PublishConfig(p, ok) \/ PublishMetadata(p, ok) \/ PublishIntegrity(p, ok)
        PROVE  CutsInv'
    <2> USE <1>4 DEF PublishConfig, PublishMetadata, PublishIntegrity, Goto
    <2>0. /\ pc[p] \in Creating /\ job[p] \in Ids
          /\ \A q \in Procs : q # p => pc[q] = "idle" /\ pc'[q] = "idle"
          /\ pc'[p] # "prune"
      BY DEF StageFiles, LockDiscipline
    <2>1. UNCHANGED <<parent, boundaries, current, job, todo, abandoned>> /\ config \subseteq config'
      OBVIOUS
    <2>2. parent[job[p]] = current
      BY <2>0 DEF CutsInv
    <2>3. \A q \in Procs : pc'[q] \in Creating => parent'[job'[q]] = current'
      BY <2>0, <2>1, <2>2
    <2>4. ASSUME NEW i \in Ids, Loadable(i)', i \notin abandoned' PROVE Safe(i)'
      <3>1. CASE i = job[p]
        <4>1. MetaParent(i)' \in {None, current}
          BY <2>1, <2>2, <3>1 DEF MetaParent
        <4>2. current # None => current \in config'
          BY <2>1 DEF CurrentResolves, Loadable
        <4> QED BY <2>0, <4>1, <4>2 DEF Safe
      <3>2. CASE i # job[p]
        <4>1. Loadable(i) /\ MetaParent(i)' = MetaParent(i)
          BY <2>0, <2>4, <3>2 DEF Loadable, MetaParent
        <4>2. Safe(i)
          BY <2>0, <2>1, <2>4, <4>1 DEF CutsInv, Leaving
        <4> QED BY <2>0, <2>1, <4>1, <4>2 DEF Safe
      <3> QED BY <3>1, <3>2
    <2> QED BY <2>3, <2>4 DEF CutsInv
  <1>5. ASSUME NEW ok \in BOOLEAN, CommitAndSelect(p, ok) PROVE CutsInv'
    BY <1>5, <1>a DEF CommitAndSelect, Release, LockDiscipline
  <1>6. ASSUME NEW kept, Undo(p, kept) PROVE CutsInv'
    <2>1. /\ UNCHANGED <<parent, boundaries, current, abandoned>>
          /\ pc[p] = "undo" /\ job[p] \in Ids
      BY <1>6 DEF Undo, StageFiles
    <2>b. /\ config' = config \/ config' = config \ {job[p]}
          /\ meta' = meta \/ meta' = meta \ {job[p]}
          /\ integ' = integ \/ integ' = [integ EXCEPT ![job[p]] = "none"]
      BY <1>6 DEF Undo
    <2>2. \A q \in Procs : pc'[q] = "idle" /\ pc[q] # "prune"
      BY <1>6 DEF Undo, Release, LockDiscipline
    <2>a. job[p] # None
      <3>1. \A j \in Ids : j # None
        BY Zenon
      <3> QED BY <2>1, <3>1, Zenon
    <2>3. ASSUME NEW i \in Ids, Loadable(i)', i \notin abandoned' PROVE Safe(i)'
      <3>1. CASE i = job[p]
        <4>1. parent[i] = current
          BY <2>1, <3>1 DEF CutsInv
        <4>2. current' # None => current' \in config'
          BY DEF CurrentResolves, Loadable
        <4>3. MetaParent(i)' \in {None, current'}
          BY <2>1, <2>b, <4>1 DEF MetaParent
        <4> QED BY <2>2, <4>2, <4>3 DEF Safe
      <3>2. CASE i # job[p]
        <4>0. /\ i \in config' <=> i \in config
              /\ i \in meta' <=> i \in meta
              /\ integ'[i] = integ[i] /\ parent'[i] = parent[i]
          BY <2>1, <2>b, <3>2
        <4>1. Loadable(i) /\ MetaParent(i)' = MetaParent(i)
          BY <2>3, <4>0 DEF Loadable, MetaParent
        <4>2. MetaParent(i) # job[p]
          <5>1. pc[p] \in Creating /\ i \in Ids
            BY <2>1
          <5>2. parent[i] # job[p]
            BY <5>1 DEF InFlightUnreferenced
          <5> QED BY <2>a, <5>2 DEF MetaParent
        <4>3. Safe(i)
          BY <2>1, <2>2, <2>3, <4>1 DEF CutsInv, Leaving
        <4>4. MetaParent(i) \in config => MetaParent(i) \in config'
          BY <2>b, <4>2
        <4> QED BY <2>1, <2>2, <4>1, <4>3, <4>4 DEF Safe
      <3> QED BY <3>1, <3>2
    <2> QED BY <2>2, <2>3 DEF CutsInv
  <1>7. ASSUME NEW keep, NEW cutoff, PruneBegin(p, keep, cutoff) PROVE CutsInv'
    <2> DEFINE D == Doomed(keep, cutoff)
    <2>0. /\ \A q \in Procs : pc[q] = "idle"
          /\ UNCHANGED <<files, parent, abandoned>>
          /\ boundaries' = CutsFor(D) /\ pc' = [pc EXCEPT ![p] = "prune"] /\ todo' = [todo EXCEPT ![p] = D]
      BY <1>7 DEF PruneBegin, LockFree, LockDiscipline
    <2> HIDE DEF D
    <2>1. \A q \in Procs : pc'[q] \notin Creating /\ (pc'[q] = "prune" => q = p)
      BY <2>0
    <2>2. pc'[p] = "prune" /\ todo'[p] = D
      BY <2>0
    <2>3. ASSUME NEW i \in Ids, Loadable(i)', i \notin abandoned' PROVE Safe(i)' \/ Leaving(i)'
      <3>0. Loadable(i) /\ MetaParent(i)' = MetaParent(i) /\ i \in Listing
        BY <2>0, <2>3 DEF Loadable, MetaParent, Listing
      <3>1. Safe(i)
        BY <2>0, <2>3, <3>0 DEF CutsInv, Leaving
      <3>2. CASE i \in D
        BY <2>2, <3>2 DEF Leaving
      <3>3. CASE i \notin D
        <4>1. CASE <<i, MetaParent(i)>> \in boundaries
          <5>1. <<i, MetaParent(i)>> \in boundaries'
            BY <2>0, <3>0, <3>3, <4>1 DEF CutsFor
          <5> QED BY <3>0, <5>1 DEF Safe
        <4>2. CASE MetaParent(i) \in D
          <5>1. <<i, MetaParent(i)>> \in boundaries'
            BY <2>0, <3>0, <3>3, <4>2 DEF CutsFor
          <5> QED BY <3>0, <5>1 DEF Safe
        <4>3. CASE MetaParent(i) \notin D /\ <<i, MetaParent(i)>> \notin boundaries
          BY <2>0, <2>1, <2>2, <3>0, <3>1, <4>3 DEF Safe
        <4> QED BY <4>1, <4>2, <4>3
      <3> QED BY <3>2, <3>3
    <2> QED BY <2>1, <2>3 DEF CutsInv
  <1>8. ASSUME NEW j \in Ids, PruneConfig(p, j) \/ PruneMetadata(p, j) \/ PruneIntegrity(p, j)
        PROVE  CutsInv'
    <2> USE <1>8 DEF PruneConfig, PruneMetadata, PruneIntegrity, IsVictim
    <2>0. /\ pc[p] = "prune" /\ j \in todo[p] /\ UNCHANGED <<parent, boundaries, pc, abandoned>>
          /\ \A q \in Procs : q # p => pc[q] = "idle"
      BY DEF LockDiscipline
    <2>1. ASSUME NEW i \in Ids, Loadable(i)', i \notin abandoned' PROVE Safe(i)' \/ Leaving(i)'
      <3>1. Loadable(i) /\ i \in config' /\ MetaParent(i)' = MetaParent(i)
        BY <2>1 DEF Loadable, MetaParent
      <3>2. CASE i \in todo[p]
        <4>1. i \in todo'[p]
          BY <3>1, <3>2
        <4> QED BY <2>0, <4>1 DEF Leaving
      <3>3. CASE i \notin todo[p]
        <4>1. Safe(i)
          BY <2>0, <2>1, <3>1, <3>3 DEF CutsInv, Leaving
        <4>2. todo'[p] \subseteq todo[p] /\ \A k \in config : k \notin todo[p] => k \in config'
          BY <2>0
        <4> QED BY <2>0, <3>1, <4>1, <4>2 DEF Safe
      <3> QED BY <3>2, <3>3
    <2>2. \A q \in Procs : pc'[q] \notin Creating
      BY <2>0
    <2> QED BY <2>1, <2>2 DEF CutsInv
  <1>9. ASSUME PruneDone(p) PROVE CutsInv'
    BY <1>9, <1>a DEF PruneDone, Release, LockDiscipline
  <1>10. ASSUME Interrupt(p) PROVE CutsInv'
    <2>1. /\ UNCHANGED <<files, parent, boundaries>> /\ abandoned' = abandoned \cup todo[p]
          /\ \A q \in Procs : pc'[q] = "idle"
          /\ \A q \in Procs : pc[q] = "prune" => q = p
      BY <1>10 DEF Interrupt, Release, LockDiscipline
    <2>2. ASSUME NEW i \in Ids, Loadable(i)' PROVE Safe(i)' \/ i \in abandoned'
      <3>1. Loadable(i) /\ MetaParent(i)' = MetaParent(i)
        BY <2>1, <2>2 DEF Loadable, MetaParent
      <3>2. Leaving(i) => i \in todo[p]
        BY <2>1 DEF Leaving
      <3>3. Safe(i) => Safe(i)'
        BY <2>1, <3>1 DEF Safe
      <3> QED BY <2>1, <3>1, <3>2, <3>3 DEF CutsInv
    <2> QED BY <2>1, <2>2 DEF CutsInv
  <1>11. ASSUME \/ \E id \in Ids : SelectSnapshot(p, id)
                \/ RollbackToParent(p)
                \/ \E ids \in SUBSET started : SaveRuntimeState(p, ids)
         PROVE  CutsInv'
    <2>1. /\ UNCHANGED <<files, parent, boundaries, abandoned, pc, job, todo>>
          /\ \A q \in Procs : pc[q] = "idle"
      BY <1>11 DEF SelectSnapshot, RollbackToParent, SaveRuntimeState, LockFree, LockDiscipline
    <2> QED BY <2>1, <1>a
  <1> QED
    BY <1>1, <1>2, <1>3, <1>4, <1>5, <1>6, <1>7, <1>8, <1>9, <1>10, <1>11 DEF Create, Prune

(* prune-boundaries.toml names every cut of a snapshot that was to stay,   *)
(* whatever was interrupted: with no operation under way, doctor finds the *)
(* parent of each such snapshot or the record of its removal.              *)
THEOREM CutsAlwaysRecorded == Spec => []CutsRecorded
  <1>1. Spec => []CutsInv
    BY CutsInit, CutsStep, StoreInvariant, PTL DEF Spec
  <1>2. IndInv /\ CutsInv => CutsRecorded
    <2> SUFFICES ASSUME IndInv, CutsInv, LockFree, NEW i \in Listing \ abandoned
                 PROVE  \/ MetaParent(i) \in config \cup {None}
                        \/ <<i, MetaParent(i)>> \in boundaries
      BY DEF CutsRecorded
    <2>1. ~Leaving(i)
      BY DEF IndInv, LockDiscipline, LockFree, Leaving
    <2> QED BY <2>1 DEF CutsInv, Safe, Listing
  <1> QED BY <1>1, <1>2, StoreInvariant, PTL
=============================================================================
