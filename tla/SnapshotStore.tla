---------------------------- MODULE SnapshotStore ----------------------------
(***************************************************************************)
(* The durable configuration store of fluxheim-snapshot.  Several          *)
(* processes (the admin plane of the gateway, CLI invocations) mutate one  *)
(* directory under an advisory file lock, one file operation at a time;    *)
(* each of them may crash, or meet an I/O error, between two operations.   *)
(*                                                                         *)
(* A snapshot id is its creation instant (ids are time stamps followed by  *)
(* a generation and a sequence number).  The config, metadata and          *)
(* integrity files of a snapshot are one bit each; what the metadata file  *)
(* says (parent, generation) is kept in functions that also serve as the   *)
(* history of every snapshot ever started.                                 *)
(***************************************************************************)
EXTENDS Naturals, FiniteSets

CONSTANTS
    Procs,      \* handles on the store, in one process or in several
    Ids,        \* snapshot ids, ordered by creation time
    None,       \* absent pointer, absent parent, absent file
    Keyed,      \* an integrity key is configured
    Legacy,     \* snapshots that predate generation witnesses (V1 manifests)
    MaxEntries, \* MAX_SNAPSHOT_STORE_ENTRIES
    MaxFaults   \* bound on crashes and interrupted prunes

ASSUME IdsAssumption    == Ids \subseteq Nat \ {0} /\ None \notin Nat
ASSUME ProcsAssumption  == None \notin Procs
ASSUME KeyedAssumption  == Keyed \in BOOLEAN
ASSUME LegacyAssumption == Legacy \subseteq Ids /\ (Legacy # {} => Keyed)
ASSUME LegacyFinite     == IsFiniteSet(Legacy)
ASSUME BoundsAssumption == MaxEntries \in Nat \ {0} /\ MaxFaults \in Nat

VARIABLES
    config,     \* ids whose <id>.toml exists
    meta,       \* ids whose <id>.meta.toml exists
    integ,      \* <id>.integrity.toml: "none", "v1" or "v2" per id
    gen,        \* generation given to an id (0 before it is started)
    parent,     \* parent given to an id
    started,    \* ids ever handed out
    current,    \* the current pointer
    counter,    \* generation.toml, or None
    boundaries, \* prune-boundaries.toml: pairs <<child, removed parent>>
    named,      \* ids that self-healing.toml names
    lock,       \* holder of .snapshot.lock, or None
    pc,         \* where each handle stands in its operation
    job,        \* id being created by a handle
    todo,       \* snapshots a prune has still to delete
    listed,     \* generation each snapshot had when a prune listed it
    abandoned,  \* history: what interrupted prunes had still to delete
    faults      \* crashes and interrupted prunes so far

files == <<config, meta, integ>>
history == <<gen, parent, started>>
local == <<lock, pc, job, todo, listed>>
vars == <<config, meta, integ, gen, parent, started, current, counter, boundaries,
          named, lock, pc, job, todo, listed, abandoned, faults>>
mishaps == <<abandoned, faults>>

IdOrNone == Ids \cup {None}
Steps == {"idle", "migrate", "config", "meta", "integ", "commit", "undo", "prune"}

(* The files of the store, its history and the state of every handle keep  *)
(* their types.                                                            *)
TypeOK ==
    /\ config \subseteq Ids /\ meta \subseteq Ids
    /\ integ \in [Ids -> {"none", "v1", "v2"}]
    /\ gen \in [Ids -> Nat] /\ parent \in [Ids -> IdOrNone]
    /\ started \subseteq Ids /\ abandoned \subseteq Ids
    /\ current \in IdOrNone
    /\ counter \in Nat \cup {None}
    /\ boundaries \subseteq Ids \X Ids
    /\ named \subseteq Ids
    /\ lock \in Procs \cup {None}
    /\ pc \in [Procs -> Steps] /\ job \in [Procs -> IdOrNone]
    /\ todo \in [Procs -> SUBSET Ids] /\ listed \in [Procs -> [Ids -> Nat]]
    /\ faults \in Nat
-----------------------------------------------------------------------------
(***************************************************************************)
(* Reading the store                                                       *)
(***************************************************************************)

(* load_snapshot: the config must exist; a configured key also demands the *)
(* metadata and a manifest that verifies.                                  *)
Loadable(i) ==
    /\ i \in config
    /\ Keyed => i \in meta /\ integ[i] # "none"

Listing == {i \in Ids : Loadable(i)}

(* snapshot_from_metadata: a missing metadata file reads as generation 0,  *)
(* created at 0, without parent.                                           *)
MetaGen(i) == IF i \in meta THEN gen[i] ELSE 0
MetaParent(i) == IF i \in meta THEN parent[i] ELSE None
MetaCreated(i) == IF i \in meta THEN i ELSE 0

(* observe_generations: which snapshots are scanned, and whether the scan  *)
(* succeeds.  With a key every config needs its manifest, and a V1         *)
(* manifest can only be verified against its metadata.                     *)
Scanned == IF Keyed THEN config ELSE meta
ScanSucceeds ==
    Keyed => \A i \in config : /\ integ[i] # "none"
                               /\ integ[i] = "v1" => i \in meta
LegacyIds == {i \in config : integ[i] = "v1"}
AllLegacy == config # {} /\ LegacyIds = config

IsMaximum(m) == /\ \A i \in Scanned : gen[i] <= m
                /\ m = 0 \/ \E i \in Scanned : gen[i] = m

MutantObservedCounter(c) == ScanSucceeds /\ c \in Nat /\ IsMaximum(c)
(* allocate_generation_unlocked accepts c as the counter to increment.     *)
AcceptedCounter(c) ==
    /\ ScanSucceeds
    /\ c \in Nat
    /\ IF counter # None THEN c = counter
       ELSE IsMaximum(c) /\ (c = 0 \/ (Keyed /\ AllLegacy))
    /\ \A i \in Scanned : gen[i] <= c
-----------------------------------------------------------------------------
Init ==
    /\ config = Legacy /\ meta = Legacy /\ started = Legacy
    /\ integ = [i \in Ids |-> IF i \in Legacy THEN "v1" ELSE "none"]
    /\ gen = [i \in Ids |-> IF i \in Legacy THEN i ELSE 0]
    /\ parent = [i \in Ids |-> IF i \in Legacy /\ i - 1 \in Legacy THEN i - 1 ELSE None]
    /\ current \in (IF Legacy = {} THEN {None} ELSE Legacy)
    /\ counter = None /\ boundaries = {} /\ named = {}
    /\ lock = None
    /\ pc = [p \in Procs |-> "idle"] /\ job = [p \in Procs |-> None]
    /\ todo = [p \in Procs |-> {}]
    /\ listed = [p \in Procs |-> [i \in Ids |-> 0]]
    /\ abandoned = {} /\ faults = 0

(* with_store_lock: taken on entry, dropped on every way out.              *)
MutantLockIgnored == TRUE
LockFree == lock = None
Release(p) ==
    /\ lock' = None
    /\ pc' = [pc EXCEPT ![p] = "idle"]
    /\ job' = [job EXCEPT ![p] = None]
    /\ todo' = [todo EXCEPT ![p] = {}]
    /\ listed' = [listed EXCEPT ![p] = [i \in Ids |-> 0]]
Goto(p, step) == pc' = [pc EXCEPT ![p] = step] /\ UNCHANGED <<lock, job, todo, listed>>
-----------------------------------------------------------------------------
(***************************************************************************)
(* snapshot_serialized_config_admitted                                     *)
(***************************************************************************)

(* ensure_store_capacity counts the configs, readable or not.              *)
HasCapacity == Cardinality(config) < MaxEntries

(* checked_add on the counter, and what generation.toml holds afterwards.  *)
NextGeneration(c) == c + 1
MutantCounterAfterMigration(c) == IF LegacyIds = {} THEN NextGeneration(c) ELSE counter
PersistedCounter(c) == NextGeneration(c)

(* Lock, capacity, parent, and the new counter made durable before         *)
(* anything else is written.                                               *)
CreateBegin(p, id, c) ==
    /\ LockFree /\ pc[p] = "idle"
    /\ HasCapacity
    /\ AcceptedCounter(c)
    /\ id \notin started
    /\ counter' = PersistedCounter(c)
    /\ gen' = [gen EXCEPT ![id] = NextGeneration(c)]
    /\ parent' = [parent EXCEPT ![id] = current]
    /\ started' = started \cup {id}
    /\ lock' = p
    /\ pc' = [pc EXCEPT ![p] = IF Keyed THEN "migrate" ELSE "config"]
    /\ job' = [job EXCEPT ![p] = id]
    /\ UNCHANGED <<files, current, boundaries, named, todo, listed, mishaps>>

(* migrate_legacy_manifest, one V1 manifest replaced at a time.            *)
MigrateLegacy(p, i) ==
    /\ pc[p] = "migrate" /\ i \in LegacyIds
    /\ integ' = [integ EXCEPT ![i] = "v2"]
    /\ UNCHANGED <<config, meta, history, current, counter, boundaries, named, local, mishaps>>

MigrationDone(p) ==
    /\ pc[p] = "migrate" /\ LegacyIds = {}
    /\ Goto(p, "config")
    /\ UNCHANGED <<files, history, current, counter, boundaries, named, mishaps>>

(* publish_transaction_file, three times; ok is FALSE when the file is in  *)
(* place but the call reports PublishedButNotDurable.                      *)
PublishConfig(p, ok) ==
    /\ pc[p] = "config"
    /\ config' = config \cup {job[p]}
    /\ Goto(p, IF ok THEN "meta" ELSE "undo")
    /\ UNCHANGED <<meta, integ, history, current, counter, boundaries, named, mishaps>>

PublishMetadata(p, ok) ==
    /\ pc[p] = "meta"
    /\ meta' = meta \cup {job[p]}
    /\ Goto(p, CASE ~ok -> "undo" [] ok /\ Keyed -> "integ" [] OTHER -> "commit")
    /\ UNCHANGED <<config, integ, history, current, counter, boundaries, named, mishaps>>

PublishIntegrity(p, ok) ==
    /\ pc[p] = "integ"
    /\ integ' = [integ EXCEPT ![job[p]] = "v2"]
    /\ Goto(p, IF ok THEN "commit" ELSE "undo")
    /\ UNCHANGED <<config, meta, history, current, counter, boundaries, named, mishaps>>

(* A step before the commit fails having written nothing: the transaction  *)
(* is dropped.                                                             *)
CreateFails(p) ==
    /\ pc[p] \in {"migrate", "config", "meta", "integ"}
    /\ Goto(p, "undo")
    /\ UNCHANGED <<files, history, current, counter, boundaries, named, mishaps>>

(* SnapshotTransaction::drop removes the tracked files and ignores a       *)
(* removal that fails; kept are the files such a failure, or a crash in    *)
(* the middle of the loop, leaves behind.                                  *)
Undo(p, kept) ==
    /\ pc[p] = "undo"
    /\ config' = IF "config" \in kept THEN config ELSE config \ {job[p]}
    /\ meta' = IF "meta" \in kept THEN meta ELSE meta \ {job[p]}
    /\ integ' = IF "integ" \in kept THEN integ ELSE [integ EXCEPT ![job[p]] = "none"]
    /\ kept # {} => faults < MaxFaults
    /\ faults' = IF kept = {} THEN faults ELSE faults + 1
    /\ Release(p)
    /\ UNCHANGED <<history, current, counter, boundaries, named, abandoned>>

(* commit and set_current_unlocked; moved is FALSE when the pointer update *)
(* fails and SnapshotPublishedButCurrentUpdateFailed is returned.          *)
CommitAndSelect(p, moved) ==
    /\ pc[p] = "commit"
    /\ current' = IF moved THEN job[p] ELSE current
    /\ Release(p)
    /\ UNCHANGED <<files, history, counter, boundaries, named, mishaps>>
-----------------------------------------------------------------------------
(***************************************************************************)
(* Moving the pointer, persisting the recovery state                       *)
(***************************************************************************)

(* set_current_snapshot and rollback_target with an id: verify under the   *)
(* lock, then replace the pointer.                                         *)
SelectSnapshot(p, id) ==
    /\ LockFree /\ pc[p] = "idle"
    /\ Loadable(id)
    /\ current' = id
    /\ UNCHANGED <<files, history, counter, boundaries, named, local, mishaps>>

(* rollback_target without an id follows the parent of the current one.    *)
RollbackToParent(p) ==
    /\ current # None /\ Loadable(current)
    /\ MetaParent(current) # None
    /\ SelectSnapshot(p, MetaParent(current))

(* save_runtime_state does not look whether the ids it writes exist: the   *)
(* recovery bookkeeping names snapshots that were there at some time, left *)
(* over from a creation that died or pruned since included.                *)
SaveRuntimeState(p, ids) ==
    /\ LockFree /\ pc[p] = "idle"
    /\ Cardinality(ids) <= 4
    /\ named' = ids
    /\ UNCHANGED <<files, history, current, counter, boundaries, local, mishaps>>
-----------------------------------------------------------------------------
(***************************************************************************)
(* prune_locked                                                            *)
(***************************************************************************)

(* What a prune must keep: the current snapshot, the ones the recovery     *)
(* state names, and the immediate parents of those.                        *)
MutantCurrentUnprotected == named
ProtectedRoots == named \cup ({current} \ {None})
ParentsOf(ids) == {MetaParent(i) : i \in ids} \ {None}
Protected == ProtectedRoots \cup ParentsOf({i \in ProtectedRoots : Loadable(i)})

(* Order of the listing: generation, then creation, then id.               *)
Before(rank, i, j) == rank[i] < rank[j] \/ (rank[i] = rank[j] /\ i < j)

OutsideKeep(keep, i) ==
    /\ keep # None
    /\ LET newer == {j \in Listing : Before([k \in Ids |-> MetaGen(k)], i, j)}
       IN  Cardinality(newer) >= keep
OldEnough(cutoff, i) == cutoff # None /\ MetaCreated(i) <= cutoff

Doomed(keep, cutoff) ==
    {i \in Listing \ Protected : OutsideKeep(keep, i) \/ OldEnough(cutoff, i)}

MutantOldCutsOnly(doomed) ==
    {b \in boundaries : b[1] \in Listing \ doomed}

(* The ancestry cuts are recorded before the first file goes.              *)
CutsFor(doomed) ==
    LET retained == Listing \ doomed
    IN  {b \in boundaries : b[1] \in retained}
        \cup {<<i, MetaParent(i)>> : i \in {c \in retained : MetaParent(c) \in doomed}}

PruneBegin(p, keep, cutoff) ==
    /\ LockFree /\ pc[p] = "idle"
    /\ keep # None \/ cutoff # None
    /\ boundaries' = CutsFor(Doomed(keep, cutoff))
    /\ todo' = [todo EXCEPT ![p] = Doomed(keep, cutoff)]
    /\ listed' = [listed EXCEPT ![p] = [i \in Ids |-> MetaGen(i)]]
    /\ lock' = p
    /\ pc' = [pc EXCEPT ![p] = "prune"]
    /\ UNCHANGED <<files, history, current, counter, named, job, mishaps>>

(* The deletion loop follows the listing, oldest generation first.         *)
IsVictim(p, i) ==
    /\ i \in todo[p]
    /\ \A j \in todo[p] \ {i} : Before(listed[p], i, j)

PruneConfig(p, i) ==
    /\ pc[p] = "prune" /\ IsVictim(p, i) /\ i \in config
    /\ config' = config \ {i}
    /\ UNCHANGED <<meta, integ, history, current, counter, boundaries, named, local, mishaps>>

PruneMetadata(p, i) ==
    /\ pc[p] = "prune" /\ IsVictim(p, i) /\ i \notin config /\ i \in meta
    /\ meta' = meta \ {i}
    /\ UNCHANGED <<config, integ, history, current, counter, boundaries, named, local, mishaps>>

PruneIntegrity(p, i) ==
    /\ pc[p] = "prune" /\ IsVictim(p, i) /\ i \notin config /\ i \notin meta
    /\ integ' = [integ EXCEPT ![i] = "none"]
    /\ todo' = [todo EXCEPT ![p] = @ \ {i}]
    /\ UNCHANGED <<config, meta, history, current, counter, boundaries, named,
                   lock, pc, job, listed, mishaps>>

PruneDone(p) ==
    /\ pc[p] = "prune" /\ todo[p] = {}
    /\ Release(p)
    /\ UNCHANGED <<files, history, current, counter, boundaries, named, mishaps>>
-----------------------------------------------------------------------------
(* A handle dies, or a prune returns on an I/O error, between two file     *)
(* operations: the kernel (or the unlock) frees the lock, nothing is       *)
(* undone.                                                                 *)
Interrupt(p) ==
    /\ pc[p] # "idle" /\ faults < MaxFaults
    /\ faults' = faults + 1
    /\ abandoned' = abandoned \cup todo[p]
    /\ Release(p)
    /\ UNCHANGED <<files, history, current, counter, boundaries, named>>

Create(p) ==
    \/ \E id \in Ids, c \in {counter} \cup {0} \cup {gen[i] : i \in Ids} : CreateBegin(p, id, c)
    \/ \E i \in Ids : MigrateLegacy(p, i)
    \/ MigrationDone(p)
    \/ \E ok \in BOOLEAN : \/ PublishConfig(p, ok)
                           \/ PublishMetadata(p, ok)
                           \/ PublishIntegrity(p, ok)
                           \/ CommitAndSelect(p, ok)
    \/ CreateFails(p)
    \/ \E kept \in SUBSET {"config", "meta", "integ"} : Undo(p, kept)

Prune(p) ==
    \/ \E keep \in 0..MaxEntries \cup {None}, cutoff \in Ids \cup {0, None} : PruneBegin(p, keep, cutoff)
    \/ \E i \in Ids : PruneConfig(p, i) \/ PruneMetadata(p, i) \/ PruneIntegrity(p, i)
    \/ PruneDone(p)

Next ==
    \E p \in Procs :
        \/ Create(p)
        \/ Prune(p)
        \/ \E id \in Ids : SelectSnapshot(p, id)
        \/ RollbackToParent(p)
        \/ \E ids \in SUBSET started : SaveRuntimeState(p, ids)
        \/ Interrupt(p)

Spec == Init /\ [][Next]_vars
-----------------------------------------------------------------------------
(***************************************************************************)
(* Properties                                                              *)
(***************************************************************************)

(* The current pointer never dangles: whatever crashes, aborts and prunes  *)
(* of other handles came before, the snapshot `current` names has all the  *)
(* files load_snapshot asks for, so a reload or rollback can read it.      *)
CurrentResolves == current # None => Loadable(current)

(* "deleting a newer snapshot cannot make a later snapshot reuse its audit *)
(* generation": no two snapshots ever started, deleted ones included,      *)
(* carry the same generation (allocate_generation_unlocked).               *)
GenerationsNeverReused ==
    \A i, j \in started : gen[i] = gen[j] => i = j

(* What of that survives in a legacy store too: generations handed out by  *)
(* this code are never handed out again, however many crashes, aborted     *)
(* creations and prunes of the newest snapshots come in between.           *)
IssuedGenerationsDistinct ==
    \A i, j \in started \ Legacy : gen[i] = gen[j] => i = j

(* What doctor checks of one store at one time: the snapshots it lists     *)
(* carry different generations, also after a legacy migration and after    *)
(* creations that died half-way.                                           *)
StoredGenerationsUnique ==
    \A i, j \in Listing : MetaGen(i) = MetaGen(j) /\ MetaGen(i) # 0 => i = j

(* An interrupted legacy migration is resumable: whenever the lock is free *)
(* and every config still has its manifest, the next creation finds a      *)
(* counter it accepts, whether the crash came before, between or after the *)
(* rewritten manifests.                                                    *)
MigrationResumable ==
    LockFree /\ ScanSucceeds =>
        \E c \in {counter} \cup {0} \cup {gen[i] : i \in Ids} : AcceptedCounter(c)

(* Retention never takes what recovery needs: no step removes a file of a  *)
(* loadable snapshot that is current, is named by self-healing.toml, or is *)
(* the immediate parent of such a snapshot, although a prune chose its     *)
(* victims many file operations earlier.                                   *)
PruneSparesProtected ==
    [][\A i \in Protected : (i \in Ids /\ Loadable(i)) => Loadable(i)']_vars

(* "prune-boundaries.toml records intentional ancestry cuts when retention *)
(* removes an old parent while keeping its child": with no operation under *)
(* way, the parent of every listed snapshot is in the store or its removal *)
(* is on record, which is what doctor demands, whatever crashed before,    *)
(* prunes included.  The one exception is a snapshot that a prune had      *)
(* chosen to delete when it was interrupted: prune_locked deletes the      *)
(* parents of its victims first and records cuts for the retained only.    *)
CutsRecorded ==
    LockFree => \A i \in Listing \ abandoned :
        \/ MetaParent(i) \in config \cup {None}
        \/ <<i, MetaParent(i)>> \in boundaries
=============================================================================
