# Fluxheim in TLA+

Fluxheim is an HTTP reverse proxy and gateway written in Rust: HTTP/1 and
HTTP/2 front ends, load-balanced upstreams, a cache, static and PHP back ends,
ACME certificates, configuration snapshots with automatic rollback, and an
admin plane. This directory holds TLA+ models of the parts whose correctness
depends on the order in which threads, processes, timeouts and crashes happen,
the TLC runs that check them on small instances, and TLAPS proofs of what
matters most for every instance.

Paths below are relative to the repository. `PROJECT.json` lists the
components, the runs, the source lines every definition models, the mutants
that show each property can fail, the hazards, the findings and the theorems.

## Inventory

### Configuration snapshots (`crates/fluxheim-snapshot`)

*State*: a directory with, per snapshot, `<id>.toml`, `<id>.meta.toml` and
`<id>.integrity.toml`; one `current` pointer, the generation counter
`generation.toml`, `prune-boundaries.toml`, `self-healing.toml`; an advisory
lock file.
*Operations*: create (with migration of legacy manifests), select, roll back to
the parent, prune, save the recovery state, plus read-only listings, exports
and reports.
*Used by*: the admin plane of a running gateway and the command line, in
different processes, which meet only in the lock file.
*Hard*: each operation is several file operations, and a crash can fall between
any two; retention must not delete what recovery will want; generations must
stay unique over deletions and migrations.
*Correct means*: the pointer resolves, generations are never reused, prunes
spare what recovery needs and record the ancestry they cut.

### Self-healing guard (`src/admin/snapshot_runtime.rs`, `crates/fluxheim-snapshot/src/state.rs`)

*State*: the recovery state (running snapshot, last known good, pending
validation with counters), the validation deadline, the live router,
`current_config`, and their durable copies.
*Operations*: reload, live rollback, confirm, fail, health reports, the
validation deadline, the watchdog's round, restart.
*Interacts*: with the router (swap), the snapshot store (pointer,
`self-healing.toml`), and the audit lane (a rollback waits for admission).
*Hard*: several mutexes, none of which spans a handler; steps that fail half
way; restarts; a deadline racing a confirmation.
*Correct means*: a candidate that is never confirmed is replaced by its
predecessor without operator traffic; what is on disk is what a restart needs;
a validation is cleared only by the rollback or confirmation that concerns it.

### Managed certificates (`crates/fluxheim-acme`)

*State*: certificate and key of a virtual host, their `.previous` backups,
temporary and quarantined files, an install journal, a revocation journal, a
lock file shared with TLS readers.
*Operations*: install, revoke with quarantine, recover either, load the pair.
*Hard*: two files cannot be replaced at once; the authority's answer may be
lost; recovery may be interrupted in turn; two journals can coexist.
*Correct means*: a settled directory has a matching pair, readers get one pair,
a revoked certificate stays out, an interruption loses nothing.
Accounts, orders, challenges and the renewal queue surround this part.

### Load balancing (`crates/fluxheim-load-balancer`, retry loop in `crates/fluxheim-server`)

*State*: the published member set, per-member in-flight counters, runtime
overrides, passive health, the waiting queue's count, the retry window.
*Operations*: select, take and drop a permit, queue, time out, report, retry,
prune, drain, disable, resume, add, remove and retarget members, discovery and
health rounds, selectors, cookies for session persistence, the runtime state
file.
*Hard*: no lock spans a selection; requests act on member sets and counters
that an operator has replaced; a client can leave at any await.
*Correct means*: caps hold, every permit, queue place and retry charge is
returned exactly once, a retry goes to a new member, a queued request leaves.

### Operational events (`crates/fluxheim-observability`)

*State*: three bounded lanes, each with a channel, a writer thread and
counters; the audit lane also has a pool of slots that permits reserve.
*Operations*: emit, reserve, commit or drop a permit, write, fail, shut down.
*Hard*: lock-free counters, a sink that dies with events queued, shutdown
racing both.
*Correct means*: a permit taken before an admin mutation finds its place
afterwards; counters add up; shutdown ends the writer.

### HTTP cache (`crates/fluxheim-cache`, cache modules of `crates/fluxheim-server`)

*State*: per route, a memory tier (objects, byte count, purge index, table of
fills, set of keys under refresh) behind one mutex; a disk tier with records
and an eviction order behind another, a free map of bin extents behind a third,
128 mutation stripes, bin files, an index file and its dirty flag; global
counters of origin fills.
*Operations*: look up in four passes, promote, fetch under the gate, store,
prune, revalidate in the background, purge (exact, by index, soft, expired),
allocate and release extents, evict, write the index, rebuild at start.
*Interacts*: with the HTTP/1 and HTTP/2 front ends, which may drop a handler at
any await, with the blocking pool, which may refuse, and with the admin plane,
which purges.
*Hard*: no lock spans an operation; lookups read bins without one; the index
lags behind the bins; a purge crosses two tiers; writers time out under their
waiters.
*Correct means*: one fill per key and no forgotten waiter; a hit is one whole
object of its key; no space or budget drifts; what was purged stays purged; a
restart serves nothing that was not written.

### The rest

PHP-FPM pool and supervised processes, background tasks, drain and cutover, TCP and UDP
proxies, TLS listeners, HTTP front end and routing, protocol parsers, Wasm
extensions, configuration schema, admin authentication, static files, headers,
compression, GeoIP, command line. `PROJECT.json` gives each with the reason it
is not modelled.

## Modules

| Module | Models | Proofs |
| --- | --- | --- |
| `SnapshotStore` | the snapshot directory, file operation by file operation | `SnapshotStoreProofs` |
| `SelfHealing` | the guard's handlers and watchdog, lock section by lock section | `SelfHealingProofs` |
| `AcmeCertificates` | one managed certificate directory, system call by system call | `AcmeCertificatesProofs` |
| `LoadBalancer` | admission, queueing, retrying and member edits of one pool | `LoadBalancerProofs` |
| `AuditDispatch` | the audit lane, atomic operation by atomic operation | `AuditDispatchProofs` |
| `FillGate` | writers, waiters, origin permits and refresh tasks of the HTTP cache | `FillGateProofs` |
| `CacheTiers` | memory and disk tier under lookups, stores and purges | `CacheTiersProofs` |
| `StorageBinCache` | the disk tier on storage bins, critical section by critical section | `StorageBinCacheProofs` |
| `DiskCache` | what the disk tier promises; `StorageBinCache` implements it | |

Each but `DiskCache` has an `MC` module for TLC, which defines the symmetry sets where permuting
the elements is sound; no run that checks a liveness property uses symmetry.

Definitions whose names start with `Mutant` belong to no specification. Each is
a plausible mistake in the definition that follows it and exists so that the
properties can be tested against it.

### SnapshotStore

A snapshot id is a number, ordered by creation. Its three files are one bit
each (the manifest is absent, V1 or V2); what its metadata says is kept in
`gen` and `parent`, which therefore also serve as history. `lock` is
`.snapshot.lock`; `pc`, `job`, `todo` and `listed` are the local variables of a
handle in the middle of `create_locked` or `prune_locked`.

`CreateBegin` is the part of a creation that reads the store, checks capacity
and persists the counter; `MigrateLegacy` rewrites one manifest;
`PublishConfig`, `PublishMetadata`, `PublishIntegrity` and `CommitAndSelect`
are the transaction, `Undo` its destructor. `PruneBegin` chooses victims and
saves the cuts; `PruneConfig`, `PruneMetadata` and `PruneIntegrity` each delete
one file. `Interrupt` is a crash or an I/O error at any of these points;
`abandoned` is history: the victims an interrupted prune had still to delete.
`SaveRuntimeState` is the recovery state that `SelfHealing` writes.
Cryptography is a file that verifies or is absent.

### SelfHealing

A worker is a request handler or the watchdog. `loc[w].pc` names the next
critical section, router swap or file write; the fields beside it are the
handler's local copies, so that a value read under one lock and used under
another is visibly stale. A store write is atomic here, since `SnapshotStore`
models its insides, and may fail. `serial` is chosen once per behaviour: TRUE
means that handlers do not overlap, which is how the properties say what the
code guarantees without concurrency and what it still guarantees with it.
`Source` is the configuration the process boots with.

### AcmeCertificates

A file's contents are the transaction that wrote it, so a certificate and a key
match exactly when their values are equal, and a hard link is an equal value.
`loc[p]` holds the step, which of the two files it is at, and the `existed`
flags of the journal. Steps named `ri_*` are `recover_interrupted_install`,
`rr_*` the recovery of a revocation (also its destructor), `rv_*` the
revocation itself. Any step may fail (after or before its effect, where the
code can tell the two apart, such as a rename followed by a failed directory
sync) and a process may die at any step. `ContactCA` is external: the authority
revokes or does not, and its answer arrives or does not. `hit` remembers which
kinds of work were interrupted, so that a property can say "as long as only
revocations were".

### LoadBalancer

`req[r]` is a dispatch: its step, its phase (`initial`, `queued`, `retry`), the
backend snapshot it has loaded, the member and counter it holds, what it tried.
A counter is a heap cell with an identity: `table` maps a member's key to a
cell, and a request keeps its cell after the key has gone or points elsewhere.
`TakeCounter` is the lookup under the map's lock, `Acquire` the
compare-and-swap after it. `StartPrune`/`Prune` and `ReadLive`/`PruneRemoved`
are the two places where a set of live keys is read first and applied later.
`BeginRemoval`, `SwapSnapshot`, `ClearRemoved` are the three parts of removing
or retargeting a member. A selection takes any eligible member, which covers
every selector. `Cancel` is the client's departure while the request waits or
is being sent. Initial overrides are arbitrary because the runtime state file
restores them. `spent` is history: retries really sent in this window.

### AuditDispatch

Events are counted, not named. `caller[p]` and `worker` name the next atomic
operation of an emitter and of the writer. `lost` is history: events that were
accepted and then destroyed with the channel. The rate budget may refuse any
admission. The other lanes run the same code without permits.

### FillGate

A task is a request or the refresh task of a key. `filling` is the table of
fills, `waits` who is registered with whose `Notify`, `writers` and `permits`
who owns a `NativeCacheFillPermit` or a `NativeOriginFillPermit`: ownership is
state, because every way a task can end (`End`, `EndRefresh`) drops what it
owns. What a lookup finds is left open. `FillAges` is the moment a fill passes
`age_timeout_secs`, after which the next request takes the key over;
`WaitTimesOut` is a waiter's own deadline; `Cancel` is the HTTP/2 handler
timeout, possible wherever a request awaits something; `Purge` takes a fill out
of the table without waking anybody. `lapsed` is history: the writers whose
fill aged or was purged. The model has `lock.enabled` and
`origin_protection.enabled`.

### CacheTiers

An object is its age (fresh; expired but served while it is refreshed; expired
but served when the origin fails; dead) and its weight. A request goes through
the passes of `lookup_with_key_components`, each through memory (`MemoryLook`)
and then disk (`DiskLook`, `DiskRefuses`), is answered, promoted (`Promote`) or
sent to the origin; `StoreInMemory`, `PruneMemory` and `WriteDisk` are the
three parts of `store_inner`. `PurgeMemory` and `PurgeDisk` are the two halves
of an administrator's purge. Each object carries a mark, which is history: the
purge it should have gone with, or that a request was reading it meanwhile
(nothing promises that a purge overtakes a read that has begun). The disk is
the one `DiskCache` describes. An object may outweigh the memory tier's limit
(`FitsMemory`): it is then kept on disk alone and a disk hit is answered without
a promotion (`PromoteSkips`). An error answered by the origin is stored as any
response when no stale object was found to serve instead. `Older` lets an object
skip a stale window, since a window may be zero, but takes the window for errors
not to end before the one for refreshing; objects have validators. Which object
a prune finds oldest is left open.

### StorageBinCache and DiskCache

Space is counted in cells. `objects`, `order` and `bytes` are the records,
`free` and `nextBin` the free map, `cells` what the bin files hold, part by
part, so that a torn or overwritten object can be told from a whole one. A
thread's `pc` and `job` name the next critical section of a store, lookup or
purge and the copies it has made. Stripes are taken and given as in the code,
eviction from within a store included. The index worker takes the dirty flag
(`FlushClaim`), copies the records (`FlushSnapshot`) and writes (`FlushWrite`);
`Restart` rebuilds records and free map from the last index and whatever the
bins hold by then. The eviction order is the order of touches: the wall clock
that the code compares is taken not to go backwards.

`DiskCache` says what that is for: a key holds nothing or an object written for
it, always younger than the one before; an object may be dropped at any moment;
a restart brings back, for keys that were saved, nothing or an object no older
than the saved one, and nothing for other keys. The refinement mapping reads
the contents of a key from the cells its record names, so a record that names
torn or foreign cells maps to no legal contents.

### How they compose

The modules meet in shared files and calls, and each states the other side's
part at the granularity it needs: `SelfHealing` uses store writes that are
atomic or fail, `SnapshotStore` shows what one write is made of and takes any
recovery state the guard may save; `AuditUnavailable` of `SelfHealing` is a
refused reservation of `AuditDispatch`. `CacheTiers` uses a disk on which a read or a write takes effect at
once, which is what `StorageBinCache` is shown to implement, and lets every
miss go to the origin, a superset of what `FillGate` admits. A joint
specification of the guard and the store would multiply their states without adding steps on which both act.

## Runs

Every passing run explores its whole state space. Deadlock is checked except in
`audit_lane`, `bin_work`, `gate` and `tiers` (and the violated runs of the last
three's modules), where the bounded work comes to an end.

| Run | Instance | Question |
| --- | --- | --- |
| `snapshot_keyed` | 2 handles, 4 ids of which 2 legacy, 3 entries at most, 1 crash | pointer, generations, migration, cuts, retention |
| `selfheal_guard` | watchdog and operator, 2 snapshots, 4 requests in turn or 2 overlapping, 1 failure, 1 restart | recovery state, rollback, liveness |
| `acme_interrupted` | 2 processes, 1 reader, 5 transactions, 4 faults | pairs, readers, recovery, revocation |
| `acme_reinstated` | the same with 4 transactions, 3 faults | does a revoked pair stay out? (no) |
| `lb_fixed` | 2 requests, 2 members of cap 1, queue 1, budget 1, 1 retry | caps, permits, queue, budget, retries, liveness |
| `lb_edited` | 2 requests, 1 operator editing members | permits while members change |
| `audit_lane` | 3 callers, 2 places, 4 events | slots, permits, accounting, shutdown |
| `gate` | 3 requests, 2 keys, 2 origin permits, 2 purges | single flight, wakeups, leaks, liveness |
| `tiers` | 2 requests, 2 keys, weights 1 to 3 of 2, 1 purge, 2 agings | accounting, exact purges |
| `purge_promoted` | the same without agings | does a purge by index stick? (no) |
| `bin_work` | 2 threads, 2 keys of different stripes, bins of 2 and 1 cells, 3 operations, 1 restart | space, budget, hits, index, liveness, refinement |
| `bin_deadlock` | the same with one stripe, no restart | does every operation end? (no) |

**Snapshot store.** `CurrentResolves`: the pointer names a loadable snapshot.
`IssuedGenerationsDistinct`: generations issued by this code are never issued
again.
`MigrationResumable`: an interrupted legacy migration can be continued.
`PruneSparesProtected`: no step removes a file of a snapshot that recovery
needs. `CutsRecorded`: a listed snapshot has its parent in the store or the cut
on record, whatever was interrupted, except the victims that an interrupted
prune had chosen and not reached. Four ids with room for three force a prune between creations; two
handles are enough for any pair of operations to meet at the lock, and one
crash for any single interruption point. The proofs cover larger instances.

**Self-healing.** `PersistedInTurn` (memory and file agree), `ServedIsRecorded`
(so do router, record and stored configuration), `ClearedInTurn` (a completed
rollback clears the validation of the candidate it withdrew, with the restored
snapshot running, configured and selected), `NotBeforeExpiry` (no healthy
candidate is rolled back before its recorded expiry) and `FailureKeepsPending`
say what holds when handlers do not overlap; `ValidationResolves` holds with
overlap too. Four requests are a reload, its
confirmation or failure, a second reload and one more; two snapshots give a
candidate and a predecessor; the clock needs two ticks to go from armed to
expired. Time stops at `MaxTime`, and a deadline beyond it is cut to it, so
that every deadline still passes.

**Certificates.** `SettledPairMatches`, `ReadersSeeOnePair`,
`RevokedMeansQuarantined`, `OldPairKept`, `RecoveryCanRun`,
`RevocationSurvivesInterruption`. Five transactions let an install, a
revocation and their retries follow one another; with four faults an install, a
recovery and a revocation can each be interrupted in one behaviour.

**Load balancer.** `CapHolds`, `AdmissionExact` (queue places and retry
charges), `EachMemberOnce`, `QueueDrains` in `lb_fixed`; `CountersExact` in
`lb_edited`. With capacity one and two members, two
requests fill a member, and since members may start drained both can compete
for the single queue place. One retry with a budget of one reaches the refusal,
the refund and the window's end. `lb_edited` has no queue and no retries, which
keeps two requests and an operator's removal, pruning and re-adding within
reach; there the operator also drains, disables and resumes.

**Audit lane.** `SlotsConserved`, `EventsAccounted`, `CreditIsAPlace` (who owns
a slot finds the channel with room) and `ShutdownEndsWriter`. Three callers on two places
meet a full lane; four events refill it after it has drained.

**Fill gate.** `SingleFlight`: of two writers of a key one was overtaken.
`NoLostWakeup`: whoever waits, waits for a request that still owns the permit
whose drop wakes it. `NothingLeaks`: fills, permits, the counter and refresh
marks belong to tasks on their way. `TasksEnd`: every request is answered and
every refresh ends, even if no waiter's own deadline fires. Three requests give
a writer, a successor that overtakes it and a waiter of either; two permits for
up to five tasks meet the budget; two purges hit a fill and its successor.

**Tiers.** `MemoryAccounted`: the byte count is the weight held, indexed keys
are present, and the limit is exceeded only while somebody is about to prune.
`ExactPurgeSticks`: what an exact purge found is not read afterwards. Two
objects of weights up to the limit force pruning, and a weight above it stays
out of memory; an aging takes an object to any later age, so two of them reach
every age for one object, also in two steps, and any pair of ages for two.

**Storage bins.** `CellsPartitioned`: no cell has two owners and none is lost
(but for whole bins after a restart, see below). `BudgetKept`: the sum the
budget is checked against is exact and within the limit. `HitsGenuine`: a
lookup, which holds no lock, returns one whole object of its key, no older than
the one recorded when it began. `DirtyCovers`: what the index lacks is on its
way there. `OperationsFinish`: no thread waits for a stripe forever.
`ImplementsDiskCache`: the refinement. Three operations on three cells make
stores evict, split a free range, reuse cells under a reader and leave a bin
empty at a restart. The instance is encrypted: an object that is not whole does
not decode. Without encryption `body_sha256` is stored and never compared on a
read, so a lookup that races the reuse of its extent can return a mixture; no
document promises otherwise.

### What the violated runs show

Three runs exhibit a behaviour the documentation excludes or no user can want.
Each finding in `PROJECT.json` quotes the document.

- A revocation does not first recover an interrupted install; the install's
  later recovery puts the revoked pair back from its backup
  (`acme_reinstated`).
- A store that must evict while it allocates takes the victim's mutation stripe
  while it holds its own; when both are the same it waits for itself
  (`bin_deadlock`).
- An object promoted from disk is missing from the memory tier's purge index,
  so a purge by prefix, tag, wildcard or scope leaves it servable
  (`purge_promoted`).

The models show more of the kind, without a run of their own. Where a property
is named, it holds because it leaves the case out by a condition of its own,
and does not speak for the case.

- A prune that stops half-way leaves victims whose parents it has deleted and
  whose cuts it did not record (`CutsRecorded` leaves these victims out, and
  only these).
- In a legacy store without `generation.toml`, pruning the newest snapshot
  before the first creation lets that creation reuse its generation
  (`IssuedGenerationsDistinct`; theorem `GenerationsAreNeverReused`).
- Two overlapping handlers copy the recovery state under one lock and write it
  under another; the older copy can be written last (`PersistedInTurn`).
- A failed rollback makes the validation it was decided on pending again. With
  another handler in between, it replaces a newer validation or brings back one
  that was confirmed (`FailureKeepsPending`).
- Two overlapping applications may swap the router in one order and record
  themselves in the other (`ServedIsRecorded`).
- `complete_rollback` clears the validation that is pending when it runs, which
  may be that of a reload that came in meanwhile (`ClearedInTurn`).
- A permit's counter is looked up under a lock and incremented after it. If the
  member is removed and pruned in between, the next request starts another
  counter, and the member serves more than its cap (`CapHolds` in `lb_fixed`;
  theorem `CapHoldsWithoutEdits`).
- A lookup that has read the disk before a purge reaches it can promote its copy
  after the purge has passed the memory tier. The copy stays servable once the
  purge has answered (`ExactPurgeSticks` leaves out objects that were being
  read).
- A lookup whose read failed removes the record its key has by then, a newer and
  readable one included. Its space and bytes are given back
  (`CellsPartitioned`, `BudgetKept`); the object is lost, which a cache may do
  (`DiskCache` allows every drop, so the refinement does not speak for it).
- With a key, a config whose manifest was never published makes every later
  generation scan fail until an operator removes the orphan.
- After a restart a bin without any surviving object, below the last occupied
  one, is neither free nor in use: its space is lost (`from_occupied`; the
  fourth part of `CellsPartitioned` says that nothing less than such a bin is).

### Fairness

- `SelfHealing`: weak fairness of `Tick`, `WatchdogRound` and each worker's
  `Work`. The watchdog is a task with its own interval that is never cancelled
  while the process runs, and a handler that was accepted is polled to its end.
  Nothing is assumed of operators, and failures are bounded in number, as a
  store that fails for ever resolves nothing.
- `LoadBalancer`: weak fairness of `Tick` and of each request's own next step
  (`Advance`). A queued request sleeps on a timer. Members, clients and
  operators owe nothing.
- `FillGate`: weak fairness of each request's steps through lookup, gate and
  wakeup, of each task's steps to the origin and back, and of the end of a
  refresh. The runtime polls what is ready, disk operations return, and
  exchanges with an origin are under timeouts. Waiters' deadlines, purges,
  ageing and cancellation owe nothing.
- `StorageBinCache`: weak fairness of each thread's `Work`. The index worker
  owes nothing: no operation waits for it.
- `AuditDispatch`: weak fairness of `Writer`, a dedicated thread; this includes
  that a call of the sink returns.

## Proofs

All theorems hold for every value of the constants that satisfies the named
assumptions; those only say that `None` is none of the values it stands beside
(processes, keys, journals, records, extents, objects), that bounds are numbers
and, where something is counted or summed, that the set is finite: callers,
requests, keys, and the snapshots of a legacy store, whose greatest generation
the migration takes. Every invariant and every action property a passing run
checks is stated by a theorem, and so is the refinement of `DiskCache`.

**SnapshotStoreProofs.** The pointer's validity is not inductive: a prune
deletes victims it chose long before. `IndInv` adds the lock discipline (a
handle in the middle of an operation holds the lock), which files exist at each
step of a creation, that everything referred to was started, that nothing
refers to an open transaction, and that what a running prune has left to delete
is disjoint from what is protected now. From it: `TypeCorrect`,
`CurrentAlwaysResolves`, and the action property `RetentionSparesProtected`. A
second invariant `GenInv` says that the counter is at least every generation
stored or issued by this code, that an open creation owns the newest one and
that a store without counter has issued none; it gives
`StoredGenerationsAlwaysUnique`, `IssuedGenerationsAlwaysDistinct` and, for a
store that did not start as a legacy one, `GenerationsAreNeverReused`.
`MigrationInv` (no manifest is rewritten before there is a counter, and
metadata exists only of what was started) gives `MigrationAlwaysResumable`:
whatever a crash left of a migration, the next one finds a generation for its
counter. `CutsInv` follows one parent link at a time: a loadable snapshot that
no prune is about to delete, or was when it was interrupted, has its parent in
the store and out of every running prune, or has the cut recorded; it gives
`CutsAlwaysRecorded`, interruptions included.

**SelfHealingProofs.** Types need only what a worker has in its hands at each
step (`Fits`): a claim in a rollback, a candidate between load and record, a
state at a save. The other results are about handlers that do not overlap, as
the properties say themselves (`serial`). Then at most one worker is busy, and
`InTurn` writes memory, the state file, the router and the stored configuration
as a function of that worker's step (`Now`): the claim of a rollback is the
pending validation, the candidate of a validation is what runs, memory and file
agree unless the worker is between changing one and saving it, router and
record agree unless it is between swapping one and recording it. From it
`ValidationIsPersisted` and `ServedSnapshotIsRecorded`, both while no write has
failed, and the action property `FailedRollbackIsRetried`. A second invariant
`TimeInv` relates the deadline to the recorded expiry (`Timely`): outside the
steps that arm it, a deadline is never earlier than the expiry of the pending
validation; between recording a validation and arming its deadline the expiry
is at most what the deadline will be; a watchdog that has seen the deadline pass
decides at or after the expiry; and the pointer names the restored snapshot
when a rollback completes. From it `NoRollbackBeforeExpiry` and, with `InTurn`,
`RollbackClearsItsOwn`. That the types hold (`TypeCorrect`) is proved and in no
run.

**AcmeCertificatesProofs.** Only the holder of the lock is at work (`Holding`),
so `IndInv` relates the files, the two journals and the holder's step, in three
parts: what any crash may leave on disk (`DiskInv`), what readers have in hand
(`ReaderInv`) and what the holder has done so far (`WorkInv`). Numbers of
transactions not yet begun have left nothing anywhere (`Numbered`); a file
under an open revocation is either in its place or in the quarantine
(`Either`); a file an open publication replaces is still in its place or in
its backup (`Recoverable`). From it: `TypeCorrect`, `PairStaysWhole`,
`OldPairNeverLost`, `QuarantineHolds`, `RevocationsSurvive`, `ReadersConsistent`
and `RecoveryIsPossible`, for any number of processes, readers, transactions,
failures and crashes.

**LoadBalancerProofs.** `Shape` says what a request's fields may be at each
step: when it has a counter (`Linked`), when it counts as queued or holds a
reservation (`Phased`), and how sends, attempts and retries left add up
(`Counted`). With it each counter is exact by counting, because a step moves at
most one request in or out of the counted set (`Exchange`, `OneStep`). From the
invariant: `QueueAndBudgetExact` (which states `AdmissionExact`),
`CountersAlwaysExact`, `NoMemberTwice`. These hold while members are edited. `CapHoldsWithoutEdits` assumes `~Editable` and
adds `Fixed`: the pool is whole, a key once mapped keeps its counter, and every
counter in use is its member's. It says when the cap
can be relied on.

**AuditDispatchProofs.** `IndInv` adds to the three balance equations that
events are lost only with the channel and that a live lane neither drains nor
drops. A caller's step moves one caller between step sets, so the tallies
change by one (`Moves`). `LaneAccountsExactly` is the invariant;
`EventsNeverVanish` is its last balance (each event that entered the channel is
queued, being written, complete or lost with the channel),
`CreditIsAlwaysAPlace` follows from slot conservation alone, and
`PendingAlwaysWithinCapacity` from all of it.

**StorageBinCacheProofs.** `IndInv` has seven parts. `Threaded`: what each
thread holds at each step, and that a store keeps its own stripe, with no
record for its key, until it inserts one. `Space`: the cells of the records, of
the threads and of the free map are disjoint and make up the opened bins, but
for whole bins a restart has left out. `Content`: a record's cells hold all of
its object, a writer has written what it no longer has to do, and the number in
a cell never goes back, neither under a reader nor under the index file.
`Indexing`: a record that the index file or the worker's copy lacks is
announced. `Ordered` and `Summed`: the eviction order and the byte count agree
with the records. `Types` is the seventh. `Content` is claimed only with
encryption, because a restart without it may revive a torn object; the rest
holds either way. From it: `TypeCorrect`, `ExtentsNeverOverlap`,
`NoChangeIsForgotten`, `BudgetNeverExceeded` (disjoint extents within
`MaxSize` cells cannot add up to more) and, assuming `Encrypted`,
`HitsAreGenuine` and `BinsImplementDiskCache`: initial states map to initial
states of `DiskCache`, and each step to an offer, a settling or a drop of an
object, a copy or a save of the index, a stop, a restart or a stutter. Sums are the community modules' `SumFunctionOnSet`; what they
do when an element comes or goes is shown by picking a least set for which the
claim would fail (`LeastSet`), since induction principles with an operator
parameter are beyond the provers.

**FillGateProofs.** `SingleFlight` is not inductive: it needs that the fill of a
writer that has not lapsed is in the table (`Registered`), that an aged fill
has lapsed (`AgedLapsed`), that only writers lapse (`LapsedWrite`) and that a
request under way has its key (`UnderWay`). `IndInv` joins these with
`NoLostWakeup` and the parts of `NothingLeaks`, which lean on one another: a
writer's end must find its own fill, and the fill its writer. One lemma says
what the end of a request preserves, wherever it comes; answers, refusals,
failures, deadlines and cancellations all cite it. From `IndInv`: `TypeCorrect`,
`OneWriterPerKey`, `NoWakeupIsLost`, `NothingEverLeaks`, for any number of
requests, keys, permits and purges.

**CacheTiersProofs.** `ExactPurgeAlwaysSticks` rests on where the mark of an
exact purge can be: never on an object in memory, never on one a request
carries, and on the disk copy of a key only between the two halves of a purge
of that key (`MarksInPlace`). A disk read that meets the mark then meets a purge
under way, and its copy is marked as raced instead. The byte count and the
purge index have no part in it, so the invariant types only what carries
objects (`Kept`, `UnderWay`, `PurgeKept`). `MemoryAlwaysAccounted` adds that a
request about to insert an object carries one (`Carried`). `WeightOf` counts
bytes, so that the weights of disjoint sets add up by the theorems on
cardinality; a removal and an insert then change the count by what left and
what came, ageing and marking change no weight, a prune ends within the limit,
and an insert that exceeds it leaves its own request at a prune. `TypeCorrect`
joins the two.

### Only model-checked

Liveness: `ValidationResolves`, `QueueDrains`, `ShutdownEndsWriter`,
`TasksEnd` and `OperationsFinish`, under the fairness above. Fairness speaks of
`ENABLED`, which is beyond the prover. The three runs that expect a violation
show what the code does not satisfy, and no theorem speaks of them.

## Not modelled

Steps that a model joins although the code takes them one after another, none
of which a property tells apart:

- `LoadBalancer`: a selection sees all members at one moment, where the code
  scans them. A scan that meets every member full, each at another moment, is
  left out; the properties of both runs also hold when a selection may find
  nobody at any time. Reading a missing member's count inserts a zero counter,
  which is left out; the prunes of counters, overrides and failures, each under
  its lock, are one step.
- `FillGate`: a request that ends drops its origin permit and then its fill
  permit; `End` is one step.
- `StorageBinCache`: after a removal the release of the extent, the dirty flag
  and the stripe's unlock are one step.
- `CacheTiers`: a request cancelled during a disk read ends at once; the blocking
  read runs on, and could at most remove a dead object. The memory tier is
  enabled.

Left out altogether: parsers, hashing, formatting, permission and path checks, cryptography, metrics
and logs; the distribution selectors achieve; slow start and weights; active
health and discovery; the override tables' capacity and their file; the
snapshot store's export, import and reports; the guard with self-healing
switched off; of the cache, fills from peers, `Vary` variants, ranges and
slices, WebAssembly hooks, the predictor's use counters, the filesystem
backend (whose soft purge rewrites a file without the key's stripe), the gate
with `lock.enabled = false` and the load-balanced twin of the dispatch; a
refresh task that panics (its key stays marked, as the mark is not released by
a destructor); the components listed last in the inventory. Memory is
sequentially consistent in every model: the audit lane and the in-flight
counters work on single words, whose read-modify-write operations are totally
ordered per word. Properties of the audit lane's counters speak of their values
at one moment; `status()` loads them one after the other and may mix moments.

## Plan

In this order; the runs listed above stay, and a new question joins an existing
run of its module where the instances agree.

1. An abstract specification of the guard (serving, pending, restored) that
   serial behaviours of `SelfHealing` implement, and one of the certificate
   directory (absent, one pair, quarantined) that `AcmeCertificates` implements
   between operations, each with its proof from the invariants above.
2. Runtime overrides and their file: bounded tables, background saves, restart.
3. Discovery and active health as further actions on the pool of
   `LoadBalancer`.
4. PHP-FPM connection reuse, the ACME renewal queue, background task
   lifecycle and drain.
