-------------------------- MODULE StorageBinCache ---------------------------
(***************************************************************************)
(* The disk tier of the HTTP cache on its storage-bin backend: request     *)
(* and admin threads that store, look up and purge objects, the free map   *)
(* of the bin files, the mutation lock stripes, and the index worker, with *)
(* crashes and restarts.                                                   *)
(*                                                                         *)
(* Space is counted in cells.  Bins have BinSize cells and MaxSize bounds  *)
(* their sum, so cell c lies in bin c \div BinSize and the last bin may be *)
(* short.  The free ranges of the code are the maximal runs of free cells. *)
(* An object is a number, in the order in which writes begin, and fills    *)
(* its cells part by part; the number kept with an extent is history that  *)
(* no step of the code reads.                                              *)
(*                                                                         *)
(* A critical section of the state mutex or of the free-map mutex is one   *)
(* step; taking a stripe goes with the first section under it and dropping *)
(* it with the last.  Variants and the purge index follow objects.         *)
(***************************************************************************)
EXTENDS Naturals, Sequences, FiniteSets, SequencesExt

CONSTANTS
    Threads,
    Keys,         \* combined keys
    Stripes,      \* mutation_locks
    Stripe,       \* the stripe a key hashes to
    BinSize,      \* bin_size_bytes
    MaxSize,      \* max_bytes, and the layout's max_size_bytes
    Lengths,      \* encoded lengths of objects
    Encrypted,    \* is disk encryption configured?
    None,
    MaxOps,       \* bound: operations begun in a behaviour
    MaxRestarts   \* bound: times the process ends

ASSUME SizesPositive ==
    /\ BinSize \in Nat \ {0} /\ MaxSize \in Nat \ {0}
    /\ Lengths \subseteq Nat \ {0}
ASSUME KeysFinite == IsFiniteSet(Keys)
ASSUME StripeOfEveryKey == Stripe \in [Keys -> Stripes]
ASSUME BoundsNatural == MaxOps \in Nat /\ MaxRestarts \in Nat
ASSUME EncryptedIsBoolean == Encrypted \in BOOLEAN
ASSUME NoneIsNoOther == None \notin Threads /\ None \notin Keys /\ None \notin Nat

VARIABLES
    objects,   \* the extent recorded for a key, or None
    order,     \* eviction_order: keys, the longest untouched first (the
               \* code sorts by SystemTime; its clock does not step here)
    bytes,     \* the sum the budget is checked against
    free,      \* free cells of the opened bins
    nextBin,   \* next_bin_id: the bins below it are opened
    cells,     \* what the bin files hold
    lock,      \* the holder of each stripe
    index,     \* the extents named by the index file
    dirty,     \* is the index worker to write again?
    flush,     \* where the index worker is
    copy,      \* the snapshot it writes
    pc, job,   \* each thread: its step, and what it works on
    up,        \* is the process running?
    offers,    \* history: the key of every object written, in order
    ops, restarts

state == <<objects, order, bytes>>
space == <<free, nextBin>>
worker == <<flush, copy, index>>
bounds == <<ops, restarts, up>>
vars == <<state, space, cells, lock, worker, dirty, pc, job, offers, bounds>>

Cells == 0..(MaxSize - 1)
BinOf(c) == c \div BinSize
BinCells(b) == {c \in Cells : BinOf(c) = b}
Opened == {c \in Cells : BinOf(c) < nextBin}

Extents == [start : Cells, len : Lengths, id : Nat \ {0}]
ASSUME NoneIsNoExtent == None \notin Extents
CellsOf(e) == e.start..(e.start + e.len - 1)
Blank == [id |-> 0, part |-> 0, len |-> 0]
Part(i, p, n) == [id |-> i, part |-> p, len |-> n]

Steps == {"idle", "admit", "pick", "lock", "release", "lockKey", "removeOwn", "releaseOwn",
          "allocate", "write", "persist", "read", "touch"}

(* What a thread works on: its key and length, the extent in its hands,    *)
(* the parts it has yet to write, the key it is removing and the step that *)
(* removal returns to; for a lookup, the objects whose parts it read and,  *)
(* as history, the object recorded when it began.                          *)
Jobs == [key : Keys \cup {None}, len : Nat, extent : Extents \cup {None}, todo : SUBSET Nat,
         victim : Keys \cup {None}, back : {"idle", "admit", "allocate"}, hit : SUBSET Nat, floor : Nat]
NoJob == [key |-> None, len |-> 0, extent |-> None, todo |-> {},
          victim |-> None, back |-> "idle", hit |-> {}, floor |-> 0]

Recorded == {k \in Keys : objects[k] # None}

(* The weight of each record.                                              *)
SizesOf(extents) == [k \in Keys |-> IF extents[k] = None THEN 0 ELSE extents[k].len]

(* Every variable has the type its code declares, and the eviction order   *)
(* names exactly the recorded keys, once each.                             *)
TypeOK ==
    /\ objects \in [Keys -> Extents \cup {None}]
    /\ index \in [Keys -> Extents \cup {None}] /\ copy \in [Keys -> Extents \cup {None}]
    /\ IsInjective(order) /\ ToSet(order) = Recorded
    /\ bytes \in Nat /\ free \subseteq Cells /\ nextBin \in Nat
    /\ cells \in [Cells -> [id : Nat, part : Nat, len : Nat]]
    /\ lock \in [Stripes -> Threads \cup {None}]
    /\ flush \in {"sleep", "snap", "write"} /\ dirty \in BOOLEAN /\ up \in BOOLEAN
    /\ pc \in [Threads -> Steps] /\ job \in [Threads -> Jobs]
    /\ offers \in Seq(Keys) /\ ops \in 0..MaxOps /\ restarts \in 0..MaxRestarts

NoExtents == [k \in Keys |-> None]

Init ==
    /\ objects = NoExtents /\ order = <<>> /\ bytes = 0
    /\ free = {} /\ nextBin = 0 /\ cells = [c \in Cells |-> Blank]
    /\ lock = [s \in Stripes |-> None]
    /\ index = NoExtents /\ copy = NoExtents /\ dirty = TRUE /\ flush = "sleep"
    /\ pc = [t \in Threads |-> "idle"] /\ job = [t \in Threads |-> NoJob]
    /\ up = TRUE /\ offers = <<>> /\ ops = 0 /\ restarts = 0

At(t, step) == up /\ pc[t] = step
Goto(t, step) == pc' = [pc EXCEPT ![t] = step]
Finish(t) == Goto(t, "idle") /\ job' = [job EXCEPT ![t] = NoJob]
Acquire(t, s) == lock[s] = None /\ lock' = [lock EXCEPT ![s] = t]
Unlock(s) == lock' = [lock EXCEPT ![s] = None]

(* A thread begins an operation.                                           *)
Start(t, step, j) ==
    /\ At(t, "idle") /\ ops < MaxOps
    /\ ops' = ops + 1
    /\ Goto(t, step)
    /\ job' = [job EXCEPT ![t] = j]
    /\ UNCHANGED <<state, space, cells, lock, worker, dirty, offers, restarts, up>>
-----------------------------------------------------------------------------
(***************************************************************************)
(* The free map                                                            *)
(***************************************************************************)

(* Where n cells fit in one bin and in the free cells f.                   *)
Fits(n, f) == {c \in f : \A d \in c..(c + n - 1) : d \in f /\ BinOf(d) = BinOf(c)}

(* The bins left once reclaim_free_tail_bins has dropped the last ones,    *)
(* as long as each is free to its last cell.                               *)
MutantReclaimsUsedBins(f) ==
    Min({n \in 0..nextBin : \A b \in n..(nextBin - 1) : BinCells(b) \cap f # {}})
BinsKept(f) ==
    Min({n \in 0..nextBin : \A b \in n..(nextBin - 1) : BinCells(b) \subseteq f})

(* release_storage_bin_location: the extent is free again, and free tail   *)
(* bins are closed, all under the free-map mutex.  Their files are removed *)
(* as well, but that may fail and is then only logged; the cells keep what *)
(* they hold, and reading a file that is gone is one of the errors that    *)
(* any read may meet.                                                      *)
ReleaseExtent(e) ==
    LET freed == free \cup CellsOf(e)
        kept == BinsKept(freed)
    IN  /\ nextBin' = kept
        /\ free' = {c \in freed : BinOf(c) < kept}

(* StorageBinFreeMap::allocate: the first range that is long enough, else  *)
(* the start of a new bin, if the budget has room for one.                 *)
AllocateAt(n, c) ==
    \/ /\ Fits(n, free) # {} /\ c = Min(Fits(n, free))
       /\ free' = free \ (c..(c + n - 1))
       /\ UNCHANGED nextBin
    \/ /\ Fits(n, free) = {} /\ c = nextBin * BinSize
       /\ c \in Fits(n, BinCells(nextBin))
       /\ free' = free \cup (BinCells(nextBin) \ (c..(c + n - 1)))
       /\ nextBin' = nextBin + 1
-----------------------------------------------------------------------------
(***************************************************************************)
(* Removing an object: purge, eviction, and a lookup that cannot use it    *)
(***************************************************************************)

(* purge_primary, an indexed purge and a stale purge call remove_combined  *)
(* for one key after the other; for a key without a record it does nothing.*)
StartRemove(t, k) ==
    /\ objects[k] # None
    /\ Start(t, "lock", [NoJob EXCEPT !.victim = k])

(* state.remove_object, with bytes and the eviction order.                 *)
MutantKeepsBytes(k) ==
    /\ objects' = [objects EXCEPT ![k] = None]
    /\ order' = RemoveFirst(order, k)
    /\ UNCHANGED bytes
RemoveRecord(k) ==
    /\ objects' = [objects EXCEPT ![k] = None]
    /\ order' = RemoveFirst(order, k)
    /\ bytes' = bytes - objects[k].len

(* evict_oldest or remove_combined found nothing to remove; a store that   *)
(* depends on it ends there and drops the stripe it holds.                 *)
MutantGiveUpKeepsStripe(t) == Finish(t) /\ UNCHANGED <<lock, state>>
GiveUp(t) ==
    /\ Finish(t)
    /\ IF job[t].back = "allocate" THEN Unlock(Stripe[job[t].key]) ELSE UNCHANGED lock
    /\ UNCHANGED state

(* evict_oldest reads the oldest key; nothing keeps it from being removed  *)
(* or replaced before the stripe is taken.                                 *)
PickVictim(t) ==
    /\ At(t, "pick")
    /\ \/ order = <<>> /\ GiveUp(t)
       \/ /\ order # <<>>
          /\ job' = [job EXCEPT ![t].victim = Head(order)]
          /\ Goto(t, "lock")
          /\ UNCHANGED <<state, lock>>
    /\ UNCHANGED <<space, cells, worker, dirty, offers, bounds>>

(* remove_combined takes the key's stripe and removes its record.          *)
LockVictim(t) ==
    LET k == job[t].victim IN
    /\ At(t, "lock") /\ lock[Stripe[k]] = None
    /\ \/ objects[k] = None /\ GiveUp(t)
       \/ /\ objects[k] # None
          /\ Acquire(t, Stripe[k])
          /\ RemoveRecord(k)
          /\ job' = [job EXCEPT ![t].extent = objects[k]]
          /\ Goto(t, "release")
    /\ UNCHANGED <<space, cells, worker, dirty, offers, bounds>>

(* remove_location, persist_storage_bin_index, and the stripe is dropped.  *)
(* The three are one step: until the flag is set the index on disk is as   *)
(* old as before the removal, and until the stripe is dropped nobody else  *)
(* works on the key.                                                       *)
Release(t) ==
    /\ At(t, "release")
    /\ ReleaseExtent(job[t].extent)
    /\ dirty' = TRUE
    /\ Unlock(Stripe[job[t].victim])
    /\ \/ job[t].back = "idle" /\ Finish(t)
       \/ /\ job[t].back # "idle"
          /\ job' = [job EXCEPT ![t].extent = None, ![t].victim = None, ![t].back = "idle"]
          /\ Goto(t, job[t].back)
    /\ UNCHANGED <<state, cells, worker, offers, bounds>>
-----------------------------------------------------------------------------
(***************************************************************************)
(* Storing an object                                                       *)
(***************************************************************************)

(* An object longer than the whole budget is refused at once.              *)
StartStore(t, k, n) ==
    /\ n <= MaxSize
    /\ Start(t, "admit", [NoJob EXCEPT !.key = k, !.len = n])

(* key_admissible: with the key's old object out, is there budget?         *)
Admissible(k, n) ==
    bytes - (IF objects[k] = None THEN 0 ELSE objects[k].len) + n <= MaxSize

(* One turn of evict_until_admissible.  (It marks the index dirty once     *)
(* more after evicting; the removals already did.)                         *)
Admit(t) ==
    /\ At(t, "admit")
    /\ \/ /\ Admissible(job[t].key, job[t].len)
          /\ Goto(t, "lockKey") /\ UNCHANGED job
       \/ /\ ~Admissible(job[t].key, job[t].len)
          /\ job' = [job EXCEPT ![t].back = "admit"]
          /\ Goto(t, "pick")
    /\ UNCHANGED <<state, space, cells, lock, worker, dirty, offers, bounds>>

(* lock_key_mutation and the second key_admissible; if the budget is gone, *)
(* the stripe is dropped and admission starts over.                        *)
LockKey(t) ==
    LET k == job[t].key IN
    /\ At(t, "lockKey") /\ lock[Stripe[k]] = None
    /\ \/ Admissible(k, job[t].len) /\ Acquire(t, Stripe[k]) /\ Goto(t, "removeOwn")
       \/ ~Admissible(k, job[t].len) /\ Goto(t, "admit") /\ UNCHANGED lock
    /\ UNCHANGED <<state, space, cells, worker, dirty, job, offers, bounds>>

(* remove_combined_locked for the key itself, in two critical sections.    *)
RemoveOwn(t) ==
    LET k == job[t].key IN
    /\ At(t, "removeOwn")
    /\ \/ objects[k] = None /\ Goto(t, "allocate") /\ UNCHANGED <<state, job>>
       \/ /\ objects[k] # None
          /\ RemoveRecord(k)
          /\ job' = [job EXCEPT ![t].extent = objects[k]]
          /\ Goto(t, "releaseOwn")
    /\ UNCHANGED <<space, cells, lock, worker, dirty, offers, bounds>>

ReleaseOwn(t) ==
    /\ At(t, "releaseOwn")
    /\ ReleaseExtent(job[t].extent)
    /\ dirty' = TRUE
    /\ job' = [job EXCEPT ![t].extent = None]
    /\ Goto(t, "allocate")
    /\ UNCHANGED <<state, cells, lock, worker, offers, bounds>>

(* One turn of allocate_storage_bin_location, with the key's stripe held:  *)
(* space for the object, or a victim has to go.                            *)
Allocate(t) ==
    LET n == job[t].len IN
    /\ At(t, "allocate")
    /\ \/ \E c \in Cells :
             /\ AllocateAt(n, c)
             /\ offers' = Append(offers, job[t].key)
             /\ job' = [job EXCEPT ![t].extent = [start |-> c, len |-> n, id |-> Len(offers')],
                                   ![t].todo = 0..(n - 1)]
             /\ Goto(t, "write")
       \/ /\ Fits(n, free) = {} /\ Fits(n, BinCells(nextBin)) \cap {nextBin * BinSize} = {}
          /\ job' = [job EXCEPT ![t].back = "allocate"]
          /\ Goto(t, "pick")
          /\ UNCHANGED <<space, offers>>
    /\ UNCHANGED <<state, cells, lock, worker, dirty, bounds>>

(* write_object fills the extent; the parts reach the file, and what       *)
(* survives a crash, in no particular order.                               *)
WritePart(t) ==
    LET e == job[t].extent IN
    /\ At(t, "write")
    /\ \E p \in job[t].todo :
          /\ cells' = [cells EXCEPT ![e.start + p] = Part(e.id, p, e.len)]
          /\ job' = [job EXCEPT ![t].todo = @ \ {p}]
    /\ UNCHANGED <<state, space, lock, worker, dirty, pc, offers, bounds>>

(* Opening, creating, writing or syncing the bin fails: the extent is      *)
(* released and the store returns the error.                               *)
WriteFails(t) ==
    /\ At(t, "write")
    /\ ReleaseExtent(job[t].extent)
    /\ Unlock(Stripe[job[t].key])
    /\ Finish(t)
    /\ UNCHANGED <<state, cells, worker, dirty, offers, bounds>>

(* The object is written and synced: it is recorded, youngest in the       *)
(* eviction order, and the stripe is dropped.                              *)
MutantInsertsUnwritten(t) ==
    LET k == job[t].key IN
    /\ At(t, "write")
    /\ objects' = [objects EXCEPT ![k] = job[t].extent]
    /\ order' = Append(RemoveFirst(order, k), k)
    /\ bytes' = bytes + job[t].len
    /\ Unlock(Stripe[k])
    /\ Goto(t, "persist")
    /\ UNCHANGED <<space, cells, worker, dirty, job, offers, bounds>>
Insert(t) ==
    LET k == job[t].key IN
    /\ At(t, "write") /\ job[t].todo = {}
    /\ objects' = [objects EXCEPT ![k] = job[t].extent]
    /\ order' = Append(RemoveFirst(order, k), k)
    /\ bytes' = bytes + job[t].len
    /\ Unlock(Stripe[k])
    /\ Goto(t, "persist")
    /\ UNCHANGED <<space, cells, worker, dirty, job, offers, bounds>>

(* persist_storage_bin_index after the stripe is gone.                     *)
Persist(t) ==
    /\ At(t, "persist")
    /\ dirty' = TRUE
    /\ Finish(t)
    /\ UNCHANGED <<state, space, cells, lock, worker, offers, bounds>>
-----------------------------------------------------------------------------
(***************************************************************************)
(* Looking an object up                                                    *)
(***************************************************************************)

(* get_combined clones the record and lets go of the state mutex; from     *)
(* here on nothing protects the extent it names.                           *)
StartGet(t, k) ==
    /\ objects[k] # None
    /\ Start(t, "read", [NoJob EXCEPT !.key = k, !.extent = objects[k], !.floor = objects[k].id])

(* What an extent reads as: the object its head names, if decoding accepts *)
(* it.  Decryption authenticates the whole object.  Without encryption the *)
(* head's lengths must add up to the extent's, and the body is taken as    *)
(* it is (body_sha256 is passed on, never compared).                       *)
ReadsAs(e, i) ==
    /\ cells[e.start] = Part(i, 0, e.len)
    /\ Encrypted => \A p \in 0..(e.len - 1) : cells[e.start + p] = Part(i, p, e.len)

(* read_record: a hit with the requested key, or an error, a foreign key   *)
(* or an object past its stale windows; then the key's record goes, even   *)
(* if it is no longer the one that was read.                               *)
Read(t) ==
    LET e == job[t].extent
        k == job[t].key
    IN  /\ At(t, "read")
        /\ \/ /\ \E i \in DOMAIN offers : ReadsAs(e, i) /\ offers[i] = k
              /\ job' = [job EXCEPT ![t].hit = {cells[c].id : c \in CellsOf(e)}]
              /\ Goto(t, "touch")
           \/ /\ job' = [job EXCEPT ![t] = [NoJob EXCEPT !.victim = k]]
              /\ Goto(t, "lock")
        /\ UNCHANGED <<state, space, cells, lock, worker, dirty, offers, bounds>>

(* touch_object, if the key is still recorded, and the hit is returned.    *)
MutantTouchAppends(t) ==
    LET k == job[t].key IN
    /\ At(t, "touch")
    /\ order' = IF objects[k] = None THEN order ELSE Append(order, k)
    /\ dirty' = TRUE
    /\ Finish(t)
    /\ UNCHANGED <<objects, bytes, space, cells, lock, worker, offers, bounds>>
Touch(t) ==
    LET k == job[t].key IN
    /\ At(t, "touch")
    /\ order' = IF objects[k] = None THEN order ELSE Append(RemoveFirst(order, k), k)
    /\ dirty' = TRUE
    /\ Finish(t)
    /\ UNCHANGED <<objects, bytes, space, cells, lock, worker, offers, bounds>>
-----------------------------------------------------------------------------
(***************************************************************************)
(* The index file, the end of the process, and a restart                   *)
(***************************************************************************)

(* NativeStorageBinIndexTask::flush claims the dirty flag ...              *)
FlushClaim ==
    /\ up /\ flush = "sleep" /\ dirty
    /\ dirty' = FALSE /\ flush' = "snap"
    /\ UNCHANGED <<state, space, cells, lock, copy, index, pc, job, offers, bounds>>

(* ... then copies the records under the state mutex ...                   *)
FlushSnapshot ==
    /\ up /\ flush = "snap"
    /\ copy' = objects /\ flush' = "write"
    /\ UNCHANGED <<state, space, cells, lock, index, dirty, pc, job, offers, bounds>>

(* ... and replaces the index file.  An error may come before or after the *)
(* rename, and makes the index dirty again.                                *)
MutantClearsAfterWriting ==
    /\ up /\ flush = "write"
    /\ flush' = "sleep" /\ copy' = NoExtents
    /\ \/ index' = copy /\ dirty' = FALSE
       \/ index' \in {copy, index} /\ dirty' = TRUE
    /\ UNCHANGED <<state, space, cells, lock, pc, job, offers, bounds>>
FlushWrite ==
    /\ up /\ flush = "write"
    /\ flush' = "sleep" /\ copy' = NoExtents
    /\ \/ index' = copy /\ UNCHANGED dirty
       \/ index' \in {copy, index} /\ dirty' = TRUE
    /\ UNCHANGED <<state, space, cells, lock, pc, job, offers, bounds>>

(* The process is gone, and with it everything but the files.              *)
ProcessEnds ==
    /\ up /\ restarts < MaxRestarts
    /\ up' = FALSE /\ restarts' = restarts + 1
    /\ objects' = NoExtents /\ order' = <<>> /\ bytes' = 0
    /\ free' = {} /\ nextBin' = 0
    /\ lock' = [s \in Stripes |-> None]
    /\ dirty' = FALSE /\ flush' = "sleep" /\ copy' = NoExtents
    /\ pc' = [t \in Threads |-> "idle"] /\ job' = [t \in Threads |-> NoJob]
    /\ UNCHANGED <<cells, offers, ops>>

Crash == ProcessEnds /\ UNCHANGED index

(* NativeStorageBinIndexFlush is dropped with the last user of the cache;  *)
(* its forced flush may fail.                                              *)
Shutdown ==
    /\ \A t \in Threads : pc[t] = "idle"
    /\ flush = "sleep"
    /\ ProcessEnds
    /\ index' \in {objects, index}

(* from_config: of the indexed objects that still decode, under the key    *)
(* the index names, those within their stale windows are recorded.  Times  *)
(* are kept in seconds, so their order is open.                            *)
MutantSurvivorsUnchecked ==
    {k \in Keys : index[k] # None /\ \E i \in DOMAIN offers : ReadsAs(index[k], i)}
Survivors == {k \in Keys : /\ index[k] # None
                           /\ \E i \in DOMAIN offers : ReadsAs(index[k], i) /\ offers[i] = k}
Revived(k) == [index[k] EXCEPT !.id = cells[index[k].start].id]

(* StorageBinFreeMap::from_occupied: the gaps between the objects of each  *)
(* bin that has any, up to the last such bin.  Overlapping objects are an  *)
(* error, and the cache starts with neither records nor bins.              *)
Overlapping(K) == \E k, j \in K : k # j /\ CellsOf(index[k]) \cap CellsOf(index[j]) # {}

FromOccupied(K) ==
    LET held == UNION {CellsOf(index[k]) : k \in K}
        used == {BinOf(c) : c \in held}
    IN  /\ nextBin' = IF used = {} THEN 0 ELSE Max(used) + 1
        /\ free' = {c \in Cells : BinOf(c) \in used} \ held

Restart ==
    /\ ~up
    /\ up' = TRUE /\ dirty' = TRUE
    /\ \E K \in SUBSET Survivors : \E young \in Injection(1..Cardinality(K), K) :
          IF Overlapping(K)
          THEN UNCHANGED <<state, space>>
          ELSE /\ objects' = [k \in Keys |-> IF k \in K THEN Revived(k) ELSE None]
               /\ order' = young
               /\ bytes' = SumFunctionOnSet(SizesOf(index), K)
               /\ FromOccupied(K)
    /\ UNCHANGED <<cells, lock, worker, pc, job, offers, ops, restarts>>
-----------------------------------------------------------------------------
Work(t) ==
    \/ PickVictim(t) \/ LockVictim(t) \/ Release(t)
    \/ Admit(t) \/ LockKey(t) \/ RemoveOwn(t) \/ ReleaseOwn(t) \/ Allocate(t)
    \/ WritePart(t) \/ WriteFails(t) \/ Insert(t) \/ Persist(t)
    \/ Read(t) \/ Touch(t)

Next ==
    \/ \E t \in Threads : \E k \in Keys :
          \/ StartRemove(t, k) \/ StartGet(t, k)
          \/ \E n \in Lengths : StartStore(t, k, n)
    \/ \E t \in Threads : Work(t)
    \/ FlushClaim \/ FlushSnapshot \/ FlushWrite
    \/ Crash \/ Shutdown \/ Restart

Spec == Init /\ [][Next]_vars

(* A thread that can go on does: the operating system runs every thread.   *)
FairSpec == Spec /\ \A t \in Threads : WF_vars(Work(t))
-----------------------------------------------------------------------------
(***************************************************************************)
(* Properties                                                              *)
(***************************************************************************)

(* The extents in use: recorded ones, and those a thread has taken out of  *)
(* the records or out of the free map and not given back.                  *)
InHand(t) == pc[t] \in {"release", "releaseOwn", "write"}
Uses == {<<"object", k>> : k \in Recorded} \cup {<<"thread", t>> : t \in {u \in Threads : InHand(u)}}
ExtentOf(u) == IF u[1] = "object" THEN objects[u[2]] ELSE job[u[2]].extent

(* No cell of a bin belongs to two uses, or to a use and to the free map,  *)
(* and every extent in use lies in opened bins, although records are read, *)
(* removed and released in separate critical sections.  No space is lost   *)
(* either, but for whole bins that held no surviving object at a restart   *)
(* (from_occupied): the allocator never gets those back.                   *)
CellsPartitioned ==
    LET used == UNION {CellsOf(ExtentOf(u)) : u \in Uses} IN
    /\ \A u, v \in Uses : u # v => CellsOf(ExtentOf(u)) \cap CellsOf(ExtentOf(v)) = {}
    /\ used \subseteq Opened \ free /\ free \subseteq Opened
    /\ \A n \in 0..(nextBin - 1) :
          \/ BinCells(n) \subseteq free \cup used
          \/ restarts > 0 /\ BinCells(n) \cap (free \cup used) = {}

(* The sum the budget is checked against is exact and within max_bytes,    *)
(* although a store checks it in one critical section and adds to it in    *)
(* another, while stores of other keys do the same.                        *)
BudgetKept ==
    /\ bytes = SumFunctionOnSet(SizesOf(objects), Recorded)
    /\ bytes <= MaxSize

(* A lookup returns one whole object, written for its key and no older     *)
(* than the one recorded when it began, although it reads the bin without  *)
(* any lock while extents are released, reused and rewritten.              *)
HitsGenuine ==
    \A t \in Threads : pc[t] = "touch" =>
        \E i \in DOMAIN offers :
            job[t].hit = {i} /\ offers[i] = job[t].key /\ i >= job[t].floor

(* Whatever the index file lacks is still on its way there: the dirty flag *)
(* is set, or the worker has yet to copy or to write it, or the thread     *)
(* that changed the record has yet to set the flag.                        *)
DirtyCovers ==
    up => \A k \in Keys : objects[k] # index[k] =>
        \/ dirty \/ flush = "snap"
        \/ flush = "write" /\ copy[k] = objects[k]
        \/ \E t \in Threads :
              \/ pc[t] = "release" /\ job[t].victim = k
              \/ pc[t] \in {"releaseOwn", "persist"} /\ job[t].key = k

(* Every store, lookup and purge comes to its end: no thread waits forever *)
(* for a stripe, and no store evicts and retries without end.  (MaxOps     *)
(* operations begin at most, so all of them have finished once no thread   *)
(* is busy.)                                                               *)
OperationsFinish == []<>(\A t \in Threads : pc[t] = "idle")

(* The contents, as the bin files really hold them, behave as DiskCache    *)
(* says: the extent recorded for a key always reads as a whole object      *)
(* written for that key, records only change by the steps it allows, and   *)
(* a restart revives nothing older than the index file.                    *)
Contents == [k \in Keys |->
    IF objects[k] = None THEN None
    ELSE IF \A p \in 0..(objects[k].len - 1) :
                cells[objects[k].start + p] = Part(objects[k].id, p, objects[k].len)
         THEN objects[k].id ELSE 0]
Ids(extents) == [k \in Keys |-> IF extents[k] = None THEN None ELSE extents[k].id]
Disk == INSTANCE DiskCache WITH contents <- Contents, copy <- Ids(copy), saved <- Ids(index)
ImplementsDiskCache == Disk!Spec
=============================================================================
