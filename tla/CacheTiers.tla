----------------------------- MODULE CacheTiers -----------------------------
(***************************************************************************)
(* The two tiers of the HTTP proxy cache as requests and purges use them:  *)
(* lookup in memory, then on disk with promotion of a hit; storing what    *)
(* the origin answered in memory, then on disk; pruning memory to its      *)
(* budget; refreshing a stale object that was served; and purges by an     *)
(* administrator, memory first and disk second.                            *)
(*                                                                         *)
(* NativeMemoryCacheState is behind one mutex, so a section under it is    *)
(* one step.  What lies between two sections - a blocking disk read or     *)
(* write, the exchange with the origin - is a point where others run.  The *)
(* disk tier is the one DiskCache describes: a read or a write takes       *)
(* effect at once, a write may fail or be skipped, and may evict others.   *)
(*                                                                         *)
(* Who may go to the origin, and who waits, is FillGate's matter; here     *)
(* every miss goes, as with lock.enabled = false.  Weights stand for       *)
(* bytes, ages for the comparison of the clock with an object's expiry     *)
(* times.  Every object has a validator; Vary, ranges and peers are left   *)
(* out.                                                                    *)
(***************************************************************************)
EXTENDS Integers, FiniteSets

CONSTANTS
    Requests,   \* each runs once
    Keys,
    Weights,    \* what a response or an object on disk may weigh
    MaxObject,  \* bounds the weights
    MaxBytes,   \* memory.max_size_bytes
    MaxPurges,  \* bounds the purges
    MaxAgings,  \* bounds the passing of time
    None

PurgeKinds == {"exact", "indexed", "soft", "expired"}

ASSUME TiersAssumption ==
    /\ MaxBytes \in Nat /\ MaxPurges \in Nat /\ MaxAgings \in Nat
    /\ MaxObject \in Nat /\ Weights \subseteq 1..MaxObject
    /\ None \notin Keys \cup [kind : PurgeKinds, key : Keys]

ASSUME KeysFinite == IsFiniteSet(Keys)

VARIABLES
    objects, indexed, bytes,  \* memory: objects, purge_index, bytes
    disk,                     \* the objects on disk
    pc, wants, seek, copy,    \* a request: its place, its key, what it looks
                              \* for, the object it carries
    failed,                   \* the requests whose lookup met a disk error
    refreshing,               \* the requests that go on as a refresh task
    purge, purges, agings,    \* the purge between its two tiers; counts
    resurfaced                \* history: the kinds of purge whose objects
                              \* were read later

memory == <<objects, indexed, bytes>>
requests == <<pc, wants, seek, copy, failed, refreshing>>
admin == <<purge, purges>>
vars == <<objects, indexed, bytes, disk, pc, wants, seek, copy, failed,
          refreshing, purge, purges, agings, resurfaced>>

-----------------------------------------------------------------------------
(* Objects.                                                                *)

(* fresh; expired but servable while it is refreshed; expired but servable *)
(* when the origin fails; of no further use.                               *)
Ages == {"fresh", "updating", "stale", "dead"}

(* What an object of that age turns into with time; a window may be zero.  *)
Older(age) == CASE age = "fresh" -> {"updating", "stale", "dead"}
                [] age = "updating" -> {"stale", "dead"}
                [] OTHER -> {"dead"}

(* mark tells which purge an object should have gone with, or that a       *)
(* request was reading it while the purge ran.                             *)
Objects == [age : Ages, weight : Weights,
            mark : {"none", "exact", "indexed", "raced"}]

ASSUME NoneIsNoObject == None \notin Objects

NewObject(w) == [age |-> "fresh", weight |-> w, mark |-> "none"]

(* Memory takes no object that outweighs its whole budget; on disk there   *)
(* may be such objects, stored when the budget was larger.                 *)
FitsMemory(c) == c.weight <= MaxBytes

InMemory == {k \in Keys : objects[k] # None}

(* The sum of the weights of the objects of ks: their bytes, counted.      *)
WeightOf(ks) ==
    Cardinality({b \in ks \X (1..MaxObject) : b[2] <= objects[b[1]].weight})

(* remove_native_memory_cache_entry, with the weight its callers subtract. *)
ForgetObjects(ks) ==
    /\ objects' = [k \in Keys |-> IF k \in ks THEN None ELSE objects[k]]
    /\ indexed' = indexed \ ks
    /\ bytes' = bytes - WeightOf(ks \cap InMemory)

(* An object enters memory in the place of the one the key had.            *)
MutantInsertOnTop(k, c) ==
    /\ objects' = [objects EXCEPT ![k] = c]
    /\ bytes' = bytes + c.weight
Insert(k, c) ==
    /\ objects' = [objects EXCEPT ![k] = c]
    /\ bytes' = bytes - WeightOf({k} \cap InMemory) + c.weight

Purging(k) == purge # None /\ purge.key = k

(* A request meets c, an object of k, and serves it or takes it along.     *)
Meet(k, c) ==
    resurfaced' = IF Purging(k) THEN resurfaced
                  ELSE resurfaced \cup ({c.mark} \cap {"exact", "indexed"})

Take(r, k, c) ==
    /\ Meet(k, c)
    /\ copy' = [copy EXCEPT ![r] =
                    IF Purging(k) THEN [c EXCEPT !.mark = "raced"] ELSE c]

-----------------------------------------------------------------------------
(* A request.                                                              *)

Goto(r, place) ==
    pc' = [pc EXCEPT ![r] = place] /\ UNCHANGED <<wants, refreshing>>

(* The request is over, and so is the refresh it may have become.          *)
End(r) ==
    /\ pc' = [pc EXCEPT ![r] = "done"]
    /\ wants' = [wants EXCEPT ![r] = None]
    /\ seek' = [seek EXCEPT ![r] = "fresh"]
    /\ copy' = [copy EXCEPT ![r] = None]
    /\ failed' = failed \ {r}
    /\ refreshing' = refreshing \ {r}

(* A request that wants the cache refreshed skips the lookup.              *)
Arrive(r, k) ==
    /\ pc[r] = "idle"
    /\ wants' = [wants EXCEPT ![r] = k]
    /\ \E place \in {"memory", "fetch"} : pc' = [pc EXCEPT ![r] = place]
    /\ UNCHANGED <<memory, disk, seek, copy, failed, refreshing, admin, agings,
                   resurfaced>>

(* A lookup has three passes, each through memory and then disk: for a     *)
(* fresh object, for one to serve while it is refreshed, for one to        *)
(* revalidate.  After a failed fetch another looks for one to serve        *)
(* nevertheless.                                                           *)
Suits(c, want) ==
    /\ c # None
    /\ c.age \in CASE want = "fresh" -> {"fresh"}
                   [] want = "updating" -> {"updating"}
                   [] want = "revalidate" -> Ages \ {"fresh"}
                   [] want = "error" -> {"updating", "stale"}

(* The pass found c.  A stale object that is served has its refresh        *)
(* spawned, one per key at a time; the request goes on as that task.       *)
Found(r, c) ==
    LET k == wants[r]
        fetch == CASE seek[r] = "updating" ->
                        \A q \in refreshing : wants[q] # k
                   [] seek[r] = "revalidate" -> TRUE
                   [] OTHER -> FALSE
    IN  IF fetch
        THEN /\ Take(r, k, c)
             /\ pc' = [pc EXCEPT ![r] = "fetch"]
             /\ refreshing' = IF seek[r] = "updating" THEN refreshing \cup {r}
                                                      ELSE refreshing
             /\ failed' = failed \ {r}
             /\ seek' = [seek EXCEPT ![r] = "fresh"]
             /\ UNCHANGED wants
        ELSE Meet(k, c) /\ End(r)

(* The request carries a storable response of the origin.                  *)
Answered(r) ==
    \E w \in Weights : /\ FitsMemory(NewObject(w))
                       /\ copy' = [copy EXCEPT ![r] = NewObject(w)]

(* The pass found nothing; bad tells whether the disk could not be asked.  *)
(* An error in any pass makes the miss of a lookup a 503.  After a failed  *)
(* fetch the client gets the error, which is stored if the origin sent it  *)
(* and its status may be cached.                                           *)
Missing(r, bad) ==
    LET on(place, want) == /\ Goto(r, place)
                           /\ seek' = [seek EXCEPT ![r] = want]
                           /\ failed' = IF bad THEN failed \cup {r} ELSE failed
                           /\ UNCHANGED copy
    IN  CASE seek[r] = "fresh" -> on("memory", "updating")
          [] seek[r] = "updating" -> on("memory", "revalidate")
          [] seek[r] = "revalidate" /\ ~bad /\ r \notin failed ->
               on("fetch", "fresh")
          [] seek[r] = "error" ->
               \/ End(r)
               \/ /\ Answered(r) /\ Goto(r, "store")
                  /\ seek' = [seek EXCEPT ![r] = "fresh"] /\ UNCHANGED failed
          [] OTHER -> End(r)

(* A dead object is removed by the pass for a fresh one that meets it, and *)
(* by the one after a failed fetch.                                        *)
MemoryLook(r) ==
    LET k == wants[r]  c == objects[k] IN
    /\ pc[r] = "memory"
    /\ IF Suits(c, seek[r])
       THEN Found(r, c) /\ UNCHANGED memory
       ELSE /\ Goto(r, "disk")
            /\ IF c # None /\ c.age = "dead" /\ seek[r] \in {"fresh", "error"}
               THEN ForgetObjects({k}) ELSE UNCHANGED memory
            /\ UNCHANGED <<seek, copy, failed, resurfaced>>
    /\ UNCHANGED <<disk, admin, agings>>

(* The blocking pool is full, or its worker failed.                        *)
DiskRefuses(r) ==
    /\ pc[r] = "disk"
    /\ Missing(r, TRUE)
    /\ UNCHANGED <<memory, disk, admin, agings, resurfaced>>

(* A dead object is removed by the read that meets it.                     *)
DiskLook(r) ==
    LET k == wants[r]
        c == IF disk[k] # None /\ disk[k].age = "dead" THEN None ELSE disk[k]
    IN  /\ pc[r] = "disk"
        /\ disk' = [disk EXCEPT ![k] = c]
        /\ CASE ~Suits(c, seek[r]) -> Missing(r, FALSE) /\ UNCHANGED resurfaced
             [] Suits(c, seek[r]) /\ seek[r] # "fresh" -> Found(r, c)
             [] OTHER -> /\ Take(r, k, c) /\ Goto(r, "promote")
                         /\ failed' = failed \ {r}
                         /\ UNCHANGED seek
        /\ UNCHANGED <<memory, admin, agings>>

(* promote_disk_entry: a fresh object read from disk enters memory, if it  *)
(* fits, but not the purge index.                                          *)
PromoteSkips(r) ==
    /\ pc[r] = "promote" /\ ~FitsMemory(copy[r])
    /\ End(r)
    /\ UNCHANGED <<memory, disk, admin, agings, resurfaced>>

Promote(r) ==
    /\ pc[r] = "promote" /\ FitsMemory(copy[r])
    /\ Insert(wants[r], copy[r])
    /\ UNCHANGED indexed
    /\ IF bytes' > MaxBytes
       THEN /\ Goto(r, "trim") /\ copy' = [copy EXCEPT ![r] = None]
            /\ UNCHANGED <<seek, failed>>
       ELSE End(r)
    /\ UNCHANGED <<disk, admin, agings, resurfaced>>

-----------------------------------------------------------------------------
(* The exchange with the origin, and storing what it answered.             *)

(* A storable response, or a 304 that makes the object carried fresh.      *)
FetchSucceeds(r) ==
    /\ pc[r] = "fetch"
    /\ \/ Answered(r)
       \/ /\ copy[r] # None /\ FitsMemory(copy[r])
          /\ copy' = [copy EXCEPT ![r].age = "fresh"]
    /\ Goto(r, "store")
    /\ UNCHANGED <<memory, disk, seek, failed, admin, agings, resurfaced>>

(* A response the admission rules keep out of the cache, one too large for *)
(* memory among them.                                                      *)
FetchUncacheable(r) ==
    /\ pc[r] = "fetch"
    /\ End(r)
    /\ UNCHANGED <<memory, disk, admin, agings, resurfaced>>

(* No answer, or an error: a request looks for a stale object to serve, a  *)
(* refresh gives up.                                                       *)
FetchFails(r) ==
    /\ pc[r] = "fetch"
    /\ IF r \in refreshing
       THEN End(r)
       ELSE /\ Goto(r, "memory")
            /\ seek' = [seek EXCEPT ![r] = "error"]
            /\ copy' = [copy EXCEPT ![r] = None]
            /\ UNCHANGED failed
    /\ UNCHANGED <<memory, disk, admin, agings, resurfaced>>

StoreInMemory(r) ==
    /\ pc[r] = "store"
    /\ Insert(wants[r], copy[r])
    /\ indexed' = indexed \cup {wants[r]}
    /\ Goto(r, IF bytes' > MaxBytes THEN "prune" ELSE "write")
    /\ UNCHANGED <<disk, seek, copy, failed, admin, agings, resurfaced>>

(* What a prune removes: the dead and then, while the rest weighs too      *)
(* much, the oldest.  The times of storing are not kept here: any object   *)
(* may be the oldest.                                                      *)
Prunable ==
    LET dead == {k \in InMemory : objects[k].age = "dead"}
        tooMuch(out) == WeightOf((InMemory \ dead) \ out) > MaxBytes
    IN  {dead \cup out : out \in
            {o \in SUBSET (InMemory \ dead) :
                ~tooMuch(o) /\ (o # {} => \E k \in o : tooMuch(o \ {k}))}}

PruneMemory(r) ==
    /\ pc[r] \in {"prune", "trim"}
    /\ \E out \in Prunable : ForgetObjects(out)
    /\ IF pc[r] = "prune"
       THEN Goto(r, "write") /\ UNCHANGED <<seek, copy, failed>>
       ELSE End(r)
    /\ UNCHANGED <<disk, admin, agings, resurfaced>>

(* The disk write stores the object, is skipped, or fails and loses the    *)
(* one it was to replace; it may evict others.                             *)
WriteDisk(r) ==
    LET k == wants[r] IN
    /\ pc[r] \in {"write", "late"}
    /\ \E now \in {copy[r], disk[k], None}, evicted \in SUBSET (Keys \ {k}) :
           disk' = [j \in Keys |-> CASE j = k -> now
                                     [] j \in evicted -> None
                                     [] OTHER -> disk[j]]
    /\ End(r)
    /\ UNCHANGED <<memory, admin, agings, resurfaced>>

(* The handler of an HTTP/2 stream is dropped at its deadline, wherever it *)
(* awaits something.  A blocking disk write that has begun runs on, as     *)
(* does a blocking read: all that is left to the read is to remove a dead  *)
(* object, which no other read would return.                               *)
Cancel(r) ==
    /\ pc[r] \in {"disk", "fetch", "write"} /\ r \notin refreshing
    /\ IF pc[r] = "write"
       THEN Goto(r, "late") /\ UNCHANGED <<seek, copy, failed>>
       ELSE End(r)
    /\ UNCHANGED <<memory, disk, admin, agings, resurfaced>>

-----------------------------------------------------------------------------
(* Time.  The two copies of an object need not expire together: they may   *)
(* stem from different fetches, and the disk keeps whole seconds.          *)

ObjectAges(k) ==
    /\ agings < MaxAgings
    /\ agings' = agings + 1
    /\ \/ /\ objects[k] # None /\ objects[k].age # "dead"
          /\ \E age \in Older(objects[k].age) :
                 objects' = [objects EXCEPT ![k].age = age]
          /\ UNCHANGED disk
       \/ /\ disk[k] # None /\ disk[k].age # "dead"
          /\ \E age \in Older(disk[k].age) :
                 disk' = [disk EXCEPT ![k].age = age]
          /\ UNCHANGED objects
    /\ UNCHANGED <<indexed, bytes, requests, admin, resurfaced>>

-----------------------------------------------------------------------------
(* A purge: memory first, then disk.                                       *)

Marks(kind) == kind \in {"exact", "indexed"}

Marked(kind, c) ==
    IF c # None /\ Marks(kind) THEN [c EXCEPT !.mark = kind] ELSE c

(* An exact purge goes by the key, the others by the purge index.          *)
MutantReachesIndexed(kind, k) == objects[k] # None /\ k \in indexed
PurgeReaches(kind, k) == objects[k] # None /\ (kind = "exact" \/ k \in indexed)

PurgeMemory(kind, k) ==
    /\ purge = None /\ purges < MaxPurges
    /\ purge' = [kind |-> kind, key |-> k]
    /\ purges' = purges + 1
    /\ LET expired == objects[k] # None /\ objects[k].age # "fresh" IN
       IF PurgeReaches(kind, k) /\ kind # "soft" /\ (kind = "expired" => expired)
       THEN ForgetObjects({k})
       ELSE /\ objects' = IF kind = "soft" /\ PurgeReaches(kind, k) /\ ~expired
                          THEN [objects EXCEPT ![k].age = "updating"]
                          ELSE [objects EXCEPT ![k] = Marked(kind, @)]
            /\ UNCHANGED <<indexed, bytes>>
    /\ disk' = [disk EXCEPT ![k] = Marked(kind, @)]
    /\ copy' = [r \in Requests |->
                    IF copy[r] # None /\ wants[r] = k /\ Marks(kind)
                    THEN [copy[r] EXCEPT !.mark = "raced"] ELSE copy[r]]
    /\ UNCHANGED <<pc, wants, seek, failed, refreshing, agings, resurfaced>>

(* The disk index knows every object on disk.  On storage bins a soft      *)
(* purge deletes.                                                          *)
PurgeDisk ==
    /\ purge # None
    /\ LET k == purge.key IN
       disk' = IF purge.kind = "expired" /\ disk[k] # None /\ disk[k].age = "fresh"
               THEN disk ELSE [disk EXCEPT ![k] = None]
    /\ purge' = None
    /\ UNCHANGED <<memory, requests, purges, agings, resurfaced>>

-----------------------------------------------------------------------------

(* The process has just started: memory is empty, the disk may not be.     *)
Init ==
    /\ objects = [k \in Keys |-> None] /\ indexed = {} /\ bytes = 0
    /\ disk \in [Keys -> {None} \cup {NewObject(w) : w \in Weights}]
    /\ pc = [r \in Requests |-> "idle"]
    /\ wants = [r \in Requests |-> None]
    /\ seek = [r \in Requests |-> "fresh"]
    /\ copy = [r \in Requests |-> None]
    /\ failed = {} /\ refreshing = {}
    /\ purge = None /\ purges = 0 /\ agings = 0 /\ resurfaced = {}

Step(r) ==
    \/ MemoryLook(r) \/ DiskLook(r) \/ DiskRefuses(r)
    \/ Promote(r) \/ PromoteSkips(r)
    \/ FetchSucceeds(r) \/ FetchUncacheable(r) \/ FetchFails(r)
    \/ StoreInMemory(r) \/ PruneMemory(r) \/ WriteDisk(r)

Next ==
    \/ \E r \in Requests : Step(r) \/ Cancel(r)
    \/ \E r \in Requests, k \in Keys : Arrive(r, k)
    \/ \E k \in Keys : ObjectAges(k)
    \/ \E kind \in PurgeKinds, k \in Keys : PurgeMemory(kind, k)
    \/ PurgeDisk

Spec == Init /\ [][Next]_vars

-----------------------------------------------------------------------------
(* Properties.                                                             *)

(* Every variable has its type; in particular a request at a place where   *)
(* it uses a key or an object carries one.                                 *)
TypeOK ==
    /\ objects \in [Keys -> Objects \cup {None}]
    /\ indexed \subseteq Keys /\ bytes \in Nat
    /\ disk \in [Keys -> Objects \cup {None}]
    /\ pc \in [Requests -> {"idle", "memory", "disk", "promote", "trim",
                            "fetch", "store", "prune", "write", "late", "done"}]
    /\ wants \in [Requests -> Keys \cup {None}]
    /\ seek \in [Requests -> {"fresh", "updating", "revalidate", "error"}]
    /\ copy \in [Requests -> Objects \cup {None}]
    /\ failed \subseteq Requests /\ refreshing \subseteq Requests
    /\ purge \in {None} \cup [kind : PurgeKinds, key : Keys]
    /\ purges \in 0..MaxPurges /\ agings \in 0..MaxAgings
    /\ resurfaced \subseteq {"exact", "indexed"}
    /\ \A r \in Requests :
           /\ pc[r] \in {"idle", "done"} <=> wants[r] = None
           /\ pc[r] \in {"promote", "store", "prune", "write", "late"} =>
                  copy[r] # None

(* The byte count of the memory tier is the weight of what it holds, the   *)
(* purge index names only objects that are there, and the count is over    *)
(* the limit only while a request is on its way to prune: the insert and   *)
(* the prune are two sections of the lock, with other inserts, removals,   *)
(* purges and prunes between them.                                         *)
MemoryAccounted ==
    /\ bytes = WeightOf(InMemory)
    /\ indexed \subseteq InMemory
    /\ bytes > MaxBytes => \E r \in Requests : pc[r] \in {"prune", "trim"}

(* An object that was in a tier when an exact purge of its key began, and  *)
(* that no request was reading while the purge ran, is not read after it:  *)
(* neither from memory nor promoted again from disk.                       *)
ExactPurgeSticks == "exact" \notin resurfaced

(* The same of a purge by index: by prefix, wildcard, tag or scope.        *)
IndexedPurgeSticks == "indexed" \notin resurfaced

=============================================================================
