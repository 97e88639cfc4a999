------------------------------ MODULE FillGate ------------------------------
(***************************************************************************)
(* The gate in front of the origin of a cached proxy: one request per      *)
(* missing key becomes its writer while the others wait for it, the        *)
(* origin-fill budget bounds the exchanges under way, and a stale object   *)
(* that is served is refreshed by one background task per key.             *)
(*                                                                         *)
(* filling and revalidating are part of NativeMemoryCacheState and change  *)
(* only under its mutex, so a section under it is one step; between two    *)
(* sections a request awaits a disk read, another writer or the origin.    *)
(* What the cache holds is CacheTiers' matter: here a lookup finds what    *)
(* it may find.  The clock is in the actions that say a limit has passed.  *)
(*                                                                         *)
(* A task is a request or the refresh task of a key; the latter is named   *)
(* by its key.                                                             *)
(***************************************************************************)
EXTENDS Integers, FiniteSets

CONSTANTS
    Requests,   \* each runs once
    Keys,
    MaxFills,   \* origin_protection.max_concurrent_fills
    MaxPurges,  \* bounds the purges
    None

ASSUME GateAssumption ==
    /\ MaxFills \in Nat \ {0} /\ MaxPurges \in Nat
    /\ IsFiniteSet(Requests) /\ IsFiniteSet(Keys)
    /\ Requests \cap Keys = {} /\ None \notin Requests \cup Keys

VARIABLES
    filling,       \* the writer whose fill is registered for a key, or None
    aged,          \* the keys whose fill is past lock.age_timeout_secs
    waits,         \* the writer a request waits for, or None once notified
    revalidating,  \* the keys with a refresh task
    fills,         \* the origin-fill counter
    pc, wants,     \* where a task is; the key a request is for
    writers,       \* the requests that own a NativeCacheFillPermit
    permits,       \* the tasks that own a NativeOriginFillPermit
    purges,        \* the purges so far
    lapsed         \* history: the writers whose fill aged or was purged

vars == <<filling, aged, waits, revalidating, fills, pc, wants, writers,
          permits, purges, lapsed>>

Tasks == Requests \cup Keys

-----------------------------------------------------------------------------
(* Ends.                                                                   *)

(* notify_waiters: whoever is registered with the writer's Notify.         *)
Woken(w) == [r \in Requests |-> IF waits[r] = w THEN None ELSE waits[r]]

(* The permit's drop takes the fill out of the table only if it is still   *)
(* its own, and wakes the waiters in any case.                             *)
MutantDropsAnyFill(r) ==
    /\ filling' = [filling EXCEPT ![wants[r]] = None]
    /\ aged' = aged \ {wants[r]}
    /\ waits' = Woken(r)
    /\ writers' = writers \ {r}
    /\ lapsed' = lapsed \ {r}
MutantWakesWhileOwn(r) ==
    LET k == wants[r]
        own == filling[k] = r
    IN  /\ filling' = IF own THEN [filling EXCEPT ![k] = None] ELSE filling
        /\ aged' = IF own THEN aged \ {k} ELSE aged
        /\ waits' = IF own THEN Woken(r) ELSE waits
        /\ writers' = writers \ {r}
        /\ lapsed' = lapsed \ {r}
MutantKeepsFill(r) ==
    /\ waits' = Woken(r)
    /\ writers' = writers \ {r}
    /\ lapsed' = lapsed \ {r}
    /\ UNCHANGED <<filling, aged>>
DropFillPermit(r) ==
    LET k == wants[r]
        own == filling[k] = r
    IN  /\ filling' = IF own THEN [filling EXCEPT ![k] = None] ELSE filling
        /\ aged' = IF own THEN aged \ {k} ELSE aged
        /\ waits' = Woken(r)
        /\ writers' = writers \ {r}
        /\ lapsed' = lapsed \ {r}

DropOriginPermit(t) ==
    /\ fills' = IF t \in permits THEN fills - 1 ELSE fills
    /\ permits' = permits \ {t}

(* A request is over, served or not: what it owns is dropped, a wait it    *)
(* was in is given up.  The permit of the origin is dropped just before    *)
(* that of the fill, without an await between; here that is one step.      *)
End(r) ==
    /\ IF r \in writers
       THEN DropFillPermit(r)
       ELSE /\ waits' = [waits EXCEPT ![r] = None]
            /\ UNCHANGED <<filling, aged, writers, lapsed>>
    /\ DropOriginPermit(r)
    /\ pc' = [pc EXCEPT ![r] = "done"]
    /\ wants' = [wants EXCEPT ![r] = None]

(* The refresh is over; its key is taken from the set in a later section.  *)
MutantRefreshKeepsPermit(k) ==
    /\ pc' = [pc EXCEPT ![k] = "finish"]
    /\ UNCHANGED <<filling, aged, waits, fills, permits, writers, lapsed, wants>>
EndRefresh(k) ==
    /\ DropOriginPermit(k)
    /\ pc' = [pc EXCEPT ![k] = "finish"]
    /\ UNCHANGED <<filling, aged, waits, writers, lapsed, wants>>

EndTask(t) ==
    /\ IF t \in Keys THEN EndRefresh(t) ELSE End(t)
    /\ UNCHANGED <<revalidating, purges>>

-----------------------------------------------------------------------------
(* Lookup and gate.                                                        *)

(* A request that wants the cache refreshed goes to the gate at once, the  *)
(* others look for an object first.                                        *)
Arrive(r, k) ==
    /\ pc[r] = "idle"
    /\ wants' = [wants EXCEPT ![r] = k]
    /\ \E place \in {"lookup", "gate"} : pc' = [pc EXCEPT ![r] = place]
    /\ UNCHANGED <<filling, aged, waits, revalidating, fills, writers, permits,
                   purges, lapsed>>

(* The object found is fresh; or the disk could not be asked (503); or     *)
(* there is none and the client takes no other (504).                      *)
LookupAnswers(r) == pc[r] \in {"lookup", "recheck"} /\ EndTask(r)

(* The object found is stale but may be served while a refresh runs; one   *)
(* refresh per key at a time.                                              *)
LookupRefreshes(r) ==
    LET k == wants[r] IN
    /\ pc[r] = "lookup"
    /\ IF k \in revalidating
       THEN EndTask(r)
       ELSE /\ revalidating' = revalidating \cup {k}
            /\ pc' = [pc EXCEPT ![r] = "done", ![k] = "permit"]
            /\ wants' = [wants EXCEPT ![r] = None]
            /\ UNCHANGED <<filling, aged, waits, fills, writers, permits, purges,
                           lapsed>>

(* Nothing was found, or something to be revalidated; also after a wait.   *)
LookupMisses(r) ==
    /\ pc[r] \in {"lookup", "recheck"}
    /\ pc' = [pc EXCEPT ![r] = "gate"]
    /\ UNCHANGED <<filling, aged, waits, revalidating, fills, wants, writers,
                   permits, purges, lapsed>>

(* With no fill registered for its key, or one past its age limit, the     *)
(* request becomes the writer; the waiters of an overtaken fill are woken. *)
BecomeWriter(r) ==
    LET k == wants[r] IN
    /\ pc[r] = "gate"
    /\ filling[k] = None \/ k \in aged
    /\ waits' = IF filling[k] = None THEN waits ELSE Woken(filling[k])
    /\ filling' = [filling EXCEPT ![k] = r]
    /\ aged' = aged \ {k}
    /\ writers' = writers \cup {r}
    /\ pc' = [pc EXCEPT ![r] = "permit"]
    /\ UNCHANGED <<revalidating, fills, wants, permits, purges, lapsed>>

(* The waiter is registered before the lock is given back.                 *)
BecomeWaiter(r) ==
    LET k == wants[r] IN
    /\ pc[r] = "gate"
    /\ filling[k] # None /\ k \notin aged
    /\ waits' = [waits EXCEPT ![r] = filling[k]]
    /\ pc' = [pc EXCEPT ![r] = "waiting"]
    /\ UNCHANGED <<filling, aged, revalidating, fills, wants, writers, permits,
                   purges, lapsed>>

(* A request that was notified looks once more, and may come back here.    *)
Wake(r) ==
    /\ pc[r] = "waiting" /\ waits[r] = None
    /\ pc' = [pc EXCEPT ![r] = "recheck"]
    /\ UNCHANGED <<filling, aged, waits, revalidating, fills, wants, writers,
                   permits, purges, lapsed>>

(* The one deadline of all its waits has passed: 503.  A notification that *)
(* came first counts, even if the deadline has passed since.               *)
WaitTimesOut(r) == pc[r] = "waiting" /\ waits[r] # None /\ EndTask(r)

-----------------------------------------------------------------------------
(* The origin.                                                             *)

TakeOriginPermit(t) ==
    /\ pc[t] = "permit" /\ fills < MaxFills
    /\ fills' = fills + 1
    /\ permits' = permits \cup {t}
    /\ pc' = [pc EXCEPT ![t] = "fetch"]
    /\ UNCHANGED <<filling, aged, waits, revalidating, wants, writers, purges,
                   lapsed>>

(* Over the budget: a request is answered 503, a refresh is not made.      *)
OriginPermitRefused(t) == pc[t] = "permit" /\ fills >= MaxFills /\ EndTask(t)

(* The origin answered, or failed; what follows in the cache - storing the *)
(* response, or looking for a stale object to serve in its place - awaits  *)
(* the disk.                                                               *)
Fetch(t) ==
    /\ pc[t] = "fetch"
    /\ pc' = [pc EXCEPT ![t] = "settle"]
    /\ UNCHANGED <<filling, aged, waits, revalidating, fills, wants, writers,
                   permits, purges, lapsed>>

Settle(t) == pc[t] = "settle" /\ EndTask(t)

FinishRefresh(k) ==
    /\ pc[k] = "finish"
    /\ revalidating' = revalidating \ {k}
    /\ pc' = [pc EXCEPT ![k] = "idle"]
    /\ UNCHANGED <<filling, aged, waits, fills, wants, writers, permits, purges,
                   lapsed>>

-----------------------------------------------------------------------------
(* What comes from outside.                                                *)

(* The handler of an HTTP/2 stream is dropped at its deadline, wherever it *)
(* awaits something.                                                       *)
Cancel(r) == pc[r] \in {"lookup", "waiting", "recheck", "fetch", "settle"} /\ EndTask(r)

FillAges(k) ==
    /\ filling[k] # None /\ k \notin aged
    /\ aged' = aged \cup {k}
    /\ lapsed' = lapsed \cup {filling[k]}
    /\ UNCHANGED <<filling, waits, revalidating, fills, pc, wants, writers,
                   permits, purges>>

(* An exact purge takes the fill of its key out of the table, and wakes    *)
(* nobody.                                                                 *)
Purge(k) ==
    /\ purges < MaxPurges
    /\ purges' = purges + 1
    /\ lapsed' = IF filling[k] = None THEN lapsed ELSE lapsed \cup {filling[k]}
    /\ filling' = [filling EXCEPT ![k] = None]
    /\ aged' = aged \ {k}
    /\ UNCHANGED <<waits, revalidating, fills, pc, wants, writers, permits>>

-----------------------------------------------------------------------------

Init ==
    /\ filling = [k \in Keys |-> None] /\ aged = {}
    /\ waits = [r \in Requests |-> None]
    /\ revalidating = {} /\ fills = 0
    /\ pc = [t \in Tasks |-> "idle"]
    /\ wants = [r \in Requests |-> None]
    /\ writers = {} /\ permits = {} /\ purges = 0 /\ lapsed = {}

RequestStep(r) ==
    \/ LookupAnswers(r) \/ LookupRefreshes(r) \/ LookupMisses(r)
    \/ BecomeWriter(r) \/ BecomeWaiter(r) \/ Wake(r)

OriginStep(t) ==
    \/ TakeOriginPermit(t) \/ OriginPermitRefused(t) \/ Fetch(t) \/ Settle(t)

Next ==
    \/ \E r \in Requests : RequestStep(r) \/ WaitTimesOut(r) \/ Cancel(r)
    \/ \E t \in Tasks : OriginStep(t)
    \/ \E r \in Requests, k \in Keys : Arrive(r, k)
    \/ \E k \in Keys : FinishRefresh(k) \/ FillAges(k) \/ Purge(k)

Spec == Init /\ [][Next]_vars

(* A task that can go on does: the runtime polls what is ready, a disk     *)
(* operation returns and the exchange with the origin is under timeouts.   *)
(* Nothing is assumed of the waiters' own deadline.                        *)
FairSpec ==
    /\ Spec
    /\ \A r \in Requests : WF_vars(RequestStep(r))
    /\ \A t \in Tasks : WF_vars(OriginStep(t))
    /\ \A k \in Keys : WF_vars(FinishRefresh(k))

-----------------------------------------------------------------------------
(* Properties.                                                             *)

Places == {"idle", "lookup", "gate", "waiting", "recheck", "permit", "fetch",
           "settle", "finish", "done"}

(* Every variable has its type: fills are registered for keys by requests, *)
(* permits are owned by tasks, tasks are at a place of the dispatch.       *)
TypeOK ==
    /\ filling \in [Keys -> Requests \cup {None}]
    /\ aged \subseteq Keys
    /\ waits \in [Requests -> Requests \cup {None}]
    /\ revalidating \subseteq Keys
    /\ fills \in Nat
    /\ pc \in [Tasks -> Places]
    /\ wants \in [Requests -> Keys \cup {None}]
    /\ writers \subseteq Requests /\ permits \subseteq Tasks
    /\ purges \in 0..MaxPurges
    /\ lapsed \subseteq Requests

(* One writer per key: of two requests that fill the same key, the fill of *)
(* one was overtaken by its age limit or by a purge.  A permit dropped     *)
(* late must not take its successor's fill out of the table.               *)
SingleFlight ==
    \A p, q \in writers :
        p # q /\ wants[p] = wants[q] => p \in lapsed \/ q \in lapsed

(* No wakeup is lost: the writer a request waits for still owns the permit *)
(* whose drop will wake it, whether its fill is in the table, was          *)
(* overtaken or was purged.                                                *)
NoLostWakeup ==
    \A r \in Requests : waits[r] # None => waits[r] \in writers

FillsOwned ==
    \A k \in Keys : filling[k] # None =>
        filling[k] \in writers /\ wants[filling[k]] = k

PermitsInUse ==
    /\ \A r \in writers : pc[r] \in {"permit", "fetch", "settle"}
    /\ \A t \in permits : pc[t] \in {"fetch", "settle"}

BudgetExact == fills = Cardinality(permits) /\ fills <= MaxFills

RefreshesRun == \A k \in Keys : k \in revalidating <=> pc[k] # "idle"

(* However tasks end - served, refused, failed, timed out, cancelled -     *)
(* nothing of them stays behind: a registered fill has its writer, permits *)
(* are owned by tasks on their way to the origin and back, the counter     *)
(* counts the permits and is within its limit, and a key marked as being   *)
(* refreshed has its task.                                                 *)
NothingLeaks == FillsOwned /\ PermitsInUse /\ BudgetExact /\ RefreshesRun

(* Every request is answered and every refresh comes to its end, even if   *)
(* no waiter's own deadline ever fires.                                    *)
TasksEnd ==
    /\ \A r \in Requests : pc[r] # "idle" ~> pc[r] = "done"
    /\ \A k \in Keys : pc[k] # "idle" ~> pc[k] = "idle"

=============================================================================
