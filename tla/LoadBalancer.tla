---------------------------- MODULE LoadBalancer ----------------------------
(***************************************************************************)
(* Admission of requests to one upstream pool: member selection, in-flight *)
(* permits, the waiting queue, the retry budget, passive ejection, and the *)
(* admin operations that change members underneath running requests.       *)
(*                                                                         *)
(* No lock spans a selection.  Every atomic load, compare-and-swap, mutex  *)
(* section and snapshot swap is one step.  The ten selectors differ in     *)
(* which eligible member they prefer; here a selection takes any of them.  *)
(* The pool has no active health checks, slow start or persistence.        *)
(***************************************************************************)
EXTENDS Naturals, FiniteSets

CONSTANTS
    Requests,     \* dispatches that run concurrently
    Admins,       \* concurrent admin calls
    Backends,     \* member addresses
    Counters,     \* identities of in-flight counters (heap cells), numbers
    None,         \* no counter, no member
    Editable,     \* may members be added, removed or retargeted?
    Cap,          \* upstream_max_in_flight of every member
    MaxWaiting,   \* queue.max_waiting
    QueueTicks,   \* queue.timeout_ms, in ticks
    Budget,       \* retry.budget_per_window
    WindowTicks,  \* retry.budget_window_secs, in ticks
    MaxRetries,   \* retry.max_retries
    Threshold,    \* passive_health.consecutive_failure
    EjectTicks,   \* passive_health.ejection_secs, in ticks
    Floor         \* passive_health.min_healthy_backends

ASSUME SetsAssumption ==
    /\ IsFiniteSet(Requests) /\ Backends # {} /\ Counters \subseteq Nat
    /\ None \notin Backends \cup Counters
    /\ Editable \in BOOLEAN
ASSUME LimitsAssumption ==
    /\ {Cap, MaxWaiting, Budget, MaxRetries, Floor} \subseteq Nat
    /\ {QueueTicks, WindowTicks, Threshold, EjectTicks} \subseteq Nat \ {0}

VARIABLES
    pool,      \* members of the published backend snapshot
    table,     \* the counter a member's key maps to, or None
    count,     \* value of each counter
    override,  \* runtime state of each member
    failures,  \* consecutive failures of each member
    ejected,   \* ticks until a member's ejection ends, 0 when not ejected
    waiting,   \* queue_waiting
    used,      \* retries charged to the current window
    age,       \* ticks since the window started, up to WindowTicks
    spent,     \* history: retries of this window that were really sent
    req,       \* the state of each dispatch
    admin      \* the state of each admin call

membership == <<pool, table, override>>
passive == <<failures, ejected>>
budget == <<used, age, spent>>
vars == <<pool, table, count, override, failures, ejected, waiting, used, age, spent, req, admin>>

(* Runtime states of a member, as set or restored; forced down is disabled.*)
Overrides == {"normal", "drained", "disabled"}
Steps == {"idle", "select", "prune", "load", "choose", "permit", "acquire", "enqueue",
          "waiting", "commit", "send", "reserve", "release", "finish"}
Phases == {"initial", "queued", "retry"}
Request == [pc : Steps, phase : Phases, view : SUBSET Backends, pick : Backends \cup {None},
            counter : Counters \cup {None}, attempted : SUBSET Backends, sends : Nat, left : Nat,
            reserved : {"no", "current", "old"}, deadline : Nat]
Idle == [pc |-> "idle", phase |-> "initial", view |-> {}, pick |-> None, counter |-> None,
         attempted |-> {}, sends |-> 0, left |-> 0, reserved |-> "no", deadline |-> 0]
AdminIdle == [pc |-> "idle", member |-> None, by |-> None, live |-> {}]

(* Every variable holds a value of the type its code declares; the queue   *)
(* never counts more than max_waiting and the window never charges more    *)
(* than budget_per_window.                                                 *)
TypeOK ==
    /\ pool \in (SUBSET Backends) \ {{}}
    /\ table \in [Backends -> Counters \cup {None}]
    /\ count \in [Counters -> 0..Cap]
    /\ override \in [Backends -> Overrides]
    /\ failures \in [Backends -> 0..(Threshold - 1)]
    /\ ejected \in [Backends -> 0..EjectTicks]
    /\ waiting \in 0..MaxWaiting
    /\ used \in 0..Budget /\ age \in 0..WindowTicks /\ spent \in Nat
    /\ req \in [Requests -> Request]
    /\ admin \in [Admins -> [pc : {"idle", "swap", "clear", "live", "prune"},
                             member : Backends \cup {None}, by : Backends \cup {None},
                             live : SUBSET Backends]]

(* The configured members, with nothing in flight and the overrides the    *)
(* runtime state file restored.  Caps belong to the configuration, so      *)
(* every address here is one it names.                                     *)
Init ==
    /\ pool = Backends
    /\ table = [b \in Backends |-> None]
    /\ count = [c \in Counters |-> 0]
    /\ override \in [Backends -> Overrides]
    /\ failures = [b \in Backends |-> 0]
    /\ ejected = [b \in Backends |-> 0]
    /\ waiting = 0
    /\ used = 0 /\ age = 0 /\ spent = 0
    /\ req = [r \in Requests |-> Idle]
    /\ admin = [a \in Admins |-> AdminIdle]

At(r, step) == req[r].pc = step
Holding(c) == {r \in Requests : req[r].counter = c /\ req[r].pc \in {"commit", "send", "reserve", "release", "finish"}}
-----------------------------------------------------------------------------
(***************************************************************************)
(* In-flight counters                                                      *)
(***************************************************************************)

(* count: a key without a counter has none in flight.  The code puts a new *)
(* counter at zero under such a key; as nobody holds that counter yet, it  *)
(* is not told apart here from none.                                       *)
InFlight(b) == IF table[b] = None THEN 0 ELSE count[table[b]]

(* A heap cell nothing refers to, the least one.                           *)
Unreferenced(c) == (\A b \in Backends : table[b] # c) /\ (\A r \in Requests : req[r].counter # c)
LeastUnreferenced(c) == Unreferenced(c) /\ \A d \in Counters : d < c => ~Unreferenced(d)

(* counter(): the key's cell, inserted at zero when it is missing.  Done   *)
(* under the map's lock, which is released before the cell is used.        *)
TakeCounter(r) ==
    LET b == req[r].pick IN
    /\ At(r, "permit")
    /\ \/ /\ table[b] # None
          /\ req' = [req EXCEPT ![r].pc = "acquire", ![r].counter = table[b]]
          /\ UNCHANGED <<table, count>>
       \/ /\ table[b] = None
          /\ \E c \in Counters :
                /\ LeastUnreferenced(c)
                /\ table' = [table EXCEPT ![b] = c]
                /\ count' = [count EXCEPT ![c] = 0]
                /\ req' = [req EXCEPT ![r].pc = "acquire", ![r].counter = c]
    /\ UNCHANGED <<pool, override, passive, waiting, budget, admin>>

(* LoadBalancedConnectionPermit::drop                                      *)
Decrement(c) == count' = [count EXCEPT ![c] = @ - 1]

(* prune_stale_backend_state with the live keys read a step earlier.  The  *)
(* counters, the overrides and the failures are each pruned under their    *)
(* own lock.  Here that is one step: pruning the counters changes InFlight *)
(* of no key and pruning the failures ejects and readmits nobody, so that  *)
(* the selector sees only the overrides change.                            *)
PruneStale(live) ==
    /\ table' = [b \in Backends |-> IF b \in live \/ InFlight(b) > 0 THEN table[b] ELSE None]
    /\ override' = [b \in Backends |->
                        IF b \notin live /\ override[b] = "drained" THEN "normal" ELSE override[b]]
    /\ failures' = [b \in Backends |->
                        IF b \notin live /\ ejected[b] = 0 THEN 0 ELSE failures[b]]
-----------------------------------------------------------------------------
(***************************************************************************)
(* Selecting a member                                                      *)
(***************************************************************************)

(* A dispatch starts; left is 0 unless its method may be replayed.         *)
Arrive(r) ==
    /\ At(r, "idle")
    /\ \E n \in {0, MaxRetries} : req' = [req EXCEPT ![r] = [Idle EXCEPT !.pc = "select", !.left = n]]
    /\ UNCHANGED <<membership, count, passive, waiting, budget, admin>>

(* prune_stale_backend_state_periodically, on every 1024th selection.      *)
StartPrune(r) ==
    /\ At(r, "select")
    /\ req' = [req EXCEPT ![r].pc = "prune", ![r].view = pool]
    /\ UNCHANGED <<membership, count, passive, waiting, budget, admin>>

Prune(r) ==
    /\ At(r, "prune")
    /\ PruneStale(req[r].view)
    /\ req' = [req EXCEPT ![r].pc = "load", ![r].view = {}]
    /\ UNCHANGED <<pool, count, ejected, waiting, budget, admin>>

(* The selector loads the backend snapshot.                                *)
LoadView(r) ==
    /\ req[r].pc \in {"select", "load"}
    /\ req' = [req EXCEPT ![r].pc = "choose", ![r].view = pool]
    /\ UNCHANGED <<membership, count, passive, waiting, budget, admin>>

(* backend_candidate_base_allowed, with the attempted members excluded.    *)
MutantEligibleAgain(r, b) == override[b] = "normal" /\ InFlight(b) < Cap
BaseAllowed(r, b) ==
    /\ override[b] = "normal"
    /\ b \notin req[r].attempted
    /\ InFlight(b) < Cap

(* passive_health_candidate_allowed: an ejected member is taken only while *)
(* fewer than min_healthy_backends others could be.                        *)
Eligible(r) ==
    LET base == {b \in req[r].view : BaseAllowed(r, b)}
        sound == {b \in base : ejected[b] = 0}
    IN  IF Cardinality(sound) < Floor THEN base ELSE sound

(* Dropping a retry permit that was not committed.                         *)
MutantRefundAlways(r) == used' = IF req[r].reserved # "no" /\ used > 0 THEN used - 1 ELSE used
Refund(r) == used' = IF req[r].reserved = "current" THEN used - 1 ELSE used

(* select returned None: queue up, wait on, give up waiting, or give up    *)
(* retrying.  Leave forgets the member a failed permit() was for.          *)
Leave(r, step) == [req EXCEPT ![r].pc = step, ![r].counter = None, ![r].pick = None]
MutantNoDeadline(r) ==
    /\ req[r].phase = "queued"
    /\ req' = Leave(r, "waiting")
    /\ UNCHANGED <<waiting, used>>
KeepWaiting(r) ==
    /\ req[r].phase = "queued" /\ req[r].deadline > 0
    /\ req' = Leave(r, "waiting")
    /\ UNCHANGED <<waiting, used>>
TimeOut(r) ==
    /\ req[r].phase = "queued" /\ req[r].deadline = 0
    /\ req' = [req EXCEPT ![r] = Idle]
    /\ waiting' = waiting - 1
    /\ UNCHANGED used
GiveUpRetry(r) ==
    /\ req[r].phase = "retry"
    /\ req' = [req EXCEPT ![r] = Idle]
    /\ Refund(r)
    /\ UNCHANGED waiting
Unselected(r) ==
    \/ req[r].phase = "initial" /\ req' = Leave(r, "enqueue") /\ UNCHANGED <<waiting, used>>
    \/ KeepWaiting(r) \/ TimeOut(r) \/ GiveUpRetry(r)

(* The selector's result: any member it may take.  The policies differ in  *)
(* which one that is, which no property is about.  The scan of the members *)
(* is one step: a scan that meets each of them full, but never all at the  *)
(* same moment, is left out.                                               *)
Choose(r) ==
    /\ At(r, "choose")
    /\ \/ /\ \E b \in Eligible(r) : req' = [req EXCEPT ![r].pc = "permit", ![r].pick = b]
          /\ UNCHANGED <<waiting, used>>
       \/ Eligible(r) = {} /\ Unselected(r)
    /\ UNCHANGED <<membership, count, passive, age, spent, admin>>

(* permit(): compare-and-swap on the cell taken before, then dispatch; a   *)
(* queued request gives its place back.                                    *)
MutantCapOffByOne(r) ==
    /\ At(r, "acquire")
    /\ \/ count[req[r].counter] > Cap /\ Unselected(r) /\ UNCHANGED count
       \/ /\ count[req[r].counter] <= Cap
          /\ count' = [count EXCEPT ![req[r].counter] = @ + 1]
          /\ req' = IF req[r].phase = "retry"
                    THEN [req EXCEPT ![r].pc = "commit"]
                    ELSE [req EXCEPT ![r].pc = "send", ![r].attempted = {req[r].pick},
                                     ![r].sends = 1, ![r].phase = "initial", ![r].deadline = 0]
          /\ waiting' = IF req[r].phase = "queued" THEN waiting - 1 ELSE waiting
          /\ UNCHANGED used
    /\ UNCHANGED <<membership, passive, age, spent, admin>>
Acquire(r) ==
    /\ At(r, "acquire")
    /\ \/ count[req[r].counter] >= Cap /\ Unselected(r) /\ UNCHANGED count
       \/ /\ count[req[r].counter] < Cap
          /\ count' = [count EXCEPT ![req[r].counter] = @ + 1]
          /\ req' = IF req[r].phase = "retry"
                    THEN [req EXCEPT ![r].pc = "commit"]
                    ELSE [req EXCEPT ![r].pc = "send", ![r].attempted = {req[r].pick},
                                     ![r].sends = 1, ![r].phase = "initial", ![r].deadline = 0]
          /\ waiting' = IF req[r].phase = "queued" THEN waiting - 1 ELSE waiting
          /\ UNCHANGED used
    /\ UNCHANGED <<membership, passive, age, spent, admin>>

(* acquire_queue_slot; a full or disabled queue refuses the request.       *)
Enqueue(r) ==
    /\ At(r, "enqueue")
    /\ \/ /\ waiting < MaxWaiting
          /\ waiting' = waiting + 1
          /\ req' = [req EXCEPT ![r].pc = "select", ![r].phase = "queued", ![r].deadline = QueueTicks]
       \/ /\ waiting >= MaxWaiting
          /\ req' = [req EXCEPT ![r] = Idle]
          /\ UNCHANGED waiting
    /\ UNCHANGED <<membership, count, passive, budget, admin>>

(* The queued request's sleep ends: it selects again.                      *)
Wake(r) ==
    /\ At(r, "waiting")
    /\ req' = [req EXCEPT ![r].pc = "select"]
    /\ UNCHANGED <<membership, count, passive, waiting, budget, admin>>
-----------------------------------------------------------------------------
(***************************************************************************)
(* Sending, reporting and retrying                                         *)
(***************************************************************************)

(* PassiveHealthState::record_failure and record_success.                  *)
RecordFailure(b) ==
    LET eject == failures[b] + 1 >= Threshold IN
    /\ failures' = [failures EXCEPT ![b] = IF eject THEN 0 ELSE @ + 1]
    /\ ejected' = [ejected EXCEPT ![b] = IF eject THEN EjectTicks ELSE @]
RecordSuccess(b) ==
    /\ failures' = [failures EXCEPT ![b] = 0]
    /\ ejected' = [ejected EXCEPT ![b] = 0]

(* The member answers or fails; the reporter updates passive health.  What *)
(* counts as a failure and what may be retried are configured apart.       *)
Respond(r, failed, retryable) ==
    /\ At(r, "send")
    /\ \/ failed /\ RecordFailure(req[r].pick)
       \/ ~failed /\ RecordSuccess(req[r].pick)
    /\ req' = [req EXCEPT ![r].pc = IF retryable /\ req[r].left > 0 THEN "reserve" ELSE "finish"]
    /\ UNCHANGED <<membership, count, waiting, budget, admin>>

(* reserve_at: an expired window starts afresh, which turns outstanding    *)
(* reservations into those of an older window.                             *)
Reserve(r) ==
    LET expired == age >= WindowTicks
        charged == IF expired THEN 0 ELSE used
        Aged(s) == IF expired /\ req[s].reserved = "current" THEN "old" ELSE req[s].reserved
    IN
    /\ At(r, "reserve")
    /\ age' = IF expired THEN 0 ELSE age
    /\ spent' = IF expired THEN 0 ELSE spent
    /\ used' = IF charged < Budget THEN charged + 1 ELSE charged
    /\ req' = [s \in Requests |->
                IF s # r THEN [req[s] EXCEPT !.reserved = Aged(s)]
                ELSE IF charged < Budget THEN [req[r] EXCEPT !.pc = "release", !.reserved = "current"]
                ELSE [req[r] EXCEPT !.pc = "finish"]]
    /\ UNCHANGED <<membership, count, passive, waiting, admin>>

(* The old member's permit is dropped before a new one is selected.        *)
Release(r) ==
    /\ At(r, "release")
    /\ Decrement(req[r].counter)
    /\ req' = [req EXCEPT ![r].pc = "select", ![r].phase = "retry", ![r].counter = None, ![r].pick = None]
    /\ UNCHANGED <<membership, passive, waiting, budget, admin>>

(* The next member is known and has a transport: charge the retry, send.   *)
Commit(r) ==
    /\ At(r, "commit")
    /\ spent' = IF req[r].reserved = "current" THEN spent + 1 ELSE spent
    /\ req' = [req EXCEPT ![r].pc = "send", ![r].reserved = "no", ![r].left = @ - 1,
                          ![r].attempted = @ \cup {req[r].pick}, ![r].sends = @ + 1]
    /\ UNCHANGED <<membership, count, passive, waiting, used, age, admin>>

(* The next member has no transport: the last answer stands.               *)
Abandon(r) ==
    /\ At(r, "commit")
    /\ Decrement(req[r].counter)
    /\ Refund(r)
    /\ req' = [req EXCEPT ![r] = Idle]
    /\ UNCHANGED <<membership, passive, waiting, age, spent, admin>>

(* The response is delivered and the selection dropped.                    *)
Finish(r) ==
    /\ At(r, "finish")
    /\ Decrement(req[r].counter)
    /\ req' = [req EXCEPT ![r] = Idle]
    /\ UNCHANGED <<membership, passive, waiting, budget, admin>>

(* The client goes away: the future is dropped where it awaits.            *)
MutantCancelLeaks(r) ==
    /\ \/ At(r, "waiting") /\ waiting' = waiting - 1
       \/ At(r, "send") /\ UNCHANGED waiting
    /\ req' = [req EXCEPT ![r] = Idle]
    /\ UNCHANGED <<membership, count, passive, budget, admin>>
Cancel(r) ==
    /\ \/ At(r, "waiting") /\ waiting' = waiting - 1 /\ UNCHANGED count
       \/ At(r, "send") /\ Decrement(req[r].counter) /\ UNCHANGED waiting
    /\ req' = [req EXCEPT ![r] = Idle]
    /\ UNCHANGED <<membership, passive, budget, admin>>
-----------------------------------------------------------------------------
(***************************************************************************)
(* Admin operations and time                                               *)
(***************************************************************************)

(* set_runtime_backend_state; resuming also forgets passive failures.      *)
SetState(a, b, state, resume) ==
    /\ admin[a].pc = "idle" /\ b \in pool
    /\ resume => state = "normal"
    /\ override' = [override EXCEPT ![b] = state]
    /\ failures' = IF resume THEN [failures EXCEPT ![b] = 0] ELSE failures
    /\ ejected' = IF resume THEN [ejected EXCEPT ![b] = 0] ELSE ejected
    /\ UNCHANGED <<pool, table, count, waiting, budget, req, admin>>

(* add_runtime_backend_member                                              *)
AddMember(a, b) ==
    /\ Editable /\ admin[a].pc = "idle" /\ b \notin pool
    /\ pool' = pool \cup {b}
    /\ UNCHANGED <<table, override, count, passive, waiting, budget, req, admin>>

(* remove_runtime_backend_member (by is None) and the retargeting of       *)
(* update_runtime_backend_member: refused while the member is busy.        *)
BeginRemoval(a, b, by) ==
    /\ Editable /\ admin[a].pc = "idle" /\ b \in pool /\ b # by
    /\ InFlight(b) = 0
    /\ admin' = [admin EXCEPT ![a] = [pc |-> "swap", member |-> b, by |-> by, live |-> {}]]
    /\ UNCHANGED <<membership, count, passive, waiting, budget, req>>

(* The backend set is replaced under mutation_lock.                        *)
SwapSnapshot(a) ==
    LET b == admin[a].member
        by == admin[a].by
        valid == b \in pool /\ (IF by = None THEN Cardinality(pool) > 1 ELSE by \notin pool)
    IN
    /\ admin[a].pc = "swap"
    /\ \/ /\ valid
          /\ pool' = (pool \ {b}) \cup ({by} \ {None})
          /\ admin' = [admin EXCEPT ![a].pc = "clear"]
       \/ /\ ~valid
          /\ admin' = [admin EXCEPT ![a] = AdminIdle]
          /\ UNCHANGED pool
    /\ UNCHANGED <<table, override, count, passive, waiting, budget, req>>

(* clear_removed_backend_state                                             *)
ClearRemoved(a) ==
    LET b == admin[a].member IN
    /\ admin[a].pc = "clear"
    /\ override' = [override EXCEPT ![b] = "normal"]
    /\ failures' = [failures EXCEPT ![b] = 0]
    /\ ejected' = [ejected EXCEPT ![b] = 0]
    /\ admin' = [admin EXCEPT ![a].pc = "live"]
    /\ UNCHANGED <<pool, table, count, waiting, budget, req>>

ReadLive(a) ==
    /\ admin[a].pc = "live"
    /\ admin' = [admin EXCEPT ![a].pc = "prune", ![a].live = pool]
    /\ UNCHANGED <<membership, count, passive, waiting, budget, req>>

PruneRemoved(a) ==
    /\ admin[a].pc = "prune"
    /\ PruneStale(admin[a].live)
    /\ admin' = [admin EXCEPT ![a] = AdminIdle]
    /\ UNCHANGED <<pool, count, ejected, waiting, budget, req>>

(* Time passes for ejections, the retry window and queued requests.        *)
Less(n) == IF n = 0 THEN 0 ELSE n - 1
Tick ==
    /\ ejected' = [b \in Backends |-> Less(ejected[b])]
    /\ age' = IF age < WindowTicks THEN age + 1 ELSE age
    /\ req' = [r \in Requests |-> [req[r] EXCEPT !.deadline = Less(@)]]
    /\ UNCHANGED <<membership, count, failures, waiting, used, spent, admin>>
-----------------------------------------------------------------------------
(* What the proxy does by itself once a request has arrived.               *)
Advance(r) ==
    \/ Prune(r) \/ LoadView(r) \/ Choose(r) \/ TakeCounter(r) \/ Acquire(r)
    \/ Enqueue(r) \/ Wake(r) \/ Reserve(r) \/ Release(r) \/ Commit(r) \/ Finish(r)

RequestStep(r) ==
    \/ Arrive(r) \/ StartPrune(r) \/ Advance(r) \/ Abandon(r) \/ Cancel(r)
    \/ \E failed, retryable \in BOOLEAN : Respond(r, failed, retryable)

AdminStep(a) ==
    \/ \E b \in Backends, state \in Overrides, resume \in BOOLEAN : SetState(a, b, state, resume)
    \/ \E b \in Backends : AddMember(a, b)
    \/ \E b \in Backends, by \in Backends \cup {None} : BeginRemoval(a, b, by)
    \/ SwapSnapshot(a) \/ ClearRemoved(a) \/ ReadLive(a) \/ PruneRemoved(a)

Next == (\E r \in Requests : RequestStep(r)) \/ (\E a \in Admins : AdminStep(a)) \/ Tick

Spec == Init /\ [][Next]_vars

(* Tasks are scheduled and the clock advances; nothing is assumed of       *)
(* members, clients or operators.                                          *)
FairSpec == Spec /\ WF_vars(Tick) /\ \A r \in Requests : WF_vars(Advance(r))
-----------------------------------------------------------------------------
(* Every counter says how many requests hold a permit taken from it: no    *)
(* retry, timeout, cancelled client or pruning leaks or drops one twice.   *)
CountersExact == \A c \in Counters : ~Unreferenced(c) => count[c] = Cardinality(Holding(c))

QueueExact == waiting = Cardinality({r \in Requests : req[r].phase = "queued"})

BudgetExact == used = spent + Cardinality({r \in Requests : req[r].reserved = "current"})

(* Through timeouts, refusals, retries and clients that go away, requests  *)
(* in the queue are the ones it counts, so its places are neither leaked   *)
(* nor given away twice, and the retry window is charged for exactly the   *)
(* retries it has sent and the ones still reserved: a reservation that     *)
(* outlives its window refunds nothing.                                    *)
AdmissionExact == QueueExact /\ BudgetExact

(* A dispatch sends to each member at most once and never more often than  *)
(* its initial attempt and max_retries.                                    *)
EachMemberOnce ==
    \A r \in Requests : /\ Cardinality(req[r].attempted) = req[r].sends
                        /\ req[r].sends <= 1 + MaxRetries

(* upstream_max_in_flight: however counters come and go, a member serves   *)
(* at most that many requests at once.                                     *)
CapHolds ==
    \A b \in Backends :
        Cardinality({r \in Requests : req[r].pick = b /\ \E c \in Counters : r \in Holding(c)}) <= Cap

(* A queued request is answered or refused once its timeout has passed.    *)
QueueDrains == \A r \in Requests : req[r].phase = "queued" ~> req[r].phase # "queued"
=============================================================================
