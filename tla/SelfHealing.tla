----------------------------- MODULE SelfHealing -----------------------------
(***************************************************************************)
(* The self-healing guard of the admin plane.  Request handlers and the    *)
(* watchdog share one recovery state, a validation deadline, the live      *)
(* router and the durable store, but no lock spans a whole handler: each   *)
(* mutex section, router swap and file write below is one step, and the    *)
(* handlers of different workers interleave between them.                  *)
(*                                                                         *)
(* Store writes are atomic here (SnapshotStore models their insides); any  *)
(* of them, and any application of a configuration, may fail.              *)
(***************************************************************************)
EXTENDS Naturals

CONSTANTS
    Workers,      \* request-handling threads, the watchdog included
    Watchdog,     \* the worker that runs the background loop
    Snaps,        \* snapshot ids in the store
    None,         \* absent snapshot, absent pending validation, no deadline
    Source,       \* configuration loaded at startup
    MinSuccess,   \* min_successful_checks
    MaxErrorRate, \* max_error_rate_per_mille
    Window,       \* validation_window_secs
    MaxAttempts,  \* where rollback_attempts saturates (usize::MAX)
    MaxTime,      \* bound on the clock
    MaxRequests,  \* bound on admin requests that do not overlap
    MaxOverlaps,  \* bound on admin requests that may
    MaxFails,     \* bound on failing steps
    MaxRestarts   \* bound on restarts

ASSUME WorkersAssumption == Watchdog \in Workers
ASSUME SnapsAssumption   == None \notin Snaps /\ Source \notin Snaps /\ None \notin Nat
ASSUME PolicyAssumption  == /\ MinSuccess \in Nat /\ MaxErrorRate \in 0..1000
                            /\ Window \in Nat \ {0}
ASSUME BoundsAssumption  == {MaxAttempts, MaxTime, MaxRequests, MaxOverlaps, MaxFails, MaxRestarts} \subseteq Nat

VARIABLES
    serial,    \* chosen once: handlers of different workers do not overlap
    now,       \* the clock
    router,    \* configuration the proxy serves
    config,    \* current_config of the admin plane
    mem,       \* SnapshotRuntimeState
    deadline,  \* validation_deadline
    pointer,   \* the store's current pointer
    disk,      \* self-healing.toml, or None
    loc,       \* what each worker is doing
    requests,  \* admin requests and CLI pointer moves so far
    fails,     \* failed steps so far
    restarts   \* restarts so far

vars == <<serial, now, router, config, mem, deadline, pointer, disk, loc, requests, fails, restarts>>

SnapOrNone == Snaps \cup {None}
Pending == [target : Snaps, previous : SnapOrNone, expires : Nat,
            ok : Nat, bad : Nat, attempts : Nat]
State == [runtime : SnapOrNone, known : SnapOrNone, pending : Pending \cup {None}]
ASSUME RecordsAssumption == None \notin Pending \cup State
Requests == {"confirm", "fail", "report_ok", "report_bad", "reload", "rollback", "watch"}
Steps == {"idle", "read_deadline", "decide", "handle", "rb_load", "rb_apply", "rb_config",
          "rb_pointer", "rb_complete", "rb_failed", "apply", "store_config", "record",
          "read_pending", "set_deadline", "clone", "save", "move_pointer"}
Idle == [pc |-> "idle", req |-> "watch", claim |-> None, cand |-> None, saved |-> None,
         expired |-> FALSE, arm |-> FALSE, then |-> "idle"]

(* Recovery state in memory and on disk, router, pointer and the workers'  *)
(* local values keep their types: a rollback never serves or selects what  *)
(* is no snapshot.                                                         *)
TypeOK ==
    /\ serial \in BOOLEAN /\ now \in 0..MaxTime
    /\ router \in Snaps \cup {Source} /\ config \in Snaps \cup {Source}
    /\ mem \in State /\ disk \in State \cup {None}
    /\ deadline \in Nat \cup {None}
    /\ pointer \in SnapOrNone
    /\ loc \in [Workers -> [pc : Steps, req : Requests, claim : Pending \cup {None},
                            cand : SnapOrNone, saved : State \cup {None},
                            expired : BOOLEAN, arm : BOOLEAN, then : Steps]]
    /\ requests \in Nat /\ fails \in 0..MaxFails /\ restarts \in 0..MaxRestarts

At(w, step) == loc[w].pc = step
Goto(w, step) == loc' = [loc EXCEPT ![w].pc = step]
Finish(w) == loc' = [loc EXCEPT ![w] = Idle]
AllIdle == \A w \in Workers : At(w, "idle")
MayStart(w) == At(w, "idle") /\ (serial => AllIdle)
Fail == fails < MaxFails /\ fails' = fails + 1
Succeed == UNCHANGED fails
Requested == /\ requests < IF serial THEN MaxRequests ELSE MaxOverlaps
             /\ requests' = requests + 1
Bounds == <<requests, restarts, serial>>
-----------------------------------------------------------------------------
(***************************************************************************)
(* SnapshotRuntimeState, each method one critical section                  *)
(***************************************************************************)

(* error_rate_per_mille exceeds the configured maximum.                    *)
TooManyErrors(p) ==
    p.bad > 0 /\ (p.bad * 1000) \div (p.ok + p.bad) > MaxErrorRate

(* rollback_required                                                       *)
RollbackRequired(p, expired) == p # None /\ (TooManyErrors(p) \/ expired)

(* record_applied_snapshot with self-healing enabled.                      *)
Until(t) == IF t + Window > MaxTime THEN MaxTime ELSE t + Window  \* bounded clock
OrElse(a, b) == IF a # None THEN a ELSE b
Reloaded(s, t) ==
    [runtime |-> s, known |-> mem.known,
     pending |-> [target |-> s, previous |-> OrElse(mem.runtime, mem.known),
                  expires |-> Until(t), ok |-> 0, bad |-> 0, attempts |-> 0]]
MutantKnownGoodOnly(s) == [runtime |-> mem.runtime, known |-> s, pending |-> None]
RolledBack(s) == [runtime |-> s, known |-> s, pending |-> None]

(* confirm_pending_validation                                              *)
Confirmed == RolledBack(mem.pending.target)

(* record_health_signal: the counters, and what they decide.               *)
Counted(healthy) ==
    [mem.pending EXCEPT !.ok = IF healthy THEN @ + 1 ELSE @,
                        !.bad = IF healthy THEN @ ELSE @ + 1]

(* rollback_failed puts the caller's copy back, one attempt later.         *)
MutantStaleAttempt(p) == [mem EXCEPT !.pending = p]
OneMore(n) == IF n < MaxAttempts THEN n + 1 ELSE n
FailedRollback(p) == [mem EXCEPT !.pending = [p EXCEPT !.attempts = OneMore(@)]]
-----------------------------------------------------------------------------
(* Startup: the recovery state comes from disk, or assumes the pointer is  *)
(* what runs; the deadline is what is left of the recorded expiry.         *)
BootState == IF disk # None THEN disk
             ELSE [runtime |-> pointer, known |-> pointer, pending |-> None]
BootDeadline(s) == IF s.pending = None THEN None
                   ELSE IF s.pending.expires < now THEN now ELSE s.pending.expires

Init ==
    /\ serial \in BOOLEAN /\ now = 0
    /\ pointer \in SnapOrNone
    /\ router = Source /\ config = Source
    /\ disk = None
    /\ mem = [runtime |-> pointer, known |-> pointer, pending |-> None]
    /\ deadline = None
    /\ loc = [w \in Workers |-> Idle]
    /\ requests = 0 /\ fails = 0 /\ restarts = 0

Tick ==
    /\ now < MaxTime /\ now' = now + 1
    /\ UNCHANGED <<router, config, mem, deadline, pointer, disk, loc, fails, Bounds>>

(* The process dies between any two steps and is started again.            *)
Restart ==
    /\ restarts < MaxRestarts /\ restarts' = restarts + 1
    /\ router' = Source /\ config' = Source
    /\ mem' = BootState /\ deadline' = BootDeadline(BootState)
    /\ loc' = [w \in Workers |-> Idle]
    /\ UNCHANGED <<now, pointer, disk, requests, fails, serial>>

(* Another process (CLI snapshot or rollback) selects a snapshot, or an    *)
(* admin request creates one or moves the pointer without applying it.     *)
SelectSnapshot(s) ==
    /\ serial => AllIdle
    /\ Requested
    /\ pointer' = s
    /\ UNCHANGED <<now, router, config, mem, deadline, disk, loc, fails, restarts, serial>>
-----------------------------------------------------------------------------
(***************************************************************************)
(* enforce_self_healing_deadline, the prologue of every admin request and  *)
(* the whole of a watchdog round                                           *)
(***************************************************************************)

(* A reload needs room on the clock for its window (bound).                *)
Accept(w, req) ==
    /\ MayStart(w) /\ w # Watchdog
    /\ Requested
    /\ req = "reload" => now + Window <= MaxTime
    /\ loc' = [loc EXCEPT ![w] = [Idle EXCEPT !.pc = "read_deadline", !.req = req]]
    /\ UNCHANGED <<now, router, config, mem, deadline, pointer, disk, fails, restarts, serial>>

WatchdogRound ==
    /\ MayStart(Watchdog)
    /\ loc' = [loc EXCEPT ![Watchdog] = [Idle EXCEPT !.pc = "read_deadline"]]
    /\ UNCHANGED <<now, router, config, mem, deadline, pointer, disk, fails, Bounds>>

(* validation_expired: the monotonic deadline, or the recorded expiry when *)
(* none is armed.                                                          *)
MutantDeadlineOnly == deadline # None /\ now >= deadline
Expired == IF deadline # None THEN now >= deadline
           ELSE mem.pending # None /\ mem.pending.expires <= now

ReadDeadline(w) ==
    /\ At(w, "read_deadline")
    /\ loc' = [loc EXCEPT ![w].pc = "decide", ![w].expired = Expired]
    /\ UNCHANGED <<now, router, config, mem, deadline, pointer, disk, fails, Bounds>>

(* The state lock is taken anew; the decision works on a copy of what is   *)
(* pending at that moment.                                                 *)
DecideRollback(w) ==
    /\ At(w, "decide") /\ RollbackRequired(mem.pending, loc[w].expired)
    /\ loc' = [loc EXCEPT ![w].pc = "rb_load", ![w].claim = mem.pending,
                          ![w].then = IF w = Watchdog THEN "idle" ELSE "handle"]
    /\ UNCHANGED <<now, router, config, mem, deadline, pointer, disk, fails, Bounds>>

DecideProceed(w) ==
    /\ At(w, "decide") /\ ~RollbackRequired(mem.pending, loc[w].expired)
    /\ IF w = Watchdog THEN Finish(w) ELSE Goto(w, "handle")
    /\ UNCHANGED <<now, router, config, mem, deadline, pointer, disk, fails, Bounds>>

(* Audit admission is unavailable: 503, nothing changed.                   *)
AuditUnavailable(w) ==
    /\ At(w, "decide") /\ RollbackRequired(mem.pending, loc[w].expired)
    /\ Fail /\ Finish(w)
    /\ UNCHANGED <<now, router, config, mem, deadline, pointer, disk, Bounds>>
-----------------------------------------------------------------------------
(***************************************************************************)
(* rollback_pending_validation_inner, on the copy in claim                 *)
(***************************************************************************)
RollbackLoad(w) ==
    /\ At(w, "rb_load")
    /\ \/ /\ loc[w].claim.previous = None /\ Succeed
          /\ Goto(w, "rb_failed")
       \/ /\ loc[w].claim.previous # None /\ Fail
          /\ Goto(w, "rb_failed")
       \/ /\ loc[w].claim.previous # None /\ Succeed
          /\ loc' = [loc EXCEPT ![w].pc = "rb_apply", ![w].cand = loc[w].claim.previous]
    /\ UNCHANGED <<now, router, config, mem, deadline, pointer, disk, Bounds>>

MutantApplyErrorIgnored(w) ==
    /\ At(w, "rb_apply")
    /\ \/ Fail /\ UNCHANGED router
       \/ Succeed /\ router' = loc[w].cand
    /\ Goto(w, "rb_config")
    /\ UNCHANGED <<now, config, mem, deadline, pointer, disk, Bounds>>

RollbackApply(w) ==
    /\ At(w, "rb_apply")
    /\ \/ Fail /\ Goto(w, "rb_failed") /\ UNCHANGED router
       \/ Succeed /\ router' = loc[w].cand /\ Goto(w, "rb_config")
    /\ UNCHANGED <<now, config, mem, deadline, pointer, disk, Bounds>>

RollbackConfig(w) ==
    /\ At(w, "rb_config")
    /\ config' = loc[w].cand
    /\ Goto(w, "rb_pointer")
    /\ UNCHANGED <<now, router, mem, deadline, pointer, disk, fails, Bounds>>

RollbackPointer(w) ==
    /\ At(w, "rb_pointer")
    /\ \/ Fail /\ Goto(w, "rb_failed") /\ UNCHANGED pointer
       \/ Succeed /\ pointer' = loc[w].cand /\ Goto(w, "rb_complete")
    /\ UNCHANGED <<now, router, config, mem, deadline, disk, Bounds>>

(* complete_rollback, then the deadline, then the file.                    *)
RollbackComplete(w) ==
    /\ At(w, "rb_complete")
    /\ mem' = RolledBack(loc[w].cand)
    /\ loc' = [loc EXCEPT ![w].pc = "set_deadline", ![w].arm = FALSE]
    /\ UNCHANGED <<now, router, config, deadline, pointer, disk, fails, Bounds>>

(* record_failed_rollback; the handler ends after the file is written.     *)
RollbackFailed(w) ==
    /\ At(w, "rb_failed")
    /\ mem' = FailedRollback(loc[w].claim)
    /\ loc' = [loc EXCEPT ![w].pc = "clone", ![w].then = "idle"]
    /\ UNCHANGED <<now, router, config, deadline, pointer, disk, fails, Bounds>>
-----------------------------------------------------------------------------
(***************************************************************************)
(* The handlers proper                                                     *)
(***************************************************************************)
Handling(w, req) == At(w, "handle") /\ loc[w].req = req

(* self_heal_confirm_response                                              *)
HandleConfirm(w) ==
    /\ Handling(w, "confirm")
    /\ \/ mem.pending = None /\ Finish(w) /\ UNCHANGED mem
       \/ /\ mem.pending # None
          /\ mem' = Confirmed
          /\ loc' = [loc EXCEPT ![w].pc = "set_deadline", ![w].arm = FALSE, ![w].then = "idle"]
    /\ UNCHANGED <<now, router, config, deadline, pointer, disk, fails, Bounds>>

(* self_heal_fail_response                                                 *)
HandleFail(w) ==
    /\ Handling(w, "fail")
    /\ IF mem.pending = None THEN Finish(w)
       ELSE loc' = [loc EXCEPT ![w].pc = "rb_load", ![w].claim = mem.pending, ![w].then = "idle"]
    /\ UNCHANGED <<now, router, config, mem, deadline, pointer, disk, fails, Bounds>>

(* self_heal_report_response: count, decide, persist, then perhaps roll    *)
(* back the copy taken when the signal was counted.                        *)
HandleReport(w, healthy) ==
    /\ Handling(w, IF healthy THEN "report_ok" ELSE "report_bad")
    /\ \/ /\ mem.pending = None
          /\ loc' = [loc EXCEPT ![w].pc = "clone", ![w].then = "idle"]
          /\ UNCHANGED mem
       \/ /\ mem.pending # None /\ TooManyErrors(Counted(healthy))
          /\ mem' = [mem EXCEPT !.pending = Counted(healthy)]
          /\ loc' = [loc EXCEPT ![w].pc = "clone", ![w].claim = Counted(healthy),
                                ![w].then = "rb_load"]
       \/ /\ mem.pending # None /\ ~TooManyErrors(Counted(healthy))
          /\ Counted(healthy).ok >= MinSuccess
          /\ mem' = Confirmed
          /\ loc' = [loc EXCEPT ![w].pc = "set_deadline", ![w].arm = FALSE, ![w].then = "idle"]
       \/ /\ mem.pending # None /\ ~TooManyErrors(Counted(healthy))
          /\ Counted(healthy).ok < MinSuccess
          /\ mem' = [mem EXCEPT !.pending = Counted(healthy)]
          /\ loc' = [loc EXCEPT ![w].pc = "clone", ![w].then = "idle"]
    /\ UNCHANGED <<now, router, config, deadline, pointer, disk, fails, Bounds>>

(* reload_response_inner loads the current snapshot, a live rollback the   *)
(* snapshot it was asked for; both then apply it.                          *)
HandleReload(w) ==
    /\ Handling(w, "reload")
    /\ IF pointer = None THEN Finish(w)
       ELSE loc' = [loc EXCEPT ![w].pc = "apply", ![w].cand = pointer]
    /\ UNCHANGED <<now, router, config, mem, deadline, pointer, disk, fails, Bounds>>

HandleLiveRollback(w, s) ==
    /\ Handling(w, "rollback")
    /\ loc' = [loc EXCEPT ![w].pc = "apply", ![w].cand = s]
    /\ UNCHANGED <<now, router, config, mem, deadline, pointer, disk, fails, Bounds>>

(* apply_snapshot: the router is swapped, then current_config, then the    *)
(* state recorded, the deadline armed and the file written.                *)
Apply(w) ==
    /\ At(w, "apply")
    /\ \/ Fail /\ Finish(w) /\ UNCHANGED router
       \/ Succeed /\ router' = loc[w].cand /\ Goto(w, "store_config")
    /\ UNCHANGED <<now, config, mem, deadline, pointer, disk, Bounds>>

StoreConfig(w) ==
    /\ At(w, "store_config")
    /\ config' = loc[w].cand
    /\ Goto(w, "record")
    /\ UNCHANGED <<now, router, mem, deadline, pointer, disk, fails, Bounds>>

RecordApplied(w) ==
    /\ At(w, "record")
    /\ mem' = IF loc[w].req = "reload" THEN Reloaded(loc[w].cand, now) ELSE RolledBack(loc[w].cand)
    /\ loc' = [loc EXCEPT ![w].pc = "read_pending",
                          ![w].then = IF loc[w].req = "rollback" THEN "move_pointer" ELSE "idle"]
    /\ UNCHANGED <<now, router, config, deadline, pointer, disk, fails, Bounds>>

ReadPending(w) ==
    /\ At(w, "read_pending")
    /\ loc' = [loc EXCEPT ![w].pc = "set_deadline", ![w].arm = (mem.pending # None)]
    /\ UNCHANGED <<now, router, config, mem, deadline, pointer, disk, fails, Bounds>>

MutantUnpersisted(w) ==
    /\ At(w, "set_deadline")
    /\ deadline' = IF loc[w].arm THEN Until(now) ELSE None
    /\ Finish(w)
    /\ UNCHANGED <<now, router, config, mem, pointer, disk, fails, Bounds>>

MutantArmedOnce(w) ==
    /\ At(w, "set_deadline")
    /\ deadline' = IF loc[w].arm THEN OrElse(deadline, Until(now)) ELSE None
    /\ Goto(w, "clone")
    /\ UNCHANGED <<now, router, config, mem, pointer, disk, fails, Bounds>>

SetDeadline(w) ==
    /\ At(w, "set_deadline")
    /\ deadline' = IF loc[w].arm THEN Until(now) ELSE None
    /\ Goto(w, "clone")
    /\ UNCHANGED <<now, router, config, mem, pointer, disk, fails, Bounds>>

(* persist_runtime_state copies the state under its mutex ...              *)
CloneState(w) ==
    /\ At(w, "clone")
    /\ loc' = [loc EXCEPT ![w].pc = "save", ![w].saved = mem]
    /\ UNCHANGED <<now, router, config, mem, deadline, pointer, disk, fails, Bounds>>

(* ... and writes the copy under the store lock.  A failed write ends the  *)
(* handler with an error.                                                  *)
SaveState(w) ==
    /\ At(w, "save")
    /\ \/ Fail /\ Finish(w) /\ UNCHANGED disk
       \/ /\ Succeed /\ disk' = loc[w].saved
          /\ IF loc[w].then = "idle" THEN Finish(w)
             ELSE loc' = [loc EXCEPT ![w].pc = loc[w].then, ![w].then = "idle"]
    /\ UNCHANGED <<now, router, config, mem, deadline, pointer, Bounds>>

(* A live rollback moves the pointer last.                                 *)
MovePointer(w) ==
    /\ At(w, "move_pointer")
    /\ \/ Fail /\ UNCHANGED pointer
       \/ Succeed /\ pointer' = loc[w].cand
    /\ Finish(w)
    /\ UNCHANGED <<now, router, config, mem, deadline, disk, Bounds>>
-----------------------------------------------------------------------------
Rollback(w) ==
    \/ RollbackLoad(w) \/ RollbackApply(w) \/ RollbackConfig(w) \/ RollbackPointer(w)
    \/ RollbackComplete(w) \/ RollbackFailed(w)

Work(w) ==
    \/ ReadDeadline(w) \/ DecideRollback(w) \/ DecideProceed(w) \/ AuditUnavailable(w)
    \/ Rollback(w)
    \/ HandleConfirm(w) \/ HandleFail(w) \/ HandleReload(w)
    \/ \E healthy \in BOOLEAN : HandleReport(w, healthy)
    \/ \E s \in Snaps : HandleLiveRollback(w, s)
    \/ Apply(w) \/ StoreConfig(w) \/ RecordApplied(w) \/ ReadPending(w) \/ SetDeadline(w)
    \/ CloneState(w) \/ SaveState(w) \/ MovePointer(w)

Next ==
    \/ Tick \/ Restart \/ WatchdogRound
    \/ \E s \in Snaps : SelectSnapshot(s)
    \/ \E w \in Workers : Work(w) \/ \E req \in Requests \ {"watch"} : Accept(w, req)

(* Time passes, the watchdog task keeps running and an accepted request is *)
(* carried to its end; nobody has to send requests or restart anything.    *)
Fairness ==
    /\ WF_vars(Tick) /\ WF_vars(WatchdogRound)
    /\ \A w \in Workers : WF_vars(Work(w))

Spec == Init /\ [][Next]_vars /\ Fairness
-----------------------------------------------------------------------------
(***************************************************************************)
(* Properties                                                              *)
(***************************************************************************)

(* "Pending validation fails closed and is persisted in self-healing.toml, *)
(* including health counters and failed rollback attempts": once every     *)
(* handler has returned and no write has failed, the file holds what the   *)
(* process holds in memory, so a restart resumes the same validation.      *)
RecoveryPersisted ==
    AllIdle /\ fails = 0 => IF disk = None THEN mem.pending = None ELSE mem = disk

(* The same where it does hold: handlers that run one after the other      *)
(* persist what they changed (persist_runtime_state), restarts included.   *)
PersistedInTurn == serial => RecoveryPersisted

(* "only successful runtime application plus a durable current-pointer     *)
(* update clears it": when a self-healing rollback clears the pending      *)
(* validation, the proxy serves the snapshot it restored, that snapshot is *)
(* current and the baseline of the next reload, and the candidate cleared  *)
(* is the one the rollback decided on.                                     *)
ClearsWhatItRestored(w) ==
    RollbackComplete(w) /\ mem.pending # None =>
        /\ router = loc[w].cand /\ config = loc[w].cand /\ pointer = loc[w].cand
        /\ mem.pending.target = loc[w].claim.target

(* The promise where it does hold, when handlers do not overlap, although  *)
(* any step of rollback_pending_validation_inner may fail.  (A reload that *)
(* slips in between has its own fresh validation cleared.)                 *)
ClearedInTurn == [][serial => \A w \in Workers : ClearsWhatItRestored(w)]_vars

(* What the admin plane reports is what runs: when handlers do not overlap *)
(* and no step failed, a snapshot applied since startup is recorded as the *)
(* runtime snapshot and is the baseline of the next reload classification. *)
ServedIsRecorded ==
    serial /\ AllIdle /\ fails = 0 /\ router # Source => router = mem.runtime /\ router = config

(* A rollback that fails is retried: when handlers do not overlap, failing *)
(* keeps the validation pending, with the attempt counted, and never       *)
(* replaces the candidate or its rollback target (rollback_failed).        *)
FailureKeepsPending ==
    [][serial => \A w \in Workers : RollbackFailed(w) =>
          /\ mem.pending # None
          /\ mem'.pending = [mem.pending EXCEPT !.attempts = OneMore(@)]]_vars

(* "If the validation window expires before confirmation": while its error *)
(* rate stays within the policy, a candidate is not rolled back before the *)
(* expiry that was recorded for it.  The decision goes by the deadline,    *)
(* which is armed, cleared and rebuilt apart from that record, by reloads  *)
(* over a pending validation, confirmations, rollbacks and restarts.       *)
NotBeforeExpiry ==
    [][serial => \A w \in Workers : DecideRollback(w) /\ ~TooManyErrors(mem.pending) =>
          now >= mem.pending.expires]_vars

(* "the native watchdog retries its recorded rollback target without       *)
(* waiting for operator traffic": every validation that has a rollback     *)
(* target is resolved in the end, although handlers overlap, audit         *)
(* admission, loads, router swaps and writes may fail on the way and the   *)
(* process may restart.                                                    *)
ValidationResolves ==
    (mem.pending # None) ~> (mem.pending = None \/ mem.pending.previous = None)
=============================================================================
