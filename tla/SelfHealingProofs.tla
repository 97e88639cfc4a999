-------------------------- MODULE SelfHealingProofs --------------------------
(***************************************************************************)
(* Proofs about SelfHealing for any workers, snapshots and policy, and any *)
(* number of requests, failures and restarts.                              *)
(*                                                                         *)
(* When handlers do not overlap, only one worker has anything in its       *)
(* hands: what is in memory, on disk and in the router is then a function  *)
(* of the step that worker is at.                                          *)
(***************************************************************************)
EXTENDS SelfHealing, TLAPS

Local == [pc : Steps, req : Requests, claim : Pending \cup {None}, cand : SnapOrNone,
          saved : State \cup {None}, expired : BOOLEAN, arm : BOOLEAN, then : Steps]
DataTypes ==
    /\ serial \in BOOLEAN /\ now \in 0..MaxTime
    /\ router \in Snaps \cup {Source} /\ config \in Snaps \cup {Source}
    /\ mem \in State /\ disk \in State \cup {None}
    /\ deadline \in Nat \cup {None} /\ pointer \in SnapOrNone
    /\ requests \in Nat /\ fails \in 0..MaxFails /\ restarts \in 0..MaxRestarts

(* What a worker has in its hands at each step.                            *)
RollbackSteps == {"rb_load", "rb_apply", "rb_config", "rb_pointer", "rb_complete", "rb_failed"}
HoldsCandidate == {"rb_apply", "rb_config", "rb_pointer", "rb_complete", "apply", "store_config",
                   "record", "move_pointer"}
Fits(w) ==
    /\ loc[w].then \in {"idle", "handle", "rb_load", "move_pointer"}
    /\ At(w, "idle") => loc[w].then = "idle"
    /\ loc[w].pc \in RollbackSteps => loc[w].then \in {"idle", "handle"}
    /\ loc[w].pc \in RollbackSteps \/ loc[w].then = "rb_load" => loc[w].claim \in Pending
    /\ loc[w].pc \in HoldsCandidate \/ loc[w].then = "move_pointer" => loc[w].cand \in Snaps
    /\ At(w, "save") => loc[w].saved \in State

-----------------------------------------------------------------------------
(* Handlers in turn.  The candidate of a validation is what runs, in       *)
(* memory and in the file.                                                 *)
TargetRuns(s) == s.pending # None => s.runtime = s.pending.target
Saved == IF disk = None THEN mem.pending = None ELSE mem = disk
Recorded == router = mem.runtime /\ router = config
Unsaved == {"read_pending", "set_deadline", "clone", "save"}
Swapping == {"store_config", "record", "rb_config", "rb_pointer", "rb_complete"}

(* What holds while w is the only worker that may be busy.                 *)
Alone(w) == \A v \in Workers \ {w} : At(v, "idle")
Now(w) ==
    /\ TargetRuns(mem) /\ (disk # None => TargetRuns(disk))
    /\ loc[w].pc \in RollbackSteps \/ loc[w].then = "rb_load" =>
           mem.pending # None /\ loc[w].claim = mem.pending
    /\ loc[w].pc \in Swapping => router = loc[w].cand
    /\ loc[w].pc \in {"record", "rb_pointer", "rb_complete"} => config = loc[w].cand
    /\ At(w, "save") => loc[w].saved = mem
    /\ fails = 0 /\ loc[w].pc \notin Unsaved => Saved
    /\ fails = 0 /\ router # Source /\ loc[w].pc \notin Swapping => Recorded
InTurn ==
    /\ \A v, w \in Workers : ~At(v, "idle") /\ ~At(w, "idle") => v = w
    /\ \A w \in Workers : Alone(w) => Now(w)

IndInv ==
    /\ DataTypes /\ loc \in [Workers -> Local] /\ \A w \in Workers : Fits(w)
    /\ serial => InTurn

-----------------------------------------------------------------------------
(* The worker that takes a step, and the others.                           *)
Others(w) == loc' \in [Workers -> Local] /\ \A v \in Workers \ {w} : loc'[v] = loc[v]
Becomes(w, step, claim, cand, saved, then) ==
    /\ Others(w) /\ loc'[w].pc = step /\ loc'[w].claim = claim /\ loc'[w].cand = cand
    /\ loc'[w].saved = saved /\ loc'[w].then = then

LEMMA NextLocal ==
    ASSUME loc \in [Workers -> Local], NEW w \in Workers, NEW next \in Local, loc' = [loc EXCEPT ![w] = next]
    PROVE  Others(w) /\ loc'[w] = next
  BY DEF Others

LEMMA GotoBecomes ==
    ASSUME loc \in [Workers -> Local], NEW w \in Workers, NEW step \in Steps, Goto(w, step)
    PROVE  Becomes(w, step, loc[w].claim, loc[w].cand, loc[w].saved, loc[w].then)
<1> DEFINE next == [loc[w] EXCEPT !.pc = step]
<1>1. loc[w] \in Local
  OBVIOUS
<1>2. next \in Local
  BY <1>1 DEF Local
<1>3. loc' = [loc EXCEPT ![w] = next]
  BY DEF Goto
<1>4. Others(w) /\ loc'[w] = next
  BY <1>2, <1>3, NextLocal
<1> QED BY <1>1, <1>4 DEF Becomes, Local

LEMMA IdleLocal == Idle \in Local /\ Idle.pc = "idle" /\ Idle.then = "idle"
  BY DEF Idle, Local, Steps, Requests, SnapOrNone

LEMMA FinishBecomes ==
    ASSUME loc \in [Workers -> Local], NEW w \in Workers, Finish(w)
    PROVE  Others(w) /\ loc'[w].pc = "idle" /\ loc'[w].then = "idle"
  BY IdleLocal, NextLocal DEF Finish

(* A step of w preserves the invariant if what w then holds fits.          *)
LEMMA Stepping ==
    ASSUME IndInv, NEW w \in Workers, Others(w), UNCHANGED serial, serial => Alone(w),
           DataTypes', Fits(w)', serial => Now(w)'
    PROVE  IndInv'
<1>1. \A v \in Workers : Fits(v)'
  BY DEF IndInv, Others, Fits, At
<1>2. ASSUME serial PROVE InTurn'
  <2>1. \A v \in Workers \ {w} : loc'[v].pc = "idle" /\ loc'[v].then = "idle"
    BY <1>2 DEF Alone, At, Others, IndInv, Fits
  <2>2. \A u, v \in Workers : ~At(u, "idle")' /\ ~At(v, "idle")' => u = v
    BY <2>1 DEF At
  <2>3. ASSUME NEW v \in Workers, Alone(v)' PROVE Now(v)'
    <3>1. CASE v = w
      BY <1>2, <3>1
    <3>2. CASE v # w
      <4>1. loc'[w].pc = "idle"
        BY <2>3, <3>2 DEF Alone, At
      <4> QED BY <1>2, <2>1, <3>2, <4>1 DEF Now, At, RollbackSteps, Swapping, Unsaved
    <3> QED BY <3>1, <3>2
  <2> QED BY <2>2, <2>3 DEF InTurn
<1> QED BY <1>1, <1>2 DEF IndInv, Others

(* What may be used of the invariant where w takes a step.                 *)
LEMMA Working ==
    ASSUME IndInv, NEW w \in Workers
    PROVE  /\ loc \in [Workers -> Local] /\ loc[w] \in Local /\ DataTypes /\ Fits(w)
           /\ ~At(w, "idle") => (serial => Alone(w) /\ Now(w))
  BY DEF IndInv, InTurn, Alone

(* A step that touches nothing but the worker.                             *)
LEMMA OnlyMoves ==
    ASSUME IndInv, NEW w \in Workers, Others(w), ~At(w, "idle"), Fits(w)',
           UNCHANGED <<serial, now, router, config, mem, deadline, pointer, disk, requests, restarts>>,
           fails' = fails \/ (fails < MaxFails /\ fails' = fails + 1),
           serial =>
               /\ (loc[w].pc \in RollbackSteps \/ loc[w].then = "rb_load" =>
                      mem.pending # None /\ loc[w].claim = mem.pending)'
               /\ (loc[w].pc \in Swapping => router = loc[w].cand)'
               /\ (loc[w].pc \in {"record", "rb_pointer", "rb_complete"} => config = loc[w].cand)'
               /\ (At(w, "save") => loc[w].saved = mem)'
               /\ fails' = 0 /\ loc[w].pc \in Unsaved => loc'[w].pc \in Unsaved
               /\ fails' = 0 /\ loc[w].pc \in Swapping => loc'[w].pc \in Swapping
    PROVE  IndInv'
<1>1. DataTypes' /\ (fails' = 0 => fails = 0)
  BY Working, BoundsAssumption DEF DataTypes
<1>2. serial => Now(w)'
  BY <1>1, Working DEF Now, TargetRuns, Saved, Recorded
<1> QED BY <1>1, <1>2, Working, Stepping

-----------------------------------------------------------------------------
(* enforce_self_healing_deadline                                           *)
LEMMA StartStep ==
    ASSUME IndInv, NEW w \in Workers, MayStart(w), NEW next \in Local, loc' = [loc EXCEPT ![w] = next],
           next.pc = "read_deadline", next.then = "idle", requests' \in Nat,
           UNCHANGED <<serial, now, router, config, mem, deadline, pointer, disk, fails, restarts>>
    PROVE  IndInv'
<1>1. Others(w) /\ loc'[w].pc = "read_deadline" /\ loc'[w].then = "idle"
  BY Working, NextLocal
<1>2. DataTypes' /\ Fits(w)'
  BY <1>1, Working DEF DataTypes, Fits, At, RollbackSteps, HoldsCandidate
<1>3. ASSUME serial PROVE Alone(w) /\ Now(w)
  BY <1>3 DEF MayStart, AllIdle, Alone, IndInv, InTurn
<1>4. serial => Now(w)'
  BY <1>1, <1>3 DEF MayStart, At, Now, TargetRuns, Saved, Recorded, RollbackSteps, Swapping, Unsaved
<1> QED BY <1>1, <1>2, <1>3, <1>4, Stepping

LEMMA AcceptStep ==
    ASSUME IndInv, NEW w \in Workers, NEW req \in Requests, Accept(w, req)
    PROVE  IndInv'
<1> DEFINE next == [Idle EXCEPT !.pc = "read_deadline", !.req = req]
<1>1. next \in Local /\ next.pc = "read_deadline" /\ next.then = "idle"
  BY IdleLocal DEF Local, Steps
<1>2. requests' \in Nat
  BY Working DEF Accept, Requested, DataTypes
<1> QED BY <1>1, <1>2, StartStep DEF Accept

LEMMA WatchdogStep ==
    ASSUME IndInv, WatchdogRound
    PROVE  IndInv'
<1> DEFINE next == [Idle EXCEPT !.pc = "read_deadline"]
<1>1. next \in Local /\ next.pc = "read_deadline" /\ next.then = "idle"
  BY IdleLocal DEF Local, Steps
<1>2. requests' \in Nat
  BY WorkersAssumption, Working DEF WatchdogRound, Bounds, DataTypes
<1> QED BY <1>1, <1>2, WorkersAssumption, StartStep DEF WatchdogRound, Bounds

LEMMA ReadDeadlineStep ==
    ASSUME IndInv, NEW w \in Workers, ReadDeadline(w)
    PROVE  IndInv'
<1> DEFINE next == [loc[w] EXCEPT !.pc = "decide", !.expired = Expired]
<1>1. Expired \in BOOLEAN
  <2>1. (now >= deadline) \in BOOLEAN
    OBVIOUS
  <2>2. (mem.pending # None /\ mem.pending.expires <= now) \in BOOLEAN
    OBVIOUS
  <2>3. CASE deadline # None
    BY <2>1, <2>3 DEF Expired
  <2>4. CASE deadline = None
    BY <2>2, <2>4 DEF Expired
  <2> QED BY <2>3, <2>4
<1>2. next \in Local
  BY <1>1, Working DEF Local, Steps
<1>3. loc' = [loc EXCEPT ![w] = next]
  BY DEF ReadDeadline
<1>4. Becomes(w, "decide", loc[w].claim, loc[w].cand, loc[w].saved, loc[w].then)
  BY <1>2, <1>3, Working, NextLocal DEF Becomes, Local
<1>5. Fits(w)'
  BY <1>4, Working DEF ReadDeadline, Becomes, Fits, At, RollbackSteps, HoldsCandidate
<1> QED BY <1>4, <1>5, Working, OnlyMoves DEF ReadDeadline, Becomes, Bounds, At, Now, RollbackSteps,
     Swapping, Unsaved

LEMMA DecideRollbackStep ==
    ASSUME IndInv, NEW w \in Workers, DecideRollback(w)
    PROVE  IndInv'
<1> DEFINE then == IF w = Watchdog THEN "idle" ELSE "handle"
           next == [loc[w] EXCEPT !.pc = "rb_load", !.claim = mem.pending, !.then = then]
<1>1. mem.pending \in Pending /\ mem.pending # None /\ then \in {"idle", "handle"}
  BY Working DEF DecideRollback, RollbackRequired, DataTypes, State
<1> HIDE DEF then
<1>2. next \in Local
  BY <1>1, Working DEF Local, Steps
<1>3. loc' = [loc EXCEPT ![w] = next]
  BY DEF DecideRollback, then
<1>4. Becomes(w, "rb_load", mem.pending, loc[w].cand, loc[w].saved, then)
  BY <1>2, <1>3, Working, NextLocal DEF Becomes, Local
<1>5. Fits(w)'
  BY <1>1, <1>4, Working DEF DecideRollback, Becomes, Fits, At, RollbackSteps, HoldsCandidate
<1> QED BY <1>1, <1>4, <1>5, Working, OnlyMoves DEF DecideRollback, Becomes, Bounds, At, Now, RollbackSteps,
     Swapping, Unsaved

(* A worker that goes on with what it has, or ends.                        *)
LEMMA GoingOn ==
    ASSUME IndInv, NEW w \in Workers, NEW step \in Steps, Goto(w, step), Succeed \/ Fail,
           loc[w].pc \notin {"idle"} \cup Unsaved, loc[w].pc \in Swapping => fails' # 0, step # "idle",
           step \in RollbackSteps => loc[w].pc \in RollbackSteps,
           step \notin Swapping \cup HoldsCandidate \cup {"save"},
           UNCHANGED <<serial, now, router, config, mem, deadline, pointer, disk, requests, restarts>>
    PROVE  IndInv'
<1>1. Becomes(w, step, loc[w].claim, loc[w].cand, loc[w].saved, loc[w].then)
  BY Working, GotoBecomes
<1>2. Fits(w)'
  BY <1>1, Working DEF Becomes, Fits, At
<1> QED BY <1>1, <1>2, Working, OnlyMoves DEF Becomes, At, Now, Swapping, Succeed, Fail

LEMMA Ending ==
    ASSUME IndInv, NEW w \in Workers, ~At(w, "idle"), Finish(w), Succeed \/ Fail,
           loc[w].pc \notin Unsaved \cup Swapping \/ fails' # 0,
           UNCHANGED <<serial, now, router, config, mem, deadline, pointer, disk, requests, restarts>>
    PROVE  IndInv'
<1>1. Others(w) /\ loc'[w].pc = "idle" /\ loc'[w].then = "idle"
  BY Working, FinishBecomes
<1>2. Fits(w)'
  BY <1>1 DEF Fits, At, RollbackSteps, HoldsCandidate
<1> QED BY <1>1, <1>2, OnlyMoves DEF At, RollbackSteps, Swapping, Succeed, Fail

LEMMA FailNotZero == ASSUME IndInv, Fail PROVE fails' # 0
  BY Working, WorkersAssumption, BoundsAssumption DEF Fail, DataTypes

LEMMA DecideSteps ==
    ASSUME IndInv, NEW w \in Workers, DecideProceed(w) \/ AuditUnavailable(w)
    PROVE  IndInv'
<1>1. loc[w].pc = "decide" /\ ~At(w, "idle") /\ (Succeed \/ Fail)
      /\ UNCHANGED <<serial, now, router, config, mem, deadline, pointer, disk, requests, restarts>>
  BY DEF DecideProceed, AuditUnavailable, At, Bounds, Succeed
<1>2. CASE Finish(w)
  BY <1>1, <1>2, Ending DEF Unsaved, Swapping
<1>3. CASE Goto(w, "handle")
  BY <1>1, <1>3, GoingOn DEF Unsaved, Swapping, HoldsCandidate, RollbackSteps, Steps
<1> QED BY <1>2, <1>3 DEF DecideProceed, AuditUnavailable

-----------------------------------------------------------------------------
(* rollback_pending_validation_inner                                       *)
LEMMA RollbackLoadStep ==
    ASSUME IndInv, NEW w \in Workers, RollbackLoad(w)
    PROVE  IndInv'
<1>1. loc[w].pc = "rb_load" /\ ~At(w, "idle") /\ (Succeed \/ Fail)
      /\ UNCHANGED <<serial, now, router, config, mem, deadline, pointer, disk, requests, restarts>>
  BY DEF RollbackLoad, At, Bounds
<1>2. CASE Goto(w, "rb_failed")
  BY <1>1, <1>2, GoingOn DEF Unsaved, Swapping, HoldsCandidate, RollbackSteps, Steps
<1>3. CASE /\ loc[w].claim.previous # None /\ Succeed
           /\ loc' = [loc EXCEPT ![w].pc = "rb_apply", ![w].cand = loc[w].claim.previous]
  <2> DEFINE next == [loc[w] EXCEPT !.pc = "rb_apply", !.cand = loc[w].claim.previous]
  <2>1. loc[w].claim \in Pending /\ loc[w].claim.previous \in Snaps
    BY <1>1, <1>3, Working DEF Fits, RollbackSteps, Pending, SnapOrNone
  <2>2. next \in Local
    BY <2>1, Working DEF Local, Steps, SnapOrNone
  <2>3. loc' = [loc EXCEPT ![w] = next]
    BY <1>3
  <2>4. Becomes(w, "rb_apply", loc[w].claim, loc[w].claim.previous, loc[w].saved, loc[w].then)
    BY <2>2, <2>3, Working, NextLocal DEF Becomes, Local
  <2>5. Fits(w)'
    BY <1>1, <2>1, <2>4, Working DEF Becomes, Fits, At, RollbackSteps, HoldsCandidate
  <2> QED BY <1>1, <1>3, <2>4, <2>5, Working, OnlyMoves DEF Becomes, At, Now, RollbackSteps, Swapping, Unsaved, Succeed
<1> QED BY <1>2, <1>3 DEF RollbackLoad

LEMMA RollbackApplyStep ==
    ASSUME IndInv, NEW w \in Workers, RollbackApply(w)
    PROVE  IndInv'
<1>1. loc[w].pc = "rb_apply" /\ ~At(w, "idle")
      /\ UNCHANGED <<serial, now, config, mem, deadline, pointer, disk, requests, restarts>>
  BY DEF RollbackApply, At, Bounds
<1>2. CASE Fail /\ Goto(w, "rb_failed") /\ UNCHANGED router
  BY <1>1, <1>2, GoingOn DEF Unsaved, Swapping, HoldsCandidate, RollbackSteps, Steps
<1>3. CASE Succeed /\ router' = loc[w].cand /\ Goto(w, "rb_config")
  <2>1. Becomes(w, "rb_config", loc[w].claim, loc[w].cand, loc[w].saved, loc[w].then)
    BY <1>3, Working, GotoBecomes DEF Steps
  <2>2. Fits(w)' /\ DataTypes'
    BY <1>1, <1>3, <2>1, Working DEF Becomes, Fits, At, RollbackSteps, HoldsCandidate, DataTypes, Succeed
  <2>3. serial => Now(w)'
    BY <1>1, <1>3, <2>1, Working DEF Becomes, Now, At, TargetRuns, Saved, RollbackSteps, Swapping, Unsaved, Succeed
  <2> QED BY <1>1, <2>1, <2>2, <2>3, Working, Stepping DEF Becomes
<1> QED BY <1>2, <1>3 DEF RollbackApply

LEMMA RollbackConfigStep ==
    ASSUME IndInv, NEW w \in Workers, RollbackConfig(w)
    PROVE  IndInv'
<1>1. loc[w].pc = "rb_config" /\ ~At(w, "idle") /\ config' = loc[w].cand /\ Goto(w, "rb_pointer")
      /\ UNCHANGED <<serial, now, router, mem, deadline, pointer, disk, fails, requests, restarts>>
  BY DEF RollbackConfig, At, Bounds
<1>2. Becomes(w, "rb_pointer", loc[w].claim, loc[w].cand, loc[w].saved, loc[w].then)
  BY <1>1, Working, GotoBecomes DEF Steps
<1>3. Fits(w)' /\ DataTypes'
  BY <1>1, <1>2, Working DEF Becomes, Fits, At, RollbackSteps, HoldsCandidate, DataTypes
<1>4. serial => Now(w)'
  BY <1>1, <1>2, Working DEF Becomes, Now, At, TargetRuns, Saved, RollbackSteps, Swapping, Unsaved
<1> QED BY <1>1, <1>2, <1>3, <1>4, Working, Stepping DEF Becomes

LEMMA RollbackPointerStep ==
    ASSUME IndInv, NEW w \in Workers, RollbackPointer(w)
    PROVE  IndInv'
<1>1. loc[w].pc = "rb_pointer" /\ ~At(w, "idle")
      /\ UNCHANGED <<serial, now, router, config, mem, deadline, disk, requests, restarts>>
  BY DEF RollbackPointer, At, Bounds
<1>2. CASE Fail /\ Goto(w, "rb_failed") /\ UNCHANGED pointer
  BY <1>1, <1>2, FailNotZero, GoingOn DEF Unsaved, HoldsCandidate, Swapping, RollbackSteps, Steps
<1>3. CASE Succeed /\ pointer' = loc[w].cand /\ Goto(w, "rb_complete")
  <2>1. Becomes(w, "rb_complete", loc[w].claim, loc[w].cand, loc[w].saved, loc[w].then)
    BY <1>3, Working, GotoBecomes DEF Steps
  <2>2. Fits(w)' /\ DataTypes'
    BY <1>1, <1>3, <2>1, Working DEF Becomes, Fits, At, RollbackSteps, HoldsCandidate, DataTypes, SnapOrNone, Succeed
  <2>3. serial => Now(w)'
    BY <1>1, <1>3, <2>1, Working DEF Becomes, Now, At, TargetRuns, Saved, RollbackSteps, Swapping, Unsaved, Succeed
  <2> QED BY <1>1, <2>1, <2>2, <2>3, Working, Stepping DEF Becomes
<1> QED BY <1>2, <1>3 DEF RollbackPointer

LEMMA RolledBackState ==
    ASSUME NEW s \in Snaps
    PROVE  /\ RolledBack(s) \in State /\ RolledBack(s).pending = None /\ RolledBack(s).runtime = s
           /\ TargetRuns(RolledBack(s))
  BY DEF RolledBack, State, SnapOrNone, TargetRuns

LEMMA RollbackCompleteStep ==
    ASSUME IndInv, NEW w \in Workers, RollbackComplete(w)
    PROVE  IndInv'
<1> DEFINE next == [loc[w] EXCEPT !.pc = "set_deadline", !.arm = FALSE]
<1>1. loc[w].pc = "rb_complete" /\ ~At(w, "idle") /\ mem' = RolledBack(loc[w].cand)
      /\ UNCHANGED <<serial, now, router, config, deadline, pointer, disk, fails, requests, restarts>>
  BY DEF RollbackComplete, At, Bounds
<1>2. loc[w].cand \in Snaps /\ loc[w].then \in {"idle", "handle"}
  BY <1>1, Working DEF Fits, HoldsCandidate, RollbackSteps
<1>3. mem' \in State /\ mem'.runtime = loc[w].cand /\ TargetRuns(mem')
  BY <1>1, <1>2, RolledBackState
<1>4. next \in Local
  BY Working DEF Local, Steps
<1>5. loc' = [loc EXCEPT ![w] = next]
  BY DEF RollbackComplete
<1>6. Becomes(w, "set_deadline", loc[w].claim, loc[w].cand, loc[w].saved, loc[w].then)
  BY <1>4, <1>5, Working, NextLocal DEF Becomes, Local
<1>7. Fits(w)' /\ DataTypes'
  BY <1>1, <1>2, <1>3, <1>6, Working DEF Becomes, Fits, At, RollbackSteps, HoldsCandidate, DataTypes
<1>8. serial => Now(w)'
  BY <1>1, <1>2, <1>3, <1>6, Working DEF Becomes, Now, At, TargetRuns, Recorded, RollbackSteps, Swapping, Unsaved
<1> QED BY <1>1, <1>6, <1>7, <1>8, Working, Stepping DEF Becomes

LEMMA RollbackFailedStep ==
    ASSUME IndInv, NEW w \in Workers, RollbackFailed(w)
    PROVE  IndInv'
<1> DEFINE next == [loc[w] EXCEPT !.pc = "clone", !.then = "idle"]
           again == [loc[w].claim EXCEPT !.attempts = OneMore(@)]
<1>1. loc[w].pc = "rb_failed" /\ ~At(w, "idle") /\ mem' = [mem EXCEPT !.pending = again]
      /\ UNCHANGED <<serial, now, router, config, deadline, pointer, disk, fails, requests, restarts>>
  BY DEF RollbackFailed, FailedRollback, At, Bounds
<1>2. loc[w].claim \in Pending
  BY <1>1, Working DEF Fits, RollbackSteps
<1>3. again \in Pending /\ again.target = loc[w].claim.target
  BY <1>2 DEF Pending, OneMore
<1> HIDE DEF again
<1>4. mem' \in State /\ mem'.runtime = mem.runtime /\ mem'.pending = again
  BY <1>1, <1>3, Working DEF DataTypes, State
<1>5. next \in Local
  BY Working DEF Local, Steps
<1>6. loc' = [loc EXCEPT ![w] = next]
  BY DEF RollbackFailed
<1>7. Becomes(w, "clone", loc[w].claim, loc[w].cand, loc[w].saved, "idle")
  BY <1>5, <1>6, Working, NextLocal DEF Becomes, Local
<1>8. Fits(w)' /\ DataTypes'
  BY <1>1, <1>4, <1>7, Working DEF Becomes, Fits, At, RollbackSteps, HoldsCandidate, DataTypes
<1>9. serial => Now(w)'
  BY <1>1, <1>3, <1>4, <1>7, Working DEF Becomes, Now, At, TargetRuns, Recorded, RollbackSteps, Swapping, Unsaved
<1> QED BY <1>1, <1>7, <1>8, <1>9, Working, Stepping DEF Becomes

-----------------------------------------------------------------------------
(* The handlers                                                            *)

(* A confirmation makes the candidate of the validation the known good.    *)
LEMMA Confirming ==
    ASSUME IndInv, NEW w \in Workers, At(w, "handle"), mem.pending # None, mem' = Confirmed,
           loc' = [loc EXCEPT ![w].pc = "set_deadline", ![w].arm = FALSE, ![w].then = "idle"],
           UNCHANGED <<serial, now, router, config, deadline, pointer, disk, fails, requests, restarts>>
    PROVE  IndInv'
<1> DEFINE next == [loc[w] EXCEPT !.pc = "set_deadline", !.arm = FALSE, !.then = "idle"]
<1>1. mem.pending \in Pending /\ mem.pending.target \in Snaps
  BY Working DEF DataTypes, State, Pending
<1>2. mem' \in State /\ mem'.runtime = mem.pending.target /\ TargetRuns(mem')
  BY <1>1, RolledBackState DEF Confirmed
<1>3. next \in Local
  BY Working DEF Local, Steps
<1>4. Becomes(w, "set_deadline", loc[w].claim, loc[w].cand, loc[w].saved, "idle")
  <2>1. loc' = [loc EXCEPT ![w] = next]
    OBVIOUS
  <2>2. Others(w) /\ loc'[w] = next
    BY <1>3, <2>1, Working, NextLocal
  <2> QED BY <2>2, Working DEF Becomes, Local
<1>5. Fits(w)' /\ DataTypes'
  BY <1>2, <1>4, Working DEF Becomes, Fits, At, RollbackSteps, HoldsCandidate, DataTypes
<1>6. serial => Now(w)'
  BY <1>2, <1>4, Working DEF Becomes, Now, At, TargetRuns, Recorded, RollbackSteps, Swapping, Unsaved
<1> QED BY <1>4, <1>5, <1>6, Working, Stepping DEF Becomes, At

LEMMA HandleConfirmStep ==
    ASSUME IndInv, NEW w \in Workers, HandleConfirm(w)
    PROVE  IndInv'
<1>1. At(w, "handle") /\ ~At(w, "idle")
      /\ UNCHANGED <<serial, now, router, config, deadline, pointer, disk, fails, requests, restarts>>
  BY DEF HandleConfirm, Handling, At, Bounds
<1>2. CASE Finish(w) /\ UNCHANGED mem
  BY <1>1, <1>2, Ending DEF At, Unsaved, Swapping, Succeed
<1>3. CASE /\ mem.pending # None /\ mem' = Confirmed
           /\ loc' = [loc EXCEPT ![w].pc = "set_deadline", ![w].arm = FALSE, ![w].then = "idle"]
  BY <1>1, <1>3, Confirming, Zenon
<1> QED BY <1>2, <1>3 DEF HandleConfirm

LEMMA HandleFailStep ==
    ASSUME IndInv, NEW w \in Workers, HandleFail(w)
    PROVE  IndInv'
<1>1. At(w, "handle") /\ ~At(w, "idle")
      /\ UNCHANGED <<serial, now, router, config, mem, deadline, pointer, disk, fails, requests, restarts>>
  BY DEF HandleFail, Handling, At, Bounds
<1>2. CASE Finish(w)
  BY <1>1, <1>2, Ending DEF At, Unsaved, Swapping, Succeed
<1>3. CASE /\ mem.pending # None
           /\ loc' = [loc EXCEPT ![w].pc = "rb_load", ![w].claim = mem.pending, ![w].then = "idle"]
  <2> DEFINE next == [loc[w] EXCEPT !.pc = "rb_load", !.claim = mem.pending, !.then = "idle"]
  <2>1. mem.pending \in Pending
    BY <1>3, Working DEF DataTypes, State
  <2>2. next \in Local
    BY <2>1, Working DEF Local, Steps
  <2>3. Becomes(w, "rb_load", mem.pending, loc[w].cand, loc[w].saved, "idle")
    <3>1. loc' = [loc EXCEPT ![w] = next]
      BY <1>3
    <3> QED BY <2>2, <3>1, Working, NextLocal DEF Becomes, Local
  <2>4. Fits(w)'
    BY <1>1, <2>1, <2>3, Working DEF Becomes, Fits, At, RollbackSteps, HoldsCandidate
  <2> QED BY <1>1, <1>3, <2>3, <2>4, Working, OnlyMoves DEF Becomes, At, RollbackSteps, Swapping, Unsaved
<1> QED BY <1>2, <1>3 DEF HandleFail

LEMMA CountedState ==
    ASSUME IndInv, mem.pending # None, NEW healthy \in BOOLEAN
    PROVE  /\ Counted(healthy) \in Pending /\ Counted(healthy).target = mem.pending.target
           /\ [mem EXCEPT !.pending = Counted(healthy)] \in State
           /\ TargetRuns(mem) => TargetRuns([mem EXCEPT !.pending = Counted(healthy)])
<1>1. mem.pending \in Pending /\ mem \in State
  BY WorkersAssumption, Working DEF DataTypes, State
<1>2. Counted(healthy) \in Pending /\ Counted(healthy).target = mem.pending.target
  <2> DEFINE ok == IF healthy THEN mem.pending.ok + 1 ELSE mem.pending.ok
             bad == IF healthy THEN mem.pending.bad ELSE mem.pending.bad + 1
  <2>1. ok \in Nat /\ bad \in Nat
    BY <1>1 DEF Pending
  <2>2. Counted(healthy) = [mem.pending EXCEPT !.ok = ok, !.bad = bad]
    BY DEF Counted
  <2> HIDE DEF ok, bad
  <2> QED BY <1>1, <2>1, <2>2 DEF Pending
<1> QED BY <1>1, <1>2 DEF State, TargetRuns

LEMMA HandleReportStep ==
    ASSUME IndInv, NEW w \in Workers, NEW healthy \in BOOLEAN, HandleReport(w, healthy)
    PROVE  IndInv'
<1>1. At(w, "handle") /\ ~At(w, "idle")
      /\ UNCHANGED <<serial, now, router, config, deadline, pointer, disk, fails, requests, restarts>>
  BY DEF HandleReport, Handling, At, Bounds
<1>2. ASSUME NEW claim \in Pending \cup {None}, NEW then \in {"idle", "rb_load"},
             Becomes(w, "clone", claim, loc[w].cand, loc[w].saved, then),
             mem' \in State, mem'.runtime = mem.runtime, TargetRuns(mem) => TargetRuns(mem'),
             then = "rb_load" => claim \in Pending /\ claim = mem'.pending
      PROVE  IndInv'
  <2>1. Fits(w)' /\ DataTypes'
    BY <1>1, <1>2, Working DEF Becomes, Fits, At, RollbackSteps, HoldsCandidate, DataTypes
  <2>2. then = "rb_load" => mem'.pending # None
    BY <1>2, RecordsAssumption
  <2>3. serial => Now(w)'
    BY <1>1, <1>2, <2>2, Working DEF Becomes, Now, At, TargetRuns, Recorded, RollbackSteps, Swapping, Unsaved
  <2> QED BY <1>1, <1>2, <2>1, <2>3, Working, Stepping DEF Becomes
<1>3. ASSUME loc' = [loc EXCEPT ![w].pc = "clone", ![w].then = "idle"]
      PROVE  Becomes(w, "clone", loc[w].claim, loc[w].cand, loc[w].saved, "idle")
  <2> DEFINE next == [loc[w] EXCEPT !.pc = "clone", !.then = "idle"]
  <2>1. next \in Local
    BY Working DEF Local, Steps
  <2> QED BY <1>3, <2>1, Working, NextLocal DEF Becomes, Local
<1>4. loc[w].claim \in Pending \cup {None}
  BY Working DEF Local
<1>5. CASE loc' = [loc EXCEPT ![w].pc = "clone", ![w].then = "idle"] /\ UNCHANGED mem
  BY <1>2, <1>3, <1>4, <1>5, Working DEF DataTypes
<1>6. CASE /\ mem.pending # None
           /\ mem' = [mem EXCEPT !.pending = Counted(healthy)]
           /\ loc' = [loc EXCEPT ![w].pc = "clone", ![w].claim = Counted(healthy), ![w].then = "rb_load"]
  <2> DEFINE claim == Counted(healthy)
             next == [loc[w] EXCEPT !.pc = "clone", !.claim = claim, !.then = "rb_load"]
  <2>1. claim \in Pending /\ mem' \in State /\ mem'.runtime = mem.runtime /\ mem'.pending = claim
        /\ (TargetRuns(mem) => TargetRuns(mem'))
    BY <1>6, CountedState, Working DEF DataTypes, State
  <2>2. loc' = [loc EXCEPT ![w] = next]
    BY <1>6
  <2> HIDE DEF claim
  <2>3. next \in Local
    BY <2>1, Working DEF Local, Steps
  <2>4. Becomes(w, "clone", claim, loc[w].cand, loc[w].saved, "rb_load")
    BY <2>2, <2>3, Working, NextLocal DEF Becomes, Local
  <2> QED BY <1>2, <2>1, <2>4
<1>7. CASE /\ mem.pending # None
           /\ mem' = [mem EXCEPT !.pending = Counted(healthy)]
           /\ loc' = [loc EXCEPT ![w].pc = "clone", ![w].then = "idle"]
  <2>1. mem' \in State /\ mem'.runtime = mem.runtime /\ (TargetRuns(mem) => TargetRuns(mem'))
    BY <1>7, CountedState, Working DEF DataTypes, State
  <2> QED BY <1>2, <1>3, <1>4, <1>7, <2>1
<1>8. CASE /\ mem.pending # None /\ mem' = Confirmed
           /\ loc' = [loc EXCEPT ![w].pc = "set_deadline", ![w].arm = FALSE, ![w].then = "idle"]
  BY <1>1, <1>8, Confirming, Zenon
<1> QED BY <1>5, <1>6, <1>7, <1>8 DEF HandleReport

(* reload_response_inner and a live rollback take up a snapshot.           *)
LEMMA TakesUp ==
    ASSUME IndInv, NEW w \in Workers, At(w, "handle"), NEW s \in Snaps,
           loc' = [loc EXCEPT ![w].pc = "apply", ![w].cand = s],
           UNCHANGED <<serial, now, router, config, mem, deadline, pointer, disk, fails, requests, restarts>>
    PROVE  IndInv'
<1> DEFINE next == [loc[w] EXCEPT !.pc = "apply", !.cand = s]
<1>1. next \in Local
  BY Working DEF Local, Steps, SnapOrNone
<1>2. Becomes(w, "apply", loc[w].claim, s, loc[w].saved, loc[w].then)
  BY <1>1, Working, NextLocal DEF Becomes, Local
<1>3. Fits(w)'
  BY <1>2, Working DEF Becomes, Fits, At, RollbackSteps, HoldsCandidate
<1> QED BY <1>2, <1>3, Working, OnlyMoves DEF Becomes, At, Now, RollbackSteps, Swapping, Unsaved

LEMMA HandleReloadSteps ==
    ASSUME IndInv, NEW w \in Workers, HandleReload(w) \/ \E s \in Snaps : HandleLiveRollback(w, s)
    PROVE  IndInv'
<1>1. At(w, "handle") /\ ~At(w, "idle")
      /\ UNCHANGED <<serial, now, router, config, mem, deadline, pointer, disk, fails, requests, restarts>>
  BY DEF HandleReload, HandleLiveRollback, Handling, At, Bounds
<1>2. CASE Finish(w)
  BY <1>1, <1>2, Ending DEF At, Unsaved, Swapping, Succeed
<1>3. CASE pointer # None /\ loc' = [loc EXCEPT ![w].pc = "apply", ![w].cand = pointer]
  <2>1. pointer \in Snaps
    BY <1>3, Working DEF DataTypes, SnapOrNone
  <2> QED BY <1>1, <1>3, <2>1, TakesUp
<1>4. CASE \E s \in Snaps : loc' = [loc EXCEPT ![w].pc = "apply", ![w].cand = s]
  BY <1>1, <1>4, TakesUp
<1> QED BY <1>2, <1>3, <1>4 DEF HandleReload, HandleLiveRollback

-----------------------------------------------------------------------------
(* apply_snapshot and persist_runtime_state                                *)
LEMMA ApplyStep ==
    ASSUME IndInv, NEW w \in Workers, Apply(w)
    PROVE  IndInv'
<1>1. loc[w].pc = "apply" /\ ~At(w, "idle")
      /\ UNCHANGED <<serial, now, config, mem, deadline, pointer, disk, requests, restarts>>
  BY DEF Apply, At, Bounds
<1>2. CASE Fail /\ Finish(w) /\ UNCHANGED router
  BY <1>1, <1>2, Ending DEF Unsaved, Swapping
<1>3. CASE Succeed /\ router' = loc[w].cand /\ Goto(w, "store_config")
  <2>1. Becomes(w, "store_config", loc[w].claim, loc[w].cand, loc[w].saved, loc[w].then)
    BY <1>3, Working, GotoBecomes DEF Steps
  <2>2. Fits(w)' /\ DataTypes'
    BY <1>1, <1>3, <2>1, Working DEF Becomes, Fits, At, RollbackSteps, HoldsCandidate, DataTypes, Succeed
  <2>3. serial => Now(w)'
    BY <1>1, <1>3, <2>1, Working DEF Becomes, Now, At, TargetRuns, Saved, RollbackSteps, Swapping, Unsaved, Succeed
  <2> QED BY <1>1, <2>1, <2>2, <2>3, Working, Stepping DEF Becomes
<1> QED BY <1>2, <1>3 DEF Apply

LEMMA StoreConfigStep ==
    ASSUME IndInv, NEW w \in Workers, StoreConfig(w)
    PROVE  IndInv'
<1>1. loc[w].pc = "store_config" /\ ~At(w, "idle") /\ config' = loc[w].cand /\ Goto(w, "record")
      /\ UNCHANGED <<serial, now, router, mem, deadline, pointer, disk, fails, requests, restarts>>
  BY DEF StoreConfig, At, Bounds
<1>2. Becomes(w, "record", loc[w].claim, loc[w].cand, loc[w].saved, loc[w].then)
  BY <1>1, Working, GotoBecomes DEF Steps
<1>3. Fits(w)' /\ DataTypes'
  BY <1>1, <1>2, Working DEF Becomes, Fits, At, RollbackSteps, HoldsCandidate, DataTypes
<1>4. serial => Now(w)'
  BY <1>1, <1>2, Working DEF Becomes, Now, At, TargetRuns, Saved, RollbackSteps, Swapping, Unsaved
<1> QED BY <1>1, <1>2, <1>3, <1>4, Working, Stepping DEF Becomes

LEMMA UntilNat == ASSUME IndInv PROVE Until(now) \in Nat
  BY WorkersAssumption, Working, PolicyAssumption, BoundsAssumption DEF Until, DataTypes

LEMMA ReloadedState ==
    ASSUME IndInv, NEW s \in Snaps
    PROVE  Reloaded(s, now) \in State /\ Reloaded(s, now).runtime = s /\ TargetRuns(Reloaded(s, now))
<1> DEFINE previous == OrElse(mem.runtime, mem.known)
           fresh == [target |-> s, previous |-> previous, expires |-> Until(now), ok |-> 0, bad |-> 0, attempts |-> 0]
<1>1. mem.known \in SnapOrNone /\ previous \in SnapOrNone
  BY WorkersAssumption, Working DEF DataTypes, State, OrElse
<1> HIDE DEF previous
<1>2. fresh \in Pending /\ fresh.target = s
  BY <1>1, UntilNat DEF Pending
<1>3. Reloaded(s, now) = [runtime |-> s, known |-> mem.known, pending |-> fresh]
  BY DEF Reloaded, previous
<1> HIDE DEF fresh
<1> QED BY <1>1, <1>2, <1>3 DEF State, SnapOrNone, TargetRuns

LEMMA RecordAppliedStep ==
    ASSUME IndInv, NEW w \in Workers, RecordApplied(w)
    PROVE  IndInv'
<1> DEFINE then == IF loc[w].req = "rollback" THEN "move_pointer" ELSE "idle"
           next == [loc[w] EXCEPT !.pc = "read_pending", !.then = then]
<1>1. loc[w].pc = "record" /\ ~At(w, "idle")
      /\ UNCHANGED <<serial, now, router, config, deadline, pointer, disk, fails, requests, restarts>>
  BY DEF RecordApplied, At, Bounds
<1>2. loc[w].cand \in Snaps
  BY <1>1, Working DEF Fits, HoldsCandidate
<1>3. mem' \in State /\ mem'.runtime = loc[w].cand /\ TargetRuns(mem')
  BY <1>2, ReloadedState, RolledBackState DEF RecordApplied
<1>4. loc' = [loc EXCEPT ![w] = next] /\ then \in {"move_pointer", "idle"}
  BY DEF RecordApplied
<1> HIDE DEF then
<1>5. next \in Local
  BY <1>4, Working DEF Local, Steps
<1>6. Becomes(w, "read_pending", loc[w].claim, loc[w].cand, loc[w].saved, then)
  BY <1>4, <1>5, Working, NextLocal DEF Becomes, Local
<1>7. Fits(w)' /\ DataTypes'
  BY <1>1, <1>2, <1>3, <1>4, <1>6, Working DEF Becomes, Fits, At, RollbackSteps, HoldsCandidate, DataTypes
<1>8. serial => Now(w)'
  BY <1>1, <1>3, <1>4, <1>6, Working DEF Becomes, Now, At, TargetRuns, Recorded, RollbackSteps, Swapping, Unsaved
<1> QED BY <1>1, <1>6, <1>7, <1>8, Working, Stepping DEF Becomes

LEMMA ReadPendingStep ==
    ASSUME IndInv, NEW w \in Workers, ReadPending(w)
    PROVE  IndInv'
<1> DEFINE arm == mem.pending # None
           next == [loc[w] EXCEPT !.pc = "set_deadline", !.arm = arm]
<1>1. loc[w].pc = "read_pending" /\ ~At(w, "idle")
      /\ UNCHANGED <<serial, now, router, config, mem, deadline, pointer, disk, fails, requests, restarts>>
  BY DEF ReadPending, At, Bounds
<1>2. loc' = [loc EXCEPT ![w] = next] /\ arm \in BOOLEAN
  BY DEF ReadPending
<1> HIDE DEF arm
<1>3. next \in Local
  BY <1>2, Working DEF Local, Steps
<1>4. Becomes(w, "set_deadline", loc[w].claim, loc[w].cand, loc[w].saved, loc[w].then)
  BY <1>2, <1>3, Working, NextLocal DEF Becomes, Local
<1>5. Fits(w)'
  BY <1>1, <1>4, Working DEF Becomes, Fits, At, RollbackSteps, HoldsCandidate
<1> QED BY <1>1, <1>4, <1>5, Working, OnlyMoves DEF Becomes, At, Now, RollbackSteps, Swapping, Unsaved

LEMMA SetDeadlineStep ==
    ASSUME IndInv, NEW w \in Workers, SetDeadline(w)
    PROVE  IndInv'
<1>1. loc[w].pc = "set_deadline" /\ ~At(w, "idle") /\ Goto(w, "clone") /\ deadline' \in Nat \cup {None}
      /\ UNCHANGED <<serial, now, router, config, mem, pointer, disk, fails, requests, restarts>>
  BY UntilNat DEF SetDeadline, At, Bounds
<1>2. Becomes(w, "clone", loc[w].claim, loc[w].cand, loc[w].saved, loc[w].then)
  BY <1>1, Working, GotoBecomes DEF Steps
<1>3. Fits(w)' /\ DataTypes'
  BY <1>1, <1>2, Working DEF Becomes, Fits, At, RollbackSteps, HoldsCandidate, DataTypes
<1>4. serial => Now(w)'
  BY <1>1, <1>2, Working DEF Becomes, Now, At, TargetRuns, Recorded, RollbackSteps, Swapping, Unsaved
<1> QED BY <1>1, <1>2, <1>3, <1>4, Working, Stepping DEF Becomes

LEMMA CloneStateStep ==
    ASSUME IndInv, NEW w \in Workers, CloneState(w)
    PROVE  IndInv'
<1> DEFINE next == [loc[w] EXCEPT !.pc = "save", !.saved = mem]
<1>1. loc[w].pc = "clone" /\ ~At(w, "idle") /\ mem \in State
      /\ UNCHANGED <<serial, now, router, config, mem, deadline, pointer, disk, fails, requests, restarts>>
  BY Working DEF CloneState, At, Bounds, DataTypes
<1>2. loc' = [loc EXCEPT ![w] = next]
  BY DEF CloneState
<1>3. next \in Local
  BY <1>1, Working DEF Local, Steps
<1>4. Becomes(w, "save", loc[w].claim, loc[w].cand, mem, loc[w].then)
  BY <1>2, <1>3, Working, NextLocal DEF Becomes, Local
<1>5. Fits(w)'
  BY <1>1, <1>4, Working DEF Becomes, Fits, At, RollbackSteps, HoldsCandidate
<1> QED BY <1>1, <1>4, <1>5, Working, OnlyMoves DEF Becomes, At, Now, RollbackSteps, Swapping, Unsaved

LEMMA SaveStateStep ==
    ASSUME IndInv, NEW w \in Workers, SaveState(w)
    PROVE  IndInv'
<1>1. loc[w].pc = "save" /\ ~At(w, "idle")
      /\ UNCHANGED <<serial, now, router, config, mem, deadline, pointer, requests, restarts>>
  BY DEF SaveState, At, Bounds
<1>2. CASE Fail /\ Finish(w) /\ UNCHANGED disk
  BY <1>1, <1>2, FailNotZero, Ending
<1>3. ASSUME Succeed, disk' = loc[w].saved, Others(w), Fits(w)',
             loc'[w].pc = loc[w].then, loc'[w].then = "idle", loc'[w].pc # "idle" => loc'[w].claim = loc[w].claim
      PROVE  IndInv'
  <2>1. disk' \in State /\ disk' # None
    BY <1>1, <1>3, Working, RecordsAssumption DEF Fits, At
  <2>2. DataTypes'
    BY <1>1, <1>3, <2>1, Working DEF DataTypes, Succeed
  <2>3. serial => Now(w)'
    BY <1>1, <1>3, <2>1, Working DEF Now, Fits, At, TargetRuns, Saved, Recorded, RollbackSteps, Swapping, Unsaved, Succeed
  <2> QED BY <1>1, <1>3, <2>2, <2>3, Working, Stepping
<1>4. CASE Succeed /\ disk' = loc[w].saved /\ loc[w].then = "idle" /\ Finish(w)
  <2>1. Others(w) /\ loc'[w].pc = "idle" /\ loc'[w].then = "idle"
    BY <1>4, Working, FinishBecomes
  <2>2. Fits(w)'
    BY <2>1 DEF Fits, At, RollbackSteps, HoldsCandidate
  <2> QED BY <1>3, <1>4, <2>1, <2>2
<1>5. CASE /\ Succeed /\ disk' = loc[w].saved /\ loc[w].then # "idle"
           /\ loc' = [loc EXCEPT ![w].pc = loc[w].then, ![w].then = "idle"]
  <2> DEFINE next == [loc[w] EXCEPT !.pc = loc[w].then, !.then = "idle"]
  <2>1. loc' = [loc EXCEPT ![w] = next]
    BY <1>5
  <2>2. next \in Local
    BY Working DEF Local, Steps
  <2>3. Becomes(w, loc[w].then, loc[w].claim, loc[w].cand, loc[w].saved, "idle")
    BY <2>1, <2>2, Working, NextLocal DEF Becomes, Local
  <2>4. Fits(w)'
    BY <1>1, <1>5, <2>3, Working DEF Becomes, Fits, At, RollbackSteps, HoldsCandidate
  <2> QED BY <1>3, <1>5, <2>3, <2>4 DEF Becomes
<1> QED BY <1>2, <1>4, <1>5 DEF SaveState

LEMMA MovePointerStep ==
    ASSUME IndInv, NEW w \in Workers, MovePointer(w)
    PROVE  IndInv'
<1>1. loc[w].pc = "move_pointer" /\ ~At(w, "idle") /\ Finish(w) /\ (Succeed \/ Fail)
      /\ UNCHANGED <<serial, now, router, config, mem, deadline, disk, requests, restarts>>
  BY DEF MovePointer, At, Bounds
<1>2. Others(w) /\ loc'[w].pc = "idle" /\ loc'[w].then = "idle"
  BY <1>1, Working, FinishBecomes
<1>3. loc[w].cand \in Snaps
  BY <1>1, Working DEF Fits, HoldsCandidate
<1>4. Fits(w)' /\ DataTypes' /\ (fails' = 0 => fails = 0)
  BY <1>1, <1>2, <1>3, Working, BoundsAssumption DEF MovePointer, Fits, At, RollbackSteps, HoldsCandidate, DataTypes,
     SnapOrNone, Succeed, Fail
<1>5. serial => Now(w)'
  BY <1>1, <1>2, <1>4, Working DEF Now, At, TargetRuns, Saved, Recorded, RollbackSteps, Swapping, Unsaved
<1> QED BY <1>1, <1>2, <1>4, <1>5, Working, Stepping

-----------------------------------------------------------------------------
(* The clock, other processes and restarts.                                *)
LEMMA Untouched ==
    ASSUME IndInv, DataTypes', UNCHANGED <<serial, router, config, mem, disk, loc, fails>>
    PROVE  IndInv'
<1>1. \A w \in Workers : Fits(w)'
  BY DEF IndInv, Fits, At
<1>2. serial => InTurn'
  BY DEF IndInv, InTurn, Alone, Now, At, TargetRuns, Saved, Recorded
<1> QED BY <1>1, <1>2 DEF IndInv

LEMMA EnvironmentSteps ==
    ASSUME IndInv, Tick \/ (\E s \in Snaps : SelectSnapshot(s))
    PROVE  IndInv'
<1>1. DataTypes
  BY DEF IndInv
<1>2. CASE Tick
  BY <1>1, <1>2, BoundsAssumption, Untouched DEF Tick, Bounds, DataTypes
<1>3. CASE \E s \in Snaps : SelectSnapshot(s)
  BY <1>1, <1>3, Untouched DEF SelectSnapshot, Requested, DataTypes, SnapOrNone
<1> QED BY <1>2, <1>3

LEMMA RestartStep ==
    ASSUME IndInv, Restart
    PROVE  IndInv'
<1>1. DataTypes /\ mem' = BootState /\ deadline' = BootDeadline(BootState) /\ loc' = [w \in Workers |-> Idle]
      /\ router' = Source /\ config' = Source /\ restarts' \in 0..MaxRestarts
      /\ UNCHANGED <<now, pointer, disk, requests, fails, serial>>
  BY BoundsAssumption DEF IndInv, Restart, DataTypes
<1>2. BootState \in State
  BY <1>1 DEF BootState, DataTypes, State
<1>3. BootDeadline(BootState) \in Nat \cup {None}
  <2>1. BootState.pending # None => BootState.pending.expires \in Nat
    BY <1>2 DEF State, Pending
  <2> QED BY <1>1, <2>1, BoundsAssumption DEF BootDeadline, DataTypes
<1>4. DataTypes'
  BY <1>1, <1>2, <1>3 DEF DataTypes
<1>5. \A w \in Workers : loc'[w].pc = "idle" /\ loc'[w].then = "idle"
  BY <1>1, IdleLocal
<1>6. loc' \in [Workers -> Local] /\ \A w \in Workers : Fits(w)'
  BY <1>1, <1>5, IdleLocal DEF Fits, At, RollbackSteps, HoldsCandidate
<1>7. ASSUME serial PROVE InTurn'
  <2>1. PICK w \in Workers : Alone(w)
    BY <1>7, WorkersAssumption DEF IndInv, InTurn, Alone
  <2>2. disk # None => TargetRuns(disk)
    BY <1>7, <2>1 DEF IndInv, InTurn, Now
  <2>3. TargetRuns(mem') /\ (disk' # None => TargetRuns(disk')) /\ Saved'
    BY <1>1, <2>2 DEF BootState, TargetRuns, Saved
  <2>4. \A v \in Workers : Now(v)'
    BY <1>1, <1>5, <2>3 DEF Now, At, TargetRuns, RollbackSteps, Swapping
  <2> QED BY <1>5, <2>4 DEF InTurn, At
<1> QED BY <1>1, <1>4, <1>6, <1>7 DEF IndInv

-----------------------------------------------------------------------------
LEMMA InitInv == Init => IndInv
<1> SUFFICES ASSUME Init PROVE IndInv
  OBVIOUS
<1>1. mem \in State /\ mem.pending = None
  BY DEF Init, State, SnapOrNone
<1>2. DataTypes
  BY <1>1, BoundsAssumption DEF Init, DataTypes
<1>3. ASSUME NEW w \in Workers PROVE loc[w].pc = "idle" /\ loc[w].then = "idle"
  <2>1. loc[w] = Idle
    BY DEF Init
  <2> QED BY <2>1, IdleLocal
<1>4. loc \in [Workers -> Local] /\ \A w \in Workers : Fits(w)
  BY <1>3, IdleLocal DEF Init, Fits, At, RollbackSteps, HoldsCandidate
<1>5. ASSUME NEW w \in Workers PROVE Now(w)
  <2>1. disk = None /\ router = Source
    BY DEF Init
  <2> QED BY <1>1, <1>3, <2>1 DEF Now, TargetRuns, Saved, At, RollbackSteps, Swapping
<1> QED BY <1>2, <1>3, <1>4, <1>5 DEF IndInv, InTurn, At

LEMMA StepInv == IndInv /\ [Next]_vars => IndInv'
<1> SUFFICES ASSUME IndInv, [Next]_vars PROVE IndInv'
  OBVIOUS
<1>1. CASE UNCHANGED vars
  BY <1>1, Untouched DEF vars, IndInv, DataTypes
<1>2. ASSUME NEW w \in Workers, Rollback(w) PROVE IndInv'
  BY <1>2, RollbackLoadStep, RollbackApplyStep, RollbackConfigStep, RollbackPointerStep,
     RollbackCompleteStep, RollbackFailedStep DEF Rollback
<1>3. ASSUME NEW w \in Workers, Work(w) PROVE IndInv'
  BY <1>2, <1>3, ReadDeadlineStep, DecideRollbackStep, DecideSteps, HandleConfirmStep, HandleFailStep,
     HandleReportStep, HandleReloadSteps, ApplyStep, StoreConfigStep, RecordAppliedStep,
     ReadPendingStep, SetDeadlineStep, CloneStateStep, SaveStateStep, MovePointerStep DEF Work
<1> QED BY <1>1, <1>3, AcceptStep, WatchdogStep, EnvironmentSteps, RestartStep DEF Next

(* At every step of every handler, and across restarts, memory, file,      *)
(* router and what the worker holds fit each other when handlers run one   *)
(* after the other, and have their types in any case.                      *)
THEOREM Invariance == Spec => []IndInv
  BY InitInv, StepInv, PTL DEF Spec

-----------------------------------------------------------------------------
(* Handlers in turn: the deadline and the pointer.  Between the record of  *)
(* a reload and the arming of its deadline the deadline may be that of the *)
(* validation it replaced; at any other time it is no earlier than the     *)
(* expiry recorded in mem, so that a handler that found it passed comes    *)
(* after that expiry.                                                      *)
Arming == {"read_pending", "set_deadline"}
Timely ==
    /\ \A w \in Workers : At(w, "rb_complete") => pointer = loc[w].cand
    /\ \A w \in Workers : At(w, "decide") /\ loc[w].expired /\ mem.pending # None =>
           now >= mem.pending.expires
    /\ \A w \in Workers : loc[w].pc \in Arming /\ mem.pending # None =>
           mem.pending.expires <= Until(now)
    /\ (\A w \in Workers : loc[w].pc \notin Arming) /\ deadline # None /\ mem.pending # None =>
           deadline >= mem.pending.expires
TimeInv == serial => Timely

(* A step of w that keeps the clock and the deadline and brings no new     *)
(* expiry.                                                                 *)
LEMMA KeepsTime ==
    ASSUME TimeInv, NEW w \in Workers, serial => Alone(w), UNCHANGED <<serial, now, deadline>>,
           \A v \in Workers \ {w} : loc'[v] = loc[v],
           mem'.pending # None => /\ mem.pending # None /\ mem'.pending.expires = mem.pending.expires
                                  /\ loc[w].pc \notin Arming /\ loc'[w].pc \notin Arming,
           loc'[w].pc # "decide",
           loc'[w].pc = "rb_complete" => pointer' = loc'[w].cand
    PROVE  TimeInv'
<1> SUFFICES ASSUME serial PROVE Timely'
  BY DEF TimeInv
<1>1. Timely /\ \A v \in Workers \ {w} : loc[v].pc = "idle" /\ loc'[v].pc = "idle"
  BY DEF TimeInv, Alone, At
<1>2. \A v \in Workers : At(v, "rb_complete")' => pointer' = loc'[v].cand
  BY <1>1 DEF At
<1>3. \A v \in Workers : ~At(v, "decide")'
  BY <1>1 DEF At
<1>4. \A v \in Workers : loc'[v].pc \in Arming /\ mem'.pending # None => FALSE
  BY <1>1 DEF Arming
<1>5. (\A v \in Workers : loc'[v].pc \notin Arming) /\ deadline' # None /\ mem'.pending # None =>
          deadline' >= mem'.pending.expires
  BY <1>1 DEF Timely, Arming
<1> QED BY <1>2, <1>3, <1>4, <1>5 DEF Timely

LEMMA StartKeepsTime ==
    ASSUME IndInv, TimeInv, NEW w \in Workers,
           (WatchdogRound /\ w = Watchdog) \/ (\E req \in Requests : Accept(w, req))
    PROVE  TimeInv'
<1>1. loc \in [Workers -> Local] /\ MayStart(w) /\ UNCHANGED <<serial, now, deadline, mem>>
  BY Working DEF WatchdogRound, Accept, Bounds
<1>2. loc'[w].pc = "read_deadline"
  <2>1. CASE WatchdogRound /\ w = Watchdog
    BY <1>1, <2>1 DEF WatchdogRound, Idle
  <2>2. CASE \E req \in Requests : Accept(w, req)
    BY <1>1, <2>2 DEF Accept, Idle
  <2> QED BY <2>1, <2>2
<1>3. \A v \in Workers \ {w} : loc'[v] = loc[v]
  BY <1>1 DEF WatchdogRound, Accept
<1> QED BY <1>1, <1>2, <1>3, KeepsTime DEF MayStart, AllIdle, Alone, At, Arming

(* Deciding, loading and applying leave the validation as it is.           *)
LEMMA DecideKeepsTime ==
    ASSUME IndInv, TimeInv, NEW w \in Workers,
           DecideRollback(w) \/ DecideProceed(w) \/ AuditUnavailable(w) \/ HandleFail(w)
           \/ HandleReload(w) \/ (\E s \in Snaps : HandleLiveRollback(w, s))
           \/ RollbackLoad(w) \/ CloneState(w)
    PROVE  TimeInv'
<1>1. /\ loc[w].pc \in {"decide", "handle", "rb_load", "clone"} /\ UNCHANGED <<serial, now, deadline, mem>>
      /\ loc \in [Workers -> Local] /\ loc[w] \in Local /\ (serial => Alone(w))
  BY Working DEF DecideRollback, DecideProceed, AuditUnavailable, HandleFail, HandleReload,
     HandleLiveRollback, RollbackLoad, CloneState, Handling, At, Bounds
<1>2. /\ loc'[w].pc \in {"idle", "handle", "rb_load", "apply", "rb_failed", "rb_apply", "save"}
      /\ \A v \in Workers \ {w} : loc'[v] = loc[v]
  BY <1>1, IdleLocal DEF DecideRollback, DecideProceed, AuditUnavailable, HandleFail, HandleReload,
     HandleLiveRollback, RollbackLoad, CloneState, Goto, Finish, Local
<1> QED BY <1>1, <1>2, KeepsTime DEF Arming

LEMMA ApplyKeepsTime ==
    ASSUME IndInv, TimeInv, NEW w \in Workers,
           RollbackApply(w) \/ RollbackConfig(w) \/ RollbackPointer(w) \/ Apply(w) \/ StoreConfig(w)
           \/ MovePointer(w)
    PROVE  TimeInv'
<1>1. /\ loc[w].pc \in {"rb_apply", "rb_config", "rb_pointer", "apply", "store_config", "move_pointer"}
      /\ UNCHANGED <<serial, now, deadline, mem>>
      /\ loc \in [Workers -> Local] /\ loc[w] \in Local /\ (serial => Alone(w))
  BY Working DEF RollbackApply, RollbackConfig, RollbackPointer, Apply, StoreConfig, MovePointer, At, Bounds
<1>2. /\ loc'[w].pc \in {"rb_config", "rb_failed", "rb_pointer", "idle", "store_config", "record"}
         \/ (loc'[w].pc = "rb_complete" /\ pointer' = loc'[w].cand)
      /\ \A v \in Workers \ {w} : loc'[v] = loc[v]
  BY <1>1, IdleLocal DEF RollbackApply, RollbackConfig, RollbackPointer, Apply, StoreConfig, MovePointer,
     Goto, Finish, Local
<1> QED BY <1>1, <1>2, KeepsTime DEF Arming

LEMMA SaveKeepsTime ==
    ASSUME IndInv, TimeInv, NEW w \in Workers, SaveState(w)
    PROVE  TimeInv'
<1>1. /\ loc[w].pc = "save" /\ UNCHANGED <<serial, now, deadline, mem>>
      /\ loc \in [Workers -> Local] /\ loc[w] \in Local /\ (serial => Alone(w))
      /\ loc[w].then \in {"idle", "handle", "rb_load", "move_pointer"}
  BY Working DEF SaveState, At, Bounds, Fits
<1>2. /\ loc'[w].pc \in {"idle", "handle", "rb_load", "move_pointer"}
      /\ \A v \in Workers \ {w} : loc'[v] = loc[v]
  BY <1>1, IdleLocal DEF SaveState, Finish, Local
<1> QED BY <1>1, <1>2, KeepsTime DEF Arming

LEMMA ReportMoves ==
    ASSUME IndInv, NEW w \in Workers, NEW healthy \in BOOLEAN, HandleReport(w, healthy)
    PROVE  /\ \A v \in Workers \ {w} : loc'[v] = loc[v]
           /\ \/ loc'[w].pc = "clone" /\ mem.pending = None /\ UNCHANGED mem
              \/ /\ loc'[w].pc = "clone" /\ mem.pending # None
                 /\ mem' = [mem EXCEPT !.pending = Counted(healthy)]
              \/ loc'[w].pc = "set_deadline" /\ mem' = Confirmed
<1> DEFINE count == Counted(healthy)
<1>1. loc \in [Workers -> Local] /\ loc[w] \in Local
  BY Working
<1>2. CASE mem.pending = None /\ UNCHANGED mem /\ loc' = [loc EXCEPT ![w].pc = "clone", ![w].then = "idle"]
  BY <1>1, <1>2 DEF Local
<1>3. CASE /\ mem.pending # None /\ mem' = [mem EXCEPT !.pending = count]
           /\ loc' = [loc EXCEPT ![w].pc = "clone", ![w].claim = count, ![w].then = "rb_load"]
  <2> HIDE DEF count
  <2>1. loc'[w].pc = "clone" /\ \A v \in Workers \ {w} : loc'[v] = loc[v]
    BY <1>1, <1>3 DEF Local
  <2> QED BY <1>3, <2>1 DEF count
<1>4. CASE /\ mem' = Confirmed
           /\ loc' = [loc EXCEPT ![w].pc = "set_deadline", ![w].arm = FALSE, ![w].then = "idle"]
  <2>1. loc'[w].pc = "set_deadline" /\ \A v \in Workers \ {w} : loc'[v] = loc[v]
    BY <1>1, <1>4 DEF Local
  <2> QED BY <1>4, <2>1
<1>5. CASE /\ mem.pending # None /\ mem' = [mem EXCEPT !.pending = count]
           /\ loc' = [loc EXCEPT ![w].pc = "clone", ![w].then = "idle"]
  <2> HIDE DEF count
  <2>1. loc'[w].pc = "clone" /\ \A v \in Workers \ {w} : loc'[v] = loc[v]
    BY <1>1, <1>5 DEF Local
  <2> QED BY <1>5, <2>1 DEF count
<1> QED BY <1>2, <1>3, <1>4, <1>5 DEF HandleReport

(* Counting, confirming and rolling back keep the expiry or clear it.      *)
LEMMA CountKeepsTime ==
    ASSUME IndInv, TimeInv, NEW w \in Workers,
           HandleConfirm(w) \/ (\E healthy \in BOOLEAN : HandleReport(w, healthy))
           \/ RollbackComplete(w) \/ RollbackFailed(w)
    PROVE  TimeInv'
<1>1. /\ loc[w].pc \in {"handle", "rb_complete", "rb_failed"} /\ UNCHANGED <<serial, now, deadline>>
      /\ loc \in [Workers -> Local] /\ loc[w] \in Local /\ mem \in State /\ (serial => Alone(w) /\ Now(w))
  BY Working DEF HandleConfirm, HandleReport, RollbackComplete, RollbackFailed, Handling, At, Bounds, DataTypes
<1>2. /\ loc'[w].pc \in {"idle", "clone", "set_deadline"}
      /\ \A v \in Workers \ {w} : loc'[v] = loc[v]
  <2>1. CASE HandleConfirm(w) \/ RollbackComplete(w) \/ RollbackFailed(w)
    BY <1>1, <2>1, IdleLocal DEF HandleConfirm, RollbackComplete, RollbackFailed, Finish, Local
  <2>2. ASSUME NEW healthy \in BOOLEAN, HandleReport(w, healthy)
        PROVE  /\ loc'[w].pc \in {"clone", "set_deadline"}
               /\ \A v \in Workers \ {w} : loc'[v] = loc[v]
    BY <1>1, <2>2, ReportMoves
  <2> QED BY <2>1, <2>2
<1>3. ASSUME serial, mem'.pending # None
      PROVE  /\ mem.pending # None /\ mem'.pending.expires = mem.pending.expires
             /\ loc'[w].pc \notin Arming
  <2>1. CASE HandleConfirm(w)
    BY <1>1, <1>3, <2>1, IdleLocal DEF HandleConfirm, Confirmed, RolledBack, Finish, Arming
  <2>2. CASE RollbackComplete(w)
    BY <1>3, <2>2 DEF RollbackComplete, RolledBack
  <2>3. CASE RollbackFailed(w)
    <3>1. loc[w].pc = "rb_failed" /\ loc'[w].pc = "clone"
      BY <1>1, <2>3 DEF RollbackFailed, At, Local
    <3>2. mem.pending # None /\ loc[w].claim = mem.pending /\ mem.pending \in Pending
      BY <1>1, <1>3, <3>1 DEF Now, RollbackSteps, State
    <3>3. mem'.pending = [mem.pending EXCEPT !.attempts = OneMore(@)]
      BY <1>1, <2>3, <3>2 DEF RollbackFailed, FailedRollback, State
    <3> QED BY <3>1, <3>2, <3>3 DEF Pending, Arming
  <2>4. ASSUME NEW healthy \in BOOLEAN, HandleReport(w, healthy)
        PROVE  /\ mem.pending # None /\ mem'.pending.expires = mem.pending.expires
               /\ loc'[w].pc = "clone"
    <3>1. CASE mem.pending = None
      BY <1>3, <2>4, <3>1, ReportMoves DEF Confirmed, RolledBack
    <3>2. CASE mem.pending # None /\ mem' = Confirmed
      BY <1>3, <3>2 DEF Confirmed, RolledBack
    <3>3. CASE mem.pending # None /\ mem' = [mem EXCEPT !.pending = Counted(healthy)] /\ loc'[w].pc = "clone"
      <4>1. mem.pending \in Pending
        BY <1>1, <3>3 DEF State
      <4>2. Counted(healthy).expires = mem.pending.expires
        BY <4>1 DEF Counted, Pending
      <4>3. mem'.pending = Counted(healthy)
        BY <1>1, <3>3 DEF State
      <4> QED BY <3>3, <4>2, <4>3
    <3> QED BY <1>3, <2>4, <3>1, <3>2, <3>3, ReportMoves
  <2> QED BY <2>1, <2>2, <2>3, <2>4 DEF Arming
<1>4. CASE serial
  BY <1>1, <1>2, <1>3, <1>4, KeepsTime DEF Arming
<1>5. CASE ~serial
  BY <1>1, <1>5 DEF TimeInv
<1> QED BY <1>4, <1>5 DEF IndInv, DataTypes

(* A reload records an expiry that the deadline it arms will not precede.  *)
LEMMA RecordIsTimely ==
    ASSUME IndInv, TimeInv, NEW w \in Workers, RecordApplied(w)
    PROVE  TimeInv'
<1> SUFFICES ASSUME serial PROVE Timely'
  BY DEF TimeInv, RecordApplied, Bounds
<1>1. /\ loc \in [Workers -> Local] /\ loc[w] \in Local /\ Alone(w) /\ Until(now) \in Nat
      /\ UNCHANGED <<serial, now, deadline>> /\ DataTypes
  BY Working, UntilNat DEF RecordApplied, At, Bounds
<1>2. loc'[w].pc = "read_pending"
  BY <1>1 DEF RecordApplied, Local
<1>3. \A v \in Workers \ {w} : loc'[v].pc = "idle"
  BY <1>1 DEF RecordApplied, Alone, At
<1>4. mem'.pending # None => mem'.pending.expires = Until(now)
  BY DEF RecordApplied, Reloaded, RolledBack
<1>5. Until(now)' = Until(now)
  BY <1>1 DEF Until
<1> QED BY <1>1, <1>2, <1>3, <1>4, <1>5 DEF Timely, At, Arming

LEMMA ReadPendingIsTimely ==
    ASSUME IndInv, TimeInv, NEW w \in Workers, ReadPending(w)
    PROVE  TimeInv'
<1> SUFFICES ASSUME serial PROVE Timely'
  BY DEF TimeInv, ReadPending, Bounds
<1>1. /\ loc \in [Workers -> Local] /\ loc[w] \in Local /\ Alone(w) /\ loc[w].pc = "read_pending"
      /\ UNCHANGED <<serial, now, deadline, mem>>
  BY Working DEF ReadPending, At, Bounds
<1>2. loc'[w].pc = "set_deadline"
  BY <1>1 DEF ReadPending, Local
<1>3. \A v \in Workers \ {w} : loc'[v].pc = "idle"
  BY <1>1 DEF ReadPending, Alone, At
<1>4. mem.pending # None => mem.pending.expires <= Until(now)
  BY <1>1 DEF TimeInv, Timely, Arming
<1>5. Until(now)' = Until(now)
  BY <1>1 DEF Until
<1> QED BY <1>1, <1>2, <1>3, <1>4, <1>5 DEF Timely, At, Arming

LEMMA SetDeadlineIsTimely ==
    ASSUME IndInv, TimeInv, NEW w \in Workers, SetDeadline(w)
    PROVE  TimeInv'
<1> SUFFICES ASSUME serial PROVE Timely'
  BY DEF TimeInv, SetDeadline, Bounds
<1>1. /\ loc \in [Workers -> Local] /\ loc[w] \in Local /\ Alone(w) /\ loc[w].pc = "set_deadline"
      /\ UNCHANGED <<serial, now, mem>> /\ Goto(w, "clone") /\ mem \in State
  BY Working DEF SetDeadline, At, Bounds, DataTypes
<1>2. loc'[w].pc = "clone"
  BY <1>1 DEF Goto, Local
<1>3. \A v \in Workers \ {w} : loc'[v].pc = "idle"
  BY <1>1 DEF Goto, Alone, At
<1>4. mem.pending # None => mem.pending.expires <= Until(now) /\ mem.pending.expires \in Nat
  BY <1>1 DEF TimeInv, Timely, Arming, State, Pending
<1>5. deadline' = None \/ deadline' = Until(now)
  BY DEF SetDeadline
<1> QED BY <1>1, <1>2, <1>3, <1>4, <1>5, UntilNat DEF Timely, At, Arming

LEMMA ReadDeadlineIsTimely ==
    ASSUME IndInv, TimeInv, NEW w \in Workers, ReadDeadline(w)
    PROVE  TimeInv'
<1> SUFFICES ASSUME serial PROVE Timely'
  BY DEF TimeInv, ReadDeadline, Bounds
<1>1. /\ loc \in [Workers -> Local] /\ loc[w] \in Local /\ Alone(w) /\ loc[w].pc = "read_deadline"
      /\ UNCHANGED <<serial, now, mem, deadline>> /\ mem \in State /\ now \in Nat /\ deadline \in Nat \cup {None}
  BY Working, BoundsAssumption DEF ReadDeadline, At, Bounds, DataTypes
<1>2. loc'[w].pc = "decide" /\ loc'[w].expired = Expired
  BY <1>1 DEF ReadDeadline, Local
<1>3. \A v \in Workers \ {w} : loc[v].pc = "idle" /\ loc'[v].pc = "idle"
  BY <1>1 DEF ReadDeadline, Alone, At
<1>4. deadline # None /\ mem.pending # None => deadline >= mem.pending.expires
  BY <1>1, <1>3 DEF TimeInv, Timely, Arming
<1>5. mem.pending # None => mem.pending.expires \in Nat
  BY <1>1 DEF State, Pending
<1>6. Expired /\ mem.pending # None => now >= mem.pending.expires
  BY <1>1, <1>4, <1>5 DEF Expired
<1> QED BY <1>1, <1>2, <1>3, <1>4, <1>6 DEF Timely, At, Arming

(* The clock only moves on; a restart waits for what is left.              *)
LEMMA EnvironmentIsTimely ==
    ASSUME IndInv, TimeInv, Tick \/ (\E s \in Snaps : SelectSnapshot(s)) \/ Restart \/ UNCHANGED vars
    PROVE  TimeInv'
<1> SUFFICES ASSUME serial PROVE Timely'
  BY DEF TimeInv, Tick, SelectSnapshot, Restart, vars, Bounds
<1>1. /\ Timely /\ mem \in State /\ now \in Nat /\ now \in 0..MaxTime
      /\ deadline \in Nat \cup {None} /\ disk \in State \cup {None}
  BY BoundsAssumption DEF TimeInv, IndInv, DataTypes
<1>2. mem.pending # None => mem.pending.expires \in Nat
  BY <1>1 DEF State, Pending
<1>3. CASE Tick
  <2>1. Until(now) \in Nat /\ Until(now) <= Until(now)' /\ now' = now + 1
    BY <1>1, <1>3, PolicyAssumption, BoundsAssumption DEF Until, Tick
  <2>2. Until(now)' \in Nat
    BY <1>1, <2>1, PolicyAssumption, BoundsAssumption DEF Until
  <2>3. UNCHANGED <<mem, deadline, pointer, loc>>
    BY <1>3 DEF Tick
  <2> QED BY <1>1, <1>2, <2>1, <2>2, <2>3 DEF Timely, At
<1>4. CASE \E s \in Snaps : SelectSnapshot(s)
  <2>1. AllIdle /\ UNCHANGED <<mem, deadline, now, loc>>
    BY <1>4 DEF SelectSnapshot
  <2> QED BY <1>1, <2>1 DEF Timely, AllIdle, At, Arming
<1>5. CASE Restart
  <2>1. \A w \in Workers : loc'[w].pc = "idle"
    BY <1>5, IdleLocal DEF Restart
  <2>2. BootState \in State /\ mem' = BootState /\ deadline' = BootDeadline(BootState) /\ now' = now
    BY <1>1, <1>5 DEF BootState, State, Restart, IndInv, DataTypes
  <2>3. BootState.pending # None => BootDeadline(BootState) >= BootState.pending.expires
    <3>1. BootState.pending # None => BootState.pending.expires \in Nat
      BY <2>2 DEF State, Pending
    <3> QED BY <1>1, <3>1 DEF BootDeadline
  <2> QED BY <2>1, <2>2, <2>3 DEF Timely, At, Arming
<1>6. CASE UNCHANGED vars
  <2>1. UNCHANGED <<mem, deadline, now, pointer, loc>>
    BY <1>6 DEF vars
  <2> QED BY <1>1, <2>1 DEF Timely, At, Until
<1> QED BY <1>3, <1>4, <1>5, <1>6

LEMMA InitTime == Init => TimeInv
<1> SUFFICES ASSUME Init PROVE Timely
  BY DEF TimeInv
<1>1. mem.pending = None /\ \A w \in Workers : loc[w].pc = "idle"
  BY IdleLocal DEF Init
<1> QED BY <1>1 DEF Timely, At

LEMMA StepTime == IndInv /\ TimeInv /\ [Next]_vars => TimeInv'
<1> SUFFICES ASSUME IndInv, TimeInv, [Next]_vars PROVE TimeInv'
  OBVIOUS
<1>1. ASSUME NEW w \in Workers, Work(w) PROVE TimeInv'
  BY <1>1, DecideKeepsTime, ApplyKeepsTime, SaveKeepsTime, CountKeepsTime, RecordIsTimely,
     ReadPendingIsTimely, SetDeadlineIsTimely, ReadDeadlineIsTimely DEF Work, Rollback
<1> QED BY <1>1, StartKeepsTime, EnvironmentIsTimely, WorkersAssumption DEF Next

(* Outside the few steps that arm it, the deadline does not precede the    *)
(* recorded expiry, over reloads, confirmations, rollbacks and restarts.   *)
THEOREM DeadlineInvariance == Spec => []TimeInv
  BY Invariance, InitTime, StepTime, PTL DEF Spec

-----------------------------------------------------------------------------
(* A rollback never serves or selects what is no snapshot, however the     *)
(* handlers overlap, whatever fails and however often it restarts.         *)
THEOREM TypeCorrect == Spec => []TypeOK
<1>1. IndInv => TypeOK
  BY DEF IndInv, DataTypes, Local, TypeOK
<1> QED BY <1>1, Invariance, PTL

(* When every handler has returned and no write failed, self-healing.toml  *)
(* holds the validation that persist_runtime_state took from memory.       *)
THEOREM ValidationIsPersisted == Spec => []PersistedInTurn
<1>1. IndInv => PersistedInTurn
  <2> SUFFICES ASSUME IndInv, serial, AllIdle, fails = 0 PROVE Saved
    BY DEF PersistedInTurn, RecoveryPersisted, Saved
  <2>1. Now(Watchdog)
    BY WorkersAssumption DEF IndInv, InTurn, Alone, AllIdle
  <2> QED BY <2>1, WorkersAssumption DEF Now, AllIdle, At, Unsaved
<1> QED BY <1>1, Invariance, PTL

(* The snapshot the router serves is the one the admin plane reports and   *)
(* compares the next reload with, after apply_snapshot, confirmations and  *)
(* rollbacks alike.                                                        *)
THEOREM ServedSnapshotIsRecorded == Spec => []ServedIsRecorded
<1>1. IndInv => ServedIsRecorded
  <2> SUFFICES ASSUME IndInv, serial, AllIdle, fails = 0, router # Source PROVE Recorded
    BY DEF ServedIsRecorded, Recorded
  <2>1. Now(Watchdog)
    BY WorkersAssumption DEF IndInv, InTurn, Alone, AllIdle
  <2> QED BY <2>1, WorkersAssumption DEF Now, AllIdle, At, Swapping
<1> QED BY <1>1, Invariance, PTL

(* complete_rollback clears the validation the rollback decided on, with   *)
(* the router, the configuration and the current pointer already on the    *)
(* snapshot it restores.                                                   *)
THEOREM RollbackClearsItsOwn == Spec => ClearedInTurn
<1>1. ASSUME IndInv, TimeInv, serial, NEW w \in Workers PROVE ClearsWhatItRestored(w)
  <2> SUFFICES ASSUME RollbackComplete(w)
               PROVE  /\ router = loc[w].cand /\ config = loc[w].cand /\ pointer = loc[w].cand
                      /\ mem.pending.target = loc[w].claim.target
    BY DEF ClearsWhatItRestored
  <2>1. loc[w].pc = "rb_complete" /\ ~At(w, "idle")
    BY DEF RollbackComplete, At
  <2>2. pointer = loc[w].cand
    BY <1>1, <2>1 DEF TimeInv, Timely, At
  <2> QED BY <1>1, <2>1, <2>2, Working DEF Now, RollbackSteps, Swapping
<1>2. ASSUME IndInv, TimeInv
      PROVE  serial => \A w \in Workers : ClearsWhatItRestored(w)
  <2>1. HAVE serial
  <2>2. TAKE w \in Workers
  <2> QED BY <1>1, <1>2, <2>1
<1> QED BY <1>2, Invariance, DeadlineInvariance, PTL DEF ClearedInTurn

(* rollback_failed puts back the validation that is still pending, with    *)
(* one more attempt and the same candidate and rollback target.            *)
THEOREM FailedRollbackIsRetried == Spec => FailureKeepsPending
<1>1. ASSUME IndInv, serial, NEW w \in Workers, RollbackFailed(w)
      PROVE  mem.pending # None /\ mem'.pending = [mem.pending EXCEPT !.attempts = OneMore(@)]
  <2>1. loc[w].pc = "rb_failed" /\ ~At(w, "idle") /\ mem' = FailedRollback(loc[w].claim)
    BY <1>1 DEF RollbackFailed, At
  <2>2. mem.pending # None /\ loc[w].claim = mem.pending /\ mem \in State
    BY <1>1, <2>1, Working DEF Now, RollbackSteps, DataTypes
  <2> QED BY <2>1, <2>2 DEF FailedRollback, State
<1>2. ASSUME IndInv
      PROVE  serial => \A w \in Workers : RollbackFailed(w) =>
                 /\ mem.pending # None
                 /\ mem'.pending = [mem.pending EXCEPT !.attempts = OneMore(@)]
  <2> SUFFICES ASSUME serial, NEW w \in Workers, RollbackFailed(w)
               PROVE  /\ mem.pending # None
                      /\ mem'.pending = [mem.pending EXCEPT !.attempts = OneMore(@)]
    OBVIOUS
  <2> QED BY <1>1, <1>2
<1> QED BY <1>2, Invariance, PTL DEF FailureKeepsPending

(* rollback_required answers for expiry only once the expiry recorded for  *)
(* the candidate has passed, whatever reloads, confirmations, failed       *)
(* rollbacks and restarts came between.                                    *)
THEOREM NoRollbackBeforeExpiry == Spec => NotBeforeExpiry
<1>1. ASSUME IndInv, TimeInv, serial, NEW w \in Workers, DecideRollback(w), ~TooManyErrors(mem.pending)
      PROVE  now >= mem.pending.expires
  <2>1. At(w, "decide") /\ loc[w].expired /\ mem.pending # None
    BY <1>1 DEF DecideRollback, RollbackRequired
  <2> QED BY <1>1, <2>1 DEF TimeInv, Timely
<1>2. ASSUME IndInv, TimeInv
      PROVE  serial => \A w \in Workers : DecideRollback(w) /\ ~TooManyErrors(mem.pending) =>
                 now >= mem.pending.expires
  <2> SUFFICES ASSUME serial, NEW w \in Workers, DecideRollback(w), ~TooManyErrors(mem.pending)
               PROVE  now >= mem.pending.expires
    OBVIOUS
  <2> QED BY <1>1, <1>2
<1> QED BY <1>2, Invariance, DeadlineInvariance, PTL DEF NotBeforeExpiry
=============================================================================
