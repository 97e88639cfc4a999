--------------------------- MODULE AuditDispatch ----------------------------
(***************************************************************************)
(* The audit lane of the operational event dispatcher: emitters, permits   *)
(* that reserve a place before an admin mutation runs, and the writer      *)
(* thread with a sink that may fail, or a shutdown, at any moment.         *)
(*                                                                         *)
(* The lane has no lock around its state.  Every atomic update and every   *)
(* channel operation is one step, except that                              *)
(*   - closing and alive each change once, so reading one right after the  *)
(*     other admits exactly what reading both at once does;                *)
(*   - a counter that nothing but status() reads moves with a neighbouring *)
(*     step, unless an order that status() can see depends on it.          *)
(* The rate budget may refuse any admission.  The refusal counters         *)
(* (filtered, rate_limited, queue_full, unavailable) are left out.  The    *)
(* dispatcher is a static, so the channel never loses its last sender.     *)
(***************************************************************************)
EXTENDS Naturals, FiniteSets

CONSTANTS
    Callers,    \* threads that emit audit events or hold permits
    Capacity,   \* QUEUE_CAPACITY
    MaxEvents   \* bound: events and permits begun in a behaviour

ASSUME CallersFinite == IsFiniteSet(Callers)
ASSUME BoundsAreNatural == Capacity \in Nat /\ MaxEvents \in Nat

VARIABLES
    queue,       \* events in the channel
    slots,       \* audit_slots
    reserved,    \* counter of permits outstanding
    accepted, completed, written, discarded, sinkErrors,
    alive,       \* cleared by the writer when it fails or ends
    closing,     \* set by shutdown
    worker,      \* where the writer is
    ok,          \* did its last write succeed?
    caller,      \* where each caller is
    begun,       \* bound: events and permits begun so far
    lost         \* history: events destroyed with the channel

counters == <<completed, written, discarded, sinkErrors>>
writer == <<counters, alive, worker, ok, lost>>
vars == <<queue, slots, reserved, accepted, completed, written, discarded, sinkErrors,
          alive, closing, worker, ok, caller, begun, lost>>

CallerSteps == {"idle", "take", "send", "accept", "return",
                "reserve", "count", "held", "commit", "unreserve", "undo"}
WorkerSteps == {"recv", "polled", "write", "done", "slot", "account",
                "drain", "drained", "uncounted", "exit", "drop", "gone"}

(* Every variable has the type its code declares; neither the channel nor  *)
(* the pool of slots ever exceeds QUEUE_CAPACITY.                          *)
TypeOK ==
    /\ queue \in 0..Capacity /\ slots \in 0..Capacity /\ reserved \in Nat
    /\ accepted \in Nat /\ completed \in Nat /\ written \in Nat /\ discarded \in Nat
    /\ sinkErrors \in Nat /\ begun \in Nat /\ lost \in Nat
    /\ alive \in BOOLEAN /\ closing \in BOOLEAN /\ ok \in BOOLEAN
    /\ worker \in WorkerSteps /\ caller \in [Callers -> CallerSteps]

Init ==
    /\ queue = 0 /\ slots = Capacity /\ reserved = 0
    /\ accepted = 0 /\ completed = 0 /\ written = 0 /\ discarded = 0 /\ sinkErrors = 0
    /\ alive = TRUE /\ closing = FALSE
    /\ worker = "recv" /\ ok = TRUE
    /\ caller = [p \in Callers |-> "idle"]
    /\ begun = 0 /\ lost = 0

At(p, step) == caller[p] = step
Goto(p, step) == caller' = [caller EXCEPT ![p] = step]
Open == alive /\ ~closing
-----------------------------------------------------------------------------
(***************************************************************************)
(* Emitting an event                                                       *)
(***************************************************************************)

(* emit_at and try_reserve_audit pass their filters and find the lane open.*)
Begin(p) ==
    /\ At(p, "idle") /\ Open /\ begun < MaxEvents
    /\ begun' = begun + 1
    /\ Goto(p, "take") \/ Goto(p, "reserve")
    /\ UNCHANGED <<queue, slots, reserved, accepted, closing, writer>>

(* The rate budget, then take_slot: one compare-and-swap.                  *)
MutantTakeUnchecked(p) ==
    /\ At(p, "take") \/ At(p, "reserve")
    /\ slots' = IF slots > 0 THEN slots - 1 ELSE slots
    /\ Goto(p, IF At(p, "take") THEN "send" ELSE "count")
    /\ UNCHANGED <<queue, reserved, accepted, closing, begun, writer>>
TakeSlot(p) ==
    /\ At(p, "take") \/ At(p, "reserve")
    /\ \/ Goto(p, "idle") /\ UNCHANGED slots
       \/ /\ slots > 0
          /\ slots' = slots - 1
          /\ Goto(p, IF At(p, "take") THEN "send" ELSE "count")
    /\ UNCHANGED <<queue, reserved, accepted, closing, begun, writer>>

(* try_send: a place in the channel, or Full, or Disconnected.             *)
TrySend(p, sent, refused) ==
    \/ worker # "gone" /\ queue < Capacity /\ queue' = queue + 1 /\ Goto(p, sent)
    \/ (worker = "gone" \/ queue >= Capacity) /\ Goto(p, refused) /\ UNCHANGED queue

MutantSendLeaksSlot(p) ==
    /\ At(p, "send") /\ TrySend(p, "accept", "idle")
    /\ UNCHANGED <<slots, reserved, accepted, closing, begun, writer>>
Send(p) ==
    /\ At(p, "send") /\ TrySend(p, "accept", "return")
    /\ UNCHANGED <<slots, reserved, accepted, closing, begun, writer>>

(* accepted is counted after the event is already visible to the writer.   *)
Accept(p) ==
    /\ At(p, "accept")
    /\ accepted' = accepted + 1
    /\ Goto(p, "idle")
    /\ UNCHANGED <<queue, slots, reserved, closing, begun, writer>>

ReturnSlot(p) ==
    /\ At(p, "return")
    /\ slots' = slots + 1
    /\ Goto(p, "idle")
    /\ UNCHANGED <<queue, reserved, accepted, closing, begun, writer>>
-----------------------------------------------------------------------------
(***************************************************************************)
(* Permits                                                                 *)
(***************************************************************************)

(* try_reserve_audit counts the permit and hands it out.                   *)
Grant(p) ==
    /\ At(p, "count")
    /\ reserved' = reserved + 1
    /\ Goto(p, "held")
    /\ UNCHANGED <<queue, slots, accepted, closing, begun, writer>>

(* AuditPermit::commit, up to try_send; a closed lane drops the permit.    *)
Commit(p) ==
    /\ At(p, "held")
    /\ Goto(p, IF Open THEN "commit" ELSE "undo")
    /\ UNCHANGED <<queue, slots, reserved, accepted, closing, begun, writer>>

CommitSend(p) ==
    /\ At(p, "commit") /\ TrySend(p, "unreserve", "undo")
    /\ UNCHANGED <<slots, reserved, accepted, closing, begun, writer>>

(* held = false: the slot now belongs to the event in the channel.         *)
Unreserve(p) ==
    /\ At(p, "unreserve")
    /\ reserved' = reserved - 1
    /\ Goto(p, "accept")
    /\ UNCHANGED <<queue, slots, accepted, closing, begun, writer>>

(* The operation ended without an outcome: the permit is just dropped.     *)
Forget(p) ==
    /\ At(p, "held")
    /\ Goto(p, "undo")
    /\ UNCHANGED <<queue, slots, reserved, accepted, closing, begun, writer>>

(* Drop for AuditPermit while it is held; its slot goes back in ReturnSlot.*)
Drop(p) ==
    /\ At(p, "undo")
    /\ reserved' = reserved - 1
    /\ Goto(p, "return")
    /\ UNCHANGED <<queue, slots, accepted, closing, begun, writer>>
-----------------------------------------------------------------------------
(***************************************************************************)
(* The writer thread                                                       *)
(***************************************************************************)

(* recv_timeout: the next event, or a timeout on an empty channel.         *)
Receive ==
    /\ worker = "recv"
    /\ \/ queue > 0 /\ queue' = queue - 1 /\ worker' = "write"
       \/ queue = 0 /\ worker' = "polled" /\ UNCHANGED queue
    /\ UNCHANGED <<slots, reserved, accepted, counters, alive, closing, ok, caller, begun, lost>>

(* After a timeout; an event may have arrived since.                       *)
MutantPollsForever ==
    /\ worker = "polled"
    /\ worker' = "recv"
    /\ UNCHANGED <<queue, slots, reserved, accepted, counters, alive, closing, ok, caller, begun, lost>>
PollClosing ==
    /\ worker = "polled"
    /\ worker' = IF closing THEN "exit" ELSE "recv"
    /\ UNCHANGED <<queue, slots, reserved, accepted, counters, alive, closing, ok, caller, begun, lost>>

(* Encoding, write_all and flush: any of them may fail.                    *)
Write ==
    /\ worker = "write"
    /\ ok' \in BOOLEAN
    /\ worker' = "done"
    /\ UNCHANGED <<queue, slots, reserved, accepted, counters, alive, closing, caller, begun, lost>>

Complete ==
    /\ worker = "done"
    /\ completed' = completed + 1
    /\ worker' = "slot"
    /\ UNCHANGED <<queue, slots, reserved, accepted, written, discarded, sinkErrors,
                   alive, closing, ok, caller, begun, lost>>

FreeSlot ==
    /\ worker = "slot"
    /\ slots' = slots + 1
    /\ worker' = "account"
    /\ UNCHANGED <<queue, reserved, accepted, counters, alive, closing, ok, caller, begun, lost>>

(* A failed sink closes the lane, then the channel is drained.             *)
MutantFailureUncounted ==
    /\ worker = "account"
    /\ \/ ok /\ written' = written + 1 /\ worker' = "recv" /\ UNCHANGED alive
       \/ ~ok /\ alive' = FALSE /\ worker' = "drain" /\ UNCHANGED written
    /\ UNCHANGED <<queue, slots, reserved, accepted, completed, discarded, sinkErrors, closing, ok, caller,
                   begun, lost>>
Account ==
    /\ worker = "account"
    /\ \/ ok /\ written' = written + 1 /\ worker' = "recv" /\ UNCHANGED <<sinkErrors, alive>>
       \/ /\ ~ok
          /\ sinkErrors' = sinkErrors + 1
          /\ alive' = FALSE
          /\ worker' = "drain"
          /\ UNCHANGED written
    /\ UNCHANGED <<queue, slots, reserved, accepted, completed, discarded, closing, ok, caller, begun, lost>>

(* try_iter: until the channel is seen empty.                              *)
Drain ==
    /\ worker = "drain"
    /\ \/ queue > 0 /\ queue' = queue - 1 /\ worker' = "drained"
       \/ queue = 0 /\ worker' = "exit" /\ UNCHANGED queue
    /\ UNCHANGED <<slots, reserved, accepted, counters, alive, closing, ok, caller, begun, lost>>

DrainFreesSlot ==
    /\ worker = "drained"
    /\ slots' = slots + 1
    /\ worker' = "uncounted"
    /\ UNCHANGED <<queue, reserved, accepted, counters, alive, closing, ok, caller, begun, lost>>

DrainCounts ==
    /\ worker = "uncounted"
    /\ discarded' = discarded + 1
    /\ completed' = completed + 1
    /\ worker' = "drain"
    /\ UNCHANGED <<queue, slots, reserved, accepted, written, sinkErrors, alive, closing, ok, caller,
                   begun, lost>>

(* The Alive guard is dropped first, the channel after it.                 *)
Exit ==
    /\ worker = "exit"
    /\ alive' = FALSE
    /\ worker' = "drop"
    /\ UNCHANGED <<queue, slots, reserved, accepted, counters, closing, ok, caller, begun, lost>>

DropReceiver ==
    /\ worker = "drop"
    /\ worker' = "gone"
    /\ lost' = queue
    /\ queue' = 0
    /\ UNCHANGED <<slots, reserved, accepted, counters, alive, closing, ok, caller, begun>>

(* shutdown sets closing; it then only waits, for half a second at most.   *)
Shutdown ==
    /\ ~closing
    /\ closing' = TRUE
    /\ UNCHANGED <<queue, slots, reserved, accepted, caller, begun, writer>>
-----------------------------------------------------------------------------
Emitting(p) == TakeSlot(p) \/ Send(p) \/ Accept(p) \/ ReturnSlot(p)
Permitted(p) == Grant(p) \/ Commit(p) \/ CommitSend(p) \/ Unreserve(p) \/ Forget(p) \/ Drop(p)
Writer ==
    \/ Receive \/ PollClosing \/ Write \/ Complete \/ FreeSlot \/ Account
    \/ Drain \/ DrainFreesSlot \/ DrainCounts \/ Exit \/ DropReceiver

Next == (\E p \in Callers : Begin(p) \/ Emitting(p) \/ Permitted(p)) \/ Writer \/ Shutdown

Spec == Init /\ [][Next]_vars

(* The writer thread is scheduled and its sink returns.  Callers need no   *)
(* fairness: one that stops for ever keeps only its own slot.              *)
FairSpec == Spec /\ WF_vars(Writer)
-----------------------------------------------------------------------------
(* How many callers are at one of these steps.                             *)
Tally(steps) == Cardinality({p \in Callers : caller[p] \in steps})
OwnsSlot == {"send", "return", "count", "held", "commit", "undo"}
HasPermit == {"held", "commit", "unreserve", "undo"}
Sent == {"accept", "unreserve"}
HandSlot == IF worker \in {"write", "done", "slot", "drained"} THEN 1 ELSE 0
HandEvent == IF worker \in {"write", "done", "drained", "uncounted"} THEN 1 ELSE 0
Unsettled == IF worker \in {"slot", "account"} THEN 1 ELSE 0

(* Every slot is free, or with exactly one caller, permit, queued event or *)
(* event in the writer's hands: no path returns one twice or forgets it.   *)
SlotsConserved == slots + Tally(OwnsSlot) + queue + HandSlot + lost = Capacity

(* "Queue fullness ... cannot steal it": whoever holds a slot finds a place*)
(* in the channel for as long as the channel exists.                       *)
CreditIsAPlace ==
    \A p \in Callers : caller[p] \in {"send", "held", "commit"} /\ worker # "gone" => queue < Capacity

(* The counter status() reads as reserved is exactly the number of permits *)
(* in somebody's hands.                                                    *)
ReservedExact == reserved = Tally(HasPermit)

(* Every event that entered the channel is queued, being written, counted  *)
(* complete, or went down with the channel; every completed one was        *)
(* written, failed or was discarded.                                       *)
EventsAccounted ==
    /\ accepted + Tally(Sent) = completed + queue + HandEvent + lost
    /\ completed = written + sinkErrors + discarded + Unsettled

(* "128 capacity including reservations": while the lane is alive the      *)
(* pending events and the outstanding permits, as the counters stand, fit  *)
(* the capacity.  (status() loads them one by one and may mix moments.)    *)
PendingWithinCapacity == alive => accepted + reserved <= completed + Capacity

(* A lane told to close ends its writer, so shutdown's wait is not in vain.*)
ShutdownEndsWriter == closing ~> worker = "gone"
=============================================================================
