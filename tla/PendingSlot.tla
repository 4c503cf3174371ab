----------------------------- MODULE PendingSlot -----------------------------
(***************************************************************************)
(* The state machines of one pending-ENTER slot (fsring-core/src/enter.rs) *)
(* as operators on the record s that PendingEnter keeps behind the slot's  *)
(* spin lock: the slot state, the owner ledger, the wake, the worker's     *)
(* schedule, the timer, the arbiter and the completion plan.  An operator  *)
(* the code may refuse returns s as it is.                                 *)
(***************************************************************************)
EXTENDS Naturals, Sequences, SequencesExt, FiniteSets

CONSTANT NoEnter

-----------------------------------------------------------------------------
(* PendingSlotState.  Nobody calls handoff_done or begin_quiesce: the slot *)
(* of a parked WAIT stays Installing.                                      *)

begin_install(state) == IF state = "Vacant" THEN "Installing" ELSE state
publish_vacant(state) == IF state = "Quiescing" THEN "Vacant" ELSE state
park_publication_fail_stop(state) ==
    IF state = "Quiescing" THEN "PublicationFailStop" ELSE state

-----------------------------------------------------------------------------
(* PendingOwnerLedger and PendingResultSlot, each bound to one install.    *)

bind_install(s, e) == IF s.ledger = NoEnter THEN [s EXCEPT !.ledger = e] ELSE s
unbind_install(s) == IF s.owners = {} THEN [s EXCEPT !.ledger = NoEnter] ELSE s
occupy(s, e) == IF s.result = NoEnter THEN [s EXCEPT !.result = e] ELSE s
vacate(s, e) == IF s.result = e THEN [s EXCEPT !.result = NoEnter] ELSE s

acquire_owner(s, kind) ==
    IF s.ledger = s.install /\ kind \notin s.owners
    THEN [s EXCEPT !.owners = @ \cup {kind}] ELSE s
release_owner(s, kind) ==
    IF s.ledger = s.install THEN [s EXCEPT !.owners = @ \ {kind}] ELSE s

\* RingEnterState: the slot's own SQ role, beside the one of the session's ring.
acquire_sq_wait(s, e) == IF s.role = NoEnter THEN [s EXCEPT !.role = e] ELSE s
release_sq_wait(s, e) == IF s.role = e THEN [s EXCEPT !.role = NoEnter] ELSE s

-----------------------------------------------------------------------------
(* PendingWakeSlot.  A stored wake names the install it was stored for.    *)

\* Unload is never deposited.
WORKER_PRIORITY == <<"Fence", "Cancel", "Timeout", "Readiness">>
Reasons == {WORKER_PRIORITY[i] : i \in 1 .. Len(WORKER_PRIORITY)}

record_wake(s, r) ==
    IF s.wake = {} THEN [s EXCEPT !.wake = {r}, !.wakeFor = s.install]
    ELSE IF s.wakeFor = s.install THEN [s EXCEPT !.wake = @ \cup {r}] ELSE s

OwnWake(s) == s.wake # {} /\ s.wakeFor = s.install

\* The reason a pass acts for; take_for_worker empties the slot with it.
take_for_worker(s) ==
    WORKER_PRIORITY[CHOOSE i \in 1 .. 4 : /\ WORKER_PRIORITY[i] \in s.wake
                                          /\ \A j \in 1 .. i - 1 : WORKER_PRIORITY[j] \notin s.wake]
Taken(s) == [s EXCEPT !.wake = {}, !.wakeFor = NoEnter]

-----------------------------------------------------------------------------
(* PendingWorkerSchedule.                                                  *)

schedule_begin_install(s, e) == IF s.install = NoEnter THEN [s EXCEPT !.install = e] ELSE s
end_install(s) ==
    IF s.sched \in {"Idle", "Completing"}
    THEN [s EXCEPT !.install = NoEnter, !.axis = "Installing", !.sched = "Idle"] ELSE s

begin_worker_pass(s) == [s EXCEPT !.sched = "Running"]
finish_worker_pass(s) ==
    [s EXCEPT !.sched = IF @ = "Running" THEN "Idle" ELSE "Queued"]
abandon_queued_pass(s) == [s EXCEPT !.sched = "Idle"]
begin_worker_completion(s) ==
    IF s.sched = "Running" THEN [s EXCEPT !.sched = "Completing"] ELSE s
abandon_worker_completion(s) ==
    IF s.sched = "Completing" THEN [s EXCEPT !.sched = "Running"] ELSE s

\* Publish Queued and acquire the Worker owner; a right to one queue call is
\* minted with it.
Queue(s) == [acquire_owner(s, "Worker") EXCEPT !.sched = "Queued"]
Minted(before, after) == before.sched = "Idle" /\ after.sched = "Queued"

record_and_schedule_pending(s, r) ==
    IF s.sched = "Completing" \/ ~OwnWake(record_wake(s, r)) THEN s
    ELSE LET stored == record_wake(s, r)
         IN CASE s.axis = "Installing" \/ s.sched = "Queued" -> stored
              [] s.axis # "Installing" /\ s.sched = "Idle" -> Queue(stored)
              [] OTHER -> [stored EXCEPT !.sched = "RunningReschedule"]

schedule_stored_wake(s) ==
    IF s.axis = "HandoffDone" /\ s.sched = "Idle" /\ OwnWake(s) THEN Queue(s) ELSE s

\* The installer's owner goes and a stored wake queues its worker.
commit_pending_handoff(s) ==
    LET done == [release_owner(s, "Installer") EXCEPT !.axis = "HandoffDone"]
    IN IF OwnWake(s) THEN Queue(done) ELSE done

begin_native_worker_pass(s) ==
    IF s.sched = "Queued" /\ OwnWake(s) THEN begin_worker_pass(Taken(s)) ELSE s
finish_native_worker_pass(s) ==
    IF s.sched = "Running" THEN release_owner(finish_worker_pass(s), "Worker")
    ELSE finish_worker_pass(s)

-----------------------------------------------------------------------------
(* TimerState and the DPC's walk.                                          *)

arm(s) == IF s.timer = "Quiesced" THEN [s EXCEPT !.timer = "Armed"] ELSE s
dpc_entered(s) == IF s.timer = "Armed" THEN [s EXCEPT !.timer = "Running"] ELSE s
dpc_exiting(s) == IF s.timer = "Running" THEN [s EXCEPT !.timer = "Quiesced"] ELSE s

cancel(s, dequeued) ==
    IF s.timer = "Quiesced" THEN "NotArmed"
    ELSE IF s.timer = "Armed" /\ dequeued THEN "DequeuedBeforeRun" ELSE "RequiresDpcExitWait"

PENDING_DPC_OWN_EPOCH_ORDER ==
    <<"EnterRunning", "RecordTimeoutWake", "QueueWorker", "ReleaseDpcOwner", "PublishQuiesced">>

\* begin_dpc_pass: a timer that is not Armed makes the pass empty.
begin_dpc_pass(s) == IF s.timer = "Armed" THEN PENDING_DPC_OWN_EPOCH_ORDER ELSE <<>>

-----------------------------------------------------------------------------
(* PendingIrpArbiter: the IRP it parked, and whether the installer has     *)
(* handed off.                                                             *)

Unbound == [parked |-> NoEnter, handedOff |-> FALSE]
park(s, e) == IF s.arbiter.parked = NoEnter THEN [s EXCEPT !.arbiter.parked = e] ELSE s
handoff_done(s) ==
    IF s.arbiter.parked # NoEnter THEN [s EXCEPT !.arbiter.handedOff = TRUE] ELSE s
dequeue(s, e) == s.arbiter.parked = e /\ s.arbiter.handedOff
contend(s) == [s EXCEPT !.arbiter.parked = NoEnter]

\* Mutant: a pointer that is still in the slot decides, not the axis.
ClassifiedByPointer(s) ==
    CASE s.irp # NoEnter -> "Released"
      [] s.irp = NoEnter /\ s.irpAxis = "Queued" -> "NoHandoff"
      [] OTHER -> "NoIrp"

\* The axis decides, not the pointer.
classify_worker_dequeue(s) ==
    CASE s.irpAxis = "Queued" -> "NoHandoff"
      [] s.irpAxis = "Dequeued" /\ s.irp # NoEnter -> "Released"
      [] OTHER -> "NoIrp"

-----------------------------------------------------------------------------
(* PendingCompletionPlan.                                                  *)

PENDING_COMPLETION_ORDER ==
    <<"CancelTimer", "WaitDpcExitIfRequired", "WriteExactResult", "ReleaseSqWaitRole",
      "UnlinkControlPending", "ReleaseStrongSessionRef", "CompleteIrpOnce",
      "PublishVacantOrEpochExhausted">>

\* The stage after this one, and whether a plan has come this far.
Stage(effect) == CHOOSE i \in DOMAIN PENDING_COMPLETION_ORDER : PENDING_COMPLETION_ORDER[i] = effect
run_next(effect) == PENDING_COMPLETION_ORDER[Stage(effect) + 1]

\* The result slot serves this install, no wake is stored and the only owner
\* left is the worker's.
PublicationReady(s, e) == s.result = e /\ s.wake = {} /\ s.owners = {"Worker"}
commit_final_publication(s, e) == vacate(release_owner(s, "Worker"), e)
=============================================================================
