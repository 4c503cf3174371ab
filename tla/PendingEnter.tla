---------------------------- MODULE PendingEnter ----------------------------
(***************************************************************************)
(* One ring's pending-ENTER slot (fsring-fsd/src/pending_enter.rs over the *)
(* state machines of fsring-core/src/enter.rs): a WAIT that finds the      *)
(* submission ring empty parks its IRP in a cancel-safe queue, and a       *)
(* passive worker completes it for the strongest of the wakes that reached *)
(* it: a cancel, the expired timer, a ready ring or the fence.             *)
(*                                                                         *)
(* Everything below the slot's spin lock is the record slot, and one       *)
(* action is one hold of that lock or one call outside it.                 *)
(***************************************************************************)
EXTENDS PendingSlot

CONSTANTS Enters,    \* ENTER calls, each with its IRP: WAIT_SQ with a timeout,
          Pollers,   \* but for these, which poll
          Workers    \* frames of the work-item callback

ASSUME EntersAssumption  == NoEnter \notin Enters /\ Pollers \subseteq Enters
ASSUME FramesAssumption  == /\ Enters \cap Workers = {}
                            /\ (Enters \cup Workers) \cap {"cancel", "fence"} = {}

VARIABLES
    slot,                  \* PendingEnterContext and its runtime
    ring, sqReady,         \* SQ role and control link; produced # consumed
    epc, finite, cancelled, \* per ENTER: control, WaitFinite, IRP.Cancel
    irpState, answer,      \* per ENTER: who owns the IRP; its completions
    adopted,               \* history: IRPs the cancel routine handed over
    timerQueue, expired,   \* the kernel timer; history: it fired
    dpcExited, dpcSetting, \* the exit event; a KeSetEvent still to come
    calls, workItem,       \* frames that owe IoQueueWorkItem; item queued
    worker,                \* per frame: control and locals
    fpc                    \* the fence
enterVars == <<ring, epc, finite>>
irpVars   == <<cancelled, irpState, answer, adopted>>
timerVars == <<timerQueue, expired, dpcExited, dpcSetting>>
workVars  == <<calls, workItem>>
vars == <<slot, sqReady, enterVars, irpVars, timerVars, workVars, worker, fpc>>

IdleFrame == [pc |-> "idle", irp |-> NoEnter, reason |-> "none",
              request |-> FALSE, dequeued |-> FALSE, status |-> "none"]

\* PendingSlotRuntime::from_parts, with the fields of the context around it.
from_parts ==
    [state |-> "Vacant", install |-> NoEnter, ledger |-> NoEnter, result |-> NoEnter,
     role |-> NoEnter, axis |-> "Installing", sched |-> "Idle", wake |-> {},
     wakeFor |-> NoEnter, owners |-> {}, arbiter |-> Unbound, plan |-> FALSE,
     lease |-> "absent", request |-> FALSE, authority |-> "absent",
     queueRight |-> FALSE, handoffQueue |-> FALSE, irp |-> NoEnter,
     irpAxis |-> "none", timer |-> "Quiesced", strong |-> NoEnter,
     polled |-> FALSE, failStop |-> FALSE]

Init ==
    /\ slot = from_parts
    /\ ring = [sq_owner |-> NoEnter, link |-> NoEnter] /\ sqReady = FALSE
    /\ epc = [e \in Enters |-> "idle"] /\ finite = [e \in Enters |-> FALSE]
    /\ cancelled = [e \in Enters |-> FALSE]
    /\ irpState = [e \in Enters |-> "dispatch"]
    /\ answer = [e \in Enters |-> <<>>] /\ adopted = {}
    /\ timerQueue = "idle" /\ expired = FALSE
    /\ dpcExited = FALSE /\ dpcSetting = FALSE
    /\ calls = {} /\ workItem = FALSE
    /\ worker = [w \in Workers |-> IdleFrame]
    /\ fpc = "open"

-----------------------------------------------------------------------------
(* PendingSlotRuntime: what one hold of the slot lock does with the        *)
(* machines of PendingSlot.                                                *)

\* A slot that serves nobody accepts and forgets; a right that is minted stays
\* in the slot.
deposit_locked_wake(s, r) ==
    IF s.install = NoEnter THEN s
    ELSE LET t == record_and_schedule_pending(s, r)
         IN [t EXCEPT !.queueRight = s.queueRight \/ Minted(s, t)]

\* The installer has stored everything a pass consumes.
pass_admission(s) == s.plan /\ s.arbiter # Unbound /\ s.authority = "slot"

\* For a slot on which a pass could begin and whose pass nobody else owes.
queue_wake_still_owed(s) ==
    IF pass_admission(s) /\ ~s.queueRight /\ ~s.handoffQueue
    THEN schedule_stored_wake(s) ELSE s

begin_pass(s) == IF pass_admission(s) THEN begin_native_worker_pass(s) ELSE s
begin_completion(s) == begin_worker_completion(s)
abandon_completion(s) == abandon_worker_completion(s)

\* The role, the control link and the worker's owner leave for the frame w.
take_completion_authorities(s, w) == [s EXCEPT !.authority = w]

\* The session's role lease and the request leave with them.
take_session_wait(s) == [s EXCEPT !.lease = "absent", !.request = FALSE]
store_session_wait(s) ==
    IF ~s.plan /\ s.lease = "absent"
    THEN [s EXCEPT !.plan = TRUE, !.lease = "plan", !.request = TRUE] ELSE s

\* The arbiter's receipt for the IRP, then its terminal right: the plan leaves
\* the slot with them, or stays.
arbitrate_completion(s, e) == IF dequeue(s, e) THEN contend(s) ELSE s
take_arbitrated_completion(s, e) ==
    IF s.plan /\ dequeue(s, e) THEN [arbitrate_completion(s, e) EXCEPT !.plan = FALSE] ELSE s

\* A pass that could not begin gives its Queued back.
abandon_queued(s) ==
    IF s.sched = "Queued"
    THEN queue_wake_still_owed(release_owner(abandon_queued_pass(s), "Worker")) ELSE s
finish_pass(s) ==
    IF s.sched \in {"Running", "RunningReschedule"} THEN finish_native_worker_pass(s)
    ELSE abandon_queued(s)

release_install(s) ==
    IF s.plan \/ s.lease = "slot" \/ "Dpc" \in s.owners THEN s
    ELSE [unbind_install(end_install(s)) EXCEPT !.arbiter = Unbound, !.request = FALSE,
                                                !.polled = FALSE]

\* The slot with its parked right taken, and the frames that then owe a call.
RightTaken(s) == [s EXCEPT !.queueRight = FALSE]
OwedBy(f, due) == IF due THEN calls \cup {f} ELSE calls

\* IoQueueWorkItem, after the lock is released.
QueueWorkItem(f) ==
    /\ f \in calls
    /\ calls' = calls \ {f} /\ workItem' = TRUE
    /\ UNCHANGED <<slot, sqReady, enterVars, irpVars, timerVars, worker, fpc>>

-----------------------------------------------------------------------------
(* ENTER.                                                                  *)

Goto(e, where) == epc' = [epc EXCEPT ![e] = where]

\* The dispatch routine completes the IRP itself, with this status.
Return(e, status) == /\ Goto(e, "returned")
                     /\ answer' = [answer EXCEPT ![e] = Append(@, status)]
                     /\ irpState' = [irpState EXCEPT ![e] = "completed"]
Continue(e, where) == Goto(e, where) /\ UNCHANGED <<answer, irpState>>

Published == fpc \in {"open", "terminal", "ledgerClosed"}

\* The locator resolves while the registry slot is Live.
EnterResolve(e) ==
    /\ epc[e] = "idle" /\ fpc = "open"
    /\ \E f \in IF e \in Pollers THEN {FALSE} ELSE BOOLEAN :
           finite' = [finite EXCEPT ![e] = f]
    /\ Continue(e, "doorbell")
    /\ UNCHANGED <<slot, ring, adopted, timerVars, calls>>

\* wake_ready_parked_waits reads the cursors outside the lock.
EnterDoorbell(e) ==
    /\ epc[e] = "doorbell"
    /\ \/ ~Published /\ Return(e, "INVALID_DEVICE_STATE")
       \/ Published /\ sqReady /\ Continue(e, "deposit")
       \/ Published /\ ~sqReady /\ Continue(e, "role")
    /\ UNCHANGED <<slot, ring, finite, adopted, timerVars, calls>>

\* deposit_readiness_wakes.
EnterDeposit(e) ==
    LET s == deposit_locked_wake(slot, "Readiness")
    IN /\ epc[e] = "deposit"
       /\ slot' = RightTaken(s) /\ calls' = OwedBy(e, s.queueRight)
       /\ Continue(e, "role")
       /\ UNCHANGED <<ring, finite, adopted, timerVars>>

\* acquire_role of the session's ring; perform_enter answers a refusal as a lack
\* of resources.
AcquireRole(e) ==
    /\ epc[e] = "role"
    /\ IF ring.sq_owner = NoEnter
       THEN ring' = [ring EXCEPT !.sq_owner = e] /\ Continue(e, "poll")
       ELSE Return(e, "INSUFFICIENT_RESOURCES") /\ UNCHANGED ring
    /\ UNCHANGED <<slot, finite, adopted, timerVars, calls>>

RoleReleased == [ring EXCEPT !.sq_owner = NoEnter]

\* PollClearRecheck: only a WAIT on an empty ring goes on to park.
PollClearRecheck(e) ==
    /\ epc[e] = "poll"
    /\ IF sqReady \/ e \in Pollers
       THEN Return(e, IF sqReady THEN "Ready" ELSE "Empty") /\ ring' = RoleReleased
       ELSE Continue(e, "strong") /\ UNCHANGED ring
    /\ UNCHANGED <<slot, finite, adopted, timerVars, calls>>

store_parked_strong_session(s, e) ==
    IF s.strong = NoEnter THEN [s EXCEPT !.strong = e] ELSE s
take_parked_strong_session(s) == [s EXCEPT !.strong = NoEnter]

\* acquire_parked_strong_refs: refused when the registry slot is no longer Live
\* or the pending slot still holds an earlier reference.
AcquireStrong(e) ==
    /\ epc[e] = "strong"
    /\ IF fpc = "open" /\ slot.strong = NoEnter
       THEN slot' = store_parked_strong_session(slot, e) /\ Continue(e, "install")
       ELSE UNCHANGED slot /\ Continue(e, "dropRole")
    /\ UNCHANGED <<ring, finite, adopted, timerVars, calls>>

\* Phase A of park_wait_enter, in the order of its calls.
Reserved(s, e) ==
    LET scheduled == schedule_begin_install(acquire_sq_wait(s, e), e)
        bound == occupy(bind_install(scheduled, e), e)
    IN [acquire_owner(bound, "Installer") EXCEPT !.state = begin_install(@)]

\* decide_pending_park: only a Vacant slot installs.
Install(e) ==
    /\ epc[e] = "install"
    /\ IF slot.state = "Vacant"
       THEN slot' = Reserved(slot, e) /\ Continue(e, "link")
       ELSE UNCHANGED slot /\ Continue(e, "dropStrong")
    /\ UNCHANGED <<ring, finite, adopted, timerVars, calls>>

\* PendingControlLedger::link and unlink.
link(r, e) == IF r.link = NoEnter THEN [r EXCEPT !.link = e] ELSE r
unlink(r, e) == IF r.link = e THEN [r EXCEPT !.link = NoEnter] ELSE r

\* Phase B: the control ledger links while its admission is open.
LinkControl(e) ==
    LET admits == fpc \in {"open", "terminal"} /\ ring.link = NoEnter
    IN /\ epc[e] = "link"
       /\ ring' = IF admits THEN link(ring, e) ELSE ring
       /\ Continue(e, IF admits THEN "claim" ELSE "unwind")
       /\ UNCHANGED <<slot, finite, adopted, timerVars, calls>>

\* The stored wake stays.
unwind_reserved_install(s, e) ==
    LET unowned == unbind_install(vacate(release_owner(s, "Installer"), e))
    IN [release_sq_wait(end_install(unowned), e) EXCEPT !.state = "Vacant"]

Unwind(e) ==
    /\ epc[e] = "unwind"
    /\ slot' = unwind_reserved_install(slot, e)
    /\ Continue(e, "dropStrong")
    /\ UNCHANGED <<ring, finite, adopted, timerVars, calls>>

\* Phase C: the arbiter is parked before the insert.
Claim(e) ==
    /\ epc[e] = "claim"
    /\ slot' = [park(slot, e) EXCEPT !.authority = "slot"]
    /\ Continue(e, "insert")
    /\ UNCHANGED <<ring, finite, adopted, timerVars, calls>>

\* IoCsqInsertIrp.  An IRP cancelled before the insert is removed at once and
\* handed to the cancel callback on this thread.
InsertCsq(e) ==
    /\ epc[e] = "insert"
    /\ slot' = [slot EXCEPT !.irp = IF cancelled[e] THEN NoEnter ELSE e,
                            !.irpAxis = "Queued"]
    /\ irpState' = [irpState EXCEPT ![e] = IF cancelled[e] THEN "removed" ELSE "parked"]
    /\ Goto(e, IF cancelled[e] THEN "insertCancelled" ELSE "handoff")
    /\ UNCHANGED <<answer, ring, finite, adopted, timerVars, calls>>

\* What IoCsqInsertIrp left: anything but these two is a bugcheck.
observe_insert_outcome(s) ==
    CASE s.irpAxis = "Queued" -> "Inserted"
      [] s.irpAxis = "Dequeued" -> "CancelCallbackOwns"
      [] OTHER -> "panic"

\* commit_pending_handoff, and for a finite WAIT the timer in the same hold.
Handoff(e) ==
    LET queued == handoff_done(commit_pending_handoff(slot))
        arms   == finite[e] /\ slot.timer = "Quiesced"
    IN /\ epc[e] = "handoff"
       /\ slot' = IF arms THEN acquire_owner(arm(queued), "Dpc") ELSE queued
       /\ timerQueue' = IF arms THEN "inserted" ELSE timerQueue
       /\ Continue(e, IF Minted(slot, queued) THEN "parkHandoff" ELSE "store")
       /\ UNCHANGED <<ring, finite, adopted, expired, dpcExited, dpcSetting, calls>>

\* The obligation the handoff minted is parked for the store to discharge.
ParkHandoff(e) ==
    /\ epc[e] = "parkHandoff"
    /\ slot' = [slot EXCEPT !.handoffQueue = TRUE]
    /\ Continue(e, "store")
    /\ UNCHANGED <<ring, finite, adopted, timerVars, calls>>

\* store_parked_wait: publish the plan and discharge the handoff, or queue the
\* pass a wake is owed whose worker found no plan.
StoreWait(e) ==
    LET stored == [store_session_wait(slot) EXCEPT !.handoffQueue = FALSE]
        s == IF slot.handoffQueue THEN stored ELSE queue_wake_still_owed(stored)
    IN /\ epc[e] = "store"
       /\ slot' = s /\ calls' = OwedBy(e, slot.handoffQueue \/ Minted(stored, s))
       /\ Continue(e, "discharge")
       /\ UNCHANGED <<ring, finite, adopted, timerVars>>

\* discharge_parked_handoff on the way out; the call returns STATUS_PENDING.
Discharge(e) ==
    /\ epc[e] = "discharge"
    /\ slot' = [slot EXCEPT !.handoffQueue = FALSE]
    /\ calls' = OwedBy(e, slot.handoffQueue)
    /\ Continue(e, "pending")
    /\ UNCHANGED <<ring, finite, adopted, timerVars>>

\* The rollback of a park that was refused.
DropStrong(e) ==
    /\ epc[e] = "dropStrong"
    /\ slot' = take_parked_strong_session(slot)
    /\ Continue(e, "dropRole")
    /\ UNCHANGED <<ring, finite, adopted, timerVars, calls>>

DropRole(e) ==
    /\ epc[e] = "dropRole"
    /\ ring' = RoleReleased /\ Return(e, "INVALID_DEVICE_STATE")
    /\ UNCHANGED <<slot, finite, adopted, timerVars, calls>>

EnterStep(e) ==
    /\ \/ EnterDoorbell(e) \/ EnterDeposit(e) \/ AcquireRole(e)
       \/ PollClearRecheck(e) \/ AcquireStrong(e) \/ Install(e) \/ LinkControl(e)
       \/ Unwind(e) \/ Claim(e) \/ InsertCsq(e) \/ Handoff(e) \/ ParkHandoff(e)
       \/ StoreWait(e) \/ Discharge(e) \/ DropStrong(e) \/ DropRole(e)
    /\ e \notin calls
    /\ UNCHANGED <<sqReady, cancelled, workItem, worker, fpc>>

-----------------------------------------------------------------------------
(* Cancellation.  IoCancelIrp takes the cancel routine; the framework then *)
(* removes the IRP from the queue and hands it to the driver's callback.   *)
(* Nothing reads the cancel flag of a poll.                                *)

CancelIrp(e) ==
    /\ epc[e] # "idle" /\ e \notin Pollers
    /\ ~cancelled[e] /\ irpState[e] # "completed"
    /\ cancelled' = [cancelled EXCEPT ![e] = TRUE]
    /\ irpState' = IF irpState[e] = "parked" THEN [irpState EXCEPT ![e] = "cancelling"]
                   ELSE irpState
    /\ UNCHANGED <<slot, sqReady, enterVars, answer, adopted, timerVars, workVars, worker, fpc>>

\* csq_remove_irp on behalf of the framework.
CancelRemove(e) ==
    /\ irpState[e] = "cancelling"
    /\ irpState' = [irpState EXCEPT ![e] = "removed"]
    /\ slot' = [slot EXCEPT !.irp = NoEnter]
    /\ UNCHANGED <<sqReady, enterVars, cancelled, answer, adopted, timerVars, workVars,
                   worker, fpc>>

\* csq_complete_canceled_irp, on the canceller's thread or, for an IRP that was
\* cancelled before its insert, on the ENTER's own.
CompleteCanceledIrp(e) ==
    LET onEnter == epc[e] = "insertCancelled"
        frame == IF onEnter THEN e ELSE "cancel"
        s == deposit_locked_wake([slot EXCEPT !.irp = e, !.irpAxis = "Dequeued"], "Cancel")
    IN /\ irpState[e] = "removed" /\ frame \notin calls
       /\ slot' = RightTaken(s) /\ calls' = OwedBy(frame, s.queueRight)
       /\ irpState' = [irpState EXCEPT ![e] = "dequeued"]
       /\ adopted' = adopted \cup {e}
       /\ epc' = IF onEnter THEN [epc EXCEPT ![e] = "handoff"] ELSE epc
       /\ UNCHANGED <<sqReady, ring, finite, cancelled, answer, timerVars, workItem,
                      worker, fpc>>

-----------------------------------------------------------------------------
(* The timer and its DPC.                                                  *)

TimerExpire ==
    /\ timerQueue = "inserted"
    /\ timerQueue' = "dpcQueued" /\ expired' = TRUE
    /\ UNCHANGED <<slot, sqReady, enterVars, irpVars, dpcExited, dpcSetting, workVars,
                   worker, fpc>>

\* perform_pending_effect, for the DPC: the wake, the queue call inside the hold,
\* the owner, the state.
perform_pending_effect(p, action) ==
    CASE action = "EnterRunning" -> [p EXCEPT !.slot = dpc_entered(@)]
      [] action = "RecordTimeoutWake" /\ p.slot.install # NoEnter ->
           LET s == record_and_schedule_pending(p.slot, "Timeout")
           IN [p EXCEPT !.slot = s, !.right = Minted(p.slot, s)]
      [] action = "QueueWorker" -> [p EXCEPT !.item = @ \/ p.right, !.right = FALSE]
      [] action = "ReleaseDpcOwner" -> [p EXCEPT !.slot = release_owner(@, "Dpc")]
      [] action = "PublishQuiesced" -> [p EXCEPT !.slot = dpc_exiting(@)]
      [] OTHER -> p

\* fsring_pending_enter_timer_dpc up to the unlock: clear the exit event and walk
\* the effects of its path.
TimerDpc ==
    LET walked == FoldLeft(perform_pending_effect,
                           [slot |-> slot, right |-> FALSE, item |-> workItem],
                           begin_dpc_pass(slot))
    IN /\ timerQueue = "dpcQueued"
       /\ timerQueue' = "idle" /\ dpcExited' = FALSE /\ dpcSetting' = TRUE
       /\ slot' = walked.slot /\ workItem' = walked.item
       /\ UNCHANGED <<sqReady, enterVars, irpVars, expired, calls, worker, fpc>>

\* KeSetEvent(dpc_exited), after the unlock.
DpcSignalExit ==
    /\ dpcSetting
    /\ dpcSetting' = FALSE /\ dpcExited' = TRUE
    /\ UNCHANGED <<slot, sqReady, enterVars, irpVars, timerQueue, expired, workVars,
                   worker, fpc>>

-----------------------------------------------------------------------------
(* The worker.                                                             *)

Move(w, where) == worker' = [worker EXCEPT ![w].pc = where]

\* fsring_pending_enter_worker: the I/O manager dequeues the item to run it.
WorkerStart(w) ==
    /\ worker[w].pc = "idle" /\ w \notin calls /\ workItem
    /\ workItem' = FALSE
    /\ Move(w, "poll")
    /\ UNCHANGED <<slot, sqReady, enterVars, irpVars, timerVars, calls, fpc>>

\* PollAndRecheck: the session pointer is stored with the plan.
WorkerPoll(w) ==
    /\ worker[w].pc = "poll"
    /\ slot' = [slot EXCEPT !.polled = slot.plan /\ sqReady]
    /\ Move(w, "begin")
    /\ UNCHANGED <<ring, irpVars, timerVars, calls>>

\* The first hold of run_pending_completion_pass: take the wakes, then declare
\* Completing and take the authorities.  A pass that may not begin keeps them.
WorkerBegin(w) ==
    LET begun == begin_pass(slot)
        begins == begun.sched = "Running"
        handed == classify_worker_dequeue(slot)
        completes == begins /\ handed # "NoIrp"
    IN /\ worker[w].pc = "begin"
       /\ slot' = IF completes
                  THEN take_session_wait(take_completion_authorities(begin_completion(begun), w))
                  ELSE begun
       /\ worker' = [worker EXCEPT ![w].pc = CASE ~completes -> "finish"
                                               [] completes /\ handed = "Released" -> "arbitrate"
                                               [] OTHER -> "dequeue",
                                   ![w].irp = IF completes THEN slot.install ELSE NoEnter,
                                   ![w].request = completes /\ slot.request,
                                   ![w].reason = IF begins THEN take_for_worker(slot) ELSE "none"]
       /\ UNCHANGED <<ring, irpVars, timerVars, calls>>

\* IoCsqRemoveIrp: NULL once a cancel has taken the cancel routine.
WorkerDequeue(w) ==
    LET e == worker[w].irp
        mine == irpState[e] = "parked"
    IN /\ worker[w].pc = "dequeue"
       /\ slot' = IF mine THEN [slot EXCEPT !.irp = NoEnter] ELSE slot
       /\ irpState' = IF mine THEN [irpState EXCEPT ![e] = "dequeued"] ELSE irpState
       /\ Move(w, IF mine THEN "adopt" ELSE "giveBack")
       /\ UNCHANGED <<ring, cancelled, answer, adopted, timerVars, calls>>

WorkerAdopt(w) ==
    /\ worker[w].pc = "adopt"
    /\ slot' = [slot EXCEPT !.irp = worker[w].irp, !.irpAxis = "Dequeued"]
    /\ Move(w, "arbitrate")
    /\ UNCHANGED <<ring, irpVars, timerVars, calls>>

\* The undo of a pass the cancel routine beat: a cancel that was adopted while
\* the schedule read Completing was refused, so it is deposited again.
GivenBack(w) ==
    LET s == abandon_completion([slot EXCEPT !.authority = "slot", !.lease = "slot",
                                             !.request = worker[w].request])
    IN IF classify_worker_dequeue(s) = "Released" THEN deposit_locked_wake(s, "Cancel") ELSE s

WorkerGiveBack(w) ==
    /\ worker[w].pc = "giveBack"
    /\ slot' = GivenBack(w)
    /\ Move(w, "finish")
    /\ UNCHANGED <<ring, irpVars, timerVars, calls>>

\* PendingCompletionPlan::begin, and the terminal right of its result.
WorkerArbitrate(w) ==
    /\ worker[w].pc = "arbitrate"
    /\ slot' = take_arbitrated_completion(slot, worker[w].irp)
    /\ worker' = [worker EXCEPT ![w].pc = PENDING_COMPLETION_ORDER[1],
                                ![w].reason = IF slot.plan /\ ~slot'.plan THEN @ ELSE "none"]
    /\ UNCHANGED <<ring, irpVars, timerVars, calls>>

\* WaitDpcExitIfRequired is a bookkeeping stage: the wait is part of the first.
AfterTimer == run_next(run_next("CancelTimer"))

\* cancel_pending_timer: a hold, KeCancelTimer outside it, and a second hold.
WorkerCheckTimer(w) ==
    /\ worker[w].pc = "CancelTimer"
    /\ Move(w, IF slot.timer = "Quiesced" THEN AfterTimer ELSE "cancelTimer")
    /\ UNCHANGED <<slot, ring, irpVars, timerVars, calls>>

WorkerCancelTimer(w) ==
    /\ worker[w].pc = "cancelTimer"
    /\ worker' = [worker EXCEPT ![w].pc = "recordCancel",
                                ![w].dequeued = (timerQueue = "inserted")]
    /\ timerQueue' = IF timerQueue = "inserted" THEN "idle" ELSE timerQueue
    /\ UNCHANGED <<slot, ring, irpVars, expired, dpcExited, dpcSetting, calls>>

\* A dequeued timer releases the owner its DPC would have released.
WorkerRecordCancel(w) ==
    LET outcome == cancel(slot, worker[w].dequeued)
    IN /\ worker[w].pc = "recordCancel"
       /\ slot' = IF outcome = "DequeuedBeforeRun"
                  THEN release_owner([slot EXCEPT !.timer = "Quiesced"], "Dpc") ELSE slot
       /\ Move(w, IF outcome = "RequiresDpcExitWait" THEN "waitDpc" ELSE AfterTimer)
       /\ UNCHANGED <<ring, irpVars, timerVars, calls>>

\* wait_pending_dpc_exit: look at the state and clear the event in one hold,
\* block on the event, look again.
WorkerWaitDpc(w) ==
    /\ worker[w].pc = "waitDpc"
    /\ dpcExited' = IF slot.timer = "Quiesced" THEN dpcExited ELSE FALSE
    /\ Move(w, IF slot.timer = "Quiesced" THEN AfterTimer ELSE "blocked")
    /\ UNCHANGED <<slot, ring, irpVars, timerQueue, expired, dpcSetting, calls>>

WorkerWake(w) ==
    /\ worker[w].pc = "blocked" /\ dpcExited
    /\ Move(w, "waitDpc")
    /\ UNCHANGED <<slot, ring, irpVars, timerVars, calls>>

\* finish_arbitrated and the body: a timeout with work queued answers Ready.
StatusOf(reason, ready) ==
    CASE reason = "Cancel" -> "CANCELLED"
      [] reason = "Readiness" -> "Ready"
      [] reason = "Timeout" /\ ready -> "Ready"
      [] reason = "Timeout" /\ ~ready -> "TimedOut"
      [] OTHER -> "INVALID_DEVICE_STATE"

\* WriteExactResult; a success needs the request to encode its body for.
WorkerWrite(w) ==
    LET status == StatusOf(worker[w].reason, slot.polled \/ sqReady)
        encoded == status \notin {"Ready", "TimedOut"} \/ worker[w].request
    IN /\ worker[w].pc = "WriteExactResult"
       /\ worker' = [worker EXCEPT ![w].pc = run_next(@),
                                   ![w].status = IF encoded THEN status
                                                 ELSE "INVALID_DEVICE_STATE"]
       /\ UNCHANGED <<slot, ring, irpVars, timerVars, calls>>

\* release_slot_sq_wait, then the role of the session's ring.
WorkerReleaseRole(w) ==
    /\ worker[w].pc = "ReleaseSqWaitRole"
    /\ slot' = release_sq_wait(slot, worker[w].irp)
    /\ ring' = RoleReleased
    /\ Move(w, run_next("ReleaseSqWaitRole"))
    /\ UNCHANGED <<irpVars, timerVars, calls>>

\* unlink_parked_control_link.
WorkerUnlink(w) ==
    /\ worker[w].pc = "UnlinkControlPending"
    /\ ring' = unlink(ring, worker[w].irp)
    /\ Move(w, run_next("UnlinkControlPending"))
    /\ UNCHANGED <<slot, irpVars, timerVars, calls>>

\* release_parked_strong_refs.
WorkerReleaseStrong(w) ==
    /\ worker[w].pc = "ReleaseStrongSessionRef"
    /\ slot' = take_parked_strong_session(slot)
    /\ Move(w, run_next("ReleaseStrongSessionRef"))
    /\ UNCHANGED <<ring, irpVars, timerVars, calls>>

complete_parked_irp(e, status) ==
    /\ answer' = [answer EXCEPT ![e] = Append(@, status)]
    /\ irpState' = [irpState EXCEPT ![e] = "completed"]

WorkerComplete(w) ==
    /\ worker[w].pc = "CompleteIrpOnce"
    /\ complete_parked_irp(worker[w].irp, worker[w].status)
    /\ Move(w, run_next("CompleteIrpOnce"))
    /\ UNCHANGED <<slot, ring, cancelled, adopted, timerVars, calls>>

\* finalize_native_pending_publication: the slot state moves only when the whole
\* install was released.  A refusal parks the packet.
Finalized(s, e) ==
    IF ~PublicationReady(s, e)
    THEN [s EXCEPT !.failStop = TRUE, !.state = park_publication_fail_stop(@)]
    ELSE LET t == release_install(commit_final_publication(s, e))
             cleared == [t EXCEPT !.irp = NoEnter, !.irpAxis = "none"]
         IN IF t.install = NoEnter
            THEN [cleared EXCEPT !.state = publish_vacant(@), !.authority = "absent"]
            ELSE cleared

WorkerPublish(w) ==
    /\ worker[w].pc = "PublishVacantOrEpochExhausted"
    /\ slot' = Finalized(slot, worker[w].irp)
    /\ worker' = [worker EXCEPT ![w] = IdleFrame]
    /\ UNCHANGED <<ring, irpVars, timerVars, calls>>

\* Mutant: a pass that could not begin leaves the schedule Queued.
FinishLeavesQueued(w) ==
    /\ worker[w].pc = "finish"
    /\ slot' = IF slot.sched = "Queued" THEN slot ELSE finish_pass(slot)
    /\ calls' = OwedBy(w, slot.sched # "Queued" /\ slot'.sched = "Queued")
    /\ worker' = [worker EXCEPT ![w] = IdleFrame]
    /\ UNCHANGED <<ring, irpVars, timerVars>>

\* FinishWorkerPass: Queued afterwards means one queue call is due.
WorkerFinish(w) ==
    /\ worker[w].pc = "finish"
    /\ slot' = finish_pass(slot)
    /\ calls' = OwedBy(w, slot'.sched = "Queued")
    /\ worker' = [worker EXCEPT ![w] = IdleFrame]
    /\ UNCHANGED <<ring, irpVars, timerVars>>

WorkerStep(w) ==
    /\ \/ WorkerPoll(w) \/ WorkerBegin(w) \/ WorkerDequeue(w) \/ WorkerAdopt(w)
       \/ WorkerGiveBack(w) \/ WorkerArbitrate(w) \/ WorkerCheckTimer(w)
       \/ WorkerCancelTimer(w) \/ WorkerRecordCancel(w) \/ WorkerWaitDpc(w)
       \/ WorkerWake(w) \/ WorkerWrite(w) \/ WorkerReleaseRole(w)
       \/ WorkerUnlink(w) \/ WorkerReleaseStrong(w) \/ WorkerComplete(w)
       \/ WorkerPublish(w) \/ WorkerFinish(w)
    /\ w \notin calls
    /\ UNCHANGED <<sqReady, epc, finite, workItem, fpc>>

-----------------------------------------------------------------------------
(* The ring's producer and consumer, and the fence.                        *)

\* The kernel publishes an entry, or the daemon consumes the last one.
SqMoves ==
    /\ sqReady' = ~sqReady
    /\ UNCHANGED <<slot, enterVars, irpVars, timerVars, workVars, worker, fpc>>

FenceGoto(from, to) == fpc = from /\ fpc' = to

\* The terminal claim: the registry slot leaves Live.
FenceClaim == FenceGoto("open", "terminal") /\ UNCHANGED <<slot, calls>>

\* close_session_admission: the control ledger first, then the session's word.
FenceCloseLedger == FenceGoto("terminal", "ledgerClosed") /\ UNCHANGED <<slot, calls>>
FenceCloseSession == FenceGoto("ledgerClosed", "closed") /\ UNCHANGED <<slot, calls>>

\* deposit_fence_wakes: a right that is minted stays in the slot.
FenceSignal ==
    /\ FenceGoto("closed", "signalled")
    /\ slot' = deposit_locked_wake(slot, "Fence")
    /\ UNCHANGED calls

\* The control and access rundowns: every ENTER has left the driver.
FenceWaitRundown ==
    /\ FenceGoto("signalled", "waited")
    /\ \A e \in Enters : epc[e] \in {"idle", "pending", "returned"} /\ e \notin calls
    /\ UNCHANGED <<slot, calls>>

\* queue_installed_work.
FenceQueueWork ==
    /\ FenceGoto("waited", "queued")
    /\ slot' = RightTaken(slot) /\ calls' = OwedBy("fence", slot.queueRight)

\* An occupied slot that names no install is a bugcheck.
observe_pending_for_unload(s) ==
    CASE s.state = "Vacant" -> "drained"
      [] s.state = "PublicationFailStop" \/ (s.state # "Vacant" /\ s.install # NoEnter) -> "refused"
      [] OTHER -> "panicked"

\* wait_contexts_drained: a slot that is Active is looked at again until the
\* budget of observations is spent.
FenceObserve ==
    /\ fpc = "queued" /\ "fence" \notin calls
    /\ fpc' = observe_pending_for_unload(slot)
    /\ UNCHANGED <<slot, calls>>

FenceStep ==
    /\ \/ FenceClaim \/ FenceCloseLedger \/ FenceCloseSession \/ FenceSignal
       \/ FenceWaitRundown \/ FenceQueueWork \/ FenceObserve
    /\ UNCHANGED <<sqReady, enterVars, irpVars, timerVars, workItem, worker>>

Frames == Enters \cup Workers \cup {"cancel", "fence"}

\* A bugcheck stops the machine.
Next ==
    /\ fpc # "panicked"
    /\ \/ \E e \in Enters :
             \/ EnterResolve(e) /\ UNCHANGED <<sqReady, cancelled, workItem, worker, fpc>>
             \/ EnterStep(e) \/ CancelIrp(e) \/ CancelRemove(e) \/ CompleteCanceledIrp(e)
       \/ TimerExpire \/ TimerDpc \/ DpcSignalExit
       \/ \E w \in Workers : WorkerStart(w) \/ WorkerStep(w)
       \/ \E f \in Frames : QueueWorkItem(f)
       \/ SqMoves \/ FenceStep

Spec == Init /\ [][Next]_vars

\* Threads the system has started run on: the dispatch, cancel, DPC and worker
\* frames, the timer, and a fence once it has claimed the session.  Nobody owes
\* an ENTER, a cancel, a ring entry or a fence.
Alive(A) == fpc # "panicked" /\ A
Fairness ==
    /\ \A e \in Enters : /\ WF_vars(Alive(EnterStep(e)))
                         /\ WF_vars(Alive(CancelRemove(e) \/ CompleteCanceledIrp(e)))
    /\ WF_vars(Alive(TimerExpire \/ TimerDpc)) /\ WF_vars(Alive(DpcSignalExit))
    /\ WF_vars(Alive(\E w \in Workers : WorkerStart(w)))
    /\ \A w \in Workers : WF_vars(Alive(WorkerStep(w)))
    /\ WF_vars(Alive(\E f \in Frames : QueueWorkItem(f)))
    /\ WF_vars(Alive(fpc # "open" /\ FenceStep))

LiveSpec == Spec /\ Fairness
-----------------------------------------------------------------------------
(* Properties.                                                             *)

\* The types of the slot and of the frames.  Running is a timer state no
\* observer sees: the DPC enters and leaves it in one hold of the slot lock.
TypeOK ==
    /\ slot \in [state : {"Vacant", "Installing", "Quiescing"},
                 install : Enters \cup {NoEnter}, ledger : Enters \cup {NoEnter},
                 result : Enters \cup {NoEnter}, role : Enters \cup {NoEnter},
                 axis : {"Installing", "HandoffDone"},
                 sched : {"Idle", "Queued", "Running", "RunningReschedule", "Completing"},
                 wake : SUBSET Reasons, wakeFor : Enters \cup {NoEnter},
                 owners : SUBSET {"Installer", "Worker", "Dpc"},
                 arbiter : [parked : Enters \cup {NoEnter}, handedOff : BOOLEAN],
                 plan : BOOLEAN, lease : {"absent", "plan", "slot"}, request : BOOLEAN,
                 authority : Workers \cup {"absent", "slot"},
                 queueRight : BOOLEAN, handoffQueue : BOOLEAN,
                 irp : Enters \cup {NoEnter}, irpAxis : {"none", "Queued", "Dequeued"},
                 timer : {"Quiesced", "Armed"}, strong : Enters \cup {NoEnter},
                 polled : BOOLEAN, failStop : {FALSE}]
    /\ ring \in [sq_owner : Enters \cup {NoEnter}, link : Enters \cup {NoEnter}]
    /\ timerQueue \in {"idle", "inserted", "dpcQueued"}
    /\ calls \subseteq Frames /\ adopted \subseteq Enters
    /\ irpState \in [Enters -> {"dispatch", "parked", "cancelling", "removed",
                                "dequeued", "completed"}]

Stages(first, last) ==
    {PENDING_COMPLETION_ORDER[i] : i \in Stage(first) .. Stage(last)}

\* An IRP is completed at most once, and a worker that completes one owns it: the
\* queue or the cancel routine released it to the driver before the pass went on
\* (classify_worker_dequeue, IoCsqRemoveIrp's NULL).
CompletesOnlyOwned ==
    /\ \A e \in Enters : Len(answer[e]) <= 1
    /\ \A w \in Workers : worker[w].pc \in {"arbitrate", "cancelTimer", "recordCancel",
                                            "waitDpc", "blocked"}
                                       \cup Stages("CancelTimer", "CompleteIrpOnce")
                          => irpState[worker[w].irp] = "dequeued"

\* A wake is never left in a slot whose pass could begin while no pass is queued
\* or running (queue_wake_still_owed closes the window in which a worker found
\* no plan yet).
NoStrandedWake ==
    ~ /\ slot.sched = "Idle" /\ slot.axis = "HandoffDone"
      /\ slot.wake # {} /\ pass_admission(slot)

\* The places that stand for one pass that was queued and has not begun.
Debts == Cardinality(calls)
         + Cardinality({b \in {"right", "handoff", "item"} :
                         \/ b = "right" /\ slot.queueRight
                         \/ b = "handoff" /\ slot.handoffQueue
                         \/ b = "item" /\ workItem})
         + Cardinality({e \in Enters : epc[e] = "parkHandoff"})
         + Cardinality({w \in Workers : \/ worker[w].pc \in {"poll", "begin"}
                                        \/ worker[w].pc = "finish" /\ slot.sched = "Queued"})

\* QueueWorkRight's contract: Queued stands for exactly one queue call, owed or
\* made, and its pass; the Worker owner is held as long as the schedule is not
\* Idle; two passes never overlap on one slot.
OneQueueCall ==
    /\ Debts = IF slot.sched = "Queued" THEN 1 ELSE 0
    /\ "Worker" \in slot.owners <=> slot.sched # "Idle"
    /\ Cardinality({w \in Workers : worker[w].pc # "idle"}) <= 1

\* What the installer asserts or panics on holds whatever wakes arrive meanwhile:
\* the queue slot is empty at the insert, the insert left an axis, the handoff's
\* preconditions stand, the plan's place is free, and the cancel callback is
\* handed the IRP the slot parked.
InstallAssertions ==
    \A e \in Enters :
        /\ epc[e] \in {"link", "claim", "insert", "insertCancelled", "handoff"}
           => /\ slot.install = e /\ slot.axis = "Installing"
              /\ slot.sched = "Idle" /\ slot.owners = {"Installer"}
        /\ epc[e] = "insert" => slot.irp = NoEnter /\ slot.irpAxis = "none"
        /\ epc[e] = "handoff" => /\ observe_insert_outcome(slot) # "panic"
                                 /\ slot.timer = "Quiesced"
        /\ epc[e] = "store" => ~slot.plan
        /\ irpState[e] = "removed" => slot.install = e /\ slot.irp \in {NoEnter, e}

\* A worker that has completed its IRP always finds what the final publication
\* demands, no wake, no owner but itself and no plan, so no fail-stop packet is
\* ever parked (commit_final_publication, release_install).
PublicationCommits ==
    \A w \in Workers : worker[w].pc = "PublishVacantOrEpochExhausted"
                          => /\ PublicationReady(slot, worker[w].irp)
                             /\ ~slot.plan /\ slot.lease # "slot"

\* The answer of a parked WAIT names something that happened to it, and an IRP
\* the cancel routine handed over is never answered as a timeout or as ready: only
\* the fence outranks its cancel (WORKER_PRIORITY over the re-deposited wake).
AnswerHasCause ==
    \A e \in Enters : answer[e] # <<>> =>
        /\ answer[e][1] = "CANCELLED" => cancelled[e]
        /\ answer[e][1] = "TimedOut" => finite[e] /\ expired
        /\ answer[e][1] = "INVALID_DEVICE_STATE" /\ epc[e] = "pending"
           => fpc \notin {"open", "terminal", "ledgerClosed", "closed"}
        /\ e \in adopted => answer[e][1] \in {"CANCELLED", "INVALID_DEVICE_STATE"}

\* The Dpc owner is held exactly while the timer is Armed, and an Armed timer is
\* in the timer queue, has its DPC queued, or was just dequeued by the worker that
\* will say so: a worker that waits for the DPC is never waiting for nobody.
TimerOwned ==
    /\ "Dpc" \in slot.owners <=> slot.timer = "Armed"
    /\ slot.timer = "Armed" => \/ timerQueue # "idle"
                               \/ \E w \in Workers : /\ worker[w].pc = "recordCancel"
                                                     /\ worker[w].dequeued
    /\ \A w \in Workers : worker[w].pc = "blocked"
                          => timerQueue = "dpcQueued" \/ dpcSetting \/ dpcExited

\* From the moment it holds them until its own worker releases them, a WAIT keeps
\* the ring's SQ role, the slot's, its control link and its strong session
\* reference, whichever other ENTERs come and are refused meanwhile.
ParkedKeepsSession ==
    \A e \in Enters :
        LET past(effect) == \E w \in Workers :
                                worker[w].irp = e /\ worker[w].pc \in Stages(run_next(effect),
                                                                             "CompleteIrpOnce")
            parked == {"insert", "insertCancelled", "handoff", "parkHandoff", "store",
                       "discharge", "pending"}
        IN epc[e] \in {"install", "link", "claim"} \cup parked /\ answer[e] = <<>>
           => /\ ring.sq_owner = e \/ past("ReleaseSqWaitRole")
              /\ slot.strong = e \/ past("ReleaseStrongSessionRef")
              /\ epc[e] \in parked => /\ slot.role = e \/ past("ReleaseSqWaitRole")
                                      /\ ring.link = e \/ past("UnlinkControlPending")

\* A parked WAIT that has a deadline, was cancelled, or is under a fence that has
\* signalled, is answered.
ParkedWaitAnswered ==
    \A e \in Enters \ Pollers :
        /\ epc[e] = "pending" /\ (finite[e] \/ cancelled[e] \/ fpc \in {"signalled", "waited", "queued"})
        ~> answer[e] # <<>>

\* observe_pending_for_unload bugchecks on "an occupied slot naming no install";
\* publish_vacant, said to be validated before it is asked, never refuses.
FenceNeverPanics == fpc # "panicked"
=============================================================================
