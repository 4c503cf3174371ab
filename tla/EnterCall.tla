----------------------------- MODULE EnterCall -----------------------------
(***************************************************************************)
(* ENTER from the daemon's call to the answer it reads: NativeSession's    *)
(* overlapped ENTER on one side (begin, wait, cancel, drop of the pending  *)
(* operation), execute_enter walking a NativeEnterPlan on the other.       *)
(* Several daemon threads call into one ring at a time.  An effect of a    *)
(* plan is one step; a drain holds the ring's lock from its first          *)
(* preflight to its end.                                                   *)
(*                                                                         *)
(* PendingEnter models what happens to a parked ENTER; here its worker is  *)
(* one step that arbitrates an outcome, writes the result, releases the    *)
(* role and the reference, and completes the IRP, in that order.  CqDrain  *)
(* models the record reads of a drain; here a record is classified in one  *)
(* step.  The resolution of the session before the request is read is      *)
(* SessionLife's: here it is a refusal that may come.                      *)
(*                                                                         *)
(* The dispatch has exits that give nothing back: a status returned from   *)
(* inside the loop, a completion that counts as committed, a rollback cut  *)
(* short.  They are all here, and NothingLeftBehind says that none of them *)
(* is taken by an ENTER that holds something.                              *)
(***************************************************************************)
EXTENDS EnterPlan, FiniteSets

CONSTANTS
    Calls,          \* the ENTER calls that the daemon's threads make
    Modes,          \* the EnterModes they use, each with the number of credits
                    \* for which the caller's buffer has room and with a ring
    Nobody,
    MaxFaults       \* Win32 calls that fail

ASSUME EnterCallAssumption ==
    /\ Nobody \notin Calls /\ MaxFaults \in Nat
    /\ \A m \in Modes : /\ m[1][1] \in {"Poll", "Wait", "Drain"}
                        /\ m[1][1] # "Poll" => m[1][2] \in Nat
                        /\ m[2] \in Nat /\ m[3] \in Nat

VARIABLES
    ring,           \* RingEnterState and its lock
    strong,         \* whose session reference the ring's pending slot holds
    sqReady,        \* the SQ has an entry
    cq,             \* the CQ records
    grants,         \* the grant table: who has each notification slot
    held,           \* the credits the daemon may use
    call,           \* the driver's side of each call
    op,             \* the daemon's side of each call
    faults

vars == <<ring, strong, sqReady, cq, grants, held, call, op, faults>>

kernelVars == <<ring, strong, cq, grants, call>>

Idle == [pc |-> "none", request |-> wire(<<"Poll">>, 0), capacity |-> 0,
         plan |-> begin("Poll", wire(<<"Poll">>, 0)), decision |-> "None",
         cqState |-> "None", out |-> <<>>, undo |-> 1, cancel |-> FALSE,
         status |-> "None", information |-> 0, result |-> NoResult]

\* An operation that is gone: its structure and its buffers are free.
NoOp == [state |-> "none", memory |-> "freed", cancelling |-> FALSE]

Init ==
    /\ ring = [sq_owner |-> Nobody, cq_owner |-> Nobody,
               sq_wait_pending |-> FALSE, spin |-> Nobody]
    /\ strong = Nobody /\ sqReady \in BOOLEAN
    /\ cq = <<>> /\ held = Credits /\ grants = [c \in Credits |-> "Issued"]
    /\ call = [i \in Calls |-> Idle]
    /\ op = [i \in Calls |-> NoOp]
    /\ faults = 0

Outstanding(i) == call[i].pc \in {"validate", "plan", "unwind", "parked", "orphaned"}
Plan(i) == call[i].plan
At(i, phase) == call[i].pc = "plan" /\ Plan(i).phase = phase
RingFree(i) == ring.spin \in {Nobody, i}

\* lock_ring finds the ring of the request.
HasRing(i) == call[i].request.ring_index < ring_count

-----------------------------------------------------------------------------
(* The rest of the system: the driver publishes and the daemon drains SQ   *)
(* entries, the daemon publishes CQ records.                               *)

SqMoves == /\ sqReady' = ~sqReady
           /\ UNCHANGED <<ring, strong, cq, grants, held, call, op, faults>>

CqRecord == [kind : {"NOTIFY"}, slot : held]
                \cup [kind : {"FAULT"}, slot : {Nobody}]

Publish ==
    /\ Len(cq) < cq_capacity
    /\ \E r \in CqRecord : /\ cq' = Append(cq, r)
                           /\ held' = held \ {r.slot}
    /\ UNCHANGED <<ring, strong, sqReady, grants, call, op, faults>>

-----------------------------------------------------------------------------
(* The driver *)

Return(i, status, information) ==
    [call[i] EXCEPT !.pc = "answered", !.status = status,
                    !.information = IF status = "SUCCESS" THEN information ELSE 0]

\* Effects that perform_enter answers with Done: they touch nothing that
\* another call sees, so they run with the effect before them.
DoneEffects == {"SnapshotAndValidateInput", "ValidateAndZeroOutput",
                "ClaimFirstCommit", "AllocatePendingContext",
                "InitializeEventTimerAndCsq", "MarkIrpPending",
                "ExchangeDispatchRundown", "ReturnPending"}

PerformDone(plan) ==
    IF plan.phase \in DoneEffects THEN succeeded(plan, "Done") ELSE plan

\* At most two of them follow one another.
Settled(plan) == PerformDone(PerformDone(plan))

\* The dispatch leaves its loop, and with it the locks of a drain.
Leave(i, next) ==
    /\ call' = [call EXCEPT ![i] = next]
    /\ ring' = [ring EXCEPT !.spin = IF @ = i THEN Nobody ELSE @]

\* DrainFinish::Status: a status, and nothing of the plan is given back.
LeaveStatus(i, status) == Leave(i, Return(i, status, 0))

\* DrainFinish::Unwind: a failed effect goes on to the rollback.
Fail(i, reason) ==
    LET failure == into_failure(Plan(i), reason)
    IN Leave(i, [call[i] EXCEPT !.pc = "unwind", !.undo = failure.next,
                                !.status = failure.status])

\* The loop goes on with the plan, unless the plan rejected the outcome.
Continue(i, next) ==
    IF Settled(next.plan).phase = "Refused"
    THEN LeaveStatus(i, "INVALID_DEVICE_STATE")
    ELSE /\ call' = [call EXCEPT ![i] = [next EXCEPT !.plan = Settled(next.plan)]]
         /\ UNCHANGED ring

Advance(i, plan) == Continue(i, [call[i] EXCEPT !.plan = plan])

\* The session is gone or fenced, or a doorbell does not ring; then the
\* dispatch's validation, and the plan's own.
Validate(i) ==
    LET request == call[i].request
        kind == NativeEnterKind(request)
    IN /\ call[i].pc = "validate"
       /\ \/ call' = [call EXCEPT ![i] = Return(i, "INVALID_DEVICE_STATE", 0)]
          \/ call' = [call EXCEPT ![i] =
               IF ~validate_enter_request_shape(request) \/ ~ValidInput(kind, request)
               THEN Return(i, "INVALID_PARAMETER", 0)
               ELSE IF call[i].capacity < information_for(0)
               THEN Return(i, "BUFFER_TOO_SMALL", 0)
               ELSE [@ EXCEPT !.pc = "plan", !.plan = Settled(begin(kind, request))]]
       /\ UNCHANGED <<ring, strong, cq, grants>>

Role(i) == IF Plan(i).kind = "Drain" THEN "Cq" ELSE "Sq"
OwnerOf(role) == IF role = "Sq" THEN ring.sq_owner ELSE ring.cq_owner

\* acquire_role under the ring's lock.
AcquireRole(i) ==
    LET plan == Settled(succeeded(Plan(i), Role(i)))
    IN /\ At(i, "AcquireRole") /\ RingFree(i)
       /\ IF ~HasRing(i) THEN Fail(i, "InvalidState")
          ELSE IF OwnerOf(Role(i)) # Nobody THEN Fail(i, "Resource")
          ELSE /\ call' = [call EXCEPT ![i] =
                    IF plan.phase = "Refused" THEN Return(i, "INVALID_DEVICE_STATE", 0)
                    ELSE [@ EXCEPT !.plan = plan]]
               /\ ring' = IF Role(i) = "Sq" THEN [ring EXCEPT !.sq_owner = i]
                          ELSE [ring EXCEPT !.cq_owner = i]
       /\ UNCHANGED <<strong, cq, grants>>

\* One poll of the SQ cursors; only a wait may come out Pending.
PollClearRecheck(i) ==
    LET decision == IF sqReady /\ HasRing(i) THEN "Ready"
                    ELSE IF Plan(i).kind \in {"Poll", "Drain"} THEN "Empty"
                    ELSE "Pending"
    IN /\ At(i, "PollClearRecheck")
       /\ Continue(i, [call[i] EXCEPT !.plan = succeeded(Plan(i), decision),
                                      !.decision = decision])
       /\ UNCHANGED <<strong, cq, grants>>

\* The bytes the answer has left for a credit, none once the budget is used up.
Room(i) ==
    LET used == information_for(Len(call[i].out))
    IN IF Len(call[i].out) >= call[i].request.cq_budget \/ call[i].capacity < used
       THEN 0 ELSE call[i].capacity - used

\* observe_cq and classify_cq on the record at the head, which may be read
\* while it is being written.  A record that is no notification the session can
\* accept, one of a slot that is not with the daemon included, is one of the
\* faults; the slot's generation may be its last.
Classified(i) ==
    IF cq = <<>> \/ ~HasRing(i) THEN {"Empty"}
    ELSE {"Contended"} \cup
         IF Head(cq).kind = "FAULT" THEN Faults
         ELSE IF Room(i) < NOTIFICATION_CREDIT_V1_SIZE THEN {"NotifyBlocked"}
         ELSE IF grants[Head(cq).slot] # "Issued" THEN {"ProtocolFault"}
         ELSE {"Notify", "GenerationExhausted"}

cq_result_state(classified) ==
    IF classified \in {"Contended", "NotifyBlocked"} THEN classified ELSE "None"

\* The first preflight takes the ring's lock and attaches the grant table, which
\* may fail; the lock is then dropped again.
PreflightCqAndCredit(i) ==
    /\ At(i, "PreflightCqAndCredit") /\ RingFree(i)
    /\ \/ /\ HasRing(i)
          /\ \E classified \in Classified(i) :
               LET slot == IF classified = "Notify" THEN Head(cq).slot ELSE NoCredit
                   plan == Settled(classify_phase(Plan(i), classified, slot))
               IN IF plan.phase = "Refused" THEN LeaveStatus(i, "INVALID_DEVICE_STATE")
                  ELSE /\ ring' = [ring EXCEPT !.spin = i]
                       /\ call' = [call EXCEPT ![i].plan = plan,
                                     ![i].cqState = cq_result_state(classified)]
       \/ ring.spin # i /\ Fail(i, "InvalidState")
    /\ UNCHANGED <<strong, cq, grants>>

\* bind_credit, on the table that the preflight attached.
ClaimCredit(i) ==
    LET failure == ClaimFailure(Plan(i), grants)
    IN /\ At(i, "ClaimCredit")
       /\ IF ring.spin # i
          THEN LeaveStatus(i, "INVALID_DEVICE_STATE") /\ UNCHANGED grants
          ELSE IF failure # "None" THEN Fail(i, failure) /\ UNCHANGED grants
          ELSE /\ Advance(i, claim(Plan(i)))
               /\ grants' = [grants EXCEPT ![Plan(i).notify_preflight] = "Claimed"]
       /\ UNCHANGED <<strong, cq>>

AdvanceCqHeadRelease(i) ==
    /\ At(i, "AdvanceCqHeadRelease")
    /\ IF Plan(i).ring_index # call[i].request.ring_index
       THEN LeaveStatus(i, "INVALID_DEVICE_STATE") /\ UNCHANGED cq
       ELSE /\ Advance(i, completed_release(Plan(i)))
            /\ cq' = IF HasRing(i) THEN Tail(cq) ELSE cq
    /\ UNCHANGED <<strong, grants>>

\* The slot is the daemon's again.  write_credit_descriptor refuses a credit that
\* does not fit.
RefreshCredit(i) ==
    LET credit == Plan(i).claimed_credit
    IN /\ At(i, "RefreshCredit")
       /\ grants' = [c \in Credits |-> IF c = credit THEN "Issued" ELSE grants[c]]
       /\ IF call[i].capacity < information_for(Len(call[i].out) + 1)
          THEN LeaveStatus(i, "BUFFER_TOO_SMALL")
          ELSE Continue(i, [call[i] EXCEPT !.plan = refresh(Plan(i)),
                                           !.out = Append(@, credit)])
       /\ UNCHANGED <<strong, cq>>

\* write_enter_result; the plan goes on only if the result could be built.
WriteExactOutput(i) ==
    LET result == build_enter_result(call[i].request, call[i].decision,
                                     call[i].out, call[i].cqState)
    IN /\ At(i, "WriteExactOutput")
       /\ IF call[i].decision = "None" \/ result.flags = Unwritable
          THEN Fail(i, "InvalidState")
          ELSE Continue(i, [call[i] EXCEPT !.plan = succeeded(Plan(i), "Done"),
                                           !.result = result])
       /\ UNCHANGED <<strong, cq, grants>>

Vacated(role) ==
    IF role = "Sq"
    THEN [ring EXCEPT !.sq_owner = Nobody, !.sq_wait_pending = FALSE]
    ELSE [ring EXCEPT !.cq_owner = Nobody]

\* The ring takes a lease back from its owner only.
CanRelease(i) == HasRing(i) /\ Plan(i).role # NoLease /\ OwnerOf(Plan(i).role) = i

\* The role goes back, the plan is finished, and the guards drop.
ReleaseRole(i) ==
    LET done == Finished(release(Plan(i)))
    IN /\ At(i, "ReleaseRole") /\ RingFree(i)
       /\ IF ~CanRelease(i) THEN LeaveStatus(i, "INVALID_DEVICE_STATE")
          ELSE /\ ring' = [Vacated(Plan(i).role) EXCEPT !.spin = Nobody]
               /\ call' = [call EXCEPT ![i] =
                     [Return(i, done.status, done.information) EXCEPT
                        !.plan = release(Plan(i))]]
       /\ UNCHANGED <<strong, cq, grants>>

\* acquire_parked_strong_refs and park_wait_enter may be refused.
AcquireReferences(i) ==
    /\ At(i, "AcquireSessionAndFileReferences")
    /\ \/ /\ strong = Nobody /\ strong' = i
          /\ Advance(i, succeeded(Plan(i), "Done"))
       \/ Fail(i, "InvalidState") /\ UNCHANGED strong
    /\ UNCHANGED <<cq, grants>>

InsertCsq(i) ==
    /\ At(i, "InsertCsq")
    /\ Advance(i, succeeded(Plan(i), "Done")) \/ Fail(i, "InvalidState")
    /\ UNCHANGED <<strong, cq, grants>>

\* mark_sq_wait_pending and store_session_wait accept the parked plan.
Stores(i) == /\ HasRing(i) /\ Plan(i).role = "Sq" /\ ring.sq_owner = i
             /\ \A j \in Calls : call[j].pc # "parked"

\* into_owned_wait and store_parked_wait: STATUS_PENDING goes back.  A plan that
\* is not stored gives its role back, and fail_unstored_parked_wait answers the
\* IRP unless its cancel routine has it; the session reference stays.
Park(i) ==
    /\ At(i, "Parked") /\ RingFree(i)
    /\ IF Stores(i)
       THEN /\ ring' = [ring EXCEPT !.sq_wait_pending = TRUE]
            /\ call' = [call EXCEPT ![i].pc = "parked"]
       ELSE /\ ring' = IF CanRelease(i) THEN Vacated(Plan(i).role) ELSE ring
            /\ call' = [call EXCEPT ![i] =
                 IF call[i].cancel
                 THEN [@ EXCEPT !.pc = "orphaned", !.plan.role = NoLease]
                 ELSE [Return(i, "INVALID_DEVICE_STATE", 0) EXCEPT !.plan.role = NoLease]]
    /\ UNCHANGED <<strong, cq, grants>>

\* unwind_enter: of the rollback's effects the dispatch performs two, and a role
\* that the ring does not take back ends it early.  For CompleteCommitted there
\* is no effect at all.
Unwind(i) ==
    LET due == EnterRollbackPlan(Plan(i), call[i].undo)
    IN /\ call[i].pc = "unwind"
       /\ \/ /\ due = {}
             /\ call' = [call EXCEPT ![i] = Return(i, @.status, 0)]
             /\ UNCHANGED <<ring, strong>>
          \/ \E k \in due :
             LET effect == ROLLBACK_ORDER[k]
             IN /\ \A m \in due : k <= m
                /\ effect = "ReleaseRole" => RingFree(i)
                /\ strong' = IF effect = "ReleaseSessionAndFileReferences"
                             THEN Nobody ELSE strong
                /\ IF effect = "ReleaseRole" /\ ~CanRelease(i)
                   THEN LeaveStatus(i, "INVALID_DEVICE_STATE")
                   ELSE /\ ring' = IF effect = "ReleaseRole" THEN Vacated(Plan(i).role)
                                   ELSE ring
                        /\ call' = [call EXCEPT ![i].undo = k + 1,
                                      ![i].plan.role = IF effect = "ReleaseRole"
                                                       THEN NoLease ELSE @]
       /\ UNCHANGED <<cq, grants>>

\* What may end a parked wait: readiness, its timer, its cancel, a fence.
Completions(i) ==
    {"Ready", "Fenced"}
        \cup (IF Plan(i).kind = "WaitFinite" THEN {"TimedOut"} ELSE {})
        \cup (IF call[i].cancel THEN {"Cancelled"} ELSE {})

\* A timeout that finds work is upgraded by the worker's last poll.
ParkedDecision(i, completion) ==
    IF completion = "TimedOut" /\ ~sqReady THEN "TimedOut" ELSE "Ready"

\* The worker's completion order, as one step.
WorkerCompletes(i) ==
    /\ call[i].pc = "parked" /\ RingFree(i)
    /\ \E completion \in Completions(i) :
         LET done == finish_arbitrated(Plan(i), completion)
             result == build_enter_result(call[i].request,
                         ParkedDecision(i, completion), <<>>, "None")
             legible == result.flags # Unwritable
         IN call' = [call EXCEPT ![i] =
              [Return(i, IF done.status = "SUCCESS" /\ ~legible
                         THEN "INVALID_DEVICE_STATE" ELSE done.status,
                      done.information) EXCEPT
                 !.plan = [@ EXCEPT !.role = NoLease],
                 !.result = result]]
    /\ ring' = Vacated("Sq") /\ strong' = Nobody
    /\ UNCHANGED <<cq, grants>>

Kernel(i) ==
    /\ \/ Validate(i) \/ AcquireRole(i) \/ PollClearRecheck(i)
       \/ PreflightCqAndCredit(i) \/ ClaimCredit(i) \/ AdvanceCqHeadRelease(i)
       \/ RefreshCredit(i) \/ WriteExactOutput(i) \/ ReleaseRole(i)
       \/ AcquireReferences(i) \/ InsertCsq(i) \/ Park(i) \/ Unwind(i)
       \/ WorkerCompletes(i)
    /\ UNCHANGED <<sqReady, held, op, faults>>

-----------------------------------------------------------------------------
(* The daemon *)

\* The request for a mode, with the capacity of the output buffer.
enter_request(mode, room, ring_index) ==
    [Idle EXCEPT !.pc = "validate", !.request = wire(mode, ring_index),
                 !.capacity = enter_result_size_v1(room)]

\* begin_ioctl.  The buffers belong to the operation.
BeginIoctl(i) ==
    /\ op[i].state = "none"
    /\ \E m \in Modes : call' = [call EXCEPT ![i] = enter_request(m[1], m[2], m[3])]
    /\ op' = [op EXCEPT ![i].state = "begun", ![i].memory = "owned"]
    /\ UNCHANGED <<ring, strong, sqReady, cq, grants, held, faults>>

\* finish_enter on the terminal of an ENTER.
finish_enter(i) ==
    IF call[i].status # "SUCCESS"
    THEN IF op[i].cancelling /\ call[i].status = "CANCELLED" THEN "Cancelled"
         ELSE "IoFailure"
    ELSE IF validate_enter_result_v1(call[i].result, call[i].request,
                                     call[i].information)
    THEN "Completed" ELSE "ResultValidation"

\* The operation is released, and with it the structure and the buffers that an
\* ENTER under way still writes to; of an answered one nothing is left.
Release(i) ==
    /\ op' = [op EXCEPT ![i] = NoOp]
    /\ call' = [call EXCEPT ![i] = IF call[i].pc = "answered" THEN Idle ELSE @]

\* The terminal is in hand: the operation is released, and the credits of a
\* result that validates are the daemon's again.  The thread may call again.
Observed(i) ==
    /\ Release(i)
    /\ held' = IF finish_enter(i) = "Completed"
               THEN held \cup {call[i].result.credits[n] : n \in DOMAIN call[i].result.credits}
               ELSE held

\* DeviceIoControl returns with the answer, or with ERROR_IO_PENDING.
IoctlReturns(i) ==
    /\ op[i].state = "begun" /\ call[i].pc \in {"parked", "answered", "orphaned"}
    /\ IF call[i].pc = "answered" THEN Observed(i)
       ELSE op' = [op EXCEPT ![i].state = "pending"] /\ UNCHANGED <<held, call>>
    /\ UNCHANGED <<ring, strong, cq, grants, sqReady, faults>>

\* PendingEnter::wait.
Wait(i) ==
    /\ op[i].state = "pending"
    /\ op' = [op EXCEPT ![i].state = "observe", ![i].cancelling = FALSE]
    /\ UNCHANGED <<kernelVars, sqReady, held, faults>>

\* CancelIoEx reaches an ENTER that is still parked; for one that was answered
\* it reports ERROR_NOT_FOUND, and nothing changes.
cancel_exact(i) ==
    [call EXCEPT ![i].cancel = @ \/ call[i].pc = "parked"]

\* cancel_and_observe, from cancel or from the drop of the operation.
Cancel(i) ==
    /\ op[i].state = "pending"
    /\ call' = cancel_exact(i)
    /\ \E state \in {"observe", "drop"} :
         op' = [op EXCEPT ![i].state = state, ![i].cancelling = TRUE]
    /\ UNCHANGED <<ring, strong, cq, grants, sqReady, held, faults>>

\* Mutant: a cancel that was sent is taken for the terminal.
ObserveCancelled(i) ==
    /\ op[i].state = "observe"
    /\ call[i].pc = "answered" \/ op[i].cancelling
    /\ Observed(i)
    /\ UNCHANGED <<ring, strong, cq, grants, sqReady, faults>>

\* wait_terminal returns once the IRP is complete.
Observe(i) ==
    /\ op[i].state = "observe" /\ call[i].pc = "answered"
    /\ Observed(i)
    /\ UNCHANGED <<ring, strong, cq, grants, sqReady, faults>>

\* The dropped operation saw its terminal: nobody reads the answer.
DropObserved(i) ==
    /\ op[i].state = "drop" /\ call[i].pc = "answered"
    /\ Release(i)
    /\ UNCHANGED <<ring, strong, cq, grants, sqReady, held, faults>>

\* A cancel or a wait that fails leaves the operation pending, for another
\* wait, cancel or drop.
Win32Fails(i) ==
    /\ op[i].state \in {"pending", "observe"} /\ faults < MaxFaults
    /\ faults' = faults + 1
    /\ op' = [op EXCEPT ![i].state = "pending"]
    /\ UNCHANGED <<kernelVars, sqReady, held>>

\* The drop whose cancel or wait fails forgets the operation instead.
DropForgets(i) ==
    /\ op[i].state \in {"pending", "drop"} /\ faults < MaxFaults
    /\ faults' = faults + 1
    /\ op' = [op EXCEPT ![i].state = "dropped", ![i].memory = "forgotten"]
    /\ UNCHANGED <<kernelVars, sqReady, held>>

Daemon(i) == \/ BeginIoctl(i) \/ IoctlReturns(i) \/ Wait(i) \/ Cancel(i)
             \/ Observe(i) \/ DropObserved(i) \/ Win32Fails(i) \/ DropForgets(i)

Next == SqMoves \/ Publish \/ \E i \in Calls : Kernel(i) \/ Daemon(i)

Spec == Init /\ [][Next]_vars

-----------------------------------------------------------------------------
(* Properties *)

Owners == Calls \cup {Nobody}

Rings == [sq_owner : Owners, cq_owner : Owners, sq_wait_pending : BOOLEAN, spin : Owners]

ResultFlags == {"SQ_READY", "TIMED_OUT", "CQ_REMAINING", "NOTIFY_BLOCKED", "CQ_CONTENDED"}

Results == [struct_size : Nat, flags : (SUBSET ResultFlags) \cup {Unwritable},
            cq_drained : Nat, sq_ready : {0, 1}, credits : Seq(Credits)]

CallRecs ==
    [pc : {"none", "validate", "plan", "unwind", "parked", "orphaned", "answered"},
     request : EnterRequest, capacity : Nat, plan : NativeEnterPlan,
     decision : {"None", "Ready", "Empty", "Pending"},
     cqState : {"None", "Contended", "NotifyBlocked"}, out : Seq(Credits),
     undo : 1 .. 8, cancel : BOOLEAN,
     status : {"None", "SUCCESS", "INVALID_PARAMETER", "BUFFER_TOO_SMALL",
               "INSUFFICIENT_RESOURCES", "CANCELLED", "INVALID_DEVICE_STATE"},
     information : Nat, result : Results]

CqRecs == [kind : {"NOTIFY"}, slot : Credits] \cup [kind : {"FAULT"}, slot : {Nobody}]

OpRecs == [state : {"none", "begun", "pending", "observe", "drop", "dropped"},
           memory : {"freed", "owned", "forgotten"}, cancelling : BOOLEAN]

TypeOK ==
    /\ ring \in Rings /\ strong \in Owners /\ sqReady \in BOOLEAN
    /\ cq \in Seq(CqRecs) /\ held \subseteq Credits
    /\ grants \in [Credits -> {"Issued", "Claimed"}]
    /\ call \in [Calls -> CallRecs] /\ op \in [Calls -> OpRecs]
    /\ faults \in Nat

\* An ENTER that was answered, through whatever exit of the dispatch and after
\* whatever effect it failed in, left nothing of its own in the ring: neither a
\* role, nor the session reference, nor the lock.  The exits that give nothing
\* back are taken only by an ENTER that has nothing.  The owner that the ring
\* records for a role is the ENTER whose plan has the lease.
NothingLeftBehind ==
    \A i \in Calls :
        /\ ring.sq_owner = i <=> Plan(i).role = "Sq"
        /\ ring.cq_owner = i <=> Plan(i).role = "Cq"
        /\ ~Outstanding(i) =>
             i \notin {ring.sq_owner, ring.cq_owner, ring.spin, strong}

\* The overlapped structure and the buffers of an operation are not freed while
\* the driver may still complete its IRP: a cancel does not release them before
\* the terminal is observed, whichever Win32 call fails, and a drop that cannot
\* observe it forgets them.
MemoryOutlivesIo ==
    \A i \in Calls : Outstanding(i) => op[i].memory # "freed"

\* The ABI's registry of statuses for IOCTL_FSRING_ENTER covers every answer.
StatusLegal ==
    \A i \in Calls : call[i].pc = "answered" => is_legal_ioctl_status(call[i].status)

-----------------------------------------------------------------------------
(* The inductive invariant of EnterCall_theorems *)

\* Phases that only a drain, or only a wait, comes to between its poll and its
\* answer.
DrainPhases == {"PreflightCqAndCredit", "ClaimCredit", "AdvanceCqHeadRelease", "RefreshCredit"}
WaitPhases == {"AcquireSessionAndFileReferences", "InsertCsq", "Parked"}
Early == {"AcquireRole", "PollClearRecheck"}
Late == {"WriteExactOutput", "ReleaseRole"}

\* The role of a plan follows from where its ENTER is; a rollback that is past
\* its last step has none left.
RoleInv(i) ==
    /\ call[i].pc \in {"none", "validate", "answered"} => Plan(i).role = NoLease
    /\ call[i].pc = "plan" =>
         Plan(i).role = IF Plan(i).phase = "AcquireRole" THEN NoLease ELSE Role(i)
    /\ call[i].pc = "parked" => Plan(i).role = "Sq"
    /\ call[i].pc = "unwind" => Plan(i).role = NoLease \/ call[i].undo <= 7

\* A drain's phases are not a wait's; a commit is a drain's, whose answer can
\* always be written.  The plan is for the ring of its request, and begins with
\* nothing returned.
PhaseInv(i) ==
    /\ call[i].pc = "validate" => call[i].out = <<>>
    /\ call[i].pc \in {"plan", "unwind"} => HasRing(i)
    /\ call[i].pc = "plan" =>
         /\ Plan(i).phase \in Early \cup Late
                              \cup (IF Plan(i).kind = "Drain" THEN DrainPhases ELSE WaitPhases)
         /\ Plan(i).first_commit_won => Plan(i).kind = "Drain" /\ Plan(i).phase \notin Early
         /\ Plan(i).ring_index = call[i].request.ring_index
         /\ Plan(i).kind = "Drain" =>
              /\ Drains(call[i].request) /\ call[i].request.timeout_ms = 0
              /\ Plan(i).phase \notin Early => call[i].decision \in {"Ready", "Empty"}

\* A drain has the lock and the grant table once it has read a record.  What it
\* drained and what it may still drain make up its budget.  A credit that was
\* found to fit is still the daemon's, still at the head of the CQ, and still
\* fits, when it is claimed, taken and returned.
CreditInv(i) ==
    call[i].pc = "plan" /\ Plan(i).kind = "Drain" =>
      /\ Plan(i).phase \in Early \cup {"PreflightCqAndCredit"} =>
           Plan(i).remaining_budget + Len(call[i].out) = call[i].request.cq_budget
      /\ Plan(i).phase \in Early => ~Plan(i).first_commit_won /\ call[i].out = <<>>
      /\ Plan(i).first_commit_won => ring.spin = i
      /\ Plan(i).phase \in {"ClaimCredit", "AdvanceCqHeadRelease", "RefreshCredit"} =>
           /\ ring.spin = i /\ Plan(i).remaining_budget > 0
           /\ Plan(i).remaining_budget + Len(call[i].out) = call[i].request.cq_budget
           /\ information_for(Len(call[i].out) + 1) <= call[i].capacity
      /\ Plan(i).phase \in {"ClaimCredit", "AdvanceCqHeadRelease"} =>
           cq # <<>> /\ Head(cq).kind = "NOTIFY"
      /\ Plan(i).phase = "ClaimCredit" =>
           /\ Plan(i).notify_preflight \in Credits
           /\ grants[Plan(i).notify_preflight] = "Issued"
      /\ Plan(i).phase \in {"AdvanceCqHeadRelease", "RefreshCredit"} =>
           Plan(i).claimed_credit \in Credits

\* Where an ENTER is that holds the session reference, or the ring's lock.
HoldInv(i) ==
    /\ strong = i =>
         \/ call[i].pc = "plan" /\ Plan(i).phase \in {"InsertCsq", "Parked"}
         \/ call[i].pc = "parked"
         \/ /\ call[i].pc = "unwind" /\ call[i].undo <= 4
            /\ Plan(i).phase = "InsertCsq"
    /\ ring.spin = i =>
         call[i].pc = "plan" /\ Plan(i).kind = "Drain" /\ Plan(i).phase \in DrainPhases \cup Late

\* The owner that the ring has recorded for a role is the ENTER whose plan has
\* the lease; an ENTER that is under way has its operation, and its buffers.
OwnerInv(i) ==
    /\ ring.sq_owner = i <=> Plan(i).role = "Sq"
    /\ ring.cq_owner = i <=> Plan(i).role = "Cq"
    /\ Outstanding(i) => op[i].memory # "freed" /\ op[i].state # "none"

CallInv(i) == RoleInv(i) /\ PhaseInv(i) /\ CreditInv(i) /\ HoldInv(i) /\ OwnerInv(i)

IndInv == TypeOK /\ \A i \in Calls : CallInv(i)
=============================================================================
