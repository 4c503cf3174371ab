----------------------------- MODULE EnterPlan -----------------------------
(***************************************************************************)
(* The operators of one ENTER: the request as the daemon's EnterMode       *)
(* builds it and validate_enter_request_v1 checks it, the NativeEnterPlan  *)
(* that the driver's dispatch walks effect by effect, the rollback plan of *)
(* a failed effect, and the result as build_enter_result writes it and     *)
(* validate_enter_result_v1 reads it.                                      *)
(*                                                                         *)
(* A phase carries the name of its effect.  The phases of the terminal     *)
(* suffix (ClaimTerminal .. CompleteOnce) are walked by the worker of      *)
(* PendingEnter, which holds the parked plan; here they are the single     *)
(* operator finish_arbitrated.                                             *)
(***************************************************************************)
EXTENDS Naturals, Sequences

CONSTANTS
    NoLease,            \* a plan that holds no role
    Credits, NoCredit,  \* notification slots; a plan that has none in hand
    ring_count,         \* rings of the session
    cq_capacity,        \* CQ entries of a ring
    credit_count,       \* notification credits of the session
    MAX_ENTER_CQ_BUDGET,
    INFINITE            \* timeout_ms = u32::MAX

ASSUME EnterPlanAssumption ==
    /\ cq_capacity \in Nat \ {0} /\ MAX_ENTER_CQ_BUDGET \in Nat \ {0}
    /\ credit_count \in Nat \ {0} /\ INFINITE \in Nat \ {0}
    /\ ring_count \in Nat
    /\ NoLease \notin {"Sq", "Cq"} /\ NoCredit \notin Credits

-----------------------------------------------------------------------------
(* Sizes *)

ENTER_RESULT_V1_PREFIX_SIZE == 48
NOTIFICATION_CREDIT_V1_SIZE == 32

\* The bytes of a result with that many returned credits.
information_for(credits) ==
    ENTER_RESULT_V1_PREFIX_SIZE + credits * NOTIFICATION_CREDIT_V1_SIZE

enter_result_size_v1(credits) ==
    ENTER_RESULT_V1_PREFIX_SIZE + credits * NOTIFICATION_CREDIT_V1_SIZE

-----------------------------------------------------------------------------
(* The request *)

EnterRequest == [flags : SUBSET {"WAIT_SQ", "DRAIN_CQ"}, cq_budget : Nat,
                 timeout_ms : Nat, ring_index : Nat]

\* EnterMode::wire, for a mode <<"Poll">>, <<"Wait", ms>> or <<"Drain", n>>.
wire(mode, ring_index) ==
    [flags |-> CASE mode[1] = "Poll" -> {}
                 [] mode[1] = "Wait" -> {"WAIT_SQ"}
                 [] mode[1] = "Drain" -> {"DRAIN_CQ"},
     cq_budget |-> IF mode[1] = "Drain" THEN mode[2] ELSE 0,
     timeout_ms |-> IF mode[1] = "Wait" THEN mode[2] ELSE 0,
     ring_index |-> ring_index]

Drains(request) == "DRAIN_CQ" \in request.flags
Waits(request) == "WAIT_SQ" \in request.flags
Lower(a, b) == IF a < b THEN a ELSE b

validate_enter_request_shape(request) ==
    /\ ~(Drains(request) /\ Waits(request)) /\ request.ring_index < ring_count
    /\ IF Drains(request)
       THEN request.cq_budget \in 1 .. Lower(cq_capacity, MAX_ENTER_CQ_BUDGET)
       ELSE request.cq_budget = 0
    /\ Waits(request) \/ request.timeout_ms = 0

\* The kind that execute_enter derives from the flags and the timeout.
NativeEnterKind(request) ==
    IF Drains(request) THEN "Drain"
    ELSE IF ~Waits(request) \/ request.timeout_ms = 0 THEN "Poll"
    ELSE IF request.timeout_ms = INFINITE THEN "WaitInfinite" ELSE "WaitFinite"

-----------------------------------------------------------------------------
(* The plan *)

\* The installation of a parked wait, in the order of Following.
InstallPhases == {"AllocatePendingContext", "InitializeEventTimerAndCsq",
                  "AcquireSessionAndFileReferences", "MarkIrpPending",
                  "InsertCsq", "ExchangeDispatchRundown", "ReturnPending"}

\* Refused is no phase of the code: a transition that the plan rejects.
EnterPhase ==
    {"Refused", "SnapshotAndValidateInput", "ValidateAndZeroOutput", "AcquireRole",
     "PollClearRecheck", "PreflightCqAndCredit", "ClaimFirstCommit",
     "ClaimCredit", "AdvanceCqHeadRelease", "RefreshCredit",
     "WriteExactOutput", "ReleaseRole", "Parked", "Complete"}
        \cup InstallPhases

NativeEnterPlan ==
    [phase : EnterPhase,
     kind : {"Poll", "WaitFinite", "WaitInfinite", "Drain"}, ring_index : Nat,
     notify_preflight : Credits \cup {NoCredit},
     claimed_credit : Credits \cup {NoCredit},
     remaining_budget : Nat, credits : Nat, first_commit_won : BOOLEAN,
     role : {"Sq", "Cq", NoLease}, completed_prefix : 0 .. 6,
     status : {"SUCCESS", "INVALID_DEVICE_STATE"}]

\* begin refuses a budget or a timeout that its kind does not carry.
ValidInput(kind, request) ==
    CASE kind = "Drain" -> /\ request.cq_budget \in 1 .. MAX_ENTER_CQ_BUDGET
                           /\ request.timeout_ms = 0
      [] kind = "Poll" -> request.cq_budget = 0 /\ request.timeout_ms = 0
      [] kind = "WaitFinite" -> /\ request.cq_budget = 0
                                /\ request.timeout_ms \notin {0, INFINITE}
      [] kind = "WaitInfinite" -> /\ request.cq_budget = 0
                                  /\ request.timeout_ms = INFINITE

begin(kind, request) ==
    [phase |-> "SnapshotAndValidateInput", kind |-> kind,
     ring_index |-> request.ring_index,
     notify_preflight |-> NoCredit, claimed_credit |-> NoCredit,
     remaining_budget |-> request.cq_budget, credits |-> 0,
     first_commit_won |-> FALSE, role |-> NoLease, completed_prefix |-> 0,
     status |-> "SUCCESS"]

\* The phase after a readiness observation; only a wait may have to park, and
\* only a finite one may time out.
readiness_phase(kind, decision) ==
    CASE kind \in {"Poll", "Drain"} /\ decision \in {"Ready", "Empty"} ->
           IF kind = "Drain" THEN "PreflightCqAndCredit" ELSE "WriteExactOutput"
      [] kind \in {"WaitFinite", "WaitInfinite"} /\ decision \in {"Pending", "Empty"} ->
           "AllocatePendingContext"
      [] \/ kind \in {"WaitFinite", "WaitInfinite"} /\ decision = "Ready"
         \/ kind = "WaitFinite" /\ decision = "TimedOut" -> "WriteExactOutput"
      [] OTHER -> "Refused"

Faults == {"ProtocolAbort", "ProtocolFault", "CompletionFault"}

\* The plan after a classification of the next CQ record: only a notification is
\* taken, and only while the budget lasts.  A spent generation, like an empty
\* ring, ends the drain without a head advance.
classify_phase(plan, classified, slot) ==
    IF classified # "Notify"
    THEN [plan EXCEPT
            !.phase = "WriteExactOutput",
            !.status = IF classified \in Faults THEN "INVALID_DEVICE_STATE" ELSE @]
    ELSE IF plan.remaining_budget = 0 THEN [plan EXCEPT !.phase = "Refused"]
    ELSE [plan EXCEPT
            !.notify_preflight = slot,
            !.phase = IF plan.credits = 0 THEN "ClaimFirstCommit" ELSE "ClaimCredit"]

\* How many installation effects lie behind a phase.
installation_prefix(phase) ==
    CASE phase = "InitializeEventTimerAndCsq" -> 1
      [] phase = "AcquireSessionAndFileReferences" -> 2
      [] phase = "MarkIrpPending" -> 3
      [] phase = "InsertCsq" -> 4
      [] phase = "ExchangeDispatchRundown" -> 5
      [] phase = "ReturnPending" -> 6
      [] OTHER -> 0

\* The phase after an effect that has only one outcome.
Following(phase) ==
    CASE phase = "SnapshotAndValidateInput" -> "ValidateAndZeroOutput"
      [] phase = "ValidateAndZeroOutput" -> "AcquireRole"
      [] phase = "ClaimFirstCommit" -> "ClaimCredit"
      [] phase = "WriteExactOutput" -> "ReleaseRole"
      [] phase = "AllocatePendingContext" -> "InitializeEventTimerAndCsq"
      [] phase = "InitializeEventTimerAndCsq" -> "AcquireSessionAndFileReferences"
      [] phase = "AcquireSessionAndFileReferences" -> "MarkIrpPending"
      [] phase = "MarkIrpPending" -> "InsertCsq"
      [] phase = "InsertCsq" -> "ExchangeDispatchRundown"
      [] phase = "ExchangeDispatchRundown" -> "ReturnPending"
      [] phase = "ReturnPending" -> "Parked"

\* PendingEnterEffect::succeeded with the outcome of the plan's effect, which a
\* plan that already has a role, or has no record to commit to, rejects.
succeeded(plan, outcome) ==
    CASE \/ plan.phase = "AcquireRole" /\ plan.role # NoLease
         \/ plan.phase = "ClaimFirstCommit" /\ plan.notify_preflight = NoCredit ->
           [plan EXCEPT !.phase = "Refused"]
      [] plan.phase = "AcquireRole" /\ plan.role = NoLease ->
           [plan EXCEPT !.role = outcome, !.phase = "PollClearRecheck"]
      [] plan.phase = "PollClearRecheck" ->
           [plan EXCEPT !.phase = readiness_phase(plan.kind, outcome)]
      [] OTHER ->
           [plan EXCEPT !.phase = Following(plan.phase),
                        !.completed_prefix =
                           IF plan.phase \in InstallPhases \ {"ReturnPending"}
                           THEN installation_prefix(plan.phase) + 1 ELSE @]

\* Why claim fails, if it does: there is no preflight to spend, or the grant
\* table no longer has that slot with the daemon.
ClaimFailure(plan, grants) ==
    IF plan.notify_preflight = NoCredit THEN "InvalidState"
    ELSE IF grants[plan.notify_preflight] # "Issued" THEN "Protocol" ELSE "None"

claim(plan) ==
    [plan EXCEPT !.phase = "AdvanceCqHeadRelease", !.notify_preflight = NoCredit,
                 !.claimed_credit = plan.notify_preflight]

\* The head command's release store was made: from here the ENTER succeeds.
completed_release(plan) ==
    [plan EXCEPT !.phase = "RefreshCredit", !.first_commit_won = TRUE]

\* The claimed credit is issued again and counted; budget left goes round again.
refresh(plan) ==
    LET got == plan.claimed_credit # NoCredit
        left == IF got /\ plan.remaining_budget > 0 THEN plan.remaining_budget - 1
                ELSE plan.remaining_budget
    IN [plan EXCEPT !.credits = IF got THEN @ + 1 ELSE @,
                    !.status = IF got THEN @ ELSE "INVALID_DEVICE_STATE",
                    !.claimed_credit = NoCredit, !.remaining_budget = left,
                    !.phase = IF left > 0 THEN "PreflightCqAndCredit"
                              ELSE "WriteExactOutput"]

\* The role went back: an ENTER that did not park is finished.
release(plan) == [plan EXCEPT !.role = NoLease, !.phase = "Complete"]

\* What finish hands to the dispatch.
Finished(plan) == [status |-> plan.status,
                   information |-> information_for(plan.credits)]

-----------------------------------------------------------------------------
(* Failure *)

\* EnterNativeFailure::status.
FailureStatus(reason) ==
    CASE reason = "Resource" -> "INSUFFICIENT_RESOURCES"
      [] reason = "Cancelled" -> "CANCELLED"
      [] reason \in {"Protocol", "Completion", "Fenced", "InvalidState"} ->
           "INVALID_DEVICE_STATE"

\* The undo effects and the prefix each one needs, in order.
ROLLBACK_ORDER == <<"ReleaseDispatchRundown", "RemoveCsq",
                    "CompleteMarkedIrpOnce", "ReleaseSessionAndFileReferences",
                    "CancelTimerAndEvent", "FreePendingContext", "ReleaseRole">>
ROLLBACK_REQUIRES == <<6, 5, 4, 3, 2, 1, 0>>

\* Mutant: the rollback is that of a plan two effects further back.
RollbackLate(plan, next) ==
    {k \in next .. Len(ROLLBACK_ORDER) :
        installation_prefix(plan.phase) > ROLLBACK_REQUIRES[k] + 1}

\* The steps that EnterRollbackPlan::next still finds from its cursor on: those
\* whose required prefix is complete, ReleaseRole only when a role is held.
EnterRollbackPlan(plan, next) ==
    {k \in next .. Len(ROLLBACK_ORDER) :
        /\ installation_prefix(plan.phase) >= ROLLBACK_REQUIRES[k]
        /\ ROLLBACK_ORDER[k] = "ReleaseRole" => plan.role # NoLease}

\* A failed effect rolls back from the first step.  After a committed CQ advance
\* the ENTER is complete as it stands (CompleteCommitted): a cursor past the last
\* step, so that nothing goes back, the role included.
into_failure(plan, reason) ==
    IF plan.first_commit_won
    THEN [next |-> Len(ROLLBACK_ORDER) + 1, status |-> "SUCCESS"]
    ELSE [next |-> 1, status |-> FailureStatus(reason)]

-----------------------------------------------------------------------------
(* The result *)

completion_status(completion) ==
    CASE completion \in {"Ready", "TimedOut", "SuccessAfterCommit"} -> "SUCCESS"
      [] completion = "Cancelled" -> "CANCELLED"
      [] completion \in {"Fenced", "Unloaded"} -> "INVALID_DEVICE_STATE"

\* A parked plan that lost no credit: the status is the arbitration's, and an
\* error carries no bytes.
finish_arbitrated(plan, completion) ==
    LET status == completion_status(completion)
    IN [status |-> status,
        information |-> IF status = "SUCCESS"
                        THEN information_for(plan.credits) ELSE 0]

\* Stands for the flags of a result that has none.
Unwritable == {"Unwritable"}

\* The zeroed output of an ENTER that wrote no result.
NoResult == [struct_size |-> 0, flags |-> Unwritable, cq_drained |-> 0,
             sq_ready |-> 0, credits |-> <<>>]

\* The flags of a result, where the role has one.
result_flags(role, decision, cq) ==
    IF \/ decision = "Pending"
       \/ role = "Cq" /\ decision = "TimedOut"
       \/ role = "Sq" /\ cq # "None"
    THEN Unwritable
    ELSE (CASE decision = "Ready" -> {"SQ_READY"}
            [] decision = "TimedOut" -> {"TIMED_OUT"}
            [] decision = "Empty" -> {})
         \cup (CASE cq = "None" -> {}
                 [] cq = "Remaining" -> {"CQ_REMAINING"}
                 [] cq = "NotifyBlocked" -> {"CQ_REMAINING", "NOTIFY_BLOCKED"}
                 [] cq = "Contended" -> {"CQ_CONTENDED"})

\* The result that the dispatch, or the worker, encodes.
build_enter_result(request, decision, credits, cq) ==
    LET role == IF Drains(request) THEN "Cq" ELSE "Sq"
        flags == result_flags(role, decision, cq)
    IN IF \/ decision = "Empty" /\ request.timeout_ms # 0
          \/ /\ decision = "TimedOut"
             /\ ~Waits(request) \/ request.timeout_ms \in {0, INFINITE}
          \/ credits # <<>> /\ role # "Cq"
          \/ flags = Unwritable
       THEN NoResult
       ELSE [struct_size |-> enter_result_size_v1(Len(credits)),
             flags |-> flags, cq_drained |-> Len(credits),
             sq_ready |-> IF decision = "Ready" THEN 1 ELSE 0,
             credits |-> credits]

\* The returned credits name different slots.
validate_enter_credits(result) ==
    \A i, j \in DOMAIN result.credits :
        result.credits[i] = result.credits[j] => i = j

validate_enter_result_v1(result, request, length) ==
    LET has(flag) == flag \in result.flags
        count == Len(result.credits)
    IN /\ validate_enter_request_shape(request)
       /\ result.struct_size = enter_result_size_v1(count)
       /\ length = result.struct_size
       /\ has("SQ_READY") <=> result.sq_ready = 1
       /\ result.cq_drained <= request.cq_budget
       /\ count <= result.cq_drained /\ count <= credit_count
       /\ ~Drains(request) =>
            /\ result.cq_drained = 0
            /\ result.flags \cap {"CQ_REMAINING", "NOTIFY_BLOCKED",
                                  "CQ_CONTENDED"} = {}
       /\ has("NOTIFY_BLOCKED") => has("CQ_REMAINING")
       /\ has("CQ_CONTENDED") => ~has("CQ_REMAINING") /\ ~has("NOTIFY_BLOCKED")
       /\ has("TIMED_OUT") => Waits(request) /\ result.flags = {"TIMED_OUT"}
       /\ validate_enter_credits(result)

\* The statuses the ABI registers for IOCTL_FSRING_ENTER.
is_legal_ioctl_status(status) ==
    status \in {"SUCCESS", "DEVICE_BUSY", "INVALID_PARAMETER", "ACCESS_DENIED",
                "BUFFER_TOO_SMALL", "REVISION_MISMATCH", "NOT_SUPPORTED",
                "CANCELLED", "INVALID_DEVICE_STATE"}
=============================================================================
