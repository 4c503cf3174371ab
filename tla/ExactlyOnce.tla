---------------------------- MODULE ExactlyOnce -----------------------------
(***************************************************************************)
(* One journaled operation between the kernel and the provider's journal,   *)
(* driven by the table and the validators of CommitResult.  A session may    *)
(* be lost at any point, with the message under way or with its answer; the  *)
(* application may cancel; the provider may answer with a result that is not *)
(* the one it stored, or have stored a damaged record.                       *)
(*                                                                         *)
(* fsring-abi holds the table, the validators and the pruning rule.  No     *)
(* driver code calls them yet, so the steps that carry an action out are    *)
(* external here: each does what the table's cell says in                   *)
(* docs/design/05-irp-dispatch.md section 17.                               *)
(***************************************************************************)
EXTENDS CommitResult

CONSTANTS Operations,   \* retained contexts: [opcode, kind, write_length, body]
          MaxLosses, MaxCandidateFaults

VARIABLES op,      \* the retained request
          row,     \* the kernel's row for it
          wire,    \* the one message of the operation's slot
          store,   \* the provider's journal bundle, and the CREATE's prepare pair
          effects, \* how often the provider carried the operation out
          applied, \* the durable results the kernel applied
          losses   \* sessions lost so far

vars == <<op, row, wire, store, effects, applied, losses>>

NoMessage == [kind |-> "none"]
NoResult == [length |-> 0]
Sizes == [allocation |-> MAX_FILE_SIZE, file |-> MAX_FILE_SIZE, valid |-> 0, epoch |-> 1]

\* The inner record the provider stores for a request.
Inner(context) ==
    LET header(size) == [version |-> 1, flags |-> 0, size |-> size]
        namespace == context.kind \in NamespaceKinds \cup {"SET_BASIC_INFO"}
        tail == mutation_kind_result_length_v21(context.kind)
    IN CASE context.opcode = "COMMIT_OPEN" ->
               [header |-> header(96), flags |-> 0, file_id |-> 1, link_id |-> 1,
                namespace_generation |-> 1, security_generation |-> 1, create_result |-> 2, sizes |-> Sizes]
         [] context.opcode = "WRITE" -> [header |-> header(40), sizes |-> Sizes]
         [] OTHER ->
               [header |-> header(72 + tail), kind |-> context.kind, flags |-> 0, reserved |-> 0,
                namespace_generation |-> IF namespace THEN 1 ELSE 0,
                security_generation |-> IF context.kind = "SET_SECURITY" THEN 1 ELSE 0,
                sizes |-> Sizes, record |-> [of |-> context.body],
                kind_payload |-> IF tail = 0 THEN [offset |-> 0, length |-> 0]
                                 ELSE [offset |-> 72, length |-> tail]]
Record(context) ==
    LET total == committed_context_total(context) IN
    [length |-> total, inner |-> Inner(context),
     outer |-> [header |-> [version |-> 1, flags |-> 0, size |-> total], opcode |-> context.opcode,
                result_kind |-> expected_committed_result_kind(context.opcode),
                volume_commit_sequence |-> 1, payload |-> [offset |-> 40, length |-> total - 40],
                status |-> "SUCCESS",
                information |-> IF context.opcode = "WRITE" THEN context.write_length ELSE 0]]
Damaged(record) ==
    {[record EXCEPT !.outer.volume_commit_sequence = 0], [record EXCEPT !.outer.information = @ + 1],
     [record EXCEPT !.inner.sizes.valid = MAX_FILE_SIZE + 1], [record EXCEPT !.outer.status = "RETRY"]}

\* The candidate a completion of that record would carry.
Candidate(record) ==
    [volume_commit_sequence |-> record.outer.volume_commit_sequence, sizes |-> record.inner.sizes,
     inner |-> record.inner, information |-> record.outer.information]
CandidateEquals(record, candidate) ==
    CASE op.opcode = "COMMIT_OPEN" -> compare_committed_open_v21(record, candidate)
      [] op.opcode = "WRITE" -> compare_committed_write_v21(record, candidate, candidate.information)
      [] OTHER -> compare_committed_mutation_v21(record, candidate, candidate.inner.record)

IsOpen == op.opcode = "COMMIT_OPEN"
Derived == committed_result_total_size_v21(op.opcode, op.kind)
Query(abort) == [kind |-> "query", op_id |-> 1, reply |-> 56, committed_result |-> 224,
                 required_flags |-> IF abort THEN "ABORT_IF_PREPARED" ELSE "NONE"]

Init ==
    /\ op \in Operations
    /\ row = [phase |-> "NoCandidate", cancelled |-> FALSE, abort |-> FALSE, done |-> "no",
              next |-> "submit", candidate |-> NoMessage]
    /\ wire = NoMessage
    /\ store = [state |-> "NOT_FOUND", result |-> NoResult, pair |-> IsOpen, damaged |-> FALSE]
    /\ effects = 0 /\ applied = <<>> /\ losses = 0

-----------------------------------------------------------------------------
(* The kernel.                                                              *)

Live == row.done = "no"
Sends(message, after) ==
    /\ Live /\ wire = NoMessage /\ row.next = after
    /\ wire' = message
    /\ UNCHANGED <<op, store, effects, applied, losses>>

Submit == Sends([kind |-> "operation"], "submit") /\ row' = [row EXCEPT !.next = "await"]

\* A query is sent after every answer and after every loss; abort mode only as the table asked.
Ask ==
    /\ Live /\ row.phase \notin {"Acknowledged", "Indeterminate"}
    /\ validate_query_op_v2(Query(row.abort), row.cancelled /\ row.phase = "NoCandidate")
    /\ Sends(Query(row.abort), "query") /\ row' = [row EXCEPT !.next = "await"]

Acknowledge == Sends([kind |-> "ack", op_id |-> 1, digest |-> 1], "ack") /\ row' = [row EXCEPT !.next = "await"]

AbortOpen == Sends([kind |-> "abort_open"], "abort_open") /\ row' = [row EXCEPT !.next = "await"]

\* A cancellation only sets the flag; what it does is the table's business.
Cancel ==
    /\ Live /\ ~row.cancelled /\ row.phase = "NoCandidate"
    /\ row' = [row EXCEPT !.cancelled = TRUE]
    /\ UNCHANGED <<op, wire, store, effects, applied, losses>>

Answered == wire.kind = "answer" /\ wire' = NoMessage /\ UNCHANGED <<op, store, effects, losses>>

\* The completion of the operation itself is only a candidate.
TakeCandidate ==
    /\ Answered /\ wire.of = "operation"
    /\ row' = [row EXCEPT !.next = "query", !.candidate = wire,
                          !.phase = CASE wire.status = "SUCCESS" -> "SuccessCandidate"
                                      [] wire.status = "FAILURE" -> "FailureCandidate"
                                      [] OTHER -> "InvalidCandidate"]
    /\ UNCHANGED applied

Perform(action, record) ==
    LET valid == validate_committed_result_v1(record, op)
        verified == IF valid THEN [row EXCEPT !.phase = "CommittedVerified", !.next = "query"]
                    ELSE [row EXCEPT !.phase = "Indeterminate", !.done = "quarantined"]
    IN row' = CASE action \in {"ResubmitSameOperation", "ResumeTransaction"} -> [row EXCEPT !.next = "submit"]
                [] action = "CompleteCancelled" -> [row EXCEPT !.done = "cancelled"]
                [] action = "CompleteSavedFailure" -> [row EXCEPT !.done = "failure"]
                [] action = "IssueAbortIfPrepared" -> [row EXCEPT !.abort = TRUE, !.next = "query"]
                [] action \in {"EnterAbortOpenSubprotocol", "AbortOpenThenSavedFailure"} ->
                       [row EXCEPT !.next = "abort_open"]
                [] action \in {"ValidateDurableThenCommittedVerified", "DurableWinsRecordViolation",
                               "IgnoreCandidateValidateDurable"} -> [verified EXCEPT !.abort = FALSE]
                [] action = "RequireExactCandidateEquality" ->
                       IF CandidateEquals(record, row.candidate.result) THEN verified
                       ELSE [row EXCEPT !.phase = "Indeterminate", !.done = "quarantined"]
                [] action = "ApplyOnce" -> [row EXCEPT !.phase = "AppliedNotifyPending", !.next = "query"]
                [] action = "DeliverOrCoverNotification" ->
                       [row EXCEPT !.phase = "AppliedAckUnsent", !.next = "query"]
                [] action \in {"PrepareAndPublishAck", "RetryIdenticalAck"} ->
                       [row EXCEPT !.phase = "AppliedAckSent", !.next = "ack"]
                [] action = "InferAcknowledged" -> [row EXCEPT !.phase = "Acknowledged", !.done = "success"]
                [] OTHER -> [row EXCEPT !.phase = "Indeterminate", !.done = "quarantined"]

\* The answer to a query: an ill-formed one faults the session, a legal one selects the action.
TakeAnswer ==
    /\ Answered /\ wire.of = "query"
    /\ LET context == [exactly_once_selected |-> TRUE, cancel_requested |-> row.cancelled,
                       abort_mode |-> row.abort, is_commit_open |-> IsOpen]
           action == query_op_table_action_v21(row.phase, wire.state, context)
       IN IF validate_query_op_result_v1(wire, Query(row.abort), Derived, row.abort)
          THEN /\ Perform(action, wire.result)
               /\ applied' = IF action = "ApplyOnce" THEN Append(applied, wire.result) ELSE applied
          ELSE row' = [row EXCEPT !.next = "query"] /\ UNCHANGED applied

TakeAck ==
    /\ Answered /\ wire.of = "ack"
    /\ row' = IF wire.status = "SUCCESS" THEN [row EXCEPT !.phase = "Acknowledged", !.done = "success"]
              ELSE [row EXCEPT !.phase = "Indeterminate", !.done = "quarantined"]
    /\ UNCHANGED applied

TakeAbortOpen ==
    /\ Answered /\ wire.of = "abort_open"
    /\ row' = [row EXCEPT !.done = IF row.phase = "FailureCandidate" THEN "failure" ELSE "cancelled"]
    /\ UNCHANGED applied

-----------------------------------------------------------------------------
(* The provider's journal.                                                  *)

Replies(answer) == wire' = [answer EXCEPT !.kind = "answer"] /\ UNCHANGED <<op, row, applied, losses>>
Reply(of, status, result) == [kind |-> "answer", of |-> of, status |-> status, result |-> result]

Prepare ==
    /\ wire.kind = "operation" /\ store.state = "NOT_FOUND"
    /\ store' = [store EXCEPT !.state = "PREPARED"]
    /\ UNCHANGED <<op, row, wire, effects, applied, losses>>

\* The effect, the record and the consumed prepare pair are one transaction.
Commit ==
    /\ wire.kind = "operation" /\ store.state = "PREPARED"
    /\ \E result \in {Record(op)} \cup Damaged(Record(op)) :
          store' = [state |-> "COMMITTED", result |-> result, pair |-> FALSE,
                    damaged |-> result # Record(op)]
    /\ effects' = effects + 1
    /\ UNCHANGED <<op, row, wire, applied, losses>>

\* The completion of a committed operation: its result, or not what was stored.
AnswerCommitted ==
    /\ wire.kind = "operation" /\ store.state = "COMMITTED"
    /\ \/ Replies(Reply("operation", "SUCCESS", Candidate(store.result)))
       \/ /\ MaxCandidateFaults > 0
          /\ \/ Replies(Reply("operation", "SUCCESS", [Candidate(store.result) EXCEPT !.sizes.epoch = @ + 1]))
             \/ Replies(Reply("operation", "FAILURE", NoResult))
             \/ Replies(Reply("operation", "UNREGISTERED", NoResult))
    /\ UNCHANGED <<store, effects>>

\* A failure is answered only with the PREPARED bundle deleted.
AnswerFailure ==
    /\ wire.kind = "operation" /\ store.state = "PREPARED"
    /\ store' = [store EXCEPT !.state = "NOT_FOUND"]
    /\ Replies(Reply("operation", "FAILURE", NoResult))
    /\ UNCHANGED effects

AnswerQuery ==
    /\ wire.kind = "query"
    /\ LET dropped == wire.required_flags = "ABORT_IF_PREPARED" /\ store.state = "PREPARED"
           state == IF dropped THEN "NOT_FOUND" ELSE store.state
       IN /\ store' = [store EXCEPT !.state = state]
          /\ Replies([kind |-> "answer", of |-> "query", op_id |-> 1, flags |-> 0, reserved |-> 0,
                      state |-> state, result |-> store.result,
                      length |-> IF state = "COMMITTED" THEN Derived ELSE 0])
    /\ UNCHANGED effects

AnswerAck ==
    /\ wire.kind = "ack" /\ validate_ack_result_binding_v21(wire, 1, 1)
    /\ LET observation == CASE store.state = "COMMITTED" -> "CommittedExact"
                            [] store.state = "PREPARED" -> "PreparedPresent"
                            [] OTHER -> "Absent"
           pruning == classify_ack_pruning_v21(observation)
       IN /\ store' = IF pruning = "DeleteAndSucceed"
                      THEN [store EXCEPT !.state = "NOT_FOUND", !.result = NoResult] ELSE store
          /\ Replies(Reply("ack", IF pruning = "Corruption" THEN "CORRUPT" ELSE "SUCCESS", NoResult))
    /\ UNCHANGED effects

AnswerAbortOpen ==
    /\ wire.kind = "abort_open"
    /\ store' = [store EXCEPT !.pair = FALSE]
    /\ Replies(Reply("abort_open", "SUCCESS", NoResult)) /\ UNCHANGED effects

\* The session is lost, and the message or its answer with it; the row asks again.
Lose ==
    /\ Live /\ losses < MaxLosses /\ wire # NoMessage
    /\ losses' = losses + 1 /\ wire' = NoMessage
    /\ row' = [row EXCEPT !.next = IF wire.kind = "abort_open"
                                      \/ (wire.kind = "answer" /\ wire.of = "abort_open")
                                   THEN "abort_open" ELSE "query"]
    /\ UNCHANGED <<op, store, effects, applied>>

Kernel == \/ Submit \/ Ask \/ Acknowledge \/ AbortOpen
          \/ TakeCandidate \/ TakeAnswer \/ TakeAck \/ TakeAbortOpen
Provider == \/ Prepare \/ Commit \/ AnswerCommitted \/ AnswerFailure
            \/ AnswerQuery \/ AnswerAck \/ AnswerAbortOpen
Next == Kernel \/ Cancel \/ Provider \/ Lose

Spec == Init /\ [][Next]_vars
FairSpec == Spec /\ WF_vars(Kernel) /\ WF_vars(Provider)

-----------------------------------------------------------------------------
(* Properties.                                                              *)

\* Exactly once.  The provider carries the operation out at most once however often it is
\* resubmitted; the kernel applies it at most once, only from a durable record that is the one
\* the request produces; the application is told of a failure or a cancellation only if nothing
\* was carried out; and the journal loses its record only after it was applied.
ExactlyOnceHolds ==
    /\ effects <= 1 /\ Len(applied) <= 1
    /\ Len(applied) = 1 => effects = 1 /\ applied[1] = Record(op)
    /\ row.done \in {"cancelled", "failure"} => effects = 0
    /\ row.done = "success" => Len(applied) = 1
    /\ effects = 1 /\ store.state # "COMMITTED" => Len(applied) = 1

\* With an honest journal no operation ends in quarantine: a lost session, a late cancellation
\* and a wrong candidate status are all resolved from the durable record.
QuarantineHasCause ==
    row.done = "quarantined" =>
        \/ store.damaged
        \/ row.candidate.kind = "answer" /\ row.candidate.status # "FAILURE"
           /\ row.candidate # Reply("operation", "SUCCESS", Candidate(Record(op)))

\* docs/design/05-irp-dispatch.md 17.3: "The COMMIT_OPEN NOT_FOUND actions never release the
\* logical CREATE slot while its separate open-prepare/index pair can exist."
CreateSlotHeld == row.done \in {"cancelled", "failure"} => ~store.pair

\* Every operation is resolved: acknowledged, failed, cancelled or quarantined.
OperationResolves == <>(row.done # "no")
=============================================================================
