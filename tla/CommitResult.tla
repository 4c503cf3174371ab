---------------------------- MODULE CommitResult ----------------------------
(***************************************************************************)
(* The durable answer of a journaled operation, as fsring-abi validates it: *)
(* the committed-result record, its comparison with the candidate result a  *)
(* completion carried, the QUERY_OP answer, the closed table that turns an   *)
(* answer into an action, and the acknowledgement that prunes the record.   *)
(* A record keeps the fields a validator reads; identities are compared and *)
(* tested for zero only, so they are model numbers.                         *)
(***************************************************************************)
EXTENDS Integers, Sequences

CONSTANT MAX_FILE_SIZE

SizeSetters == {"SET_ALLOCATION_SIZE", "SET_END_OF_FILE", "SET_VALID_DATA_LENGTH"}
NamespaceKinds == {"RENAME", "LINK", "UNLINK"}
MutationKinds == {"SET_BASIC_INFO", "SET_SECURITY"} \cup SizeSetters \cup NamespaceKinds
NoKind == "NONE"

committed_result_total_size_v21(opcode, kind) ==
    CASE opcode = "WRITE" /\ kind = NoKind -> 80
      [] opcode = "COMMIT_OPEN" /\ kind = NoKind -> 136
      [] opcode = "MUTATE" /\ kind = "UNLINK" -> 168
      [] opcode = "MUTATE" /\ kind = "LINK" -> 216
      [] opcode = "MUTATE" /\ kind = "RENAME" -> 224
      [] opcode = "MUTATE" /\ kind \in MutationKinds \ NamespaceKinds -> 112
      [] OTHER -> 0

\* What the kernel retains of the request: [opcode, kind, write_length, body].
committed_context_total(context) ==
    LET paired == CASE context.opcode = "MUTATE" -> context.write_length = 0 /\ context.body = context.kind
                    [] context.opcode = "WRITE" -> /\ context.kind = NoKind /\ context.body = NoKind
                                                   /\ context.write_length # 0
                    [] context.opcode = "COMMIT_OPEN" -> /\ context.kind = NoKind /\ context.body = NoKind
                                                         /\ context.write_length = 0
                    [] OTHER -> FALSE
    IN IF paired THEN committed_result_total_size_v21(context.opcode, context.kind) ELSE 0

mutation_kind_result_length_v21(kind) ==
    CASE kind = "RENAME" -> 112 [] kind = "LINK" -> 104 [] kind = "UNLINK" -> 56 [] OTHER -> 0

validate_committed_prefix_header(header, size) == header = [version |-> 1, flags |-> 0, size |-> size]

expected_committed_result_kind(opcode) ==
    IF opcode \in {"COMMIT_OPEN", "WRITE"} THEN opcode ELSE "MUTATION"

validate_size_state_v21(sizes) ==
    /\ sizes.allocation <= MAX_FILE_SIZE /\ sizes.file <= MAX_FILE_SIZE /\ sizes.valid <= MAX_FILE_SIZE
    /\ sizes.epoch # 0
    /\ sizes.allocation >= sizes.file /\ sizes.file >= sizes.valid

InformationOk(outer, context) ==
    IF context.opcode = "WRITE" THEN outer.information # 0 /\ outer.information <= context.write_length
    ELSE outer.information = 0

OpenPayloadOk(inner) ==
    /\ validate_committed_prefix_header(inner.header, 96) /\ inner.flags = 0
    /\ inner.file_id # 0 /\ inner.link_id # 0
    /\ inner.namespace_generation # 0 /\ inner.security_generation # 0
    /\ inner.create_result <= 3

MutationPayloadOk(inner, context, total) ==
    LET namespace == context.kind \in NamespaceKinds \cup {"SET_BASIC_INFO"}
        tail == mutation_kind_result_length_v21(context.kind)
    IN /\ validate_committed_prefix_header(inner.header, 72 + total - 112)
       /\ inner.kind = context.kind /\ inner.flags = 0 /\ inner.reserved = 0
       /\ (inner.namespace_generation # 0) = namespace
       /\ (inner.security_generation # 0) = (context.kind = "SET_SECURITY")
       /\ inner.kind_payload = IF tail = 0 THEN [offset |-> 0, length |-> 0]
                               ELSE [offset |-> 72, length |-> tail]
       /\ tail # 0 => inner.record.of = context.body

\* The record must be exactly the one this request would have produced.
validate_committed_result_v1(bytes, context) ==
    LET total == committed_context_total(context) IN
    /\ total # 0 /\ bytes.length = total
    /\ validate_committed_prefix_header(bytes.outer.header, total)
    /\ bytes.outer.opcode = context.opcode
    /\ bytes.outer.result_kind = expected_committed_result_kind(context.opcode)
    /\ bytes.outer.volume_commit_sequence # 0
    /\ bytes.outer.payload = [offset |-> 40, length |-> total - 40]
    /\ bytes.outer.status = "SUCCESS"
    /\ InformationOk(bytes.outer, context)
    /\ CASE context.opcode = "COMMIT_OPEN" -> OpenPayloadOk(bytes.inner)
         [] context.opcode = "WRITE" -> validate_committed_prefix_header(bytes.inner.header, 40)
         [] OTHER -> MutationPayloadOk(bytes.inner, context, total)
    /\ validate_size_state_v21(bytes.inner.sizes)

size_state_fields_equal(left, right) == left = right

\* The durable record against the result the completion carried.
compare_committed_open_v21(durable, candidate) ==
    /\ durable.outer.volume_commit_sequence = candidate.volume_commit_sequence
    /\ size_state_fields_equal(durable.inner.sizes, candidate.sizes)
    /\ \A f \in {"file_id", "link_id", "namespace_generation", "security_generation",
                 "create_result", "flags"} : durable.inner[f] = candidate.inner[f]

compare_committed_write_v21(durable, candidate, information) ==
    /\ durable.outer.volume_commit_sequence = candidate.volume_commit_sequence
    /\ durable.outer.information = information
    /\ size_state_fields_equal(durable.inner.sizes, candidate.sizes)

compare_committed_mutation_v21(durable, candidate, blob) ==
    /\ durable.outer.volume_commit_sequence = candidate.volume_commit_sequence
    /\ size_state_fields_equal(durable.inner.sizes, candidate.sizes)
    /\ \A f \in {"kind", "flags", "namespace_generation", "security_generation"} :
          durable.inner[f] = candidate.inner[f]
    /\ durable.inner.record = blob

-----------------------------------------------------------------------------
(* QUERY_OP.                                                                *)

\* The request the kernel may send: abort mode only for a cancelled operation without a
\* candidate, and a committed-result grant of exactly 224 bytes.
validate_query_op_v2(request, cancelled_no_candidate) ==
    /\ request.required_flags \in {"NONE"} \cup (IF cancelled_no_candidate THEN {"ABORT_IF_PREPARED"} ELSE {})
    /\ request.op_id # 0
    /\ request.reply >= 56 /\ request.committed_result = 224

\* The answer: no result unless COMMITTED, then exactly the derived size; never PREPARED in abort mode.
validate_query_op_result_v1(result, request, derived, abort) ==
    /\ result.flags = 0 /\ result.reserved = 0 /\ result.op_id = request.op_id
    /\ CASE result.state = "PREPARED" -> ~abort /\ result.length = 0
         [] result.state = "NOT_FOUND" -> result.length = 0
         [] result.state = "COMMITTED" -> /\ result.length <= request.committed_result
                                          /\ result.length = derived
         [] OTHER -> FALSE

Phases == {"NoCandidate", "FailureCandidate", "SuccessCandidate", "InvalidCandidate",
           "CommittedVerified", "AppliedNotifyPending", "AppliedAckUnsent", "AppliedAckSent",
           "Acknowledged", "Indeterminate"}

CommittedAppliesAgain(phase) ==
    CASE phase \in {"NoCandidate", "InvalidCandidate"} -> "IgnoreCandidateValidateDurable"
      [] phase = "FailureCandidate" -> "DurableWinsRecordViolation"
      [] phase = "SuccessCandidate" -> "RequireExactCandidateEquality"
      [] phase \in {"CommittedVerified", "AppliedNotifyPending"} -> "ApplyOnce"
      [] phase = "AppliedAckUnsent" -> "PrepareAndPublishAck"
      [] phase = "AppliedAckSent" -> "RetryIdenticalAck"
      [] OTHER -> "NoQueryOpEmitted"
\* QUERY_OP_TABLE on the COMMITTED column.
OnCommitted(phase) ==
    CASE phase = "NoCandidate" -> "ValidateDurableThenCommittedVerified"
      [] phase = "FailureCandidate" -> "DurableWinsRecordViolation"
      [] phase = "SuccessCandidate" -> "RequireExactCandidateEquality"
      [] phase = "InvalidCandidate" -> "IgnoreCandidateValidateDurable"
      [] phase = "CommittedVerified" -> "ApplyOnce"
      [] phase = "AppliedNotifyPending" -> "DeliverOrCoverNotification"
      [] phase = "AppliedAckUnsent" -> "PrepareAndPublishAck"
      [] phase = "AppliedAckSent" -> "RetryIdenticalAck"
      [] phase = "Acknowledged" -> "NoQueryOpEmitted"
      [] phase = "Indeterminate" -> "AdministrativeTeardownOnly"

\* ... and on the other two, the context-dependent cells included.
OnNotFound(phase, context) ==
    CASE phase = "NoCandidate" -> IF ~context.cancel_requested THEN "ResubmitSameOperation"
                                  ELSE IF context.is_commit_open THEN "EnterAbortOpenSubprotocol"
                                  ELSE "CompleteCancelled"
      [] phase = "FailureCandidate" -> IF context.is_commit_open THEN "AbortOpenThenSavedFailure"
                                       ELSE "CompleteSavedFailure"
      [] phase = "AppliedAckSent" -> "InferAcknowledged"
      [] phase \in {"Acknowledged", "Indeterminate"} -> OnCommitted(phase)
      [] OTHER -> "Indeterminate"
OnPrepared(phase, context) ==
    CASE phase = "NoCandidate" -> IF context.cancel_requested THEN "IssueAbortIfPrepared"
                                  ELSE "ResumeTransaction"
      [] phase \in {"Acknowledged", "Indeterminate"} -> OnCommitted(phase)
      [] OTHER -> "Indeterminate"

query_op_table_action_v21(phase, answer, context) ==
    IF ~context.exactly_once_selected THEN "ExactlyOnceProtocolFault"
    ELSE IF context.abort_mode
    THEN CASE answer = "PREPARED" -> "AbortModePreparedFault"
           [] answer = "NOT_FOUND" -> "CompleteCancelled"
           [] OTHER -> "ValidateDurableThenCommittedVerified"
    ELSE CASE answer = "NOT_FOUND" -> OnNotFound(phase, context)
           [] answer = "PREPARED" -> OnPrepared(phase, context)
           [] OTHER -> OnCommitted(phase)

-----------------------------------------------------------------------------
(* ACK_RESULT.                                                              *)

validate_ack_result_v2(request) == request.op_id # 0
validate_ack_result_binding_v21(request, op_id, digest) ==
    /\ validate_ack_result_v2(request)
    /\ digest # 0 /\ request.op_id = op_id /\ request.digest = digest

classify_ack_pruning_v21(observation) ==
    CASE observation = "CommittedExact" -> "DeleteAndSucceed"
      [] observation = "Absent" -> "IdempotentSuccess"
      [] OTHER -> "Corruption"
=============================================================================
