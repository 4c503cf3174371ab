--------------------------- MODULE DurableRecord ----------------------------
(***************************************************************************)
(* The records of a provider's durable store, as fsring-abi encodes and     *)
(* validates them: the canonical key of every child kind, the envelope of a  *)
(* wrapped value, the payload of each kind, the unwrapped values and the     *)
(* accounting arithmetic.  No part of the driver calls these functions: they *)
(* are the contract a provider's store is written against.                  *)
(*                                                                         *)
(* A key is its bytes.  A 64-bit number inside a key is the sequence of its   *)
(* eight bytes, an identity a pair of them.  A digest is 32 cells, the first  *)
(* of which holds what was hashed: two digests are equal exactly when the     *)
(* hashed values are.  A payload is its decoded prefix, its length and       *)
(* whether the bytes after the last slice are zero.                         *)
(***************************************************************************)
EXTENDS Integers, Sequences, SequencesExt, FiniteSets

CONSTANTS MAX_FILE_SIZE,
          MAX_DURABLE_ORDINARY_BYTES_GLOBAL,
          MAX_DURABLE_RECOVERY_BYTES_GLOBAL,
          MAX_DURABLE_RETIRE_RECEIPTS,
          RETIRE_RECEIPT_RESERVED_BYTES

DURABLE_KEY_HEADER_BYTES == 34
DURABLE_KEY_MAX_BYTES == 90
DURABLE_CHILD_VALUE_PREFIX_BYTES == 88
DURABLE_RECORD_ACCOUNTING_OVERHEAD == 64
RETIRE_RECEIPT_CHARGE_BYTES == 128
DURABLE_RETIRE_RECEIPT_KEY_BYTES == 32

Align8(n) == 8 * ((n + 7) \div 8)
sha256_bytes(content) == [i \in 1..32 |-> IF i = 1 THEN <<content>> ELSE <<>>]

-----------------------------------------------------------------------------
(* Keys.                                                                    *)

ZeroU64 == [i \in 1..8 |-> 0]
IsU64Zero(number) == number = ZeroU64
pair_is_nonzero(pair) == ~IsU64Zero(pair[1]) \/ ~IsU64Zero(pair[2])
namespace_is_valid(namespace) == pair_is_nonzero(namespace.mount_id) /\ pair_is_nonzero(namespace.boot_instance_id)

durable_key_child_kind_v1(identity) ==
    CASE identity.kind = "Root" -> 1
      [] identity.kind = "AccountingReservation" -> 2
      [] identity.kind = "Open" -> 3
      [] identity.kind = "Prepare" -> 4
      [] identity.kind = "ImmutableRequest" -> 6
      [] identity.kind = "CommittedResult" -> 7
      [] identity.kind = "Journal" -> 8
      [] identity.kind = "QueryDirSnapshot" -> 9
      [] identity.kind = "QueryDirAttempt" -> 10
      [] identity.kind = "QueryDirCookie" -> 11
      [] identity.kind = "PtEpochIntent" -> 12
      [] identity.kind = "PtEpochCounter" -> 13
      [] identity.kind = "PtLane" -> 14
      [] identity.kind \in {"OutboxRow", "LatestProcessed", "OrdinalCounter", "AttachCut"} -> 15
      [] identity.kind = "VolumeCommitCounter" -> 16
      [] identity.kind = "PrepareTxIndex" -> 17

ExternalSubkind(identity) ==
    CASE identity.kind = "OutboxRow" -> 1
      [] identity.kind = "LatestProcessed" -> 2
      [] identity.kind = "OrdinalCounter" -> 3
      [] identity.kind = "AttachCut" -> 4

OperationKinds == {"Prepare", "ImmutableRequest", "CommittedResult", "Journal"}

encoded_durable_key_len_v1(identity) ==
    CASE identity.kind \in {"Root", "VolumeCommitCounter"} -> 34
      [] identity.kind = "AccountingReservation" -> 66
      [] identity.kind = "Open" -> 42
      [] identity.kind \in OperationKinds \cup {"QueryDirSnapshot", "PtEpochCounter", "PrepareTxIndex"} -> 50
      [] identity.kind = "QueryDirAttempt" -> 90
      [] identity.kind \in {"QueryDirCookie", "PtEpochIntent"} -> 58
      [] identity.kind \in {"PtLane", "LatestProcessed", "OrdinalCounter"} -> 36
      [] identity.kind \in {"OutboxRow", "AttachCut"} -> 44

validate_identity_for_encoding(identity) ==
    CASE identity.kind = "Open" -> ~IsU64Zero(identity.kernel_open_id)
      [] identity.kind \in OperationKinds -> pair_is_nonzero(identity.op_id)
      [] identity.kind = "QueryDirSnapshot" ->
            ~IsU64Zero(identity.kernel_open_id) /\ ~IsU64Zero(identity.generation)
      [] identity.kind \in {"QueryDirAttempt", "QueryDirCookie"} ->
            ~IsU64Zero(identity.kernel_open_id) /\ ~IsU64Zero(identity.generation) /\ ~IsU64Zero(identity.cookie)
      [] identity.kind = "PtEpochIntent" -> pair_is_nonzero(identity.file_id) /\ ~IsU64Zero(identity.pt_epoch)
      [] identity.kind = "PtEpochCounter" -> pair_is_nonzero(identity.file_id)
      [] identity.kind = "PtLane" -> identity.ring_index < 64 /\ identity.kind_ordinal \in 1..2
      [] identity.kind = "OutboxRow" -> ~IsU64Zero(identity.first_ordinal)
      [] identity.kind = "AttachCut" -> ~IsU64Zero(identity.session_epoch)
      [] identity.kind = "PrepareTxIndex" -> pair_is_nonzero(identity.transaction_id)
      [] OTHER -> TRUE

\* Offsets count bytes from zero, as in the code.
put_bytes(output, part) ==
    [i \in DOMAIN output |->
        IF i \in part[1] + 1..part[1] + Len(part[2]) THEN part[2][i - part[1]] ELSE output[i]]
put_u16(offset, value) == <<offset, <<value % 256, value \div 256>>>>
put_pair(offset, pair) == <<offset, pair[1] \o pair[2]>>
put_namespace(namespace) == <<put_pair(0, namespace.mount_id), put_pair(16, namespace.boot_instance_id)>>

TailParts(identity) ==
    CASE identity.kind = "AccountingReservation" -> <<<<34, identity.target_key_digest>>>>
      [] identity.kind = "Open" -> <<<<34, identity.kernel_open_id>>>>
      [] identity.kind \in OperationKinds -> <<put_pair(34, identity.op_id)>>
      [] identity.kind = "QueryDirSnapshot" -> <<<<34, identity.kernel_open_id>>, <<42, identity.generation>>>>
      [] identity.kind = "QueryDirAttempt" ->
            <<<<34, identity.kernel_open_id>>, <<42, identity.generation>>, <<50, identity.cookie>>,
              <<58, identity.attempt_digest>>>>
      [] identity.kind = "QueryDirCookie" ->
            <<<<34, identity.kernel_open_id>>, <<42, identity.generation>>, <<50, identity.cookie>>>>
      [] identity.kind = "PtEpochIntent" -> <<put_pair(34, identity.file_id), <<50, identity.pt_epoch>>>>
      [] identity.kind = "PtEpochCounter" -> <<put_pair(34, identity.file_id)>>
      [] identity.kind = "PtLane" -> <<<<34, <<identity.ring_index>>>>, <<35, <<identity.kind_ordinal>>>>>>
      [] identity.kind = "OutboxRow" -> <<put_u16(34, ExternalSubkind(identity)), <<36, identity.first_ordinal>>>>
      [] identity.kind = "AttachCut" -> <<put_u16(34, ExternalSubkind(identity)), <<36, identity.session_epoch>>>>
      [] identity.kind \in {"LatestProcessed", "OrdinalCounter"} -> <<put_u16(34, ExternalSubkind(identity))>>
      [] identity.kind = "PrepareTxIndex" -> <<put_pair(34, identity.transaction_id)>>
      [] OTHER -> <<>>

\* The empty sequence stands for a refusal.
encode_durable_key_v1(key, room) ==
    LET needed == encoded_durable_key_len_v1(key.identity)
        parts == put_namespace(key.namespace) \o <<put_u16(32, durable_key_child_kind_v1(key.identity))>>
                    \o TailParts(key.identity)
    IN IF /\ needed <= room
          /\ namespace_is_valid(key.namespace)
          /\ validate_identity_for_encoding(key.identity)
       THEN SubSeq(FoldLeft(put_bytes, [i \in 1..DURABLE_KEY_MAX_BYTES |-> 0], parts), 1, needed)
       ELSE <<>>

encode_retire_receipt_key_v1(namespace, room) ==
    IF DURABLE_RETIRE_RECEIPT_KEY_BYTES <= room /\ namespace_is_valid(namespace)
    THEN FoldLeft(put_bytes, [i \in 1..DURABLE_RETIRE_RECEIPT_KEY_BYTES |-> 0], put_namespace(namespace))
    ELSE <<>>

read_bytes(input, offset, count) == SubSeq(input, offset + 1, offset + count)
read_u16(input, offset) == input[offset + 1] + 256 * input[offset + 2]
read_u64(input, offset) == read_bytes(input, offset, 8)
read_pair(input, offset) == <<read_u64(input, offset), read_u64(input, offset + 8)>>
read_namespace(input) == [mount_id |-> read_pair(input, 0), boot_instance_id |-> read_pair(input, 16)]

ExpectedLength(input, kind) ==
    CASE kind \in {1, 16} -> 34
      [] kind = 2 -> 66
      [] kind = 3 -> 42
      [] kind \in {4, 6, 7, 8, 9, 13, 17} -> 50
      [] kind = 10 -> 90
      [] kind \in {11, 12} -> 58
      [] kind = 14 -> 36
      [] kind = 15 -> IF Len(input) \notin {36, 44} THEN 0
                      ELSE CASE read_u16(input, 34) \in {1, 4} -> 44
                             [] read_u16(input, 34) \in {2, 3} -> 36
                             [] OTHER -> 0
      [] OTHER -> 0

ReadIdentity(input, kind) ==
    LET operation(name) == [kind |-> name, op_id |-> read_pair(input, 34)]
        subkind == read_u16(input, 34)
    IN CASE kind = 1 -> [kind |-> "Root"]
         [] kind = 2 -> [kind |-> "AccountingReservation", target_key_digest |-> read_bytes(input, 34, 32)]
         [] kind = 3 -> [kind |-> "Open", kernel_open_id |-> read_u64(input, 34)]
         [] kind = 4 -> operation("Prepare")
         [] kind = 6 -> operation("ImmutableRequest")
         [] kind = 7 -> operation("CommittedResult")
         [] kind = 8 -> operation("Journal")
         [] kind = 9 -> [kind |-> "QueryDirSnapshot", kernel_open_id |-> read_u64(input, 34),
                         generation |-> read_u64(input, 42)]
         [] kind = 10 -> [kind |-> "QueryDirAttempt", kernel_open_id |-> read_u64(input, 34),
                          generation |-> read_u64(input, 42), cookie |-> read_u64(input, 50),
                          attempt_digest |-> read_bytes(input, 58, 32)]
         [] kind = 11 -> [kind |-> "QueryDirCookie", kernel_open_id |-> read_u64(input, 34),
                          generation |-> read_u64(input, 42), cookie |-> read_u64(input, 50)]
         [] kind = 12 -> [kind |-> "PtEpochIntent", file_id |-> read_pair(input, 34),
                          pt_epoch |-> read_u64(input, 50)]
         [] kind = 13 -> [kind |-> "PtEpochCounter", file_id |-> read_pair(input, 34)]
         [] kind = 14 -> [kind |-> "PtLane", ring_index |-> input[35], kind_ordinal |-> input[36]]
         [] kind = 15 /\ subkind = 1 -> [kind |-> "OutboxRow", first_ordinal |-> read_u64(input, 36)]
         [] kind = 15 /\ subkind = 2 -> [kind |-> "LatestProcessed"]
         [] kind = 15 /\ subkind = 3 -> [kind |-> "OrdinalCounter"]
         [] kind = 15 /\ subkind = 4 -> [kind |-> "AttachCut", session_epoch |-> read_u64(input, 36)]
         [] kind = 16 -> [kind |-> "VolumeCommitCounter"]
         [] kind = 17 -> [kind |-> "PrepareTxIndex", transaction_id |-> read_pair(input, 34)]

\* NoKey stands for every refusal.
NoKey == [namespace |-> [mount_id |-> <<ZeroU64, ZeroU64>>, boot_instance_id |-> <<ZeroU64, ZeroU64>>],
          identity |-> [kind |-> "none"]]
validate_durable_key_v1(input, ring_count) ==
    IF Len(input) < DURABLE_KEY_HEADER_BYTES THEN NoKey
    ELSE LET kind == read_u16(input, 32) IN
         IF ~namespace_is_valid(read_namespace(input)) \/ Len(input) # ExpectedLength(input, kind) THEN NoKey
         ELSE LET identity == ReadIdentity(input, kind) IN
              IF /\ validate_identity_for_encoding(identity)
                 /\ ring_count \in 1..64
                 /\ identity.kind = "PtLane" => identity.ring_index < ring_count
              THEN [namespace |-> read_namespace(input), identity |-> identity]
              ELSE NoKey

validate_retire_receipt_key_v1(input) ==
    Len(input) = DURABLE_RETIRE_RECEIPT_KEY_BYTES /\ namespace_is_valid(read_namespace(input))

\* A digest is taken of a valid key only.
durable_key_digest_v1(input, ring_count) ==
    IF validate_durable_key_v1(input, ring_count) = NoKey THEN <<>> ELSE sha256_bytes(input)

-----------------------------------------------------------------------------
(* Wrapped values: an 88-byte envelope and a payload.  A value is            *)
(* [length, header, value_kind, state, flags, identity_digest,              *)
(* payload_digest, slice, payload, zero_tail].                              *)

NoSlice == [offset |-> 0, length |-> 0]

WrappedStates(kind) ==
    CASE kind = 3 -> {"LIVE", "CLEANED"}
      [] kind = 4 -> {"PREPARED"}
      [] kind = 6 -> {"RETAINED"}
      [] kind = 7 -> {"COMMITTED"}
      [] kind = 8 -> {"PREPARED", "COMMITTED"}
      [] kind \in {9, 11} -> {"ACTIVE"}
      [] kind = 10 -> {"ACCEPTED"}
      [] kind = 12 -> {"PENDING", "ACCEPTED", "REVOKED"}
      [] kind = 14 -> {"PRESENT"}
      [] OTHER -> {}
wrapped_state_is_valid(kind, state) == state \in WrappedStates(kind)
wrapped_kind_is_supported(kind) == kind \in {3, 4, 6, 7, 8, 9, 10, 11, 12, 14}

\* A mutant: no room for the padding.
RangeUnpadded(value) ==
    LET end == value.slice.offset + value.slice.length IN
    IF value.slice = NoSlice THEN value.length = DURABLE_CHILD_VALUE_PREFIX_BYTES
    ELSE value.slice.offset = DURABLE_CHILD_VALUE_PREFIX_BYTES /\ value.slice.length # 0 /\ end = value.length

\* The payload follows the prefix and the value is padded to a multiple of eight.
checked_payload_range(value) ==
    LET end == value.slice.offset + value.slice.length IN
    IF value.slice = NoSlice THEN value.length = DURABLE_CHILD_VALUE_PREFIX_BYTES
    ELSE /\ value.slice.offset = DURABLE_CHILD_VALUE_PREFIX_BYTES /\ value.slice.length # 0
         /\ Align8(end) = value.length /\ end <= value.length

validate_durable_envelope_v1(key, value, ring_count) ==
    /\ value.length >= DURABLE_CHILD_VALUE_PREFIX_BYTES
    /\ validate_durable_key_v1(key, ring_count) # NoKey
    /\ value.header = [struct_version |-> 1, required_flags |-> 0, struct_size |-> value.length]
    /\ value.flags = 0
    /\ LET kind == durable_key_child_kind_v1(validate_durable_key_v1(key, ring_count).identity) IN
       /\ value.value_kind = kind /\ wrapped_kind_is_supported(kind)
       /\ wrapped_state_is_valid(kind, value.state)
    /\ checked_payload_range(value)
    /\ value.identity_digest = sha256_bytes(key)
    /\ value.payload_digest = sha256_bytes(value.payload)
    /\ value.zero_tail

-----------------------------------------------------------------------------
(* Payloads: [length, header, rec, zero_tail].                              *)

decode_prefix(payload, prefix) ==
    /\ payload.length >= prefix /\ payload.length % 8 = 0
    /\ payload.header = [struct_version |-> 1, required_flags |-> 0, struct_size |-> payload.length]
decode_exact(payload, bytes) == payload.length = bytes /\ decode_prefix(payload, bytes)
validate_generic_control_blob(blob) == decode_prefix(blob, 8)

\* A present slice begins where the previous one ended.  The cursor is the end reached so far,
\* or -1 once a slice was refused.
take(payload, cursor, slice, required) ==
    IF slice = NoSlice THEN IF required THEN -1 ELSE cursor
    ELSE IF slice.offset = cursor /\ slice.length # 0 /\ slice.offset + slice.length <= payload.length
         THEN slice.offset + slice.length
         ELSE -1
finish(payload, cursor) == cursor >= 0 /\ Align8(cursor) = payload.length /\ payload.zero_tail
TakesAll(payload, prefix, slices) ==
    finish(payload, FoldLeft(LAMBDA cursor, slice : take(payload, cursor, slice, FALSE), prefix, slices))

sizes_have_valid_scalars(sizes) ==
    /\ sizes.allocation_size <= MAX_FILE_SIZE /\ sizes.file_size <= MAX_FILE_SIZE
    /\ sizes.valid_data_length <= MAX_FILE_SIZE /\ sizes.size_epoch # 0
sizes_are_ordered(sizes) ==
    sizes.allocation_size >= sizes.file_size /\ sizes.file_size >= sizes.valid_data_length

validate_open(payload, kernel_open_id) ==
    LET rec == payload.rec IN
    /\ decode_prefix(payload, 152)
    /\ rec.kernel_open_id = kernel_open_id /\ ~IsU64Zero(rec.kernel_open_id)
    /\ pair_is_nonzero(rec.file_id) /\ pair_is_nonzero(rec.link_id) /\ pair_is_nonzero(rec.parent_id)
    /\ rec.namespace_generation # 0 /\ rec.security_generation # 0
    /\ sizes_have_valid_scalars(rec.sizes)
    /\ TakesAll(payload, 152, <<rec.name, rec.security_descriptor>>)
    /\ sizes_are_ordered(rec.sizes)

validate_prepare(payload) ==
    LET rec == payload.rec IN
    /\ decode_prefix(payload, 184)
    /\ rec.open_flags = 0 /\ rec.result_object_flags = 0 /\ rec.reserved = 0
    /\ pair_is_nonzero(rec.parent_id) /\ pair_is_nonzero(rec.transaction_id)
    /\ pair_is_nonzero(rec.result_file_id) /\ pair_is_nonzero(rec.result_link_id)
    /\ rec.result_namespace_generation # 0 /\ rec.result_security_generation # 0
    /\ sizes_have_valid_scalars(rec.result_sizes)
    /\ TakesAll(payload, 184,
                <<rec.name, rec.requested_security_descriptor, rec.ea, rec.result_security_descriptor>>)
    /\ sizes_are_ordered(rec.result_sizes)

validate_immutable_request(payload) == payload.length >= 32

validate_journal(payload, op_id, state) ==
    /\ decode_exact(payload, 64)
    /\ payload.rec.op_id = op_id /\ pair_is_nonzero(payload.rec.op_id)
    /\ payload.rec.state = state

validate_query_dir_snapshot(payload) ==
    /\ decode_prefix(payload, 56)
    /\ TakesAll(payload, 56, <<payload.rec.entries>>)
    /\ (payload.rec.entry_count = 0) = (payload.rec.entries.length = 0)

validate_query_dir_cookie(payload) ==
    decode_exact(payload, 56) /\ payload.rec.result_flags = 0 /\ payload.rec.reserved = 0

\* A path is a sequence of UTF-16 units; "device" stands for the six letters of the name, in
\* either case.
PathSeparators(path) == {i \in DOMAIN path : path[i] = "sep"}
PathComponent(path, i) ==
    SubSeq(path, i + 1, CHOOSE j \in i..Len(path) :
        /\ \A k \in i + 1..j : path[k] # "sep"
        /\ j = Len(path) \/ path[j + 1] = "sep")
is_canonical_backing_device_path(path) ==
    /\ path # <<>> /\ path[1] = "sep" /\ Cardinality(PathSeparators(path)) >= 2
    /\ \A i \in DOMAIN path :
         /\ path[i] \notin {"nul", "slash", "colon"}
         /\ path[i] = "high" => i < Len(path) /\ path[i + 1] = "low"
         /\ path[i] = "low" => i > 1 /\ path[i - 1] = "high"
    /\ PathComponent(path, 1) = <<"device">>
    /\ \A i \in PathSeparators(path) \ {1} : PathComponent(path, i) \notin {<<>>, <<"dot">>, <<"dot", "dot">>}
PathBytes(path) == 2 * (Len(path) + 5 * Cardinality({i \in DOMAIN path : path[i] = "device"}))

validate_pt_epoch_intent(payload, pt_epoch) ==
    LET rec == payload.rec IN
    /\ decode_prefix(payload, 32)
    /\ rec.flags = 0
    /\ rec.pt_epoch = pt_epoch /\ ~IsU64Zero(rec.pt_epoch)
    /\ rec.sector_size \in {512 * 2^n : n \in 0..7}
    /\ rec.backing_path.length = PathBytes(rec.path) /\ is_canonical_backing_device_path(rec.path)
    /\ finish(payload, take(payload, 32, rec.backing_path, TRUE))

validate_pt_lane(payload) ==
    LET rec == payload.rec
        pending == rec.pending_envelope.length # 0
        latest_tuple_is_zero == rec.latest = "zero"
    IN /\ decode_prefix(payload, 72)
       /\ rec.flags = 0 /\ rec.reserved = 0
       /\ TakesAll(payload, 72, <<rec.pending_envelope>>)
       /\ pending => /\ rec.pending.length = rec.pending_envelope.length
                     /\ validate_generic_control_blob(rec.pending)
       /\ rec.high_watermark = 0 => latest_tuple_is_zero /\ ~pending
       /\ rec.high_watermark # 0 => ~latest_tuple_is_zero

validate_durable_payload_v1(key, value, ring_count) ==
    /\ validate_durable_envelope_v1(key, value, ring_count)
    /\ LET identity == validate_durable_key_v1(key, ring_count).identity IN
       CASE identity.kind = "Open" -> validate_open(value.payload, identity.kernel_open_id)
         [] identity.kind = "Prepare" -> validate_prepare(value.payload)
         [] identity.kind = "ImmutableRequest" -> validate_immutable_request(value.payload)
         [] identity.kind \in {"CommittedResult", "QueryDirAttempt"} -> validate_generic_control_blob(value.payload)
         [] identity.kind = "Journal" -> validate_journal(value.payload, identity.op_id, value.state)
         [] identity.kind = "QueryDirSnapshot" -> validate_query_dir_snapshot(value.payload)
         [] identity.kind = "QueryDirCookie" -> validate_query_dir_cookie(value.payload)
         [] identity.kind = "PtEpochIntent" -> validate_pt_epoch_intent(value.payload, identity.pt_epoch)
         [] identity.kind = "PtLane" -> validate_pt_lane(value.payload)
         [] OTHER -> FALSE

-----------------------------------------------------------------------------
(* Unwrapped values.                                                        *)

is_dedicated_service_sid_v1(sid) ==
    /\ sid.length = 32 /\ sid.revision = 1 /\ sid.sub_authorities = 6
    /\ sid.authority = 5 /\ sid.first_sub_authority = 80

RecoveryFeatures == {"HOT_RESTART", "EXACTLY_ONCE", "SECURITY"}
RootFeatures == RecoveryFeatures \cup {"PT", "MMAP", "MAPPED_IO"}
validate_provider_mount_root_v1(key, value, ring_count) ==
    LET parsed == validate_durable_key_v1(key, ring_count) IN
    /\ value.length = 160 /\ parsed.identity.kind = "Root"
    /\ value.reserved = 0 /\ value.latest_session_epoch # 0
    /\ value.mount_id = parsed.namespace.mount_id /\ value.boot_instance_id = parsed.namespace.boot_instance_id
    /\ is_dedicated_service_sid_v1(value.service_sid) /\ value.service_sid_tail = 0
    /\ RecoveryFeatures \subseteq value.selected_features /\ value.selected_features \subseteq RootFeatures
    /\ value.version = 1 /\ value.journal_version = 1
    /\ value.state \in {"ACTIVE", "RECOVERING", "RETIRING"}

validate_prepare_tx_index_value_v1(key, value, ring_count) ==
    /\ value.length = 48
    /\ validate_durable_key_v1(key, ring_count).identity.kind = "PrepareTxIndex"
    /\ pair_is_nonzero(value.op_id)
    /\ value.identity_digest = durable_key_digest_v1(key, ring_count)

validate_latest_processed_v1(key, value, ring_count) ==
    value.length = 56 /\ validate_durable_key_v1(key, ring_count).identity.kind = "LatestProcessed"

\* The row holds a notification envelope; that envelope's own validation is NotifyBody's.
validate_external_outbox_row_v1(key, value, ring_count) ==
    LET identity == validate_durable_key_v1(key, ring_count).identity IN
    identity.kind = "OutboxRow" /\ value.body = "ExternalDirChange" /\ value.first_ordinal = identity.first_ordinal

validate_durable_u64_value_v1(key, value, ring_count) ==
    /\ value.length = 8
    /\ validate_durable_key_v1(key, ring_count).identity.kind
         \in {"PtEpochCounter", "VolumeCommitCounter", "OrdinalCounter", "AttachCut"}

validate_retire_receipt_v1(key, value) ==
    validate_retire_receipt_key_v1(key) /\ value.length = 32 /\ value.reserved = 0
    /\ value.state = "RECEIPT_PENDING_ACK"

-----------------------------------------------------------------------------
(* Accounting.  The bounds keep every sum far from 2^64, so the checked      *)
(* additions fail only where a bound does.                                  *)

durable_record_charge_v1(key_bytes, value_bytes) ==
    Align8(key_bytes + value_bytes) + DURABLE_RECORD_ACCOUNTING_OVERHEAD

validate_durable_accounting_v1(acct) ==
    /\ acct.ordinary \in 0..MAX_DURABLE_ORDINARY_BYTES_GLOBAL
    /\ acct.receipts \in 0..MAX_DURABLE_RETIRE_RECEIPTS
    /\ acct.receipt_bytes = acct.receipts * RETIRE_RECEIPT_CHARGE_BYTES
    /\ acct.receipt_bytes <= RETIRE_RECEIPT_RESERVED_BYTES
    /\ acct.ordinary + acct.receipt_bytes <= MAX_DURABLE_RECOVERY_BYTES_GLOBAL

\* Refused stands for every error.
Refused == [ordinary |-> -1, receipts |-> -1, receipt_bytes |-> -1]
Checked(acct, next) ==
    IF validate_durable_accounting_v1(acct) /\ validate_durable_accounting_v1(next) THEN next ELSE Refused
checked_add_ordinary_charge_v1(acct, charge) == Checked(acct, [acct EXCEPT !.ordinary = @ + charge])
checked_remove_ordinary_charge_v1(acct, charge) == Checked(acct, [acct EXCEPT !.ordinary = @ - charge])
checked_add_retire_receipt_v1(acct) ==
    Checked(acct, [acct EXCEPT !.receipts = @ + 1, !.receipt_bytes = @ + RETIRE_RECEIPT_CHARGE_BYTES])
checked_remove_retire_receipt_v1(acct) ==
    Checked(acct, [acct EXCEPT !.receipts = @ - 1, !.receipt_bytes = @ - RETIRE_RECEIPT_CHARGE_BYTES])

\* A reservation vouches for one row: its key, its kind and what it costs.
validate_accounting_reservation_v1(reservation_key, reservation, target_key, target_value_bytes, ring_count) ==
    LET own == validate_durable_key_v1(reservation_key, ring_count)
        target == validate_durable_key_v1(target_key, ring_count)
    IN /\ reservation.length = 48 /\ Len(reservation_key) = 66
       /\ own.identity.kind = "AccountingReservation"
       /\ target.identity.kind \notin {"none", "AccountingReservation"}
       /\ own.namespace = target.namespace
       /\ reservation.flags = 0
       /\ reservation.target_child_kind = durable_key_child_kind_v1(target.identity)
       /\ reservation.target_key_length = Len(target_key)
       /\ own.identity.target_key_digest = reservation.target_key_digest
       /\ reservation.target_key_digest = durable_key_digest_v1(target_key, ring_count)
       /\ reservation.charged_bytes = durable_record_charge_v1(Len(target_key), target_value_bytes)

=============================================================================
