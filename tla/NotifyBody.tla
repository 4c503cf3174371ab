----------------------------- MODULE NotifyBody -----------------------------
(***************************************************************************)
(* The notification records a provider publishes, as fsring-abi validates   *)
(* them: the acknowledgement token and its lane, the envelope, the body of   *)
(* each code, and the names that must partition the body's tail exactly.    *)
(* A body is its decoded prefix and its tail, a sequence of UTF-16 units of  *)
(* two bytes; a unit is its class.  An identity is a number, zero when       *)
(* absent.                                                                  *)
(***************************************************************************)
EXTENDS CommitResult, SequencesExt, FiniteSets

CONSTANTS MAX_RING_COUNT, MAX_COMPONENT_UTF16_CODE_UNITS

PT_REVOKE_ROUTE == 1
PT_EXTERNAL_MUTATION_SAFE == 2
DIR_CHANGE == 3
PtKinds == {PT_REVOKE_ROUTE, PT_EXTERNAL_MUTATION_SAFE}

-----------------------------------------------------------------------------
(* Acknowledgement tokens: a tag, the kind in the second byte, the ring in   *)
(* the first, and the ordinal in the low word.                              *)

ZeroToken == [tagged |-> FALSE, hi |-> 0, lo |-> 0]
ack_token_hi(kind, ring) == kind * 256 + ring
external_dir_change_ack_token(first) == [tagged |-> TRUE, hi |-> ack_token_hi(DIR_CHANGE, 0), lo |-> first]
pt_ack_token(kind, ring, ordinal) == [tagged |-> TRUE, hi |-> ack_token_hi(kind, ring), lo |-> ordinal]
TokenParts(token) == [kind |-> (token.hi \div 256) % 256, ring |-> token.hi % 256, ordinal |-> token.lo]
decode_ack_token(token) ==
    LET parts == TokenParts(token) IN
    /\ token.tagged /\ parts.ring < 64
    /\ parts.kind \in PtKinds \/ (parts.kind = DIR_CHANGE /\ parts.ring = 0)
    /\ parts.ordinal # 0

-----------------------------------------------------------------------------
(* Names.                                                                   *)

\* "high" and "low" are the two halves of a surrogate pair, "reserved" a character no component
\* may hold, "zero" the terminator and the padding.
validate_stored_component_utf16(units) ==
    /\ units # <<>> /\ Len(units) <= MAX_COMPONENT_UTF16_CODE_UNITS
    /\ \A i \in DOMAIN units :
         /\ units[i] \notin {"zero", "reserved"}
         /\ units[i] = "high" => i < Len(units) /\ units[i + 1] = "low"
         /\ units[i] = "low" => i > 1 /\ units[i - 1] = "high"
    /\ units \notin {<<"dot">>, <<"dot", "dot">>}

NoSlice == [offset |-> 0, length |-> 0]
BodyLength(body) == body.prefix + 2 * Len(body.tail)
\* The bytes from a to b of the tail, for even a and b.
Units(body, a, b) == SubSeq(body.tail, (a - body.prefix) \div 2 + 1, (b - body.prefix) \div 2)

\* A present slice starts where the previous one ended.
take(body, next, slice, required) ==
    IF slice = NoSlice THEN [ok |-> ~required, next |-> next]
    ELSE LET end == slice.offset + slice.length IN
         [ok |-> /\ slice.offset = next /\ end <= BodyLength(body) /\ slice.length % 2 = 0
                 /\ validate_stored_component_utf16(Units(body, slice.offset, end)),
          next |-> end]

Align8(n) == 8 * ((n + 7) \div 8)
finish(body, next) ==
    /\ Align8(next) = BodyLength(body)
    /\ \A i \in DOMAIN body.tail : body.prefix + 2 * (i - 1) >= next => body.tail[i] = "zero"

NamesPartition(body, old, old_required, new, new_required) ==
    LET first == take(body, body.prefix, old, old_required)
        second == take(body, first.next, new, new_required)
    IN first.ok /\ second.ok /\ finish(body, second.next)

-----------------------------------------------------------------------------
(* Bodies.                                                                  *)

require_zero_token(envelope) == envelope.token = ZeroToken
require_zero_file_id(envelope) == envelope.file_id = 0
decode_fixed_body(body, size) == body.prefix = size /\ body.tail = <<>>

classify_external_ordinal_interval_v21(first, through, is_overflow) ==
    first # 0 /\ IF is_overflow THEN first <= through ELSE first = through

NoSide == [parent |-> 0, generation |-> 0, name |-> NoSlice]
NoReplacement == [file |-> 0, link |-> 0, generation |-> 0]
nonzero_or(side, present) ==
    /\ (side.parent # 0) = present /\ (side.generation # 0) = present
    /\ ~present => side.name = NoSlice

OverflowOk(envelope, r) ==
    /\ r.object_kind = "NONE" /\ r.filter = {} /\ r.volume_commit_sequence # 0
    /\ envelope.file_id = 0 /\ r.target_link = 0 /\ r.target_generation = 0
    /\ r.replaced = NoReplacement /\ r.old = NoSide /\ r.new = NoSide

PreciseOk(envelope, r) ==
    LET old_side == r.change_kind \in {"REMOVE", "RENAME"}
        new_side == r.change_kind # "REMOVE"
        replaced == {f \in DOMAIN r.replaced : r.replaced[f] # 0}
    IN /\ envelope.file_id # 0 /\ r.target_link # 0
       /\ r.volume_commit_sequence # 0 /\ r.target_generation # 0
       /\ r.object_kind \in {"FILE", "DIRECTORY"}
       /\ r.change_kind \in {"ADD", "REMOVE", "MODIFY", "RENAME"}
       /\ replaced = {} \/ (replaced = DOMAIN r.replaced /\ r.change_kind \in {"ADD", "RENAME"})
       /\ IF r.change_kind = "MODIFY" THEN r.filter # {} /\ r.filter \cap {"FILE_NAME", "DIR_NAME"} = {}
          ELSE r.filter = {IF r.object_kind = "FILE" THEN "FILE_NAME" ELSE "DIR_NAME"}
       /\ nonzero_or(r.old, old_side) /\ nonzero_or(r.new, new_side)

validate_external_dir_change(envelope, body) ==
    LET r == body.record
        overflow == r.change_kind = "OVERFLOW"
        present == ~overflow
        NameOf(side) == Units(body, side.name.offset, side.name.offset + side.name.length)
    IN /\ body.prefix = 176 /\ r.flags = 0
       /\ decode_ack_token(envelope.token)
       /\ TokenParts(envelope.token).kind = DIR_CHANGE
       /\ TokenParts(envelope.token).ordinal = r.first_ordinal
       /\ classify_external_ordinal_interval_v21(r.first_ordinal, r.through_ordinal, overflow)
       /\ IF overflow THEN OverflowOk(envelope, r) ELSE PreciseOk(envelope, r)
       /\ NamesPartition(body, r.old.name, present /\ r.change_kind \in {"REMOVE", "RENAME"},
                         r.new.name, present /\ r.change_kind # "REMOVE")
       /\ r.change_kind = "RENAME" /\ r.old.parent = r.new.parent =>
              r.old.generation = r.new.generation /\ NameOf(r.old) # NameOf(r.new)

validate_notify_body(envelope, body) ==
    CASE envelope.notify_code = "INVALIDATE_FILE" ->
             /\ require_zero_token(envelope) /\ decode_fixed_body(body, 40) /\ body.record.flags = 0
             /\ body.record.length = 0 => body.record.offset = 0
             /\ body.record.offset + body.record.length <= MAX_FILE_SIZE /\ body.record.content_epoch # 0
      [] envelope.notify_code = "INVALIDATE_ENTRY" ->
             /\ require_zero_token(envelope) /\ envelope.file_id # 0
             /\ body.prefix = 32 /\ body.record.flags = 0 /\ body.record.namespace_generation # 0
             /\ NamesPartition(body, NoSlice, FALSE, body.record.name, TRUE)
      [] envelope.notify_code = "PT_GRANT" ->
             /\ require_zero_token(envelope) /\ decode_fixed_body(body, 24) /\ body.record.flags = 0
             /\ body.record.pt_epoch # 0 /\ body.record.sector_size \in {2^n : n \in 9..16}
      [] envelope.notify_code \in {"PT_REVOKE_ROUTE", "PT_EXTERNAL_MUTATION_SAFE"} ->
             /\ decode_ack_token(envelope.token)
             /\ TokenParts(envelope.token).kind = IF envelope.notify_code = "PT_REVOKE_ROUTE"
                                                  THEN PT_REVOKE_ROUTE ELSE PT_EXTERNAL_MUTATION_SAFE
             /\ decode_fixed_body(body, 16) /\ body.record.pt_epoch # 0
      [] envelope.notify_code = "RESIZE" ->
             /\ require_zero_token(envelope) /\ decode_fixed_body(body, 48)
             /\ validate_size_state_v21(body.record.sizes) /\ body.record.volume_commit_sequence # 0
      [] envelope.notify_code = "DIR_CHANGE" -> validate_external_dir_change(envelope, body)
      [] envelope.notify_code = "PT_LANE_READY" ->
             /\ require_zero_token(envelope) /\ require_zero_file_id(envelope)
             /\ decode_fixed_body(body, 24) /\ body.record.flags = 0 /\ body.record.kind_ordinal \in PtKinds
      [] envelope.notify_code = "EXTERNAL_CHANGE_READY" ->
             /\ require_zero_token(envelope) /\ require_zero_file_id(envelope)
             /\ decode_fixed_body(body, 32) /\ body.record.flags = 0
      [] envelope.notify_code = "EXTERNAL_CHANGE_CUT" ->
             /\ require_zero_token(envelope) /\ require_zero_file_id(envelope)
             /\ decode_fixed_body(body, 24) /\ body.record.flags = 0
      [] OTHER -> FALSE

\* The envelope's length is the header's, the body's and the record's at once.
validate_notify_envelope_v2(envelope, body) ==
    /\ envelope.version = 2 /\ envelope.required_flags = 0 /\ envelope.notify_flags = 0
    /\ envelope.body.offset = 56
    /\ envelope.struct_size = 56 + envelope.body.length /\ envelope.struct_size % 8 = 0
    /\ envelope.body.length = BodyLength(body)
    /\ body.version = 1 /\ body.struct_size = BodyLength(body)
    /\ validate_notify_body(envelope, body)

-----------------------------------------------------------------------------
(* Acknowledgements.                                                        *)

validate_pdir_change_ack_v1(ack, retained) ==
    /\ decode_ack_token(ack.token) /\ TokenParts(ack.token).kind = DIR_CHANGE
    /\ TokenParts(ack.token).ordinal = retained.first
    /\ ack.through = retained.through /\ ack.sequence = retained.sequence
    /\ ack.digest = retained.digest

validate_pnotify_ack_v21(ack, kind, ring, epoch) ==
    /\ kind \in PtKinds /\ decode_ack_token(ack.token)
    /\ TokenParts(ack.token).kind = kind /\ TokenParts(ack.token).ring = ring
    /\ epoch # 0 /\ ack.epoch = epoch

\* A lane keeps the ordinal it last processed and at most one it waits for.
classify_pt_ack_v21(lane, ordinal) ==
    CASE lane.pending = ordinal -> "Apply"
      [] lane.processed = ordinal -> "IdempotentSuccess"
      [] OTHER -> "ProtocolFault"

next_pt_lane_ordinal_v21(high) == high + 1
pt_lane_can_publish_v21(lane, ordinal) ==
    lane.pending = 0 /\ ordinal = next_pt_lane_ordinal_v21(lane.high)

-----------------------------------------------------------------------------
(* The barriers of an ATTACH.  -1 is a cut not stored yet.                   *)

CutMustLead(value, ctx) ==
    IF ctx.kernel_high >= value \/ value # ctx.ordinal_counter THEN "ProtocolFault"
    ELSE IF ctx.stored_cut >= 0 THEN "IdempotentDuplicate" ELSE "Accept"
classify_external_change_cut_v21(value, ctx) ==
    CASE ctx.kernel_high > value -> "ProtocolFault"
      [] ctx.stored_cut >= 0 ->
             IF ctx.progressed \/ ctx.stored_cut # value \/ ctx.stored_cut > ctx.ordinal_counter
             THEN "ProtocolFault" ELSE "IdempotentDuplicate"
      [] OTHER -> IF value # ctx.ordinal_counter THEN "ProtocolFault" ELSE "Accept"

ReadyTrustsProvider(ready, ctx) == IF ctx.already_ready THEN "IdempotentDuplicate" ELSE "Accept"
classify_external_change_ready_v21(ready, ctx) ==
    CASE ctx.active -> "ProtocolFault"
      [] ready.cut # ready.processed \/ ready.cut # ctx.stored_cut \/ ctx.stored_cut # ctx.kernel_high ->
             "ProtocolFault"
      [] ready.cut = 0 /\ ctx.ordinal_counter # 0 -> "ProtocolFault"
      [] OTHER -> IF ctx.already_ready THEN "IdempotentDuplicate" ELSE "Accept"

classify_pt_lane_ready_v21(ready, high, already, active) ==
    CASE active \/ ready.kind_ordinal \notin PtKinds \/ ready.high_watermark # high -> "ProtocolFault"
      [] OTHER -> IF already THEN "IdempotentDuplicate" ELSE "Accept"
=============================================================================
