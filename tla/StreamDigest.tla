---------------------------- MODULE StreamDigest ----------------------------
(***************************************************************************)
(* The digests of fsring-abi: the streaming SHA-256 and HMAC, and the       *)
(* digest of an operation that a provider keeps in its journal to tell a    *)
(* retry from a different operation under the same identity.  Nothing in    *)
(* the driver calls the operation digests: they are the contract a provider *)
(* journals under.                                                          *)
(*                                                                         *)
(* Bytes are numbers, at their real offsets.  The compression function is   *)
(* taken to be collision free: the chaining value is the sequence of the    *)
(* blocks compressed so far, so two digests are equal exactly when the      *)
(* padded messages are.  An identity is the number of its low word, its     *)
(* high word is one unless the identity is zero.                            *)
(***************************************************************************)
EXTENDS Integers, Sequences, SequencesExt, FiniteSetsExt

CONSTANTS MAX_FILE_SIZE,
          MAX_JOURNALED_WRITE_BYTES_PER_REQUEST,
          MAX_STORED_COMPONENT_BYTES,
          MAX_MUTATION_BODY_BYTES

Zeros(n) == [i \in 1..n |-> 0]

\* A number in w bytes, least significant first.
LE(value, w) == [i \in 1..w |-> IF i <= 3 THEN (value \div 256^(i - 1)) % 256 ELSE 0]

\* bytes written at an offset that counts from zero.
Put(output, part) ==
    [i \in DOMAIN output |->
        IF i \in part[1] + 1..part[1] + Len(part[2]) THEN part[2][i - part[1]] ELSE output[i]]
put_u16(offset, value) == <<offset, LE(value, 2)>>
put_u32(offset, value) == <<offset, LE(value, 4)>>
put_u64(offset, value) == <<offset, LE(value, 8)>>
PutId(offset, id) == <<offset, LE(id, 8) \o LE(IF id = 0 THEN 0 ELSE 1, 8)>>
put_blob_at(offset, slice) == <<offset, LE(slice.offset, 4) \o LE(slice.length, 4)>>

\* Parts in the order of their offsets, zeros between and after them.
Image(size, parts) ==
    LET filled(output, n) == output \o Zeros(n - Len(output))
    IN filled(FoldLeft(LAMBDA output, part : filled(output, part[1]) \o part[2], <<>>, parts), size)

-----------------------------------------------------------------------------
(* SHA-256 over a stream of updates.                                        *)

Sha256_new == [state |-> <<>>, block |-> Zeros(64), block_len |-> 0, total_len |-> 0]

compress(hash, block) == [hash EXCEPT !.state = Append(@, block)]

CopyIn(hash, at, input) == [hash EXCEPT !.block = Put(@, <<at, input>>), !.block_len = at + Len(input)]

\* Mutant: a partial block is not topped up before the next one is taken.
UpdateRestartsBlock(hash, input) ==
    LET full == Len(input) \div 64
        direct == FoldLeft(LAMBDA h, b : compress([h EXCEPT !.block = b], b), hash,
                           [i \in 1..full |-> SubSeq(input, 64 * i - 63, 64 * i)])
        left == SubSeq(input, 64 * full + 1, Len(input))
    IN [CopyIn(direct, 0, left) EXCEPT !.total_len = @ + Len(input)]

Sha256_update(hash, input) ==
    LET copied == IF hash.block_len = 0 THEN 0 ELSE Min({64 - hash.block_len, Len(input)})
        topped == CopyIn(hash, hash.block_len, SubSeq(input, 1, copied))
        flushed == IF topped.block_len = 64 THEN [compress(topped, topped.block) EXCEPT !.block_len = 0]
                   ELSE topped
        rest == SubSeq(input, copied + 1, Len(input))
        full == Len(rest) \div 64
        direct == FoldLeft(LAMBDA h, b : compress([h EXCEPT !.block = b], b), flushed,
                           [i \in 1..full |-> SubSeq(rest, 64 * i - 63, 64 * i)])
        left == SubSeq(rest, 64 * full + 1, Len(rest))
    IN [(IF left = <<>> THEN direct ELSE CopyIn(direct, 0, left)) EXCEPT !.total_len = @ + Len(input)]

BigEndianBits(total) == [i \in 1..8 |-> IF i > 5 THEN ((8 * total) \div 256^(8 - i)) % 256 ELSE 0]

Sha256_finalize(hash) ==
    LET marked == CopyIn(hash, hash.block_len, <<128>>)
        filled == CopyIn(marked, marked.block_len, Zeros(64 - marked.block_len))
        fresh == IF marked.block_len > 56 THEN [compress(filled, filled.block) EXCEPT !.block = Zeros(64), !.block_len = 0]
                 ELSE marked
        zeroed == Put(fresh.block, <<fresh.block_len, Zeros(56 - fresh.block_len)>>)
    IN compress(fresh, Put(zeroed, <<56, BigEndianBits(hash.total_len)>>)).state

sha256_bytes(input) == Sha256_finalize(Sha256_update(Sha256_new, input))

Updates(hash, inputs) == FoldLeft(Sha256_update, hash, inputs)

\* The 32 bytes of a digest, as input of another hash: its value in the first.
DigestBytes(digest) == [i \in 1..32 |-> IF i = 1 THEN <<digest>> ELSE <<>>]

\* A padded key byte: the key byte under one of the two pads, 0x36 and 0x5c.
PadWith(pad, key) == [i \in 1..64 |-> <<pad, IF i <= Len(key) THEN key[i] ELSE 0>>]
HmacSha256_new(key) ==
    LET key_block == IF Len(key) > 64 THEN DigestBytes(sha256_bytes(key)) ELSE key
    IN [inner |-> Sha256_update(Sha256_new, PadWith(54, key_block)),
        outer |-> Sha256_update(Sha256_new, PadWith(92, key_block))]
HmacSha256_update(hmac, input) == [hmac EXCEPT !.inner = Sha256_update(@, input)]
HmacSha256_finalize(hmac) ==
    Sha256_finalize(Sha256_update(hmac.outer, DigestBytes(Sha256_finalize(hmac.inner))))

\* A domain string of the code, by number: the cells are no bytes.
Domain(number, size) == [i \in 1..size |-> 256 + number]
EXTERNAL_DIR_CHANGE_DIGEST_DOMAIN == Domain(1, 30)
OP_DIGEST_DOMAIN == Domain(2, 16)

external_dir_change_semantic_digest_v1(mount_id, envelope) ==
    Sha256_finalize(Updates(Sha256_new, <<EXTERNAL_DIR_CHANGE_DIGEST_DOMAIN, Image(16, <<PutId(0, mount_id)>>), envelope>>))

-----------------------------------------------------------------------------
(* The digest of an operation.  A refusal is a string.                      *)

COMMIT_OPEN == 2
WRITE == 17
MUTATE == 33
SET_BASIC_INFO == 1
SET_ALLOCATION_SIZE == 2
SET_END_OF_FILE == 3
SET_VALID_DATA_LENGTH == 4
RENAME == 5
LINK == 6
UNLINK == 7
SET_SECURITY == 8

OP_DIGEST_PREFIX_BYTES == 64
COMMIT_OPEN_DIGEST_V1_PREFIX_BYTES == 112
WRITE_DIGEST_V1_PREFIX_BYTES == 72
MUTATION_DIGEST_V1_PREFIX_BYTES == 64
MAX_DIGEST_SECURITY_DESCRIPTOR_BYTES == 65536
MAX_DIGEST_EA_BYTES == 65536

Refused(why) == [refused |-> why, hash |-> Sha256_new, remaining |-> 0]
IsRefused(builder) == builder.refused # "no"

mutation_kind_is_journaled_v21(kind) == kind \in SET_BASIC_INFO..SET_SECURITY

OpDigestBuilder_new(mount_id, op_id, opcode, kind, semantic_length) ==
    CASE opcode \notin {COMMIT_OPEN, WRITE, MUTATE} -> Refused("UnsupportedOpcode")
      [] (opcode = MUTATE) # (kind # 0) -> Refused("MutationKindPairing")
      [] opcode = MUTATE /\ ~mutation_kind_is_journaled_v21(kind) -> Refused("InvalidScalar")
      [] op_id = 0 \/ mount_id = 0 -> Refused("ZeroIdentity")
      [] OTHER ->
            [refused |-> "no", remaining |-> semantic_length,
             hash |-> Sha256_update(Sha256_new,
                         Image(64, <<<<0, OP_DIGEST_DOMAIN>>, put_u16(16, 1), put_u16(18, 2), put_u32(20, 1),
                                     PutId(24, mount_id), PutId(40, op_id), put_u16(56, opcode), put_u16(58, kind),
                                     put_u32(60, semantic_length)>>))]

\* A refused update ends the stream: the callers return the error.
OpDigestBuilder_update(builder, input) ==
    IF IsRefused(builder) THEN builder
    ELSE IF Len(input) > builder.remaining THEN Refused("LengthMismatch")
    ELSE [builder EXCEPT !.remaining = @ - Len(input), !.hash = Sha256_update(@, input)]

\* The empty sequence stands for a refusal: every digest has a block.
OpDigestBuilder_finalize(builder) ==
    IF IsRefused(builder) \/ builder.remaining # 0 THEN <<>> ELSE Sha256_finalize(builder.hash)

\* The cursor after an optional tail, or zero for a refusal.
take_tail(cursor, slice, required, minimum, maximum) ==
    IF slice.offset = 0 /\ slice.length = 0 THEN (IF required THEN 0 ELSE cursor)
    ELSE IF cursor = 0 \/ slice.offset # cursor \/ slice.length = 0 \/ slice.length \notin minimum..maximum THEN 0
    ELSE cursor + slice.length

require_matching_bytes(slice, bytes) == Len(bytes) = slice.length

encode_commit_open_digest_prefix_v1(t) ==
    Image(112, <<PutId(0, t.parent_id), PutId(16, t.transaction_id), put_u64(32, t.kernel_open_id),
                 put_u64(40, t.expected_namespace_generation), put_u64(48, t.expected_security_generation),
                 put_u32(56, t.desired_access), put_u32(60, t.share_access), put_u32(64, t.disposition),
                 put_u32(68, t.create_options), put_u32(72, t.file_attributes), put_u32(76, t.open_flags),
                 put_u32(80, t.granted_access), put_u32(84, t.commit_flags), put_blob_at(88, t.name),
                 put_blob_at(96, t.requested_security_descriptor), put_blob_at(104, t.ea)>>)

commit_open_operation_digest_v1(mount_id, op_id, t, name, requested_security_descriptor, ea) ==
    LET after_name == take_tail(COMMIT_OPEN_DIGEST_V1_PREFIX_BYTES, t.name, TRUE, 2, MAX_STORED_COMPONENT_BYTES)
        after_sd == take_tail(after_name, t.requested_security_descriptor, FALSE, 20, MAX_DIGEST_SECURITY_DESCRIPTOR_BYTES)
        cursor == take_tail(after_sd, t.ea, FALSE, 1, MAX_DIGEST_EA_BYTES)
        named == /\ 0 \notin {t.parent_id, t.transaction_id, t.kernel_open_id, t.expected_namespace_generation,
                              t.expected_security_generation}
                 /\ cursor # 0 /\ t.name.length % 2 = 0
        matching == /\ require_matching_bytes(t.name, name)
                    /\ require_matching_bytes(t.requested_security_descriptor, requested_security_descriptor)
                    /\ require_matching_bytes(t.ea, ea)
    IN IF ~named \/ ~matching THEN <<>>
       ELSE OpDigestBuilder_finalize(
                FoldLeft(OpDigestBuilder_update, OpDigestBuilder_new(mount_id, op_id, COMMIT_OPEN, 0, cursor),
                         <<encode_commit_open_digest_prefix_v1(t), name, requested_security_descriptor, ea>>))

validate_file_range(offset, length, zero_means_whole) ==
    IF length = 0 THEN zero_means_whole /\ offset = 0
    ELSE offset < MAX_FILE_SIZE /\ length <= MAX_FILE_SIZE /\ offset + length <= MAX_FILE_SIZE

encode_write_digest_prefix_v1(t) ==
    Image(72, <<PutId(0, t.file_id), put_u64(16, t.kernel_open_id), put_u64(24, t.offset), put_u64(32, t.size_epoch),
                put_u64(40, t.initialized_offset), put_u32(48, t.length), put_u32(52, t.initialized_length),
                put_u32(56, t.rw_flags), put_u32(60, t.reserved), put_blob_at(64, t.data)>>)

write_operation_digest_begin_v1(mount_id, op_id, t) ==
    CASE 0 \in {t.file_id, t.kernel_open_id, t.size_epoch} -> Refused("ZeroIdentity")
      [] t.rw_flags \notin 0..127 \/ t.reserved # 0 -> Refused("FlagsOrReserved")
      [] \/ t.length \notin 1..MAX_JOURNALED_WRITE_BYTES_PER_REQUEST
         \/ t.initialized_length > t.length -> Refused("InvalidScalar")
      [] \/ ~validate_file_range(t.offset, t.length, FALSE)
         \/ t.initialized_length # 0 /\ ~validate_file_range(t.initialized_offset, t.initialized_length, FALSE) ->
            Refused("Range")
      [] t.data # [offset |-> WRITE_DIGEST_V1_PREFIX_BYTES, length |-> t.length] -> Refused("SliceGeometry")
      [] OTHER ->
            OpDigestBuilder_update(
                OpDigestBuilder_new(mount_id, op_id, WRITE, 0, WRITE_DIGEST_V1_PREFIX_BYTES + t.length),
                encode_write_digest_prefix_v1(t))

write_operation_digest_v1(mount_id, op_id, t, data) ==
    LET builder == write_operation_digest_begin_v1(mount_id, op_id, t)
    IN IF ~require_matching_bytes(t.data, data) THEN <<>>
       ELSE OpDigestBuilder_finalize(OpDigestBuilder_update(builder, data))

encode_mutation_digest_prefix_v1(t) ==
    Image(64, <<PutId(0, t.file_id), put_u64(16, t.kernel_open_id), put_u64(24, t.expected_namespace_generation),
                put_u64(32, t.expected_size_epoch), put_u64(40, t.expected_security_generation),
                put_u16(48, t.mutation_kind), put_u16(50, t.mutation_flags), put_u32(52, t.body_length),
                put_blob_at(56, t.body)>>)

\* The one fence a mutation of a kind is journaled with.
MutationFence(kind) ==
    CASE kind \in {SET_BASIC_INFO, RENAME, LINK, UNLINK} -> "namespace"
      [] kind \in {SET_ALLOCATION_SIZE, SET_END_OF_FILE, SET_VALID_DATA_LENGTH} -> "epoch"
      [] OTHER -> "security"

MutationFenced(t) ==
    /\ (MutationFence(t.mutation_kind) = "namespace") = (t.expected_namespace_generation # 0)
    /\ (MutationFence(t.mutation_kind) = "epoch") = (t.expected_size_epoch # 0)
    /\ (MutationFence(t.mutation_kind) = "security") = (t.expected_security_generation # 0)

mutation_operation_digest_v1(mount_id, op_id, t, body) ==
    LET shaped == /\ 0 \notin {t.file_id, t.kernel_open_id}
                  /\ mutation_kind_is_journaled_v21(t.mutation_kind)
                  /\ t.mutation_flags = 0
                  /\ MutationFenced(t)
                  /\ t.body = [offset |-> MUTATION_DIGEST_V1_PREFIX_BYTES, length |-> t.body_length]
                  /\ t.body_length \in 8..MAX_MUTATION_BODY_BYTES /\ t.body_length % 8 = 0
                  /\ require_matching_bytes(t.body, body)
                  /\ SubSeq(body, 1, 4) = LE(t.body_length, 4)
    IN IF ~shaped THEN <<>>
       ELSE OpDigestBuilder_finalize(
                FoldLeft(OpDigestBuilder_update,
                         OpDigestBuilder_new(mount_id, op_id, MUTATE, t.mutation_kind, MUTATION_DIGEST_V1_PREFIX_BYTES + t.body_length),
                         <<encode_mutation_digest_prefix_v1(t), body>>))

operation_digest_eq(left, right) == left = right

-----------------------------------------------------------------------------
(* A provider digests a WRITE while it copies the bytes: begin, one update   *)
(* per piece, finalize.  The bytes it has may be fewer or more than the      *)
(* transcript announces.  Other operations are digested in one call.         *)

CONSTANTS Writes,       \* [mount_id, op_id, t, data]: operations streamed
          Pieces,       \* the sizes a piece may have
          Operations    \* [call, ...]: operations digested in one call

VARIABLES work,         \* the write, or the operation, looked at
          builder, sent, answer

streamvars == <<work, builder, sent, answer>>

DigestOf(o) ==
    CASE o.call = "commit" ->
            commit_open_operation_digest_v1(o.mount_id, o.op_id, o.t, o.name, o.sd, o.ea)
      [] o.call = "write" -> write_operation_digest_v1(o.mount_id, o.op_id, o.t, o.data)
      [] o.call = "mutate" -> mutation_operation_digest_v1(o.mount_id, o.op_id, o.t, o.data)
      [] o.call = "change" -> external_dir_change_semantic_digest_v1(o.mount_id, o.data)

StreamInit ==
    /\ builder = Refused("not begun") /\ sent = 0 /\ answer = <<>>
    /\ work \in Writes \cup Operations

Begin ==
    /\ work.call = "write" /\ builder = Refused("not begun")
    /\ builder' = write_operation_digest_begin_v1(work.mount_id, work.op_id, work.t)
    /\ UNCHANGED <<work, sent, answer>>

Piece(n) ==
    /\ ~IsRefused(builder) /\ answer = <<>>
    /\ sent + n <= Len(work.data)
    /\ sent' = sent + n
    /\ builder' = OpDigestBuilder_update(builder, SubSeq(work.data, sent + 1, sent + n))
    /\ UNCHANGED <<work, answer>>

Finish ==
    /\ ~IsRefused(builder) /\ answer = <<>> /\ sent = Len(work.data)
    /\ answer' = OpDigestBuilder_finalize(builder)
    /\ builder' = Refused("finalized")
    /\ UNCHANGED <<work, sent>>

OneCall ==
    /\ builder = Refused("not begun")
    /\ answer' = DigestOf(work)
    /\ builder' = Refused("one call")
    /\ UNCHANGED <<work, sent>>

StreamNext == Begin \/ (\E n \in Pieces : Piece(n)) \/ Finish \/ OneCall

\* The padding of FIPS 180-4, written down as a whole: the message, a one bit,
\* the fewest zeros, the length; cut into blocks.
Reference(message) ==
    LET n == Len(message)
        zeros == CHOOSE k \in 0..63 : (n + 1 + k + 8) % 64 = 0
        padded == message \o <<128>> \o Zeros(zeros) \o BigEndianBits(n)
    IN [b \in 1..Len(padded) \div 64 |-> SubSeq(padded, 64 * b - 63, 64 * b)]

\* Sha256::update and finalize buffer partial blocks: however the bytes of a
\* WRITE are cut into pieces, finalizing after any of them gives the digest of
\* exactly the bytes hashed so far.
StreamIsMessage ==
    ~IsRefused(builder) =>
        LET prefix == Image(64, <<<<0, OP_DIGEST_DOMAIN>>, put_u16(16, 1), put_u16(18, 2), put_u32(20, 1),
                                  PutId(24, work.mount_id), PutId(40, work.op_id), put_u16(56, WRITE),
                                  put_u32(60, 72 + work.t.length)>>)
        IN Sha256_finalize(builder.hash)
             = Reference(prefix \o encode_write_digest_prefix_v1(work.t) \o SubSeq(work.data, 1, sent))

\* OpDigestBuilder counts the bytes it was promised: a WRITE digested piece by
\* piece gets the digest the one-call form gives, and none at all when the
\* bytes were too few or too many.
PiecesAgree ==
    builder.refused \in {"finalized", "LengthMismatch"} => operation_digest_eq(answer, DigestOf(work))

AllDigests == {<<o, DigestOf(o)>> : o \in Operations}

\* The digest kept with an operation names it: two operations that differ in the
\* mount, the identity, the kind, any field, any byte, or in where one tail ends
\* and the next begins never have the same digest, nor that of a directory change.
DigestNamesOperation ==
    builder.refused = "one call" /\ answer # <<>> /\ work \in Operations =>
        \A d \in AllDigests : operation_digest_eq(answer, d[2]) => d[1] = work
=============================================================================
