------------------------------ MODULE MCStorage -----------------------------
(***************************************************************************)
(* The records that outlive a session, for TLC: operation digests           *)
(* (StreamDigest), the BootContext image (BootImage), the provider's        *)
(* durable store (DurableStore) and the ledger of paging writes             *)
(* (PagingLedger).  They share no state: `comp` picks the one a behaviour   *)
(* is about.                                                                *)
(***************************************************************************)
EXTENDS DurableStore

CONSTANTS MAX_JOURNALED_WRITE_BYTES_PER_REQUEST, MAX_STORED_COMPONENT_BYTES,
          MAX_MUTATION_BODY_BYTES, U64_MAX, BOOT_CONTEXT_SLOT_COUNT, LastHeaderSequence,
          ACTIVE_CAPACITY, INLINE_INTERVALS, MAX_INTERVALS, PRECLAIM_NODES, LastIssue

VARIABLES comp,
          work, builder, sent, answer,
          header, slots, from, to, target, left, token,
          last_issued, active, admission, ordinary, unknown, vdl, file_size,
          unproved, past

-----------------------------------------------------------------------------
(* Operations and tokens to digest.                                         *)

Bytes(n, salt) == [i \in 1..n |-> (7 * i + salt) % 256]
Blob(o, n) == [offset |-> o, length |-> n]

WriteT(n) ==
    [file_id |-> 5, kernel_open_id |-> 6, offset |-> 0, size_epoch |-> 2, initialized_offset |-> 0, length |-> n,
     initialized_length |-> 0, rw_flags |-> 0, reserved |-> 0, data |-> Blob(72, n)]
WriteOp(n, has) == [call |-> "write", mount_id |-> 1, op_id |-> 9, t |-> WriteT(n), data |-> Bytes(has, 0)]

MCWrites ==
    {WriteOp(n, n) : n \in {1, 47, 48, 56, 120}}
    \cup {WriteOp(48, 47), WriteOp(48, 49), WriteOp(56, 55), WriteOp(56, 57)}

CommitT(name, sd, ea) ==
    [parent_id |-> 3, transaction_id |-> 4, kernel_open_id |-> 6, expected_namespace_generation |-> 1,
     expected_security_generation |-> 1, desired_access |-> 1, share_access |-> 2, disposition |-> 1,
     create_options |-> 1, file_attributes |-> 0, open_flags |-> 0, granted_access |-> 1, commit_flags |-> 0,
     name |-> Blob(112, name), requested_security_descriptor |-> IF sd = 0 THEN Blob(0, 0) ELSE Blob(112 + name, sd),
     ea |-> IF ea = 0 THEN Blob(0, 0) ELSE Blob(112 + name + sd, ea)]

\* The bytes after the prefix are the same whatever the split.
CommitOp(name, sd, ea) ==
    LET bytes == Bytes(name + sd + ea, 1)
    IN [call |-> "commit", mount_id |-> 1, op_id |-> 9, t |-> CommitT(name, sd, ea), name |-> SubSeq(bytes, 1, name),
        sd |-> SubSeq(bytes, name + 1, name + sd), ea |-> SubSeq(bytes, name + sd + 1, name + sd + ea)]

SetEndOfFile == 3
MutateT(kind, n) ==
    [file_id |-> 5, kernel_open_id |-> 6,
     expected_namespace_generation |-> IF kind \in {1, 5, 6, 7} THEN 2 ELSE 0,
     expected_size_epoch |-> IF kind \in 2..4 THEN 2 ELSE 0,
     expected_security_generation |-> IF kind \notin 1..7 THEN 2 ELSE 0,
     mutation_kind |-> kind, mutation_flags |-> 0, body_length |-> n, body |-> Blob(64, n)]
MutateOp(kind, n) ==
    [call |-> "mutate", mount_id |-> 1, op_id |-> 9, t |-> MutateT(kind, n), data |-> <<n, 0, 0, 0>> \o Bytes(n - 4, 2)]

\* Every way to change one number of an operation's transcript.
Varied(o) ==
    {[o EXCEPT !.t[f] = @ + d] : f \in {g \in DOMAIN o.t : g \notin {"name", "requested_security_descriptor", "ea", "data", "body"}},
                                d \in {1, 256}}
    \cup {[o EXCEPT !.mount_id = m] : m \in {0, 2}} \cup {[o EXCEPT !.op_id = m] : m \in {0, 10}}

MCOperations ==
    LET base == {CommitOp(4, 20, 2), WriteOp(48, 48), MutateOp(SetEndOfFile, 16)}
    IN base \cup UNION {Varied(o) : o \in base}
       \cup {CommitOp(2, 22, 2), CommitOp(4, 22, 0), CommitOp(6, 20, 0), CommitOp(4, 0, 22), CommitOp(26, 0, 0), CommitOp(3, 21, 2)}
       \cup {[call |-> "change", mount_id |-> m, data |-> Bytes(n, 3)] : m \in {1, 2}, n \in {40, 48}}
       \cup {WriteOp(47, 47), WriteOp(49, 49), WriteOp(48, 47)}
       \cup {MutateOp(k, 16) : k \in 0..9} \cup {MutateOp(SetEndOfFile, 24), MutateOp(SetEndOfFile, 12)}

MCPieces == {1, 8, 40, 64}

Sid(n) == <<1, 6, 0, 0, 0, 0, 0, 5, 80, 0, 0, 0>> \o [i \in 1..20 |-> n]
Ask(kind, state) ==
    [kind |-> kind, key |-> [i \in 1..32 |-> i], boot_instance_id |-> 7, mount_lo |-> 1, mount_hi |-> 9, mount_state |-> state,
     latest_session_epoch |-> IF state = "ABSENT" THEN 0 ELSE 1, features |-> IF state = "ABSENT" THEN 0 ELSE 28,
     features_high |-> 0, journal_version |-> IF state = "ABSENT" THEN 0 ELSE 1, sid |-> Sid(3)]

MCTokenInputs ==
    LET base == {Ask("state", s) : s \in {"ABSENT", "ACTIVE", "GRACE", "BOUND_RECONCILING", "TERMINAL"}}
    IN base \cup {Ask("retire", "TERMINAL")}
       \cup {[q EXCEPT ![f] = @ + 1] : q \in base \cup {Ask("retire", "TERMINAL")}, f \in {"boot_instance_id", "mount_lo", "mount_hi"}}
       \cup {[q EXCEPT ![f] = @ + 1] : q \in base, f \in {"latest_session_epoch", "features", "features_high", "journal_version"}}
       \cup {[q EXCEPT !.sid = Sid(4)] : q \in base} \cup {[q EXCEPT !.key = [i \in 1..32 |-> 5]] : q \in base}
       \cup {[q EXCEPT !.key = [i \in 1..32 |-> 0]] : q \in base}

-----------------------------------------------------------------------------
(* The durable store and the paging ledger.                                 *)

High == [i \in 1..8 |-> IF i = 8 THEN 1 ELSE 0]
Numbers == {ZeroU64, U64(1), High}
Pairs == {<<ZeroU64, ZeroU64>>, <<U64(1), ZeroU64>>, <<ZeroU64, U64(1)>>, <<High, U64(1)>>}
MCProbeKeys ==
    LET identities ==
            {[kind |-> k] : k \in {"Root", "VolumeCommitCounter", "LatestProcessed", "OrdinalCounter"}}
            \cup {[kind |-> "AccountingReservation", target_key_digest |-> sha256_bytes(<<n>>)] : n \in 1..2}
            \cup {[kind |-> "Open", kernel_open_id |-> n] : n \in Numbers}
            \cup {[kind |-> k, op_id |-> p] : k \in OperationKinds, p \in Pairs}
            \cup {[kind |-> "QueryDirSnapshot", kernel_open_id |-> p[1], generation |-> p[2]] : p \in Pairs}
            \cup {[kind |-> "QueryDirAttempt", kernel_open_id |-> p[1], generation |-> p[2], cookie |-> U64(2),
                   attempt_digest |-> sha256_bytes(<<1>>)] : p \in Pairs}
            \cup {[kind |-> "QueryDirCookie", kernel_open_id |-> p[1], generation |-> U64(2), cookie |-> p[2]] : p \in Pairs}
            \cup {[kind |-> "PtEpochIntent", file_id |-> p, pt_epoch |-> n] : p \in Pairs, n \in Numbers}
            \cup {[kind |-> "PtEpochCounter", file_id |-> p] : p \in Pairs}
            \cup {[kind |-> "PtLane", ring_index |-> r, kind_ordinal |-> k] : r \in {0, 63, 64}, k \in 0..3}
            \cup {[kind |-> "OutboxRow", first_ordinal |-> n] : n \in Numbers}
            \cup {[kind |-> "AttachCut", session_epoch |-> n] : n \in Numbers}
            \cup {[kind |-> "PrepareTxIndex", transaction_id |-> p] : p \in Pairs}
    IN {[namespace |-> NamespaceOf(1), identity |-> i] : i \in identities}
       \cup {[namespace |-> NamespaceOf(m), identity |-> Root] : m \in {0, 2}}

\* Two ranges that do not touch, and the whole file.
MCRequests ==
    { [start |-> 0, end |-> 1], [start |-> 2, end |-> 3], [start |-> 0, end |-> 4] }

\* A file cut in the middle of evidence, and the whole file.
MCSizes == {2, 4}

Boot == INSTANCE BootImage WITH
          MAX_FILE_SIZE <- 1000, Writes <- MCWrites, Operations <- MCOperations, Pieces <- MCPieces,
          TokenInputs <- MCTokenInputs
Paging == INSTANCE PagingLedger WITH Requests <- MCRequests, Sizes <- MCSizes

ASSUME LedgerConstants == Paging!PagingConstants

streamvars == <<work, builder, sent, answer>>
bootvars == <<header, slots, from, to, target, left, token>>
pagingvars == <<last_issued, active, admission, ordinary, unknown, vdl, file_size, unproved, past>>

\* The components a behaviour is not about have no state in it, and the durable
\* store rests in its initial state.
Absent(v) == v = "absent"
NoDigest == Absent(work) /\ Absent(builder) /\ Absent(sent) /\ Absent(answer)
NoBoot ==
    /\ Absent(header) /\ Absent(slots) /\ Absent(from) /\ Absent(to) /\ Absent(target)
    /\ Absent(left) /\ Absent(token)
NoLedger ==
    /\ Absent(last_issued) /\ Absent(active) /\ Absent(admission) /\ Absent(ordinary)
    /\ Absent(unknown) /\ Absent(vdl) /\ Absent(file_size) /\ Absent(unproved) /\ Absent(past)

StorageInit ==
    /\ Init
    /\ \/ comp = "store" /\ NoDigest /\ NoBoot /\ NoLedger
       \/ comp = "digest" /\ probe = NoKey /\ Boot!StreamInit /\ NoBoot /\ NoLedger
       \/ comp = "boot" /\ probe = NoKey /\ NoDigest /\ Boot!BootInit /\ NoLedger
       \/ comp = "paging" /\ probe = NoKey /\ NoDigest /\ NoBoot /\ Paging!Init

StoreSteps == comp = "store" /\ Next /\ UNCHANGED <<comp, streamvars, bootvars, pagingvars>>
DigestSteps == comp = "digest" /\ Boot!StreamNext /\ UNCHANGED <<comp, vars, bootvars, pagingvars>>
BootSteps == comp = "boot" /\ Boot!BootNext /\ UNCHANGED <<comp, vars, streamvars, pagingvars>>
PagingSteps == comp = "paging" /\ Paging!Next /\ UNCHANGED <<comp, vars, streamvars, bootvars>>

StorageSpec ==
    StorageInit
    /\ [][StoreSteps \/ DigestSteps \/ BootSteps \/ PagingSteps]_<<comp, vars, streamvars, bootvars, pagingvars>>

-----------------------------------------------------------------------------

\* However the bytes of an operation are cut into pieces, its digest is that of
\* the whole message, the one the one-call form gives, and names that operation
\* alone.  The validators of the BootContext refuse every torn header or slot,
\* accept every published one, bind a slot to its place, and no two states have
\* the same token (Sha256, OpDigestBuilder, validate_header_record,
\* validate_slot_record, derive_state_token_v2).
RecordsFaithful ==
    /\ comp = "digest" => Boot!StreamIsMessage /\ Boot!PiecesAgree /\ Boot!DigestNamesOperation
    /\ comp = "boot" => /\ Boot!TornRefused /\ Boot!PublishedValidates /\ Boot!SlotsBound
                        /\ Boot!SectionAgrees /\ Boot!TokensDistinct

\* Between any two transactions a restarted provider can audit what it finds, a
\* value under the wrong key is refused, a receipt always fits, and a key
\* decodes to itself alone (validate_durable_payload_v1, checked accounting).
StoreSound ==
    comp = "store" => AuditAccepts /\ MisplacedRefused /\ ReceiptNeverStarved /\ KeysRoundTrip

\* What the ledger remembers of every write not yet proved covers it, ordinary
\* evidence is exact, and the interval budget is kept, whatever VDL a snapshot
\* returns or a truncate resets; a barrier answers Clear only over bytes proved
\* written, and the terminal prefix never moves back (merge_to_unknown, minus,
\* apply_vdl, advance_only_barrier, terminal_prefix).
LedgerSound ==
    /\ [](comp = "paging" => /\ Paging!EvidenceCovers /\ Paging!OrdinaryIsExact
                             /\ Paging!BudgetRespected /\ Paging!BarrierSound)
    /\ [][comp = "paging" => Paging!PrefixMonotone]_pagingvars
=============================================================================
