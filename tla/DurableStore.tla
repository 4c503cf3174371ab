---------------------------- MODULE DurableStore ----------------------------
(***************************************************************************)
(* A provider's durable store: rows under canonical keys, one accounting     *)
(* reservation beside each row, the running charge, and the retirement       *)
(* receipts.  The provider is external; its transactions follow sections     *)
(* 10.13 to 10.15 of docs/design/02-transport.md and build every key, charge  *)
(* and total with the functions of DurableRecord.  A transaction is atomic:  *)
(* when one of its charges is refused, none of it happens.  After a crash    *)
(* the provider rereads what it stored and audits it with the validators.    *)
(***************************************************************************)
EXTENDS DurableRecord, FiniteSetsExt

CONSTANTS Mounts,     \* mount numbers
          Ops,        \* operation numbers of a mount
          RingCount,  \* the rings of the session
          ProbeKeys   \* keys the codec is probed with

VARIABLES rows,       \* the stored rows: key bytes |-> value
          acct,       \* the accounting totals
          receipts,   \* mount |-> whether its retirement receipt is stored
          probe       \* a key under test, or NoKey when the store runs

vars == <<rows, acct, receipts, probe>>

Root == [kind |-> "Root"]
U64(n) == [i \in 1..8 |-> IF i = 1 THEN n ELSE 0]
Pair(n) == <<U64(n), U64(0)>>
NamespaceOf(m) == [mount_id |-> Pair(m), boot_instance_id |-> Pair(9)]
Encode(m, identity) == encode_durable_key_v1([namespace |-> NamespaceOf(m), identity |-> identity], DURABLE_KEY_MAX_BYTES)
Identities ==
    {[kind |-> kind] : kind \in {"Root", "VolumeCommitCounter", "OrdinalCounter", "LatestProcessed"}}
    \cup {[kind |-> kind, op_id |-> Pair(o)] : kind \in OperationKinds, o \in Ops}
    \cup {[kind |-> "PrepareTxIndex", transaction_id |-> Pair(o)] : o \in Ops}
    \cup {[kind |-> "Open", kernel_open_id |-> U64(o)] : o \in Ops}
    \cup {[kind |-> "QueryDirSnapshot", kernel_open_id |-> U64(1), generation |-> U64(1)],
          [kind |-> "QueryDirAttempt", kernel_open_id |-> U64(1), generation |-> U64(1), cookie |-> U64(1),
           attempt_digest |-> sha256_bytes(<<>>)],
          [kind |-> "QueryDirCookie", kernel_open_id |-> U64(1), generation |-> U64(1), cookie |-> U64(1)],
          [kind |-> "PtEpochIntent", file_id |-> Pair(3), pt_epoch |-> U64(1)],
          [kind |-> "PtEpochCounter", file_id |-> Pair(3)],
          [kind |-> "PtLane", ring_index |-> RingCount - 1, kind_ordinal |-> 2],
          [kind |-> "OutboxRow", first_ordinal |-> U64(1)],
          [kind |-> "AttachCut", session_epoch |-> U64(1)]}
\* The keys in use, computed once.
Keys == [m \in Mounts |-> [identity \in Identities |-> Encode(m, identity)]]
Reservations ==
    [m \in Mounts |-> [identity \in Identities |->
        Encode(m, [kind |-> "AccountingReservation", target_key_digest |-> sha256_bytes(Encode(m, identity))])]]
KeyOf(m, identity) == Keys[m][identity]
ReservationKey(m, identity) == Reservations[m][identity]

-----------------------------------------------------------------------------
(* The values a provider writes.                                            *)

Header(length) == [struct_version |-> 1, required_flags |-> 0, struct_size |-> length]
Slice(offset, length) == [offset |-> offset, length |-> length]
Payload(length, rec) == [length |-> length, header |-> Header(length), rec |-> rec, zero_tail |-> TRUE]
Wrapped(m, identity, state, payload) ==
    LET length == Align8(DURABLE_CHILD_VALUE_PREFIX_BYTES + payload.length) IN
    [length |-> length, header |-> Header(length), value_kind |-> durable_key_child_kind_v1(identity),
     state |-> state, flags |-> 0, identity_digest |-> sha256_bytes(KeyOf(m, identity)),
     payload_digest |-> sha256_bytes(payload),
     slice |-> Slice(DURABLE_CHILD_VALUE_PREFIX_BYTES, payload.length), payload |-> payload, zero_tail |-> TRUE]

Sizes == [allocation_size |-> MAX_FILE_SIZE, file_size |-> 1, valid_data_length |-> 0, size_epoch |-> 1]
OpenPayload(identity) ==
    Payload(160, [kernel_open_id |-> identity.kernel_open_id, file_id |-> Pair(3), link_id |-> Pair(4),
                  parent_id |-> Pair(5), namespace_generation |-> 1, security_generation |-> 1, sizes |-> Sizes,
                  name |-> Slice(152, 6), security_descriptor |-> NoSlice])
PreparePayload(o) ==
    Payload(200, [open_flags |-> 0, result_object_flags |-> 0, reserved |-> 0, parent_id |-> Pair(5),
                  transaction_id |-> Pair(o), result_file_id |-> Pair(3), result_link_id |-> Pair(4),
                  result_namespace_generation |-> 1, result_security_generation |-> 1, result_sizes |-> Sizes,
                  name |-> Slice(184, 6), requested_security_descriptor |-> NoSlice, ea |-> NoSlice,
                  result_security_descriptor |-> Slice(190, 8)])
JournalPayload(o, state) == Payload(64, [op_id |-> Pair(o), state |-> state])
PtIntentPayload(identity) ==
    Payload(56, [flags |-> 0, pt_epoch |-> identity.pt_epoch, sector_size |-> 4096,
                 path |-> <<"sep", "device", "sep", "c">>, backing_path |-> Slice(32, 18)])
PtLanePayload ==
    Payload(88, [flags |-> 0, reserved |-> 0, latest |-> "tuple", high_watermark |-> 1,
                 pending_envelope |-> Slice(72, 16), pending |-> Payload(16, "none")])
RootValue(m, state) ==
    [length |-> 160, reserved |-> 0, latest_session_epoch |-> 1, mount_id |-> Pair(m), boot_instance_id |-> Pair(9),
     service_sid |-> [length |-> 32, revision |-> 1, sub_authorities |-> 6, authority |-> 5, first_sub_authority |-> 80],
     service_sid_tail |-> 0, selected_features |-> RecoveryFeatures, version |-> 1, journal_version |-> 1,
     state |-> state]
Counter(n) == [length |-> 8, value |-> n]
TxIndexValue(m, o) ==
    [length |-> 48, op_id |-> Pair(o),
     identity_digest |-> sha256_bytes(KeyOf(m, [kind |-> "PrepareTxIndex", transaction_id |-> Pair(o)]))]
ReservationValue(key, value) ==
    [length |-> 48, flags |-> 0, target_child_kind |-> read_u16(key, 32), target_key_length |-> Len(key),
     target_key_digest |-> sha256_bytes(key), charged_bytes |-> durable_record_charge_v1(Len(key), value.length)]

-----------------------------------------------------------------------------
(* A transaction.                                                           *)

Operation(kind, o) == [kind |-> kind, op_id |-> Pair(o)]
TxIndex(o) == [kind |-> "PrepareTxIndex", transaction_id |-> Pair(o)]
OpenRow(o) == [kind |-> "Open", kernel_open_id |-> U64(o)]
Has(m, identity) == KeyOf(m, identity) \in DOMAIN rows
Row(m, identity) == rows[KeyOf(m, identity)]
Of(m) == {key \in DOMAIN rows : read_namespace(key) = NamespaceOf(m)}
Targets(keys) == {key \in keys : read_u16(key, 32) # 2}

\* What a row costs: itself and its reservation.
RowCharges(key, value) ==
    durable_record_charge_v1(Len(key), value.length) + durable_record_charge_v1(66, 48)

Refund(totals, keys) ==
    FoldSet(LAMBDA key, rest : checked_remove_ordinary_charge_v1(rest, RowCharges(key, rows[key])), totals, keys)

Transact(m, remove, add) ==
    LET removed == {KeyOf(m, identity) : identity \in remove}
        charged == FoldSet(LAMBDA put, totals : checked_add_ordinary_charge_v1(totals,
                                                    RowCharges(KeyOf(m, put.identity), put.value)),
                           Refund(acct, removed), add)
        kept == DOMAIN rows \ (removed \cup {ReservationKey(m, identity) : identity \in remove})
        targets == {KeyOf(m, put.identity) : put \in add}
        beside == {ReservationKey(m, put.identity) : put \in add}
        put_at(key) == CHOOSE put \in add : key \in {KeyOf(m, put.identity), ReservationKey(m, put.identity)}
    IN IF charged = Refused THEN UNCHANGED <<rows, acct>>
       ELSE /\ acct' = charged
            /\ rows' = [key \in kept \cup targets \cup beside |->
                          IF key \in targets THEN put_at(key).value
                          ELSE IF key \in beside THEN ReservationValue(KeyOf(m, put_at(key).identity), put_at(key).value)
                          ELSE rows[key]]

Put(identity, value) == [identity |-> identity, value |-> value]
PutWrapped(m, identity, state, payload) == Put(identity, Wrapped(m, identity, state, payload))

-----------------------------------------------------------------------------
(* The provider's transactions.                                             *)

Running(m) == Has(m, Root) /\ Row(m, Root).state = "ACTIVE"

Bootstrap(m) ==
    /\ Of(m) = {} /\ ~receipts[m]
    /\ Transact(m, {}, {Put(Root, RootValue(m, "ACTIVE")), Put([kind |-> "VolumeCommitCounter"], Counter(0)),
                        Put([kind |-> "OrdinalCounter"], Counter(0))})
    /\ UNCHANGED <<receipts, probe>>

PrepareOpen(m, o) ==
    /\ Running(m) /\ ~Has(m, Operation("Prepare", o)) /\ ~Has(m, Operation("Journal", o)) /\ ~Has(m, OpenRow(o))
    /\ Transact(m, {}, {PutWrapped(m, Operation("Prepare", o), "PREPARED", PreparePayload(o)),
                        Put(TxIndex(o), TxIndexValue(m, o))})
    /\ UNCHANGED <<receipts, probe>>

AbortOpen(m, o) ==
    /\ Running(m) /\ Has(m, Operation("Prepare", o)) /\ ~Has(m, Operation("Journal", o))
    /\ Transact(m, {Operation("Prepare", o), TxIndex(o)}, {})
    /\ UNCHANGED <<receipts, probe>>

\* ABSENT to PREPARED, before any effect.
BeginCommit(m, o) ==
    /\ Running(m) /\ Has(m, Operation("Prepare", o)) /\ ~Has(m, Operation("Journal", o))
    /\ Transact(m, {}, {PutWrapped(m, Operation("ImmutableRequest", o), "RETAINED", Payload(36, "none")),
                        PutWrapped(m, Operation("Journal", o), "PREPARED", JournalPayload(o, "PREPARED"))})
    /\ UNCHANGED <<receipts, probe>>

\* PREPARED to COMMITTED, with the prepared pair retired and the open installed.
Commit(m, o) ==
    /\ Running(m) /\ Has(m, Operation("ImmutableRequest", o))
    /\ Transact(m, {Operation("ImmutableRequest", o), Operation("Journal", o), Operation("Prepare", o), TxIndex(o)},
                {PutWrapped(m, Operation("Journal", o), "COMMITTED", JournalPayload(o, "COMMITTED")),
                 PutWrapped(m, Operation("CommittedResult", o), "COMMITTED", Payload(96, "none")),
                 PutWrapped(m, OpenRow(o), "LIVE", OpenPayload(OpenRow(o)))})
    /\ UNCHANGED <<receipts, probe>>

AckResult(m, o) ==
    /\ Running(m) /\ Has(m, Operation("CommittedResult", o))
    /\ Transact(m, {Operation("CommittedResult", o), Operation("Journal", o)}, {})
    /\ UNCHANGED <<receipts, probe>>

Cleanup(m, o) ==
    /\ Running(m) /\ Has(m, OpenRow(o)) /\ Row(m, OpenRow(o)).state = "LIVE"
    /\ Transact(m, {OpenRow(o)}, {PutWrapped(m, OpenRow(o), "CLEANED", OpenPayload(OpenRow(o)))})
    /\ UNCHANGED <<receipts, probe>>

Close(m, o) ==
    /\ Running(m) /\ Has(m, OpenRow(o)) /\ Row(m, OpenRow(o)).state = "CLEANED"
    /\ Transact(m, {OpenRow(o)}, {})
    /\ UNCHANGED <<receipts, probe>>

\* The rows of directory enumeration, passthrough and external notification come and go one at a
\* time.
SideRows(m) ==
    UNION {CASE identity.kind = "QueryDirSnapshot" ->
                  {PutWrapped(m, identity, "ACTIVE", Payload(64, [entries |-> Slice(56, 8), entry_count |-> 1]))}
             [] identity.kind = "QueryDirAttempt" -> {PutWrapped(m, identity, "ACCEPTED", Payload(16, "none"))}
             [] identity.kind = "QueryDirCookie" ->
                  {PutWrapped(m, identity, "ACTIVE", Payload(56, [result_flags |-> 0, reserved |-> 0]))}
             [] identity.kind = "PtEpochIntent" ->
                  {PutWrapped(m, identity, state, PtIntentPayload(identity)) : state \in {"PENDING", "ACCEPTED"}}
             [] identity.kind = "PtLane" -> {PutWrapped(m, identity, "PRESENT", PtLanePayload)}
             [] identity.kind = "PtEpochCounter" -> {Put(identity, Counter(1))}
             [] identity.kind = "AttachCut" -> {Put(identity, Counter(0))}
             [] identity.kind = "LatestProcessed" -> {Put(identity, [length |-> 56])}
             [] identity.kind = "OutboxRow" ->
                  {Put(identity, [length |-> 64, body |-> "ExternalDirChange", first_ordinal |-> identity.first_ordinal])}
             [] OTHER -> {}
           : identity \in Identities}
\* Computed once.
Sides == [m \in Mounts |-> SideRows(m)]

PutSide(m) ==
    \E put \in Sides[m] :
        /\ Running(m)
        /\ Transact(m, IF Has(m, put.identity) THEN {put.identity} ELSE {}, {put})
        /\ UNCHANGED <<receipts, probe>>

DropSide(m) ==
    \E put \in Sides[m] :
        /\ Running(m) /\ Has(m, put.identity)
        /\ Transact(m, {put.identity}, {})
        /\ UNCHANGED <<receipts, probe>>

\* Retirement: the root is marked, and one later transaction exchanges the whole prefix for the
\* receipt, which is charged to its own reserve.
Retire(m) ==
    /\ Running(m)
    /\ Transact(m, {Root}, {Put(Root, RootValue(m, "RETIRING"))})
    /\ UNCHANGED <<receipts, probe>>

Retiring(m) == Has(m, Root) /\ Row(m, Root).state = "RETIRING"

CommitReceipt(m) ==
    \E next \in {checked_add_retire_receipt_v1(Refund(acct, Targets(Of(m))))} :
        /\ Retiring(m) /\ next # Refused
        /\ rows' = [key \in DOMAIN rows \ Of(m) |-> rows[key]]
        /\ acct' = next
        /\ receipts' = [receipts EXCEPT ![m] = TRUE]
        /\ UNCHANGED probe

\* A mount that ended before its provider stored anything leaves a receipt only.
EmptyReceipt(m) ==
    /\ Of(m) = {} /\ ~receipts[m]
    /\ checked_add_retire_receipt_v1(acct) # Refused
    /\ acct' = checked_add_retire_receipt_v1(acct)
    /\ receipts' = [receipts EXCEPT ![m] = TRUE]
    /\ UNCHANGED <<rows, probe>>

AckReceipt(m) ==
    /\ receipts[m]
    /\ checked_remove_retire_receipt_v1(acct) # Refused
    /\ acct' = checked_remove_retire_receipt_v1(acct)
    /\ receipts' = [receipts EXCEPT ![m] = FALSE]
    /\ UNCHANGED <<rows, probe>>

-----------------------------------------------------------------------------
Empty == [ordinary |-> 0, receipts |-> 0, receipt_bytes |-> 0]

Init ==
    /\ rows = [key \in {} |-> Empty]
    /\ acct = Empty
    /\ receipts = [m \in Mounts |-> FALSE]
    /\ probe \in ProbeKeys \cup {NoKey}

Next ==
    \E m \in Mounts :
        /\ probe = NoKey
        /\ \/ Bootstrap(m) \/ PutSide(m) \/ DropSide(m)
           \/ Retire(m) \/ CommitReceipt(m) \/ EmptyReceipt(m) \/ AckReceipt(m)
           \/ \E o \in Ops :
                \/ PrepareOpen(m, o) \/ AbortOpen(m, o) \/ BeginCommit(m, o) \/ Commit(m, o)
                \/ AckResult(m, o) \/ Cleanup(m, o) \/ Close(m, o)

Spec == Init /\ [][Next]_vars

-----------------------------------------------------------------------------
(* Properties.                                                              *)

Identity(key) == validate_durable_key_v1(key, RingCount).identity

Readable(key, value) ==
    CASE Identity(key).kind = "Root" -> validate_provider_mount_root_v1(key, value, RingCount)
      [] Identity(key).kind = "PrepareTxIndex" -> validate_prepare_tx_index_value_v1(key, value, RingCount)
      [] Identity(key).kind = "LatestProcessed" -> validate_latest_processed_v1(key, value, RingCount)
      [] Identity(key).kind = "OutboxRow" -> validate_external_outbox_row_v1(key, value, RingCount)
      [] Identity(key).kind \in {"PtEpochCounter", "VolumeCommitCounter", "OrdinalCounter", "AttachCut"} ->
            validate_durable_u64_value_v1(key, value, RingCount)
      [] OTHER -> validate_durable_payload_v1(key, value, RingCount)

\* What a restarted provider finds is what it needs, at every point between two transactions:
\* every row validates under its key, every row has exactly one reservation that vouches for it
\* and every reservation vouches for exactly one row, and the totals are the sum of what is
\* stored.
AuditAccepts ==
    LET targets == Targets(DOMAIN rows)
        reservations == DOMAIN rows \ targets
        vouches(r, key) == validate_accounting_reservation_v1(r, rows[r], key, rows[key].length, RingCount)
    IN /\ \A key \in targets : Readable(key, rows[key]) /\ Cardinality({r \in reservations : vouches(r, key)}) = 1
       /\ \A r \in reservations : Cardinality({key \in targets : vouches(r, key)}) = 1
       /\ validate_durable_accounting_v1(acct)
       /\ acct.ordinary = FoldSet(LAMBDA key, sum : sum + durable_record_charge_v1(Len(key), rows[key].length),
                               0, DOMAIN rows)
       /\ acct.receipts = Cardinality({m \in Mounts : receipts[m]})

\* A value written under the wrong key never passes for the row that belongs there: the digest of
\* the key is part of the value.
MisplacedRefused ==
    \A key, other \in {k \in DOMAIN rows : Identity(k).kind = "PrepareTxIndex" \/ wrapped_kind_is_supported(read_u16(k, 32))} :
        key # other /\ read_u16(key, 32) = read_u16(other, 32) => ~Readable(key, rows[other])

\* A store full of ordinary rows can still take the receipt of a mount that ends, whether it has
\* rows of its own to refund or none.
ReceiptNeverStarved ==
    \A m \in Mounts :
        acct.receipts < MAX_DURABLE_RETIRE_RECEIPTS
            => checked_add_retire_receipt_v1(Refund(acct, Targets(Of(m)))) # Refused

\* The codec: a key is encoded exactly when its identities are in range, decodes to itself under
\* every ring count that has its ring, is refused one byte short or long, and shares its bytes
\* with no other key.
KeysRoundTrip ==
    LET bytes == encode_durable_key_v1(probe, DURABLE_KEY_MAX_BYTES) IN
    probe # NoKey /\ bytes # <<>> =>
        /\ Len(bytes) = encoded_durable_key_len_v1(probe.identity)
        /\ encode_durable_key_v1(probe, Len(bytes) - 1) = <<>>
        /\ validate_durable_key_v1(bytes, 64) = probe
        /\ validate_durable_key_v1(SubSeq(bytes, 1, Len(bytes) - 1), 64) = NoKey
        /\ validate_durable_key_v1(bytes \o <<0>>, 64) = NoKey
        /\ \A other \in ProbeKeys \ {probe} : encode_durable_key_v1(other, DURABLE_KEY_MAX_BYTES) # bytes

=============================================================================
