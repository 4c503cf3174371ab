----------------------------- MODULE SlotGrant -----------------------------
(***************************************************************************)
(* Slots of the two arenas and the grants over them: the packed slot token, *)
(* the section range a token stands for, the driver's notification-credit   *)
(* table, the daemon's grant ledger, and what a BufferRef has to satisfy    *)
(* before anyone dereferences it.                                           *)
(***************************************************************************)
EXTENDS SectionLayout

CONSTANTS IndexBits, GenerationBits   \* SLOT_TOKEN_INDEX_MAX and _GENERATION_MAX, in bits

SlotGrantConstants == IndexBits \in Nat \ {0} /\ GenerationBits \in Nat \ {0}

ClassBits == 2

-----------------------------------------------------------------------------
(* SlotToken: class, index and generation in one word.                      *)

try_new(class, index, generation) ==
    IF class >= 2^ClassBits THEN Err("ClassOutOfRange")
    ELSE IF index >= 2^IndexBits THEN Err("IndexOutOfRange")
    ELSE IF generation = 0 THEN Err("ZeroGeneration")
    ELSE IF generation >= 2^GenerationBits THEN Err("GenerationOutOfRange")
    ELSE Ok(class + index * 2^ClassBits + generation * 2^(ClassBits + IndexBits))

class(token) == token % 2^ClassBits
index(token) == (token \div 2^ClassBits) % 2^IndexBits
generation(token) == token \div 2^(ClassBits + IndexBits)

from_raw(raw) == try_new(class(raw), index(raw), generation(raw))

\* A validated arena, as validate_slot_arena returns it.
Arena(direction, region, classes) ==
    [direction |-> direction, region |-> region, classes |-> classes]

resolve_slot(arena, token) ==
    IF class(token) >= SLOT_CLASS_COUNT THEN Err("ClassOutOfRange")
    ELSE LET desc == arena.classes[class(token) + 1] IN
         IF ~ActiveClass(desc) THEN Err("ClassOutOfRange")
         ELSE IF index(token) >= desc.slot_count THEN Err("IndexOutOfRange")
         ELSE Ok([token |-> token, direction |-> arena.direction, slot_size |-> desc.slot_size,
                  range |-> [offset |-> desc.data_offset + index(token) * desc.slot_size,
                             length |-> desc.slot_size]])

-----------------------------------------------------------------------------
(* The driver's GrantTable: one entry per U2K slot.                         *)

FREE == [token |-> 0, ring_index |-> 0, generation |-> 0, state |-> "Free"]

grant_table_layout(topology) ==
    LET requests == topology.u2k_slot_classes
        notify == requests[topology.notification_credit_class + 1]
        Base(i) == FoldSet(LAMBDA j, total : total + requests[j].slot_count, 0, 1..(i - 1))
    IN IF \E i \in Classes : (requests[i].slot_size = 0) # (requests[i].slot_count = 0)
       THEN Err("InvalidTopology")
       ELSE IF \/ topology.ring_count = 0
               \/ topology.notification_credit_count < topology.ring_count
               \/ topology.notification_credit_count > notify.slot_count
               \/ topology.notification_credit_size = 0
               \/ topology.notification_credit_size > notify.slot_size
       THEN Err("InvalidTopology")
       ELSE Ok([bases |-> [i \in Classes |-> Base(i)], required |-> Base(SLOT_CLASS_COUNT + 1)])

initialize(topology) ==
    LET layout == grant_table_layout(topology) IN
    IF ~IsOk(layout) THEN layout
    ELSE Ok([topology |-> topology, bases |-> layout.ok.bases,
             entries |-> [i \in 0..(layout.ok.required - 1) |-> FREE]])

credit_descriptor(token, ring_index, size) ==
    [token |-> token, offset |-> 0, length |-> size, kind |-> "SLOT",
     access |-> "U2K_WRITE", ring_index |-> ring_index]

canonical_entry_index(table, token) == table.bases[class(token) + 1] + index(token)

\* issue_notification_credits: the first slots of the credit class, rings in turn.
issue_notification_credits(table) ==
    LET t == table.topology
        count == t.notification_credit_count
        base == table.bases[t.notification_credit_class + 1]
        issued == base..(base + count - 1)
        Token(k) == try_new(t.notification_credit_class, k, 1)
        Ring(k) == k % t.ring_count
    IN IF t.u2k_slot_classes[t.notification_credit_class + 1].slot_size < t.notification_credit_size
          \/ count = 0 \/ ~(issued \subseteq DOMAIN table.entries) \/ ~IsOk(Token(count - 1))
       THEN Err("InvalidTopology")
       ELSE IF \E i \in issued : table.entries[i] # FREE THEN Err("InvalidBacking")
       ELSE Ok([table |-> [table EXCEPT !.entries = [i \in DOMAIN @ |->
                    IF i \notin issued THEN @[i]
                    ELSE [token |-> Token(i - base).ok, ring_index |-> Ring(i - base),
                          generation |-> 1, state |-> "Issued"]]],
                credits |-> [k \in 0..(count - 1) |->
                    credit_descriptor(Token(k).ok, Ring(k), t.notification_credit_size)]])

\* grant_source_range: where the driver reads the body a control names.
grant_source_range(table, geometry, token, control) ==
    LET request == table.topology.u2k_slot_classes[class(token) + 1] IN
    IF index(token) >= request.slot_count \/ request.slot_size = 0 \/ control.length = 0
       \/ control.offset + control.length > request.slot_size
    THEN Err("InvalidToken")
    ELSE Ok([offset |-> geometry[class(token) + 1] + index(token) * request.slot_size
                        + control.offset,
             length |-> control.length])

\* SlotArenaGeometry::from_published.
from_published(classes) ==
    IF \E i \in Classes : classes[i].data_offset % SLOT_ALIGNMENT # 0 THEN Err("InvalidTopology")
    ELSE Ok([i \in Classes |-> classes[i].data_offset])

-----------------------------------------------------------------------------
(* BufferRef validation and the daemon's ledger.                            *)

RequiredAccess(direction) == IF direction = "K2u" THEN "K2U_READ_ONLY" ELSE "U2K_WRITE"
checked_buffer_range(ref) == [offset |-> ref.offset, length |-> ref.length]
Capacity(grant) == [offset |-> 0, length |-> grant.capability.slot_size]

validate_grant_metadata(grant) ==
    /\ grant.session_epoch # 0
    /\ grant.access = RequiredAccess(grant.capability.direction)
    /\ grant.maximum.length # 0 /\ Inside(grant.maximum, Capacity(grant))
    /\ grant.issued.access = grant.access /\ grant.issued.kind = "SLOT"
    /\ grant.issued.token = grant.capability.token /\ grant.issued.length # 0
    /\ Inside(checked_buffer_range(grant.issued), Capacity(grant)) /\ Inside(checked_buffer_range(grant.issued), grant.maximum)

\* The three ways a reference may differ from the one that was issued.
PolicyHolds(policy, ref, issued) ==
    CASE policy = "Exact" -> ref.offset = issued.offset /\ ref.length = issued.length
      [] policy = "ShrinkOnly" -> ref.offset = issued.offset /\ ref.length <= issued.length
      [] policy = "DerivedSubrange" -> Inside(checked_buffer_range(ref), checked_buffer_range(issued))

\* validate_buffer_ref with BufferRefRule::Grant over a slot capability.
validate_buffer_ref(ref, grant, epoch, owner, policy, empty) ==
    IF ~validate_grant_metadata(grant) THEN Err("InvalidGrantMetadata")
    ELSE IF ref.reserved # 0 THEN Err("NonZeroReserved")
    ELSE IF ref.kind \notin {"NONE", "SLOT", "MAPPING"} THEN Err("UnknownKind")
    ELSE IF ref.access \notin {"K2U_READ_ONLY", "U2K_WRITE"} THEN Err("UnknownAccess")
    ELSE IF grant.state # "Live" THEN Err("GrantNotLive")
    ELSE IF grant.session_epoch # epoch THEN Err("SessionEpochMismatch")
    ELSE IF grant.owner # owner THEN Err("OwnerMismatch")
    ELSE IF ref.kind # "SLOT" THEN Err("KindMismatch")
    ELSE IF ~IsOk(from_raw(ref.token)) THEN Err("InvalidSlotToken")
    ELSE IF ref.token # grant.capability.token THEN Err("CapabilityMismatch")
    ELSE IF ref.access # grant.access THEN Err("AccessMismatch")
    ELSE IF ref.length = 0 /\ empty = "Forbidden" THEN Err("EmptyNotAllowed")
    ELSE IF ~(Inside(checked_buffer_range(ref), Capacity(grant)) /\ Inside(checked_buffer_range(ref), grant.maximum))
         THEN Err("RangeOutOfBounds")
    ELSE IF ~PolicyHolds(policy, ref, grant.issued) THEN Err("EchoMismatch")
    ELSE Ok([offset |-> grant.capability.range.offset + ref.offset, length |-> ref.length])

Grant(resolved, direction, epoch, owner, length) ==
    LET issued == [token |-> resolved.token, offset |-> 0, length |-> length, kind |-> "SLOT",
                   access |-> RequiredAccess(direction), reserved |-> 0]
    IN [capability |-> resolved, session_epoch |-> epoch, owner |-> owner,
        access |-> RequiredAccess(direction),
        maximum |-> [offset |-> 0, length |-> resolved.slot_size],
        state |-> "Live", issued |-> issued]

\* GrantTable::issue_k2u and issue_u2k of the daemon: a ledger of <<token, grant>>.
Issue(ledger, arena, direction, epoch, owner, token, length) ==
    LET resolved == resolve_slot(arena, token)
        grant == Grant(resolved.ok, direction, epoch, owner, length)
    IN IF ~IsOk(resolved) THEN resolved
       ELSE IF ~validate_grant_metadata(grant) THEN Err("InvalidGrantMetadata")
       ELSE Ok(Append(ledger, grant))
issue_k2u(ledger, arena, epoch, owner, token, length) ==
    Issue(ledger, arena, "K2u", epoch, owner, token, length)
issue_u2k(ledger, arena, epoch, owner, token, length) ==
    Issue(ledger, arena, "U2k", epoch, owner, token, length)

\* GrantTable::resolve: the first grant of the token decides.
resolve(ledger, epoch, ref, owner, policy) ==
    LET hits == {i \in DOMAIN ledger : ledger[i].issued.token = ref.token} IN
    IF hits = {} THEN Err("UnknownToken")
    ELSE validate_buffer_ref(ref, ledger[Min(hits)], epoch, owner, policy, "Forbidden")

resolve_body(section_size, buffer) ==
    IF End(buffer) > section_size THEN Err("OutOfBounds") ELSE Ok(buffer)

write_body(section_size, buffer, length) ==
    IF End(buffer) > section_size THEN Err("OutOfBounds")
    ELSE IF length # buffer.length THEN Err("LengthMismatch")
    ELSE Ok(buffer)
=============================================================================
