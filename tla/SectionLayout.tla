--------------------------- MODULE SectionLayout ---------------------------
(***************************************************************************)
(* The section a session shares between driver and daemon: where            *)
(* SectionLayoutPlan puts each region, what the header and the ring         *)
(* directory say about them, and the checks both sides make of the result.  *)
(* Sizes are scaled by the constants.  The checked 64-bit sums and products *)
(* of the source cannot overflow (their operands are 32-bit counts and      *)
(* sizes), so only the checks that can fail are written out.                *)
(***************************************************************************)
EXTENDS Naturals, Sequences, SequencesExt, FiniteSetsExt

CONSTANTS USER_VIEW_OFFSET_ALIGNMENT, SLOT_ALIGNMENT, SLOT_CLASS_COUNT,
          MAX_SECTION_BYTES,
          SizeOf,   \* size_of of GlobalHeader, RingDesc, ProducerPage, ConsumerPage, Sqe, Cqe
          Limits    \* the MIN_ and MAX_ limits of limits.rs, by name

SectionLayoutConstants ==
    /\ SLOT_ALIGNMENT \in Nat \ {0} /\ USER_VIEW_OFFSET_ALIGNMENT % SLOT_ALIGNMENT = 0
    /\ SLOT_CLASS_COUNT \in 1..4

Classes == 1..SLOT_CLASS_COUNT
PowerOfTwo(n) == \E k \in 0..16 : n = 2^k
Within(n, low, high) == low <= n /\ n <= high
Err(e) == [err |-> e]
Ok(v) == [ok |-> v]
IsOk(r) == "ok" \in DOMAIN r

End(region) == region.offset + region.length
Disjoint(a, b) == End(a) <= b.offset \/ End(b) <= a.offset
Inside(a, b) == b.offset <= a.offset /\ End(a) <= End(b)

-----------------------------------------------------------------------------
(* Placement.                                                               *)

checked_align_up(value, alignment) == ((value + alignment - 1) \div alignment) * alignment

place(cursor, len, len_align) ==
    LET length == checked_align_up(len, len_align) IN
    [region |-> [offset |-> cursor, length |-> length],
     next |-> cursor + checked_align_up(length, USER_VIEW_OFFSET_ALIGNMENT)]

\* The arena's classes one after another; an inactive class has no storage.
pack_arena(offset, requests) ==
    LET Step(state, request) ==
            IF request.slot_size = 0 \/ request.slot_count = 0
            THEN [state EXCEPT !.classes =
                     Append(@, [slot_size |-> 0, slot_count |-> 0, data_offset |-> 0])]
            ELSE LET data == checked_align_up(state.cursor, SLOT_ALIGNMENT) IN
                 [cursor |-> data + request.slot_size * request.slot_count,
                  classes |-> Append(state.classes,
                      [slot_size |-> request.slot_size, slot_count |-> request.slot_count,
                       data_offset |-> data])]
        packed == FoldLeft(Step, [cursor |-> offset, classes |-> <<>>], requests)
    IN [arena |-> [offset |-> offset,
                   length |-> checked_align_up(packed.cursor, USER_VIEW_OFFSET_ALIGNMENT) - offset],
        classes |-> packed.classes]

region_from_raw(offset, raw_length, page_size) ==
    [offset |-> offset, length |-> checked_align_up(raw_length, page_size)]

region_span(region) == checked_align_up(region.length, USER_VIEW_OFFSET_ALIGNMENT)

advance_region(offset, region) == offset + region_span(region)

\* The bytes of one ring's six regions, in the order compute places them.
RingBytes(topology) ==
    << SizeOf.ProducerPage, SizeOf.ConsumerPage, topology.sq_capacity * SizeOf.Sqe,
       SizeOf.ProducerPage, SizeOf.ConsumerPage, topology.cq_capacity * SizeOf.Cqe >>

CapacitiesLegal(topology) ==
    /\ Within(topology.sq_capacity, Limits.MIN_SQ_CAPACITY, Limits.MAX_SQ_CAPACITY)
    /\ Within(topology.cq_capacity, Limits.MIN_CQ_CAPACITY, Limits.MAX_CQ_CAPACITY)
    /\ PowerOfTwo(topology.sq_capacity) /\ PowerOfTwo(topology.cq_capacity)

\* SectionLayoutPlan::compute.
compute(setup, page_size) ==
    LET topology == setup.topology
        header == place(0, SizeOf.GlobalHeader, page_size)
        directory == place(header.next, topology.ring_count * SizeOf.RingDesc, page_size)
        stride == FoldLeft(LAMBDA cursor, bytes : place(cursor, bytes, page_size).next,
                           directory.next, RingBytes(topology)) - directory.next
        k2u == pack_arena(directory.next + stride * topology.ring_count, topology.k2u_slot_classes)
        u2k == pack_arena(End(k2u.arena), topology.u2k_slot_classes)
        names == place(End(u2k.arena), page_size, page_size)
    IN IF ~PowerOfTwo(page_size) THEN Err("InvalidPageSize")
       ELSE IF ~CapacitiesLegal(topology) THEN Err("InvalidCapacity")
       ELSE IF names.next > MAX_SECTION_BYTES THEN Err("SectionTooLarge")
       ELSE Ok([section_size |-> names.next, page_size |-> page_size,
                ring_count |-> topology.ring_count, sq_capacity |-> topology.sq_capacity,
                cq_capacity |-> topology.cq_capacity, ring_directory |-> directory.region,
                ring_base |-> directory.next, ring_stride |-> stride,
                k2u_slots |-> k2u.arena, u2k_slots |-> u2k.arena, notify_names |-> names.region,
                k2u_slot_classes |-> k2u.classes, u2k_slot_classes |-> u2k.classes,
                features |-> setup.selection, max_inflight |-> topology.max_inflight,
                session_epoch |-> 1])

\* A ring's regions one after another from its base, each advanced by the span of the last.
RegionsFrom(base, plan) ==
    FoldLeft(LAMBDA placed, bytes :
                 Append(placed, region_from_raw(
                     IF placed = <<>> THEN base
                     ELSE advance_region(placed[Len(placed)].offset, placed[Len(placed)]),
                     bytes, plan.page_size)),
             <<>>, RingBytes(plan))
RingAt(plan, index, order) ==
    LET placed == RegionsFrom(plan.ring_base + plan.ring_stride * index, plan) IN
    [ring_index |-> index, sq_producer |-> placed[order[1]], sq_consumer |-> placed[order[2]],
     sq_entries |-> placed[order[3]], cq_producer |-> placed[order[4]],
     cq_consumer |-> placed[order[5]], cq_entries |-> placed[order[6]]]

RingSharesPage(plan, index) == RingAt(plan, index, <<1, 2, 3, 4, 4, 6>>)
\* SectionLayoutPlan::ring: the regions of ring `index`, computed anew from the stride.
ring(plan, index) == RingAt(plan, index, <<1, 2, 3, 4, 5, 6>>)

rings(plan) == 0..(plan.ring_count - 1)

-----------------------------------------------------------------------------
(* The bytes of the section: header, ring descriptors, zero elsewhere.      *)

header(plan) ==
    [identity |-> [page_size |-> plan.page_size, session_epoch |-> plan.session_epoch,
                   section_size |-> plan.section_size, ring_count |-> plan.ring_count,
                   features |-> plan.features, max_inflight |-> plan.max_inflight],
     regions |-> [ring_directory |-> plan.ring_directory, k2u_slots |-> plan.k2u_slots,
                  u2k_slots |-> plan.u2k_slots, notify_names |-> plan.notify_names,
                  k2u_slot_classes |-> plan.k2u_slot_classes,
                  u2k_slot_classes |-> plan.u2k_slot_classes],
     padding |-> 0]

ring_desc(plan, index) ==
    [sq_capacity |-> plan.sq_capacity, cq_capacity |-> plan.cq_capacity,
     regions |-> ring(plan, index)]

construct(plan) ==
    [size |-> plan.section_size, header |-> header(plan),
     directory |-> [i \in rings(plan) |-> ring_desc(plan, i)], elsewhere |-> 0]

header_identity_matches(actual, expected) == actual.identity = expected.identity
header_regions_match(actual, expected) == actual.regions = expected.regions
ring_desc_matches(actual, expected) == actual = expected

\* validate_slot_arena: the class table must be exactly the packing of its own counts.
ActiveClass(class) == class.slot_size # 0 /\ class.slot_count # 0
ClassLegal(class) ==
    /\ Within(class.slot_size, Limits.MIN_SLOT_SIZE, Limits.MAX_SLOT_SIZE)
    /\ PowerOfTwo(class.slot_size)
    /\ Within(class.slot_count, Limits.MIN_SLOT_COUNT, Limits.MAX_SLOT_COUNT)

\* Active classes first, their sizes strictly increasing, inactive ones empty.
ClassesOrdered(classes) ==
    /\ ActiveClass(classes[1])
    /\ \A i \in Classes : IF ActiveClass(classes[i]) THEN ClassLegal(classes[i])
                          ELSE classes[i].slot_size = 0 /\ classes[i].slot_count = 0
    /\ \A i \in Classes \ {1} : ActiveClass(classes[i]) =>
          ActiveClass(classes[i - 1]) /\ classes[i - 1].slot_size < classes[i].slot_size

validate_slot_arena(section_size, arena, classes) ==
    /\ section_size # 0 /\ section_size <= MAX_SECTION_BYTES
    /\ arena.offset % USER_VIEW_OFFSET_ALIGNMENT = 0 /\ arena.length # 0
    /\ arena.length % USER_VIEW_OFFSET_ALIGNMENT = 0 /\ End(arena) <= section_size
    /\ ClassesOrdered(classes)
    /\ LET cursor(i) == IF i = 1 THEN arena.offset
                        ELSE classes[i - 1].data_offset
                             + classes[i - 1].slot_size * classes[i - 1].slot_count
           active == {i \in Classes : ActiveClass(classes[i])}
       IN /\ \A i \in Classes : classes[i].data_offset =
                 IF i \in active THEN checked_align_up(cursor(i), SLOT_ALIGNMENT) ELSE 0
          /\ checked_align_up(cursor(Max(active) + 1), USER_VIEW_OFFSET_ALIGNMENT) = End(arena)

\* Header and directory must be those of the layout recomputed from the request.
validate_decoded_header_directory_v21(head, directory, setup, epoch) ==
    /\ PowerOfTwo(head.identity.page_size)
    /\ epoch # 0 /\ head.identity.session_epoch = epoch
    /\ \E computed \in {compute(setup, head.identity.page_size)} :
          /\ IsOk(computed)
          /\ \E plan \in {[computed.ok EXCEPT !.session_epoch = epoch]} :
                /\ header_identity_matches(head, header(plan))
                /\ header_regions_match(head, header(plan))
                /\ head.padding = 0
                /\ \A i \in rings(plan) : ring_desc_matches(directory[i], ring_desc(plan, i))
                /\ validate_slot_arena(plan.section_size, head.regions.k2u_slots,
                                       head.regions.k2u_slot_classes)
                /\ validate_slot_arena(plan.section_size, head.regions.u2k_slots,
                                       head.regions.u2k_slot_classes)

validate_finished_section_v21(image, setup, epoch) ==
    /\ End(image.header.regions.ring_directory) <= image.size
    /\ validate_decoded_header_directory_v21(image.header, image.directory, setup, epoch)
    /\ image.size >= image.header.identity.section_size
    /\ image.elsewhere = 0

\* master_region_span: the pages the driver locks for the header, a ring or the arena.
master_region_span(plan, region) ==
    CASE region[1] = "HeaderDirectory" -> [offset |-> 0, length |-> End(plan.ring_directory)]
      [] region[1] = "U2kArena" -> plan.u2k_slots
      [] region[1] = "Ring" -> LET r == ring(plan, region[2])
                  IN [offset |-> r.sq_producer.offset,
                      length |-> End(r.cq_entries) - r.sq_producer.offset]
=============================================================================
