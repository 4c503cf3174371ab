---------------------------- MODULE SessionSetup ----------------------------
(***************************************************************************)
(* SETUP seen from both ends.  The daemon validates its own request before  *)
(* it sends it; the driver validates the bytes again under its platform     *)
(* profile, lays the section out, fills it, issues the notification         *)
(* credits, maps the views and answers; the daemon recomputes everything it *)
(* can, proves the mappings the operating system reports, and builds its    *)
(* rings.  The operating system may report one view wrongly mapped.         *)
(***************************************************************************)
EXTENDS SlotGrant, FiniteSets

CONSTANTS PAGE_SIZE, Requests, Profiles, Owners, Lengths,
          Served     \* requests whose mappings may be faulty and whose sessions exchange grants

VARIABLES pc,        \* where the handshake stands
          request,   \* SetupRequestV1 as sent
          profile,   \* the profile the driver was built for
          mine,      \* the daemon's own validation of the request
          theirs,    \* the driver's validation of the request
          plan,      \* the driver's SectionLayoutPlan
          image,     \* header and directory of the section
          table,     \* the driver's GrantTable
          credits,   \* credits the driver issued
          views,     \* what is mapped into the daemon, by view ordinal
          output,    \* SessionResultV1 and its tail
          native,    \* the daemon's NativeSession
          grants     \* the daemon's ledger, and the last buffer it resolved

vars == <<pc, request, profile, mine, theirs, plan, image, table, credits, views,
          output, native, grants>>
driver == <<theirs, plan, image, table, credits, views, output>>

Nothing == [none |-> TRUE]

-----------------------------------------------------------------------------
(* Features.                                                                *)

BASE_REQUIRED_PROTOCOL_MASK == {"SECURITY"}
UNSELECTABLE_PROTOCOL_MASK == {"REPARSE", "TOKEN_DONATION", "NOTIFY_NAMES", "CASE_SENSITIVE_NAMES"}
IMPLEMENTED_PROTOCOL_MASK == {"SECURITY"}
protocol_mask(p) == {"PT", "MMAP", "HOT_RESTART", "EXACTLY_ONCE", "SECURITY"}
                    \cup (IF p = "Win7X64" THEN {} ELSE {"MAPPED_IO"})
os_capability_mask(p) ==
    CASE p = "Win10X64" -> {"MDL_NO_WRITE", "MDL_NO_EXECUTE"}
      [] p = "Win10Arm64" -> {"MDL_NO_WRITE", "MDL_NO_EXECUTE", "ARM64"}
      [] p = "Win7X64" -> {}

restart_pair_is_matched(set) == ("HOT_RESTART" \in set) = ("EXACTLY_ONCE" \in set)

validate_implementation_protocol_mask(p, mask) ==
    /\ BASE_REQUIRED_PROTOCOL_MASK \subseteq mask
    /\ mask \cap UNSELECTABLE_PROTOCOL_MASK = {}
    /\ mask \subseteq protocol_mask(p)
    /\ restart_pair_is_matched(mask)

select_features_v21(p, r, mask, probe, service_sid) ==
    LET implemented == r.offered_features \cap protocol_mask(p) \cap mask
        required == r.required_features \cup BASE_REQUIRED_PROTOCOL_MASK
        detected == os_capability_mask(p) \cap probe
        mappable == {"MDL_NO_WRITE", "MDL_NO_EXECUTE"} \subseteq detected
        runtime == implemented \ (IF mappable THEN {} ELSE {"MAPPED_IO"})
    IN IF ~validate_implementation_protocol_mask(p, mask) THEN Err("InvalidImplementationMask")
       ELSE IF ~(r.required_features \subseteq r.offered_features)
            THEN Err("RequiredFeatureNotOffered")
       ELSE IF ~restart_pair_is_matched(r.offered_features)
               \/ ~restart_pair_is_matched(r.required_features) THEN Err("RestartPairMismatch")
       ELSE IF ~(required \subseteq runtime) THEN Err("RequiredFeatureUnavailable")
       ELSE IF "HOT_RESTART" \in r.required_features /\ ~service_sid
            THEN Err("DedicatedServiceSidRequired")
       ELSE IF ~(r.required_os_capabilities \subseteq detected)
            THEN Err("RequiredOsCapabilityUnavailable")
       ELSE Ok([selected_features |-> IF service_sid THEN runtime
                                      ELSE runtime \ {"HOT_RESTART", "EXACTLY_ONCE"},
                detected_os_capabilities |-> detected])

map_feature_selection_error(e) ==
    CASE e \in {"RequiredFeatureNotOffered", "RestartPairMismatch", "InvalidImplementationMask"} ->
             "InvalidParameter"
      [] e = "DedicatedServiceSidRequired" -> "AccessDenied"
      [] OTHER -> "NotSupported"

-----------------------------------------------------------------------------
(* validate_setup_request_v1.                                               *)

\* validate_control_prefix and finish_prefix: version, then flags, then size.
validate_control_prefix(r) ==
    IF r.length < 8 THEN "InvalidParameter"
    ELSE IF r.struct_version # 1 THEN "RevisionMismatch"
    ELSE IF r.required_flags # 0 THEN "NotSupported"
    ELSE IF r.struct_size < Limits.SETUP_REQUEST_V1_SIZE \/ r.struct_size > r.length
         THEN "InvalidParameter"
    ELSE "Valid"

validate_slot_class_requests(classes) == ClassesOrdered(classes)

\* The smallest class that holds every credit (class numbers start at 0).
select_notification_credit_class(classes, size, count) ==
    LET fits == {i \in Classes : /\ classes[i].slot_size # 0 /\ classes[i].slot_size >= size
                                 /\ classes[i].slot_count >= count}
    IN IF fits = {} THEN Err("none") ELSE Ok(Min(fits) - 1)

eligible_progress_slot_count(classes) ==
    FoldSet(LAMBDA i, total : total + classes[i].slot_count, 0,
            {i \in Classes : classes[i].slot_size >= Limits.MIN_CONTROL_SLOT_SIZE})

\* Credits drawn from a class that also serves requests are not counted for progress.
ReservedForCredits(r, chosen) ==
    IF r.u2k_slot_classes[chosen + 1].slot_size >= Limits.MIN_CONTROL_SLOT_SIZE
    THEN r.notification_credit_count ELSE 0

validate_topology(r) ==
    LET limit == Min({r.ring_count * Limits.MAX_NOTIFICATION_CREDITS_PER_RING,
                      Limits.MAX_NOTIFICATION_CREDITS_PER_SESSION})
        chosen == select_notification_credit_class(r.u2k_slot_classes,
                      r.notification_credit_size, r.notification_credit_count)
    IN IF ~Within(r.ring_count, Limits.MIN_RING_COUNT, Limits.MAX_RING_COUNT)
          \/ ~CapacitiesLegal(r) \/ ~Within(r.max_inflight, 1, Limits.MAX_INFLIGHT)
       THEN Err("InvalidParameter")
       ELSE IF Limits.SYSTEM_REQID_BASE + r.ring_count * Limits.SYSTEM_REQUEST_SLOTS_PER_RING
               > Limits.GLOBAL_EXTERNAL_CHANGE_ACK_REQID THEN Err("IntegerOverflow")
       ELSE IF ~validate_slot_class_requests(r.k2u_slot_classes)
               \/ ~validate_slot_class_requests(r.u2k_slot_classes)
               \/ ~Within(r.notification_credit_size, Limits.MIN_NOTIFICATION_CREDIT_SIZE,
                          Limits.MAX_NOTIFICATION_CREDIT_SIZE)
               \/ ~PowerOfTwo(r.notification_credit_size)
               \/ r.notification_credit_size % SLOT_ALIGNMENT # 0
               \/ ~Within(r.notification_credit_count, r.ring_count, limit)
               \/ r.notification_credit_count * r.notification_credit_size
                  > Limits.MAX_NOTIFICATION_CREDIT_BYTES
               \/ ~IsOk(chosen)
       THEN Err("InvalidParameter")
       ELSE IF eligible_progress_slot_count(r.k2u_slot_classes)
               < r.ring_count * Limits.MIN_K2U_PROGRESS_SLOTS_PER_RING
               \/ eligible_progress_slot_count(r.u2k_slot_classes)
                  < ReservedForCredits(r, chosen.ok)
                    + r.ring_count * Limits.MIN_U2K_PROGRESS_SLOTS_PER_RING
       THEN Err("InvalidParameter")
       ELSE Ok([ring_count |-> r.ring_count, sq_capacity |-> r.sq_capacity,
                cq_capacity |-> r.cq_capacity, max_inflight |-> r.max_inflight,
                k2u_slot_classes |-> r.k2u_slot_classes, u2k_slot_classes |-> r.u2k_slot_classes,
                notification_credit_count |-> r.notification_credit_count,
                notification_credit_size |-> r.notification_credit_size,
                notification_credit_class |-> chosen.ok])

validate_setup_request_v1(r, p, mask, probe, service_sid) ==
    LET prefix == validate_control_prefix(r)
        selection == select_features_v21(p, r, mask, probe, service_sid)
        topology == validate_topology(r)
    IN IF prefix # "Valid" THEN Err(prefix)
       ELSE IF \/ r.struct_size # Limits.SETUP_REQUEST_V1_SIZE
               \/ r.length # Limits.SETUP_REQUEST_V1_SIZE
               \/ r.reserved # 0 \/ r.min_abi_minor > r.max_abi_minor THEN Err("InvalidParameter")
       ELSE IF r.abi_major # 2 \/ r.min_abi_minor > 1 \/ r.max_abi_minor < 1
            THEN Err("RevisionMismatch")
       ELSE IF ~IsOk(selection) THEN Err(map_feature_selection_error(selection.err))
       ELSE IF ~IsOk(topology) THEN topology
       ELSE Ok([topology |-> topology.ok, selection |-> selection.ok])

-----------------------------------------------------------------------------
(* The result: prefix, one descriptor per view, one per credit.             *)

WritableKinds == <<"SQ_CONSUMER_PAGE", "CQ_ENTRIES", "CQ_PRODUCER_PAGE">>
KindRegion(r, kind) == CASE kind = "SQ_CONSUMER_PAGE" -> r.sq_consumer
                         [] kind = "CQ_ENTRIES" -> r.cq_entries
                         [] kind = "CQ_PRODUCER_PAGE" -> r.cq_producer

\* result_layout_parts.
result_layout_parts(topology) ==
    LET view_count == 2 + 3 * topology.ring_count
        credits_offset == Limits.SESSION_RESULT_V1_PREFIX_SIZE
                          + view_count * Limits.USER_VIEW_DESC_SIZE
    IN [view_count |-> view_count, credits_offset |-> credits_offset,
        total |-> credits_offset
                  + topology.notification_credit_count * Limits.NOTIFICATION_CREDIT_V1_SIZE]

session_result_size_v1(topology) == result_layout_parts(topology).total

alias_count_of(p) == 3 * p.ring_count + 2

ViewDesc(region, kind, r, access) ==
    [section_offset |-> region.offset, length |-> region.length, kind |-> kind,
     ring_index |-> r, access |-> access]

WholeSection(size) == [offset |-> 0, length |-> size]
GLOBAL_RING_INDEX == 99

\* The views build_output emits, in order: the section, three per ring, the U2K arena.
EmittedViews(p) ==
    LET Of(v) == LET r == ring(p, (v - 2) \div 3)
                     kind == WritableKinds[((v - 2) % 3) + 1]
                 IN ViewDesc(KindRegion(r, kind), kind, (v - 2) \div 3, "READ_WRITE")
    IN [v \in 1..alias_count_of(p) |->
          CASE v = 1 -> ViewDesc(WholeSection(p.section_size), "SECTION_READ_ONLY",
                                 GLOBAL_RING_INDEX, "READ_ONLY")
            [] v = alias_count_of(p) -> ViewDesc(p.u2k_slots, "U2K_ARENA",
                                                 GLOBAL_RING_INDEX, "READ_WRITE")
            [] OTHER -> Of(v)]

\* build_output.
build_output(p, setup, mapped, issued) ==
    LET parts == result_layout_parts(setup.topology) IN
    [prefix |-> [session_epoch |-> 1, section_size |-> p.section_size,
                 selection |-> setup.selection, view_count |-> parts.view_count,
                 credits_offset |-> parts.credits_offset, struct_size |-> parts.total,
                 notification_credit_count |-> setup.topology.notification_credit_count,
                 ring_count |-> setup.topology.ring_count,
                 max_inflight |-> setup.topology.max_inflight],
     views |-> [v \in 1..parts.view_count |->
                   [desc |-> EmittedViews(p)[v], user_address |-> mapped[v].address]],
     credits |-> issued]

\* SessionViewLayout::from_trusted: what a setup and its layout let a result contain.
validate_writable_region(region, section_size, page_size) ==
    /\ region.offset % USER_VIEW_OFFSET_ALIGNMENT = 0
    /\ region.length # 0 /\ region.length % page_size = 0 /\ End(region) <= section_size

writable_region(p, ordinal) ==
    IF ordinal = 3 * p.ring_count THEN p.u2k_slots
    ELSE KindRegion(ring(p, ordinal \div 3), WritableKinds[(ordinal % 3) + 1])

validate_section_size_v21(size) ==
    size # 0 /\ size % USER_VIEW_OFFSET_ALIGNMENT = 0 /\ size <= MAX_SECTION_BYTES

from_trusted(setup, p) ==
    LET ordinals == 0..(3 * p.ring_count) IN
    IF \/ p.ring_count # setup.topology.ring_count
       \/ ~PowerOfTwo(p.page_size) \/ USER_VIEW_OFFSET_ALIGNMENT % p.page_size # 0
       \/ ~validate_section_size_v21(p.section_size)
       \/ \E o \in ordinals : ~validate_writable_region(writable_region(p, o), p.section_size,
                                                         p.page_size)
       \/ p.u2k_slots.offset = 0 \/ p.u2k_slots.length % USER_VIEW_OFFSET_ALIGNMENT # 0
       \/ \E o1, o2 \in ordinals : o1 # o2 /\ ~Disjoint(writable_region(p, o1), writable_region(p, o2))
    THEN Err("InvalidRegion") ELSE Ok([plan |-> p, setup |-> setup])

\* validate_result_views and validate_expected_view.
validate_result_views(out, expected) ==
    LET p == expected.plan IN
    /\ out.views[1].desc = ViewDesc(WholeSection(p.section_size), "SECTION_READ_ONLY",
                                    GLOBAL_RING_INDEX, "READ_ONLY")
    /\ \A i \in rings(p), k \in 1..3 :
          out.views[1 + 3 * i + k].desc =
              ViewDesc(<<ring(p, i).sq_consumer, ring(p, i).cq_entries, ring(p, i).cq_producer>>[k],
                       WritableKinds[k], i, "READ_WRITE")
    /\ out.views[2 + 3 * p.ring_count].desc =
           ViewDesc(p.u2k_slots, "U2K_ARENA", GLOBAL_RING_INDEX, "READ_WRITE")

validate_notification_credit_shape(credit, topology) ==
    /\ credit.ring_index < topology.ring_count /\ credit.kind = "SLOT"
    /\ credit.access = "U2K_WRITE" /\ credit.offset = 0
    /\ credit.length = topology.notification_credit_size
    /\ IsOk(from_raw(credit.token)) /\ class(credit.token) = topology.notification_credit_class
    /\ index(credit.token)
       < topology.u2k_slot_classes[topology.notification_credit_class + 1].slot_count

validate_result_credits(out, topology) ==
    LET ordinals == 0..(out.prefix.notification_credit_count - 1)
        OnRing(i) == Cardinality({k \in ordinals : out.credits[k].ring_index = i})
        counts == {OnRing(i) : i \in 0..(topology.ring_count - 1)}
    IN /\ \A k \in ordinals : validate_notification_credit_shape(out.credits[k], topology)
       /\ \A j, k \in ordinals :
             index(out.credits[j].token) = index(out.credits[k].token) => j = k
       /\ Max(counts) <= Limits.MAX_NOTIFICATION_CREDITS_PER_RING
       /\ Max(counts) - Min(counts) <= 1

validate_session_result_v1(out, expected) ==
    LET topology == expected.setup.topology
        parts == result_layout_parts(topology)
    IN /\ out.prefix.session_epoch = 1
       /\ validate_section_size_v21(out.prefix.section_size)
       /\ out.prefix.section_size = expected.plan.section_size
       /\ out.prefix.selection = expected.setup.selection
       /\ out.prefix.ring_count = topology.ring_count
       /\ out.prefix.max_inflight = topology.max_inflight
       /\ out.prefix.notification_credit_count = topology.notification_credit_count
       /\ out.prefix.view_count = parts.view_count
       /\ out.prefix.credits_offset = parts.credits_offset
       /\ out.prefix.struct_size = parts.total
       /\ validate_result_views(out, expected)
       /\ validate_result_credits(out, topology)

-----------------------------------------------------------------------------
(* The operating system's side: where the aliases land and what is mapped.  *)

MappingFaults == {"gap", "uncommitted", "private", "protection", "executable", "guarded"}
Faults == MappingFaults \cup {"none", "split", "overlap", "misaligned"}

\* Aliases at ascending or descending page-aligned addresses; a fault concerns one view.
Mapped(p, ascending, fault, victim) ==
    LET all == 1..alias_count_of(p)
        desc == EmittedViews(p)
        Below(v) == IF ascending THEN 1..(v - 1) ELSE (v + 1)..alias_count_of(p)
        Placed(v) == PAGE_SIZE + FoldSet(LAMBDA w, a : a + desc[w].length, 0, Below(v))
        Address(v) == CASE v = victim /\ fault = "misaligned" -> Placed(v) + 1
                        [] v = victim /\ fault = "overlap" -> Placed(alias_count_of(p))
                        [] OTHER -> Placed(v)
        Exact(v) == IF desc[v].access = "READ_ONLY" THEN "PAGE_READONLY" ELSE "PAGE_READWRITE"
        Region(v, faulty, from, size) ==
            [base |-> from, size |-> size,
             state |-> IF faulty /\ fault = "uncommitted" THEN "MEM_RESERVE" ELSE "MEM_COMMIT",
             type |-> IF faulty /\ fault = "private" THEN "MEM_PRIVATE" ELSE "MEM_MAPPED",
             protection |-> CASE faulty /\ fault \in {"executable", "guarded"} -> fault
                              [] faulty /\ fault = "protection" -> "PAGE_NOACCESS"
                              [] OTHER -> Exact(v)]
        \* A query may answer page by page; the fault is then on the last page.
        Split(v) == LET head == desc[v].length - PAGE_SIZE IN
                    << Region(v, FALSE, Address(v), head),
                       Region(v, TRUE, Address(v) + head, PAGE_SIZE) >>
    IN [v \in all |->
          [address |-> Address(v), desc |-> desc[v], length |-> desc[v].length,
           regions |-> CASE v = victim /\ fault = "gap" -> <<Head(Split(v))>>
                         [] v = victim /\ fault # "gap" /\ desc[v].length > PAGE_SIZE -> Split(v)
                         [] OTHER -> <<Region(v, v = victim, Address(v), desc[v].length)>>]]

-----------------------------------------------------------------------------
(* The daemon's checks of the answer.                                       *)

\* prove_mapping: committed, mapped, exactly protected regions without a gap to the end.
prove_mapping(view) ==
    LET expected == IF view.desc.access = "READ_ONLY" THEN "PAGE_READONLY" ELSE "PAGE_READWRITE"
        Step(walk, r) ==
            IF walk.refused \/ walk.cursor >= view.address + view.length THEN walk
            ELSE IF r.base > walk.cursor THEN [walk EXCEPT !.refused = TRUE]
            ELSE IF r.base + r.size <= walk.cursor THEN walk
            ELSE [cursor |-> r.base + r.size,
                  refused |-> r.state # "MEM_COMMIT" \/ r.type # "MEM_MAPPED"
                              \/ r.protection # expected]
        walked == FoldLeft(Step, [cursor |-> view.address, refused |-> FALSE], view.regions)
    IN ~walked.refused /\ walked.cursor >= view.address + view.length

\* canonical_span: the span a descriptor of this kind must have under the daemon's own plan.
canonical_span(p, desc) ==
    CASE desc.kind = "SECTION_READ_ONLY" -> WholeSection(p.section_size)
      [] desc.kind = "U2K_ARENA" -> p.u2k_slots
      [] OTHER -> KindRegion(ring(p, desc.ring_index), desc.kind)

decode_views(out, p) ==
    \A v \in DOMAIN out.views :
        /\ out.views[v].user_address # 0 /\ out.views[v].user_address % PAGE_SIZE = 0
        /\ out.views[v].desc.length # 0
        /\ LET span == canonical_span(p, out.views[v].desc)
           IN span.offset = out.views[v].desc.section_offset /\ span.length = out.views[v].desc.length

reject_overlap(mapped) ==
    \A v, w \in DOMAIN mapped :
        v # w /\ mapped[v].desc.access = "READ_WRITE" /\ mapped[w].desc.access = "READ_WRITE"
        => \/ mapped[v].address + mapped[v].length <= mapped[w].address
           \/ mapped[w].address + mapped[w].length <= mapped[v].address

\* build_rings and attach_daemon: the daemon's pointers for one ring.
ViewOf(mapped, kind, i) ==
    CHOOSE v \in DOMAIN mapped : mapped[v].desc.kind = kind /\ mapped[v].desc.ring_index = i

build_rings(p, mapped) ==
    [i \in rings(p) |->
        [layout |-> ring(p, i),
         section_read_only |-> mapped[ViewOf(mapped, "SECTION_READ_ONLY", GLOBAL_RING_INDEX)].address,
         sq_consumer |-> mapped[ViewOf(mapped, "SQ_CONSUMER_PAGE", i)].address,
         cq_entries |-> mapped[ViewOf(mapped, "CQ_ENTRIES", i)].address,
         cq_producer |-> mapped[ViewOf(mapped, "CQ_PRODUCER_PAGE", i)].address]]

attach_daemon(r) ==
    [sq_producer |-> r.section_read_only + r.layout.sq_producer.offset,
     sq_entries |-> r.section_read_only + r.layout.sq_entries.offset,
     cq_consumer |-> r.section_read_only + r.layout.cq_consumer.offset,
     sq_consumer |-> r.sq_consumer, cq_producer |-> r.cq_producer, cq_entries |-> r.cq_entries]

-----------------------------------------------------------------------------
(* The handshake.                                                           *)

SECURITY_ONLY == {"SECURITY"}
serve_setup(r) == validate_setup_request_v1(r, "Win10X64", SECURITY_ONLY,
                                            {"MDL_NO_WRITE", "MDL_NO_EXECUTE"}, TRUE)

Init ==
    /\ pc = "send" /\ request \in Requests /\ profile \in Profiles
    /\ mine = Nothing /\ theirs = Nothing /\ plan = Nothing /\ image = Nothing
    /\ table = Nothing /\ credits = Nothing /\ views = Nothing /\ output = Nothing
    /\ native = Nothing /\ grants = [ledger |-> <<>>, buffer |-> Nothing]

\* setup_with_request up to the ioctl: a request the daemon would refuse is never sent.
Send ==
    /\ pc = "send"
    /\ LET v == serve_setup(request) IN
       IF IsOk(v) THEN mine' = v.ok /\ pc' = "validate"
       ELSE mine' = mine /\ pc' = "unsent"
    /\ UNCHANGED <<request, profile, driver, native, grants>>

\* snapshot_and_validate_setup: the same bytes under the driver's own profile.
SnapshotAndValidate ==
    /\ pc = "validate"
    /\ LET v == validate_setup_request_v1(request, profile, IMPLEMENTED_PROTOCOL_MASK,
                                          os_capability_mask(profile), TRUE)
       IN IF IsOk(v) THEN theirs' = v.ok /\ pc' = "layout"
          ELSE theirs' = theirs /\ pc' = "refused"
    /\ UNCHANGED <<request, profile, mine, plan, image, table, credits, views, output, native, grants>>

\* NativeSetupPlan::begin: layout, recomputation, and the caller's output capacity.
ComputeLayout ==
    /\ pc = "layout"
    /\ LET p == compute(theirs, PAGE_SIZE) IN
       IF ~IsOk(p) THEN plan' = plan /\ pc' = "refused"
       ELSE /\ plan' = p.ok
            /\ pc' = IF session_result_size_v1(mine.topology) < session_result_size_v1(theirs.topology)
                     THEN "failed" ELSE "construct"
    /\ UNCHANGED <<request, profile, mine, theirs, image, table, credits, views, output, native, grants>>

ConstructAndValidate ==
    /\ pc = "construct"
    /\ \E built \in {construct(plan)} :
          /\ image' = built
          /\ pc' = IF validate_finished_section_v21(built, theirs, 1) THEN "grants" ELSE "failed"
    /\ UNCHANGED <<request, profile, mine, theirs, plan, table, credits, views, output, native, grants>>

AllocateGrants ==
    /\ pc = "grants"
    /\ LET made == initialize(theirs.topology)
           issued == issue_notification_credits(made.ok)
       IN IF IsOk(made) /\ IsOk(issued)
          THEN table' = issued.ok.table /\ credits' = issued.ok.credits /\ pc' = "map"
          ELSE UNCHANGED <<table, credits>> /\ pc' = "failed"
    /\ UNCHANGED <<request, profile, mine, theirs, plan, image, views, output, native, grants>>

\* perform_view: every alias mapped; the environment decides where, and what is reported.
MapViews(ascending, fault, victim) ==
    /\ pc = "map"
    /\ fault = "none" => victim = 1
    /\ fault # "none" => request \in Served
    /\ fault = "overlap" => victim \in 2..(alias_count_of(plan) - 1)
    /\ views' = Mapped(plan, ascending, fault, victim)
    /\ native' = [none |-> TRUE, fault |-> fault]
    /\ pc' = "answer"
    /\ UNCHANGED <<request, profile, mine, theirs, plan, image, table, credits, output, grants>>

\* build_output, then validate_output over the driver's own bytes.
BuildAndValidateOutput ==
    /\ pc = "answer"
    /\ output' = build_output(plan, theirs, views, credits)
    /\ \E expected \in {from_trusted(theirs, plan)} :
          pc' = IF IsOk(expected) /\ validate_session_result_v1(output', expected.ok)
                THEN "answered" ELSE "failed"
    /\ UNCHANGED <<request, profile, mine, theirs, plan, image, table, credits, views, native, grants>>

\* setup_with_request after the ioctl.
Accepts ==
    /\ output.prefix.struct_size = session_result_size_v1(mine.topology)
    /\ \E own \in {compute(mine, PAGE_SIZE)} :
          /\ IsOk(own)
          /\ \E expected \in {from_trusted(mine, own.ok)} :
                IsOk(expected) /\ validate_session_result_v1(output, expected.ok)
          /\ decode_views(output, own.ok)
    /\ \A v \in DOMAIN views : prove_mapping(views[v])
    /\ reject_overlap(views)
    /\ validate_decoded_header_directory_v21(image.header, image.directory, mine, 1)

Open ==
    /\ pc = "answered"
    /\ IF Accepts
       THEN \E built \in {build_rings(compute(mine, PAGE_SIZE).ok, views)} :
            /\ native' = [fault |-> native.fault, rings |-> [i \in DOMAIN built |-> attach_daemon(built[i])]]
            /\ pc' = "open"
       ELSE native' = native /\ pc' = "rejected"
    /\ UNCHANGED <<request, profile, mine, driver, grants>>

-----------------------------------------------------------------------------
(* After SETUP: the daemon's ledger of request grants.                      *)

DaemonArena(direction) ==
    IF direction = "K2u" THEN Arena("K2u", plan.k2u_slots, plan.k2u_slot_classes)
    ELSE Arena("U2k", plan.u2k_slots, plan.u2k_slot_classes)

IssueGrant(direction, owner, c, i, length) ==
    /\ pc = "open" /\ request \in Served /\ native.fault = "none"
    /\ LET token == try_new(c, i, 1).ok
           issued == IF direction = "K2u"
                     THEN issue_k2u(grants.ledger, DaemonArena("K2u"), 1, owner, token, length)
                     ELSE issue_u2k(grants.ledger, DaemonArena("U2k"), 1, owner, token, length)
       IN /\ grants' = [grants EXCEPT !.ledger = IF IsOk(issued) THEN issued.ok ELSE @]
          /\ pc' = IF IsOk(issued) THEN "granted" ELSE pc
    /\ UNCHANGED <<request, profile, mine, driver, native>>

\* resolve and resolve_body (or write_body) of one reference a message carries.
Resolve(owner, policy, access, token, offset, length) ==
    /\ pc = "granted"
    /\ LET ref == [token |-> token, offset |-> offset, length |-> length,
                   kind |-> "SLOT", access |-> access, reserved |-> 0]
           found == resolve(grants.ledger, 1, ref, owner, policy)
           body == resolve_body(plan.section_size, found.ok)
       IN grants' = [grants EXCEPT !.buffer =
              IF IsOk(found) /\ IsOk(body)
              THEN [range |-> body.ok, owner |-> owner, policy |-> policy, access |-> access]
              ELSE Nothing]
    /\ pc' = "resolved"
    /\ UNCHANGED <<request, profile, mine, driver, native>>

Policies == {"Exact", "ShrinkOnly", "DerivedSubrange"}
Accesses == {"K2U_READ_ONLY", "U2K_WRITE"}
ClassIndexes == 0..(SLOT_CLASS_COUNT - 1)
\* The token that was granted, and one that was not.
Tokens == {grants.ledger[k].issued.token + d : k \in DOMAIN grants.ledger, d \in {0, 2^ClassBits}}

Next ==
    \/ Send \/ SnapshotAndValidate \/ ComputeLayout \/ ConstructAndValidate \/ AllocateGrants
    \/ pc = "map" /\ \E ascending \in BOOLEAN, fault \in Faults, victim \in 1..alias_count_of(plan) :
                         MapViews(ascending, fault, victim)
    \/ BuildAndValidateOutput \/ Open
    \/ pc = "open" /\ \E direction \in {"K2u", "U2k"}, c \in ClassIndexes, i \in 0..1, length \in Lengths :
          IssueGrant(direction, CHOOSE owner \in Owners : TRUE, c, i, length)
    \/ pc = "granted" /\ \E owner \in Owners, policy \in Policies, access \in Accesses, offset \in Lengths,
          length \in Lengths : \E token \in Tokens : Resolve(owner, policy, access, token, offset, length)

Spec == Init /\ [][Next]_vars

-----------------------------------------------------------------------------
(* Properties.                                                              *)

Opened == pc \in {"open", "granted", "resolved"}

\* The two ends of SETUP agree.  Once the driver has accepted a request, every later stage
\* (finished-section check, credit issue, output check) succeeds; it refuses a request the
\* daemon sent only for a section that is too large or for another platform profile; and
\* with the x64 driver the daemon rejects no answer unless a mapping is faulty.
SetupAgrees ==
    /\ pc # "failed"
    /\ pc = "refused" => profile # "Win10X64" \/ ~IsOk(compute(mine, PAGE_SIZE))
    /\ pc = "rejected" => profile # "Win10X64" \/ native.fault \notin {"none", "split"}

\* A session is opened only over mappings that are committed, mapped, exactly protected,
\* aligned, gap-free and not overlapping (prove_mapping, decode_views, reject_overlap).
FaultyMappingRefused == Opened => native.fault \in {"none", "split"}

DriverRegions(p) ==
    { WholeSection(PAGE_SIZE), p.ring_directory, p.k2u_slots, p.notify_names }
    \cup UNION {{ring(p, i).sq_producer, ring(p, i).sq_entries, ring(p, i).cq_consumer} : i \in rings(p)}
MasterOf(p, v) ==
    IF v = 1 THEN <<"HeaderDirectory">> ELSE IF v = alias_count_of(p) THEN <<"U2kArena">>
    ELSE <<"Ring", (v - 2) \div 3>>

\* No page the daemon may write holds anything of the driver's (header, directory, SQ entries,
\* driver cursors, K2U bodies, notify names); every writable alias lies in the master MDL it
\* is built from; and everything lies in the section.
WritablePagesOwned ==
    pc = "answered" =>
        \A v \in DOMAIN views \ {1} :
            LET span == [offset |-> views[v].desc.section_offset, length |-> views[v].length] IN
            /\ \A r \in DriverRegions(plan) : Disjoint(span, r) /\ Inside(r, WholeSection(plan.section_size))
            /\ Inside(span, master_region_span(plan, MasterOf(plan, v)))

\* The section offset and the access behind an address of the daemon.
Behind(address) ==
    LET v == CHOOSE w \in DOMAIN views : /\ views[w].address <= address
                                         /\ address < views[w].address + views[w].length
    IN <<views[v].desc.section_offset + address - views[v].address, views[v].desc.access>>

\* Each pointer attach_daemon builds leads to the offset where the driver keeps that region,
\* writable exactly for the regions the daemon produces.
PointersResolve ==
    pc = "open" => \A i \in rings(plan) :
        LET mineRing == native.rings[i]
            theirRing == ring(plan, i)
        IN /\ \A f \in {"sq_producer", "sq_entries", "cq_consumer"} :
                 Behind(mineRing[f]) = <<theirRing[f].offset, "READ_ONLY">>
           /\ \A f \in {"sq_consumer", "cq_producer", "cq_entries"} :
                 Behind(mineRing[f]) = <<theirRing[f].offset, "READ_WRITE">>

CreditSlot(k) == resolve_slot(Arena("U2k", plan.u2k_slots, plan.u2k_slot_classes), credits[k].token).ok
\* Credits name distinct slots of the writable arena; driver and daemon compute the same bytes
\* for each; the table entry of its token is the issued one; and enough slots large enough for
\* requests stay free of credits on every topology that was accepted.
CreditsUsable ==
    pc = "map" =>
        /\ \A k \in DOMAIN credits :
              /\ Inside(CreditSlot(k).range, plan.u2k_slots)
              /\ \A j \in DOMAIN credits \ {k} : Disjoint(CreditSlot(j).range, CreditSlot(k).range)
              /\ grant_source_range(table, from_published(plan.u2k_slot_classes).ok, credits[k].token,
                                    [offset |-> 0, length |-> CreditSlot(k).slot_size])
                 = Ok(CreditSlot(k).range)
              /\ table.entries[canonical_entry_index(table, credits[k].token)] =
                    [token |-> credits[k].token, ring_index |-> credits[k].ring_index,
                     generation |-> 1, state |-> "Issued"]
        /\ LET large == {c \in Classes : theirs.topology.u2k_slot_classes[c].slot_size
                                          >= Limits.MIN_CONTROL_SLOT_SIZE}
               free == {i \in DOMAIN table.entries : table.entries[i] = FREE
                           /\ \E c \in large : /\ table.bases[c] <= i
                                 /\ i < table.bases[c] + theirs.topology.u2k_slot_classes[c].slot_count}
           IN Cardinality(free)
              >= theirs.topology.ring_count * Limits.MIN_U2K_PROGRESS_SLOTS_PER_RING

\* Whatever a message's BufferRef claims, the bytes resolve hands out lie inside the span that
\* was granted, in the arena of the grant's direction, for the owner it was granted to.
RefsConfined ==
    pc = "resolved" /\ grants.buffer # Nothing =>
        LET g == grants.ledger[1]
            b == grants.buffer
            slot == g.capability.range
        IN /\ Inside(b.range, [offset |-> slot.offset, length |-> g.issued.length])
           /\ b.owner = g.owner /\ b.access = g.access
           /\ Inside(b.range, DaemonArena(g.capability.direction).region)
           /\ b.policy \in {"Exact", "ShrinkOnly"} => b.range.offset = slot.offset
=============================================================================
