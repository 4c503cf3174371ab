------------------------------ MODULE MCDriver ------------------------------
(***************************************************************************)
(* How the driver comes up, for TLC: DriverEntry and its BootContext        *)
(* (BootLoad), the effect plan of one SETUP (SetupPlan) and what the two    *)
(* sides make of a SETUP request (SessionSetup).  The three share no state: *)
(* `comp` picks the one a behaviour is about.                               *)
(*                                                                          *)
(* SessionSetup counts sizes in units of 1 KiB and keeps the proportions    *)
(* that matter: a page is 2 units, the view alignment 4, so a region can be *)
(* shorter than its span, and slot sizes straddle both.                     *)
(***************************************************************************)
EXTENDS BootLoad

CONSTANTS RingCount, PAGE_SIZE, USER_VIEW_OFFSET_ALIGNMENT, SLOT_ALIGNMENT,
          SLOT_CLASS_COUNT, MAX_SECTION_BYTES, IndexBits, GenerationBits,
          Profiles, Owners, Lengths

VARIABLES comp,
          setupPc, setupNext, setupOwn, made, view, vnext, todo, receipt, modern,
          pc, request, profile, mine, theirs, agreed, image, table, credits,
          views, output, native, grants

\* Two SETUPs share the first driver, one calls the second.
MCDriverOf == [s \in Setups |-> IF s = "s3" THEN "d2" ELSE "d1"]

SizeOf == [GlobalHeader |-> 2, RingDesc |-> 1, ProducerPage |-> 2, ConsumerPage |-> 2,
           Sqe |-> 1, Cqe |-> 2]

Limits ==
    [MIN_SQ_CAPACITY |-> 2, MAX_SQ_CAPACITY |-> 8, MIN_CQ_CAPACITY |-> 2, MAX_CQ_CAPACITY |-> 4,
     MIN_SLOT_SIZE |-> 1, MAX_SLOT_SIZE |-> 8, MIN_SLOT_COUNT |-> 1, MAX_SLOT_COUNT |-> 8,
     MIN_RING_COUNT |-> 1, MAX_RING_COUNT |-> 3, MAX_INFLIGHT |-> 2,
     SYSTEM_REQID_BASE |-> 2, SYSTEM_REQUEST_SLOTS_PER_RING |-> 1,
     GLOBAL_EXTERNAL_CHANGE_ACK_REQID |-> 5,
     MIN_NOTIFICATION_CREDIT_SIZE |-> 2, MAX_NOTIFICATION_CREDIT_SIZE |-> 4,
     MAX_NOTIFICATION_CREDITS_PER_RING |-> 2, MAX_NOTIFICATION_CREDITS_PER_SESSION |-> 5,
     MAX_NOTIFICATION_CREDIT_BYTES |-> 10, MIN_CONTROL_SLOT_SIZE |-> 4,
     MIN_K2U_PROGRESS_SLOTS_PER_RING |-> 2, MIN_U2K_PROGRESS_SLOTS_PER_RING |-> 1,
     SETUP_REQUEST_V1_SIZE |-> 160, SESSION_RESULT_V1_PREFIX_SIZE |-> 136,
     USER_VIEW_DESC_SIZE |-> 32, NOTIFICATION_CREDIT_V1_SIZE |-> 32]

Class(size, count) == [slot_size |-> size, slot_count |-> count]
None == Class(0, 0)

\* build_setup_request: the request the daemon makes for a number of rings.
build_setup_request(ring_count) ==
    [length |-> 160, struct_size |-> 160, struct_version |-> 1, required_flags |-> 0,
     reserved |-> 0, abi_major |-> 2, min_abi_minor |-> 1, max_abi_minor |-> 1,
     offered_features |-> {"SECURITY"}, required_features |-> {"SECURITY"},
     required_os_capabilities |-> {}, ring_count |-> ring_count, sq_capacity |-> 8,
     cq_capacity |-> 2, max_inflight |-> 1,
     k2u_slot_classes |-> <<Class(4, 2 * ring_count), None, None>>,
     u2k_slot_classes |-> <<Class(2, IF ring_count = 0 THEN 1 ELSE ring_count),
                            Class(4, ring_count), None>>,
     notification_credit_count |-> IF ring_count = 0 THEN 1 ELSE ring_count,
     notification_credit_size |-> 2]

\* Topologies around the limits: credits in a class of their own or shared with requests.
Topologies ==
    {[build_setup_request(n) EXCEPT !.sq_capacity = 2, !.cq_capacity = 4,
         !.u2k_slot_classes = u2k, !.k2u_slot_classes = k2u,
         !.notification_credit_count = k, !.notification_credit_size = size] :
       n \in 1..3, k \in 1..5, size \in {2, 4},
       u2k \in {<<Class(2, 5), Class(4, 3), None>>, <<Class(4, 4), None, None>>,
                <<Class(1, 3), Class(2, 3), Class(8, 3)>>, <<Class(4, 4), Class(2, 4), None>>},
       k2u \in {<<Class(4, 6), None, None>>, <<Class(1, 1), Class(4, 2), Class(8, 2)>>}}

\* Requests that differ from the daemon's own in one field.
Envelopes ==
    LET r == build_setup_request(1) IN
    {[r EXCEPT !.length = 4], [r EXCEPT !.length = 161], [r EXCEPT !.struct_size = 159],
     [r EXCEPT !.struct_version = 2], [r EXCEPT !.required_flags = 1], [r EXCEPT !.reserved = 1],
     [r EXCEPT !.abi_major = 1], [r EXCEPT !.max_abi_minor = 0], [r EXCEPT !.max_abi_minor = 3],
     [r EXCEPT !.min_abi_minor = 2, !.max_abi_minor = 2], [r EXCEPT !.max_inflight = 0], [r EXCEPT !.sq_capacity = 6],
     [r EXCEPT !.cq_capacity = 1],
     [r EXCEPT !.required_features = {"SECURITY", "MAPPED_IO"}],
     [r EXCEPT !.offered_features = {}], [r EXCEPT !.offered_features = @ \cup {"HOT_RESTART"}],
     [r EXCEPT !.offered_features = @ \cup {"MAPPED_IO", "REPARSE"}],
     [r EXCEPT !.required_os_capabilities = {"MDL_NO_WRITE"}],
     [r EXCEPT !.required_os_capabilities = {"ARM64"}]}

Served == {build_setup_request(1), build_setup_request(2),
           [build_setup_request(1) EXCEPT
               !.u2k_slot_classes = <<Class(1, 3), Class(2, 3), Class(8, 3)>>]}
Requests == Topologies \cup Envelopes \cup Served \cup {build_setup_request(n) : n \in 0..4}

Setup == INSTANCE SetupPlan WITH pc <- setupPc, next <- setupNext, own <- setupOwn
Shake == INSTANCE SessionSetup WITH plan <- agreed

ASSUME SetupConstants == Setup!SetupPlanConstants
ASSUME SessionConstants == Shake!SlotGrantConstants /\ Shake!SectionLayoutConstants

setupvars == <<setupPc, setupNext, setupOwn, made, view, vnext, todo, receipt, modern>>
sessionvars == <<pc, request, profile, mine, theirs, agreed, image, table, credits, views,
                 output, native, grants>>

\* SETUP's plan and handshake have no state in a behaviour that is not about
\* them, and the drivers rest in their initial state.
Absent(v) == v = "absent"
NoPlan ==
    /\ Absent(setupPc) /\ Absent(setupNext) /\ Absent(setupOwn) /\ Absent(made) /\ Absent(view)
    /\ Absent(vnext) /\ Absent(todo) /\ Absent(receipt) /\ Absent(modern)
NoSession ==
    /\ Absent(pc) /\ Absent(request) /\ Absent(profile) /\ Absent(mine) /\ Absent(theirs)
    /\ Absent(agreed) /\ Absent(image) /\ Absent(table) /\ Absent(credits) /\ Absent(views)
    /\ Absent(output) /\ Absent(native) /\ Absent(grants)

DriverInit ==
    /\ Init
    /\ \/ comp = "load" /\ NoPlan /\ NoSession
       \/ comp = "setup" /\ Setup!Init /\ NoSession
       \/ comp = "session" /\ NoPlan /\ Shake!Init

LoadSteps == comp = "load" /\ Next /\ UNCHANGED <<comp, setupvars, sessionvars>>
SetupSteps == comp = "setup" /\ Setup!Next /\ UNCHANGED <<comp, vars, sessionvars>>
SessionSteps == comp = "session" /\ Shake!Next /\ UNCHANGED <<comp, vars, setupvars>>

DriverSpec ==
    DriverInit /\ [][LoadSteps \/ SetupSteps \/ SessionSteps]_<<comp, vars, setupvars, sessionvars>>

-----------------------------------------------------------------------------

\* A SETUP that failed at any effect, or half way through mapping its views,
\* holds nothing a completed effect acquired; and its views come down in an
\* order the memory manager accepts: no alias is mapped or unmapped outside the
\* captured process, no MDL freed under what still uses it (rollback_effects,
\* view_rollback).
SetupUnwinds ==
    /\ [](comp = "setup" => Setup!FailedReleasesCompleted)
    /\ [][comp = "setup" => Setup!ViewOrder]_setupvars

\* The two ends of SETUP agree: on the topology and the layout of the section,
\* on where every ring and slot lies, on a credit for every reservation; a
\* mapping reported wrong is refused, no page the daemon may write holds
\* anything of the driver's, and a buffer resolved from a grant lies inside the
\* slot it names, in the direction it was issued for (compute_section_layout,
\* prove_mapping, resolve).
SessionAgreed ==
    comp = "session" =>
        /\ Shake!SetupAgrees /\ Shake!FaultyMappingRefused /\ Shake!WritablePagesOwned
        /\ Shake!PointersResolve /\ Shake!CreditsUsable /\ Shake!RefsConfined
=============================================================================
