------------------------------ MODULE BootLoad ------------------------------
(***************************************************************************)
(* DriverEntry's load transaction, the permanent BootContext section and   *)
(* its publication lock, the MountId burn of SETUP, and unload.            *)
(*                                                                         *)
(* The section and the lock event are named permanent objects: they        *)
(* survive a failed load and an unload, so what one load leaves behind is  *)
(* what the next one finds.  The header is published through a seqlock     *)
(* (an odd sequence marks a publication in progress) by threads that hold  *)
(* the event; SETUP also captures it without holding anything.  All SETUPs *)
(* of one driver share the driver's BootObjects: the held flag and the     *)
(* guard in it are plain fields of the root.                               *)
(***************************************************************************)
EXTENDS Integers, Sequences

CONSTANTS Drivers,        \* driver images that may be loaded, unloaded, reloaded
          Setups,         \* SETUP requests, each made once
          DriverOf,       \* the driver a SETUP calls
          MaxLoads,       \* bound: loads attempted altogether
          MaxFailures,    \* bound: native calls that fail altogether
          LastSequence,   \* the last value of the load and mount counters
          CAPTURE_ATTEMPTS

ASSUME BootLoadAssumption ==
    /\ DriverOf \in [Setups -> Drivers]
    /\ Drivers \cap Setups = {}
    /\ {MaxLoads, MaxFailures, LastSequence, CAPTURE_ATTEMPTS} \subseteq Nat

VARIABLES event,      \* the lock event: exists, signalled
          section,    \* the BootContext section's name, mode and header words
          boot,       \* per driver: its BootObjects and the owner of them
          plan,       \* per driver: the load plan, the unwind in progress
          own,        \* per driver: the other resources the load acquired
          th,         \* per thread: where it is, what it captured or publishes
          loads, failures,
          committed,  \* history: the header images committed so far
          minted,     \* history: load generations and mount ids handed out
          reminted    \* history: one was handed out twice

vars == <<event, section, boot, plan, own, th, loads, failures, committed, minted, reminted>>

Threads == Drivers \cup Setups

Root(t) == IF t \in Drivers THEN t ELSE DriverOf[t]

(* ---- records ---- *)

NoImage == [seq |-> 0, gen |-> 0, mount |-> 0, ready |-> FALSE]

NoSection == [named |-> FALSE, temporary |-> FALSE, slots |-> FALSE,
              seq |-> 0, gen |-> 0, mount |-> 0, ready |-> FALSE]

NewBootObjects == [held |-> FALSE, guard |-> FALSE, lock |-> FALSE, handle |-> FALSE,
                   view |-> FALSE, at |-> "context"]

NewPlan == [pc |-> "unloaded", next |-> 0, created |-> FALSE, ready |-> FALSE,
            validation |-> "none", todo |-> <<>>]

IdleThread == [pc |-> "idle", first |-> 0, img |-> NoImage, tries |-> 0, holds |-> FALSE]

Returned == [IdleThread EXCEPT !.pc = "returned"]

(* ---- the load plan (core) ---- *)

LOAD_EFFECTS ==
    << "OpenAndAcquireBootLockEvent", "OpenOrCreateBootSection", "MapSystemView",
       "ValidateOrInitialize", "PublishLoadGeneration", "ReleaseBootLockEvent",
       "RegisterEtw", "AllocateDriverState", "RegisterProcessNotify",
       "CreateProviderSecure", "CreateFscontrolSecure", "CreateProviderDosLink",
       "PublishProvider", "PublishFscontrol", "RegisterFilesystem" >>

lock_event_open(p) == p.next >= 1
lock_event_held(p) == p.next \in 1..5
section_open(p) == p.next >= 2
system_view_mapped(p) == p.next >= 3

\* The boot arm of the unwind, over the five ownership facts.  A load whose
\* section is not mapped yet holds the lock: the rows where it does not are
\* left out.
BootUndo(p) ==
    LET temporary == p.created /\ ~p.ready
    IN  CASE ~lock_event_open(p) -> <<>>
          [] lock_event_open(p) /\ ~section_open(p) ->
               <<"ReleaseBootLockEvent", "CloseBootLockEvent">>
          [] section_open(p) /\ ~system_view_mapped(p) /\ temporary ->
               <<"MakeNewBootSectionTemporary", "CloseBootSection",
                 "ReleaseBootLockEvent", "CloseBootLockEvent">>
          [] section_open(p) /\ ~system_view_mapped(p) /\ ~temporary ->
               <<"CloseBootSection", "ReleaseBootLockEvent", "CloseBootLockEvent">>
          [] system_view_mapped(p) /\ lock_event_held(p) /\ temporary ->
               <<"UnmapSystemView", "MakeNewBootSectionTemporary", "CloseBootSection",
                 "ReleaseBootLockEvent", "CloseBootLockEvent">>
          [] system_view_mapped(p) /\ lock_event_held(p) /\ ~temporary ->
               <<"UnmapSystemView", "CloseBootSection",
                 "ReleaseBootLockEvent", "CloseBootLockEvent">>
          [] system_view_mapped(p) /\ ~lock_event_held(p) /\ temporary ->
               <<"UnmapSystemView", "MakeNewBootSectionTemporary", "CloseBootSection",
                 "CloseBootLockEvent">>
          [] system_view_mapped(p) /\ ~lock_event_held(p) /\ ~temporary ->
               <<"UnmapSystemView", "CloseBootSection", "CloseBootLockEvent">>

\* The unwind of a load that owns all but the last effect; one that owns fewer
\* starts further down.
ROLLBACK_FSCONTROL_PUBLISHED ==
    << "UnpublishFscontrol", "UnpublishProvider", "RemoveProviderDosLink",
       "DeleteFscontrol", "DeleteProvider", "UnregisterProcessNotify",
       "ReleaseDriverState", "UnregisterEtw",
       "UnmapSystemView", "CloseBootSection", "CloseBootLockEvent" >>

\* Mutant: an unwind that forgets it still holds the publication lock.
rollback_keeps_lock(p) ==
    SelectSeq(BootUndo(p), LAMBDA e : e # "ReleaseBootLockEvent")

\* p.next effects have completed: the table entry for what they own.
rollback_effects(p) ==
    IF p.next > 6 THEN SubSeq(ROLLBACK_FSCONTROL_PUBLISHED, 15 - p.next, 11) ELSE BootUndo(p)

Succeeded(p) ==
    LET n == p.next + 1
    IN  [p EXCEPT !.next = n, !.pc = IF n = Len(LOAD_EFFECTS) THEN "loaded" ELSE "loading"]

Failed(p) == [p EXCEPT !.pc = "unwinding", !.todo = rollback_effects(p)]

\* The effects whose native call can fail.
MayFail ==
    { "OpenAndAcquireBootLockEvent", "OpenOrCreateBootSection", "MapSystemView",
      "ValidateOrInitialize", "RegisterEtw", "AllocateDriverState",
      "RegisterProcessNotify", "CreateProviderSecure", "CreateFscontrolSecure",
      "CreateProviderDosLink" }

Effect(d) == LOAD_EFFECTS[plan[d].next + 1]

(* ---- the header planners (core) ---- *)

plan_new_context == [seq |-> 2, gen |-> 1, mount |-> 0, ready |-> TRUE]

InitializingImage == [seq |-> 1, gen |-> 1, mount |-> 0, ready |-> FALSE]

AdoptsExisting(img) == img.ready /\ section.slots /\ img.gen < LastSequence

plan_existing_context(img) == [img EXCEPT !.seq = @ + 2, !.gen = @ + 1]

CanBurn(img) == img.ready /\ img.mount < LastSequence

plan_mount_burn(img) == [img EXCEPT !.seq = @ + 2, !.mount = @ + 1]

(* ---- thread steps ---- *)

At(t, pc) == th[t].pc = pc

Goto(t, pc) == th' = [th EXCEPT ![t].pc = pc]

\* A load effect, or an undo of one, is done.
Done(d) == plan' = [plan EXCEPT ![d] = Succeeded(@)]

Undone(d) == plan' = [plan EXCEPT ![d].todo = Tail(@)]

\* A refused load effect starts the unwind; a refused SETUP rolls back, which
\* releases the lock if this SETUP holds it.
RefuseThread(t) ==
    IF t \in Drivers
      THEN /\ plan' = [plan EXCEPT ![t] = Failed(@)]
           /\ th' = [th EXCEPT ![t] = [IdleThread EXCEPT !.holds = th[t].holds]]
      ELSE /\ th' = [th EXCEPT ![t] = IF th[t].holds
                                        THEN [@ EXCEPT !.pc = "release"] ELSE Returned]
           /\ UNCHANGED plan

(* BootLockCell::enter: a live guard on this driver is a refusal. *)
AcquireEnter(t) ==
    /\ At(t, "enter")
    /\ IF boot[Root(t)].held
         THEN RefuseThread(t)
         ELSE Goto(t, "wait") /\ UNCHANGED plan
    /\ UNCHANGED <<event, section, boot, own, loads, failures, committed, minted, reminted>>

(* The bounded wait: satisfied, it resets the synchronization event. *)
AcquireWait(t) ==
    /\ At(t, "wait")
    /\ event.signalled
    /\ event' = [event EXCEPT !.signalled = FALSE]
    /\ th' = [th EXCEPT ![t].pc = "finish", ![t].holds = TRUE]
    /\ UNCHANGED <<section, boot, plan, own, loads, failures, committed, minted, reminted>>

(* The 30 second timeout: no ownership, the event is not set. *)
AcquireTimeout(t) ==
    /\ At(t, "wait")
    /\ ~event.signalled
    /\ RefuseThread(t)
    /\ UNCHANGED <<event, section, boot, own, loads, failures, committed, minted, reminted>>

(* BootLockCell::finish_wait and the stored guard. *)
AcquireFinish(t) ==
    LET d == Root(t)
    IN  /\ At(t, "finish")
        /\ boot' = [boot EXCEPT ![d].held = TRUE, ![d].guard = TRUE, ![d].lock = TRUE]
        /\ IF t \in Drivers
             THEN Goto(t, "idle") /\ plan' = [plan EXCEPT ![t] = Succeeded(@)]
             ELSE Goto(t, "burn") /\ UNCHANGED plan
        /\ UNCHANGED <<event, section, own, loads, failures, committed, minted, reminted>>

(* capture_record: the sequence, the body words, the sequence again. *)
Retry(t) ==
    IF th[t].tries + 1 >= CAPTURE_ATTEMPTS
      THEN RefuseThread(t)
      ELSE th' = [th EXCEPT ![t].pc = "capture", ![t].tries = @ + 1] /\ UNCHANGED plan

CaptureFirst(t) ==
    /\ At(t, "capture")
    /\ IF section.seq = 0 \/ section.seq % 2 # 0
         THEN Retry(t)
         ELSE /\ th' = [th EXCEPT ![t].pc = "captureGen", ![t].first = section.seq]
              /\ UNCHANGED plan
    /\ UNCHANGED <<event, section, boot, own, loads, failures, committed, minted, reminted>>

CaptureGen(t) ==
    /\ At(t, "captureGen")
    /\ th' = [th EXCEPT ![t].pc = "captureMount",
                        ![t].img = [NoImage EXCEPT !.gen = section.gen, !.ready = section.ready]]
    /\ UNCHANGED <<event, section, boot, plan, own, loads, failures, committed, minted, reminted>>

CaptureMount(t) ==
    /\ At(t, "captureMount")
    /\ th' = [th EXCEPT ![t].pc = "captureSecond", ![t].img.mount = section.mount]
    /\ UNCHANGED <<event, section, boot, plan, own, loads, failures, committed, minted, reminted>>

\* Mutant: the second sequence read only has to be even.
CaptureEvenOnly(t) ==
    /\ At(t, "captureSecond")
    /\ IF section.seq % 2 # 0
         THEN Retry(t)
         ELSE /\ th' = [th EXCEPT ![t].pc = "captured", ![t].tries = 0,
                                  ![t].img.seq = th[t].first]
              /\ UNCHANGED plan
    /\ UNCHANGED <<event, section, boot, own, loads, failures, committed, minted, reminted>>

CaptureSecond(t) ==
    /\ At(t, "captureSecond")
    /\ IF section.seq # th[t].first
         THEN Retry(t)
         ELSE /\ th' = [th EXCEPT ![t].pc = "captured", ![t].tries = 0,
                                  ![t].img.seq = th[t].first]
              /\ UNCHANGED plan
    /\ UNCHANGED <<event, section, boot, own, loads, failures, committed, minted, reminted>>

Capture(t) ==
    CaptureFirst(t) \/ CaptureGen(t) \/ CaptureMount(t) \/ CaptureSecond(t)

(* publish_record: the in-progress sequence, the body words, the commit. *)
PublishBegin(t) ==
    /\ At(t, "publish")
    /\ section' = [section EXCEPT !.seq = th[t].img.seq - 1]
    /\ Goto(t, "publishGen")
    /\ UNCHANGED <<event, boot, plan, own, loads, failures, committed, minted, reminted>>

PublishGen(t) ==
    /\ At(t, "publishGen")
    /\ section' = [section EXCEPT !.gen = th[t].img.gen, !.ready = th[t].img.ready]
    /\ Goto(t, "publishMount")
    /\ UNCHANGED <<event, boot, plan, own, loads, failures, committed, minted, reminted>>

PublishMount(t) ==
    /\ At(t, "publishMount")
    /\ section' = [section EXCEPT !.mount = th[t].img.mount]
    /\ Goto(t, "publishCommit")
    /\ UNCHANGED <<event, boot, plan, own, loads, failures, committed, minted, reminted>>

(* The commit; an INITIALIZING header is followed by the slots and READY. *)
PublishCommit(t) ==
    LET img == th[t].img
        mint == IF t \in Drivers THEN <<"load", img.gen>> ELSE <<"mount", img.mount>>
    IN  /\ At(t, "publishCommit")
        /\ section' = [section EXCEPT !.seq = img.seq]
        /\ IF ~img.ready
             THEN Goto(t, "slots") /\ UNCHANGED <<plan, committed, minted, reminted>>
             ELSE /\ committed' = committed \cup {img}
                  /\ minted' = minted \cup {mint}
                  /\ reminted' = (reminted \/ mint \in minted)
                  /\ IF t \in Drivers
                       THEN /\ plan' = [plan EXCEPT ![t] = [Succeeded(@) EXCEPT !.ready = TRUE]]
                            /\ Goto(t, "idle")
                       ELSE Goto(t, "release") /\ UNCHANGED plan
        /\ UNCHANGED <<event, boot, own, loads, failures>>

InitializeFreeSlots(t) ==
    /\ At(t, "slots")
    /\ section' = [section EXCEPT !.slots = TRUE]
    /\ th' = [th EXCEPT ![t].pc = "publish", ![t].img = plan_new_context]
    /\ UNCHANGED <<event, boot, plan, own, loads, failures, committed, minted, reminted>>

Publish(t) ==
    \/ PublishBegin(t) \/ PublishGen(t) \/ PublishMount(t) \/ PublishCommit(t)
    \/ InitializeFreeSlots(t)

(* release_lock_event: take the guard, set the event, clear the held flag. *)
ReleaseTake(t) ==
    /\ At(t, "release")
    /\ boot[Root(t)].guard
    /\ boot' = [boot EXCEPT ![Root(t)].guard = FALSE]
    /\ Goto(t, "releaseSet")
    /\ UNCHANGED <<event, section, plan, own, loads, failures, committed, minted, reminted>>

ReleaseSet(t) ==
    /\ At(t, "releaseSet")
    /\ event' = [event EXCEPT !.signalled = TRUE]
    /\ th' = [th EXCEPT ![t].pc = "releaseDrop", ![t].holds = FALSE]
    /\ UNCHANGED <<section, boot, plan, own, loads, failures, committed, minted, reminted>>

ReleaseDrop(t) ==
    /\ At(t, "releaseDrop")
    /\ boot' = [boot EXCEPT ![Root(t)].held = FALSE]
    /\ th' = [th EXCEPT ![t] = IF t \in Drivers THEN IdleThread ELSE Returned]
    /\ IF t \notin Drivers THEN UNCHANGED plan
       ELSE IF plan[t].pc = "loading" THEN Done(t) ELSE Undone(t)
    /\ UNCHANGED <<event, section, own, loads, failures, committed, minted, reminted>>

Release(t) == ReleaseTake(t) \/ ReleaseSet(t) \/ ReleaseDrop(t)

(* ---- DriverEntry ---- *)

Load(d) ==
    /\ plan[d].pc = "unloaded"
    /\ loads < MaxLoads
    /\ loads' = loads + 1
    /\ plan' = [plan EXCEPT ![d] = [NewPlan EXCEPT !.pc = "loading"]]
    /\ boot' = [boot EXCEPT ![d] = NewBootObjects]
    /\ UNCHANGED <<event, section, own, th, failures, committed, minted, reminted>>

Performing(d, effect) ==
    /\ plan[d].pc = "loading"
    /\ At(d, "idle")
    /\ Effect(d) = effect

(* Open, or create signalled, the permanent event; then acquire it. *)
OpenAndAcquireBootLockEvent(d) ==
    /\ Performing(d, "OpenAndAcquireBootLockEvent")
    /\ event' = IF event.exists THEN event ELSE [exists |-> TRUE, signalled |-> TRUE]
    /\ Goto(d, "enter")
    /\ UNCHANGED <<section, boot, plan, own, loads, failures, committed, minted, reminted>>

OpenOrCreateBootSection(d) ==
    /\ Performing(d, "OpenOrCreateBootSection")
    /\ section' = IF section.named THEN section ELSE [NoSection EXCEPT !.named = TRUE]
    /\ plan' = [plan EXCEPT ![d] = [Succeeded(@) EXCEPT !.created = ~section.named]]
    /\ boot' = [boot EXCEPT ![d].handle = TRUE]
    /\ UNCHANGED <<event, own, th, loads, failures, committed, minted, reminted>>

(* The reference or the descriptor check fails: the handle is closed, and a
   section just created stays, permanent and entirely zero. *)
OpenSectionRefused(d) ==
    /\ Performing(d, "OpenOrCreateBootSection")
    /\ failures < MaxFailures
    /\ failures' = failures + 1
    /\ section' = IF section.named THEN section ELSE [NoSection EXCEPT !.named = TRUE]
    /\ plan' = [plan EXCEPT ![d] = Failed(@)]
    /\ UNCHANGED <<event, boot, own, th, loads, committed, minted, reminted>>

MapSystemView(d) ==
    /\ Performing(d, "MapSystemView")
    /\ boot' = [boot EXCEPT ![d].view = TRUE]
    /\ Done(d)
    /\ UNCHANGED <<event, section, own, th, loads, failures, committed, minted, reminted>>

(* A never-published section must be entirely zero; any other is captured. *)
ValidateOrInitialize(d) ==
    /\ Performing(d, "ValidateOrInitialize")
    /\ IF section.seq # 0
         THEN Goto(d, "capture") /\ UNCHANGED plan
         ELSE IF section.slots \/ section.gen # 0
         THEN RefuseThread(d)
         ELSE /\ plan' = [plan EXCEPT ![d] = [Succeeded(@) EXCEPT !.validation = "NewPrepared"]]
              /\ th' = [th EXCEPT ![d].img = InitializingImage]
    /\ UNCHANGED <<event, section, boot, own, loads, failures, committed, minted, reminted>>

AdoptContext(d) ==
    /\ d \in Drivers
    /\ At(d, "captured")
    /\ IF AdoptsExisting(th[d].img) /\ ~plan[d].created
         THEN /\ plan' = [plan EXCEPT ![d] = [Succeeded(@) EXCEPT
                                !.validation = "ExistingReady", !.ready = TRUE]]
              /\ th' = [th EXCEPT ![d].pc = "idle", ![d].img = plan_existing_context(@)]
         ELSE RefuseThread(d)
    /\ UNCHANGED <<event, section, boot, own, loads, failures, committed, minted, reminted>>

PublishLoadGeneration(d) ==
    /\ Performing(d, "PublishLoadGeneration")
    /\ Goto(d, "publish")
    /\ UNCHANGED <<event, section, boot, plan, own, loads, failures, committed, minted, reminted>>

ReleaseBootLockEvent(d) ==
    /\ Performing(d, "ReleaseBootLockEvent")
    /\ Goto(d, "release")
    /\ UNCHANGED <<event, section, boot, plan, own, loads, failures, committed, minted, reminted>>

(* The state allocation moves the boot objects and the trace to the root. *)
AcquireResource(d) ==
    /\ plan[d].pc = "loading" /\ At(d, "idle")
    /\ plan[d].next >= 6
    /\ own' = [own EXCEPT ![d] = @ \cup {Effect(d)}]
    /\ boot' = IF Effect(d) = "AllocateDriverState"
                 THEN [boot EXCEPT ![d].at = "root"] ELSE boot
    /\ Done(d)
    /\ UNCHANGED <<event, section, th, loads, failures, committed, minted, reminted>>

(* A native call fails and the load unwinds what it owns. *)
FailEffect(d) ==
    /\ plan[d].pc = "loading" /\ At(d, "idle")
    /\ Effect(d) \in MayFail
    /\ failures < MaxFailures
    /\ failures' = failures + 1
    /\ plan' = [plan EXCEPT ![d] = Failed(@)]
    /\ UNCHANGED <<event, section, boot, own, th, loads, committed, minted, reminted>>

(* ---- the unwind of a failed load, and unload ---- *)

\* What each undo or unload effect gives back of what the load acquired.
Returns ==
    [ UnpublishFscontrol |-> "PublishFscontrol", UnpublishProvider |-> "PublishProvider",
      RemoveProviderDosLink |-> "CreateProviderDosLink",
      DeleteFscontrol |-> "CreateFscontrolSecure", DeleteProvider |-> "CreateProviderSecure",
      UnregisterProcessNotify |-> "RegisterProcessNotify", UnregisterEtw |-> "RegisterEtw",
      UnregisterFilesystem |-> "RegisterFilesystem",
      ReleaseDriverState |-> "AllocateDriverState" ]

\* Deleting a device object also ends its publication.
Gone(effect) ==
    {Returns[effect]} \cup
    CASE effect = "DeleteFscontrol" -> {"PublishFscontrol"}
      [] effect = "DeleteProvider" -> {"PublishProvider"}
      [] OTHER -> {}

Undoing(d, effect) ==
    /\ plan[d].pc = "unwinding"
    /\ At(d, "idle")
    /\ plan[d].todo # <<>>
    /\ Head(plan[d].todo) = effect

\* The boot objects can be undone only where the unwind finds them.
InContext(d, b) == IF boot[d].at = "context" THEN b ELSE boot[d]

UndoResource(d) ==
    \E effect \in DOMAIN Returns :
        /\ Undoing(d, effect)
        /\ own' = [own EXCEPT ![d] = @ \ Gone(effect)]
        /\ boot' = IF effect = "ReleaseDriverState"
                     THEN [boot EXCEPT ![d].at = "context"] ELSE boot
        /\ Undone(d)
        /\ UNCHANGED <<event, section, th, loads, failures, committed, minted, reminted>>

UndoUnmapSystemView(d) ==
    /\ Undoing(d, "UnmapSystemView")
    /\ boot' = [boot EXCEPT ![d] = InContext(d, [@ EXCEPT !.view = FALSE])]
    /\ Undone(d)
    /\ UNCHANGED <<event, section, own, th, loads, failures, committed, minted, reminted>>

UndoMakeTemporary(d) ==
    /\ Undoing(d, "MakeNewBootSectionTemporary")
    /\ section' = [section EXCEPT !.temporary = TRUE]
    /\ Undone(d)
    /\ UNCHANGED <<event, boot, own, th, loads, failures, committed, minted, reminted>>

\* A temporary section dies with its last handle.
CloseSection(d) ==
    IF section.temporary /\ \A o \in Drivers \ {d} : ~boot[o].handle
      THEN NoSection ELSE section

UndoCloseBootSection(d) ==
    /\ Undoing(d, "CloseBootSection")
    /\ boot' = [boot EXCEPT ![d] = InContext(d, [@ EXCEPT !.handle = FALSE])]
    /\ section' = IF boot[d].at = "context" THEN CloseSection(d) ELSE section
    /\ Undone(d)
    /\ UNCHANGED <<event, own, th, loads, failures, committed, minted, reminted>>

UndoReleaseBootLock(d) ==
    /\ Undoing(d, "ReleaseBootLockEvent")
    /\ Goto(d, "release")
    /\ UNCHANGED <<event, section, boot, plan, own, loads, failures, committed, minted, reminted>>

UndoCloseBootLock(d) ==
    /\ Undoing(d, "CloseBootLockEvent")
    /\ boot' = [boot EXCEPT ![d] = InContext(d, [@ EXCEPT !.lock = FALSE])]
    /\ Undone(d)
    /\ UNCHANGED <<event, section, own, th, loads, failures, committed, minted, reminted>>

Unwound(d) ==
    /\ plan[d].pc = "unwinding"
    /\ plan[d].todo = <<>>
    /\ plan' = [plan EXCEPT ![d] = NewPlan]
    /\ th' = [th EXCEPT ![d] = IdleThread]
    /\ UNCHANGED <<event, section, boot, own, loads, failures, committed, minted, reminted>>

UNLOAD_EFFECTS ==
    << "UnregisterProcessNotify", "UnregisterFilesystem", "DeleteFscontrol",
       "RemoveProviderDosLink", "DeleteProvider", "ReleaseBootObjects",
       "ReleaseDriverState", "UnregisterEtw" >>

(* Unload closes the SETUP admission first and waits for it to drain. *)
BeginUnload(d) ==
    /\ plan[d].pc = "loaded"
    /\ plan' = [plan EXCEPT ![d].pc = "unloading", ![d].todo = UNLOAD_EFFECTS]
    /\ UNCHANGED <<event, section, boot, own, th, loads, failures, committed, minted, reminted>>

SetupsDrained(d) == \A s \in Setups : DriverOf[s] = d => th[s].pc \in {"idle", "returned"}

UnloadStep(d) ==
    /\ plan[d].pc = "unloading"
    /\ plan[d].todo # <<>>
    /\ LET effect == Head(plan[d].todo)
       IN  /\ effect # "UnregisterProcessNotify" => SetupsDrained(d)
           /\ IF effect = "ReleaseBootObjects"
                THEN /\ boot' = [boot EXCEPT ![d].view = FALSE, ![d].handle = FALSE,
                                             ![d].lock = FALSE]
                     /\ section' = CloseSection(d)
                     /\ UNCHANGED own
                ELSE /\ own' = [own EXCEPT ![d] = @ \ Gone(effect)]
                     /\ UNCHANGED <<boot, section>>
    /\ Undone(d)
    /\ UNCHANGED <<event, th, loads, failures, committed, minted, reminted>>

Unloaded(d) ==
    /\ plan[d].pc = "unloading"
    /\ plan[d].todo = <<>>
    /\ plan' = [plan EXCEPT ![d] = NewPlan]
    /\ th' = [th EXCEPT ![d] = IdleThread]
    /\ UNCHANGED <<event, section, boot, own, loads, failures, committed, minted, reminted>>

(* ---- SETUP ---- *)

(* The boot instance identity is captured before the lock is taken. *)
SetupStart(s) ==
    /\ At(s, "idle")
    /\ plan[DriverOf[s]].pc = "loaded"
    /\ th' = [th EXCEPT ![s] = [IdleThread EXCEPT !.pc = "capture"]]
    /\ UNCHANGED <<event, section, boot, plan, own, loads, failures, committed, minted, reminted>>

SetupIdentified(s) ==
    /\ s \in Setups
    /\ At(s, "captured")
    /\ ~th[s].holds
    /\ Goto(s, "enter")
    /\ UNCHANGED <<event, section, boot, plan, own, loads, failures, committed, minted, reminted>>

\* Mutant: the burn starts from the image captured before the lock.
BurnStale(s) ==
    /\ At(s, "burn")
    /\ boot[DriverOf[s]].view /\ boot[DriverOf[s]].guard
    /\ Goto(s, "captured")
    /\ UNCHANGED <<event, section, boot, plan, own, loads, failures, committed, minted, reminted>>

(* burn_mount_id captures the header again, under the guard. *)
BurnMountId(s) ==
    /\ At(s, "burn")
    /\ boot[DriverOf[s]].view /\ boot[DriverOf[s]].guard
    /\ Goto(s, "capture")
    /\ UNCHANGED <<event, section, boot, plan, own, loads, failures, committed, minted, reminted>>

BurnPlanned(s) ==
    /\ s \in Setups
    /\ At(s, "captured")
    /\ th[s].holds
    /\ IF CanBurn(th[s].img)
         THEN /\ th' = [th EXCEPT ![s].pc = "publish", ![s].img = plan_mount_burn(@)]
              /\ UNCHANGED plan
         ELSE RefuseThread(s)
    /\ UNCHANGED <<event, section, boot, own, loads, failures, committed, minted, reminted>>

(* ---- the specification ---- *)

Init ==
    /\ event = [exists |-> FALSE, signalled |-> FALSE]
    /\ section = NoSection
    /\ boot = [d \in Drivers |-> NewBootObjects]
    /\ plan = [d \in Drivers |-> NewPlan]
    /\ own = [d \in Drivers |-> {}]
    /\ th = [t \in Threads |-> IdleThread]
    /\ loads = 0 /\ failures = 0
    /\ committed = {} /\ minted = {} /\ reminted = FALSE

ThreadStep(t) ==
    \/ AcquireEnter(t) \/ AcquireWait(t) \/ AcquireTimeout(t) \/ AcquireFinish(t)
    \/ Capture(t) \/ Publish(t) \/ Release(t)

LoadStep(d) ==
    \/ OpenAndAcquireBootLockEvent(d) \/ OpenOrCreateBootSection(d) \/ OpenSectionRefused(d)
    \/ MapSystemView(d) \/ ValidateOrInitialize(d) \/ AdoptContext(d)
    \/ PublishLoadGeneration(d) \/ ReleaseBootLockEvent(d)
    \/ AcquireResource(d) \/ FailEffect(d)
    \/ UndoResource(d) \/ UndoUnmapSystemView(d) \/ UndoMakeTemporary(d)
    \/ UndoCloseBootSection(d) \/ UndoReleaseBootLock(d) \/ UndoCloseBootLock(d)
    \/ Unwound(d) \/ UnloadStep(d) \/ Unloaded(d)

SetupStep(s) == SetupIdentified(s) \/ BurnMountId(s) \/ BurnPlanned(s)

Next ==
    \/ \E t \in Threads : ThreadStep(t)
    \/ \E d \in Drivers : Load(d) \/ LoadStep(d) \/ BeginUnload(d)
    \/ \E s \in Setups : SetupStart(s) \/ SetupStep(s)

Spec == Init /\ [][Next]_vars

(* ---- properties ---- *)

\* The publication lock is owned by at most one thread of all loaded drivers,
\* and it is never lost: the event is unsignalled exactly while some thread is
\* between its satisfied wait and its KeSetEvent, on every failure path too
\* (acquire_guard, release_lock_event, the load and SETUP rollbacks).
LockExact ==
    /\ \A t, u \in Threads : th[t].holds /\ th[u].holds => t = u
    /\ event.exists => (event.signalled <=> \A t \in Threads : ~th[t].holds)

\* No load generation and no mount sequence is handed out twice within a boot,
\* whatever loads fail, unload, or burn concurrently (plan_existing_context,
\* plan_mount_burn, publish_record).
IdentitiesUnique ==
    ~reminted

\* The header words of the section, as one image.
Header == [seq |-> section.seq, gen |-> section.gen,
           mount |-> section.mount, ready |-> section.ready]

\* READY: a permanent section whose header is the newest committed image.
Settled ==
    /\ section.named /\ ~section.temporary /\ section.slots
    /\ Header \in committed
    /\ \A img \in committed : img.seq <= section.seq

\* Whenever nobody owns the lock, a section that exists is one the next load
\* can take: entirely zero, or READY with an even sequence and its slots
\* filled, and equal to the newest committed image.
SettledSection ==
    event.signalled /\ section.named =>
        section = [NoSection EXCEPT !.named = TRUE] \/ Settled

\* Every image capture_record accepts, with or without the lock, is one that
\* was committed: a reader never mixes words of two publications.
CapturesWhole ==
    \A t \in Threads : At(t, "captured") => th[t].img \in committed

\* A load that failed and a driver that unloaded own nothing: the lock handle,
\* the section handle, the view, the root and every registration went back
\* (rollback_effects and undo; the unload suffix).
NothingLeft ==
    \A d \in Drivers : plan[d].pc = "unloaded" =>
        /\ own[d] = {}
        /\ ~boot[d].lock /\ ~boot[d].handle /\ ~boot[d].view
        /\ ~boot[d].guard /\ ~boot[d].held
        /\ ~th[d].holds

(* ---- the inductive invariant ---- *)

Images == [seq : Nat, gen : Nat, mount : Nat, ready : BOOLEAN]

Publishing == {"publishGen", "publishMount", "publishCommit"}

Reading == {"captureGen", "captureMount", "captureSecond"}

Releasing == {"release", "releaseSet", "releaseDrop"}

Owning == Publishing \cup {"finish", "burn", "publish", "slots", "release", "releaseSet"}

ThreadPcs == Owning \cup Reading \cup
             {"idle", "enter", "wait", "capture", "captured", "releaseDrop", "returned"}

Undos ==
    { "UnmapSystemView", "MakeNewBootSectionTemporary", "CloseBootSection",
      "ReleaseBootLockEvent", "CloseBootLockEvent", "ReleaseBootObjects" } \cup DOMAIN Returns

Sections == [named : BOOLEAN, temporary : BOOLEAN, slots : BOOLEAN,
             seq : Nat, gen : Nat, mount : Nat, ready : BOOLEAN]

ThreadRecs == [pc : ThreadPcs, first : Nat, img : Images, tries : Nat, holds : BOOLEAN]

Plans == [pc : {"unloaded", "loading", "loaded", "unwinding", "unloading"},
          next : 0..15, created : BOOLEAN, ready : BOOLEAN,
          validation : {"none", "NewPrepared", "ExistingReady"}, todo : Seq(Undos)]

Boots == [held : BOOLEAN, guard : BOOLEAN, lock : BOOLEAN, handle : BOOLEAN,
          view : BOOLEAN, at : {"context", "root"}]

TypeOK ==
    /\ event \in [exists : BOOLEAN, signalled : BOOLEAN]
    /\ section \in Sections
    /\ boot \in [Drivers -> Boots]
    /\ plan \in [Drivers -> Plans]
    /\ th \in [Threads -> ThreadRecs]
    /\ committed \subseteq Images
    /\ minted \subseteq {"load", "mount"} \X Nat
    /\ reminted \in BOOLEAN

\* Where DriverEntry is inside its effect number n.
LoadPcs(n) ==
    CASE n = 0 -> {"idle", "enter", "wait", "finish"}
      [] n = 3 -> {"idle", "capture", "captured"} \cup Reading
      [] n = 4 -> {"idle", "publish", "slots"} \cup Publishing
      [] n = 5 -> {"idle"} \cup Releasing
      [] OTHER -> {"idle"}

\* An effect the unwind of a load still has to undo.
Pending(d, effect) == \E i \in DOMAIN plan[d].todo : plan[d].todo[i] = effect

\* The lock is owned from the satisfied wait to KeSetEvent, and nowhere else.
ControlInv(t) ==
    /\ th[t].pc \in Owning => th[t].holds
    /\ th[t].pc \in {"enter", "wait", "releaseDrop", "returned"} => ~th[t].holds
    /\ t \in Setups => th[t].pc # "slots" /\ (th[t].pc = "idle" => ~th[t].holds)
    /\ t \in Drivers =>
         /\ plan[t].pc = "loading" =>
              /\ plan[t].next < 15
              /\ th[t].pc \in LoadPcs(plan[t].next)
              /\ th[t].pc = "idle" => (th[t].holds <=> plan[t].next \in 1..5)
              /\ plan[t].next = 3 => th[t].holds
         /\ plan[t].pc = "unwinding" =>
              /\ th[t].pc \in {"idle"} \cup Releasing
              /\ th[t].pc = "idle" => (th[t].holds <=> Pending(t, "ReleaseBootLockEvent"))
              /\ th[t].pc # "idle" => /\ plan[t].todo # <<>>
                                      /\ Head(plan[t].todo) = "ReleaseBootLockEvent"
         /\ plan[t].pc \notin {"loading", "unwinding"} => th[t].pc = "idle" /\ ~th[t].holds

LockInv == LockExact /\ (~event.exists => ~event.signalled /\ \A t \in Threads : ~th[t].holds)

\* What is left of an unwind: the lock goes after the section, and a section
\* made temporary is closed at once.
TodoInv(d) ==
    plan[d].pc = "unwinding" =>
        LET todo == plan[d].todo
        IN  /\ \A i, j \in DOMAIN todo :
                 todo[i] = "ReleaseBootLockEvent" =>
                     /\ todo[j] = "ReleaseBootLockEvent" => i = j
                     /\ todo[j] = "CloseBootSection" => j < i
            /\ \A i \in DOMAIN todo : todo[i] = "MakeNewBootSectionTemporary" =>
                 /\ i + 1 \in DOMAIN todo /\ todo[i + 1] = "CloseBootSection"
                 /\ Pending(d, "ReleaseBootLockEvent")
                 /\ plan[d].created /\ ~plan[d].ready /\ plan[d].next >= 2

Blank == ~section.slots /\ Header = NoImage

\* A load that created the section and has published nothing in it.
Created(d) == plan[d].created /\ ~plan[d].ready /\ plan[d].next >= 2 /\ th[d].holds

\* Whose the section is before anything was committed in it.
PlanInv(d) ==
    /\ Created(d) => committed = {}
    /\ plan[d].pc = "loading" /\ plan[d].next >= 5 => plan[d].ready
    /\ \/ plan[d].pc \in {"loaded", "unloading"}
       \/ plan[d].pc = "loading" /\ plan[d].next >= 5
       \/ boot[d].at = "root"
       \/ /\ plan[d].pc = "unwinding"
          /\ Pending(d, "CloseBootSection") /\ ~Pending(d, "ReleaseBootLockEvent")
       => committed # {}
    /\ boot[d].handle => section.named
    /\ plan[d].pc = "loading" /\ plan[d].next \in 2..4 => boot[d].handle
    /\ boot[d].handle /\ committed = {} =>
         \/ plan[d].pc = "loading" /\ plan[d].next \in 2..4
         \/ plan[d].pc = "unwinding" /\ Pending(d, "CloseBootSection")

\* The image that follows what is committed.
NextImage(t) ==
    \/ /\ committed = {} /\ t \in Drivers
       /\ th[t].img \in {InitializingImage, plan_new_context}
    \/ \E base \in committed :
         /\ \A img \in committed : img.seq <= base.seq
         /\ th[t].img = IF t \in Drivers THEN plan_existing_context(base) ELSE plan_mount_burn(base)

\* A thread about to publish.
Prepared(t) ==
    \/ th[t].pc = "publish"
    \/ t \in Drivers /\ plan[t].pc = "loading" /\ plan[t].next = 4 /\ th[t].pc = "idle"

\* A publication, before its first store and between its stores.
PublishInv(t) ==
    /\ Prepared(t) =>
         /\ NextImage(t) /\ section.named
         /\ th[t].img.ready => section.slots
         /\ IF committed = {} THEN section.seq = th[t].img.seq - 1 ELSE Settled
    /\ th[t].pc \in Publishing =>
         /\ NextImage(t) /\ section.named
         /\ th[t].img.ready => section.slots
         /\ section.seq = th[t].img.seq - 1
         /\ th[t].pc # "publishGen" => section.gen = th[t].img.gen /\ section.ready = th[t].img.ready
         /\ th[t].pc = "publishCommit" => section.mount = th[t].img.mount
    /\ th[t].pc = "slots" => committed = {} /\ section.seq = 1 /\ section.named

InFlight == Publishing \cup {"publish", "slots"}

\* The load whose next undo closes the section it made temporary.
Discards(d) ==
    /\ plan[d].pc = "unwinding" /\ th[d].pc = "idle" /\ Created(d)
    /\ plan[d].todo # <<>> /\ Head(plan[d].todo) = "CloseBootSection"

SectionInv ==
    /\ committed # {} => section.named /\ ~section.temporary /\ section.slots
    /\ (section.seq # 0 /\ section.seq % 2 = 0) => Settled
    /\ Blank \/ Settled \/ \E t \in Threads : th[t].pc \in InFlight
    /\ section.temporary => \E d \in Drivers : Discards(d)

\* What the words read so far are worth: all of one image, if the sequence is
\* still the first one read.
ReadInv(t) ==
    /\ th[t].pc \in Reading =>
         /\ committed # {}
         /\ th[t].first # 0 /\ th[t].first % 2 = 0 /\ th[t].first <= section.seq
         /\ th[t].holds => section.seq = th[t].first
         /\ section.seq = th[t].first =>
              /\ th[t].pc # "captureGen" =>
                   th[t].img.gen = section.gen /\ th[t].img.ready = section.ready
              /\ th[t].pc = "captureSecond" => th[t].img.mount = section.mount
    /\ th[t].pc = "captured" => /\ th[t].img \in committed
                                /\ th[t].holds => th[t].img = Header

\* Identities handed out are covered by the newest image.
MintInv ==
    /\ \A i \in committed : i.ready /\ i.seq # 0 /\ i.seq % 2 = 0
    /\ \A i, j \in committed : i.seq <= j.seq => i.gen <= j.gen /\ i.mount <= j.mount
    /\ \A id \in minted : \E i \in committed :
         id[2] <= (IF id[1] = "load" THEN i.gen ELSE i.mount)
    /\ IdentitiesUnique

IndInv ==
    /\ TypeOK /\ LockInv /\ SectionInv /\ MintInv
    /\ \A t \in Threads : ControlInv(t) /\ PublishInv(t) /\ ReadInv(t)
    /\ \A d \in Drivers : TodoInv(d) /\ PlanInv(d)

=============================================================================
