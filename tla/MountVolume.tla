----------------------------- MODULE MountVolume -----------------------------
(* One session's mounts and their teardown.                                 *)
(*                                                                          *)
(* MOUNT requests run the fixed transaction of driver/fsring-core/src/      *)
(* volume.rs through driver/fsring-fsd/src/volume.rs: each holds an access  *)
(* guard for its whole life, takes the VPB spin lock twice, a session       *)
(* reference in between, and hands everything to the cell's MountRendezvous *)
(* when it publishes; any refusal unwinds by table.  Once the session is    *)
(* claimed and its access has drained, the fence's dismount takes the mount *)
(* owner or joins whoever has it, and the rendezvous of driver/fsring-core/ *)
(* src/adapter/lifecycle.rs (four KEVENTs, two waiter counts) brings every  *)
(* arrival to a completion before the finalizer deactivates it.             *)
(*                                                                          *)
(* The terminal winner's fence is today's only caller of dismount, so in    *)
(* the driver as it stands Teardowns has one member; the rendezvous and the *)
(* join paths of the executor are written for any number.  Registry-lock    *)
(* holds are single steps.  `panic` is an `unreachable!` that was reached.  *)
EXTENDS Integers, Sequences, FiniteSets, SequencesExt

CONSTANTS Mounters,   \* MOUNT requests, one each; also names the device it makes
          Vpbs,       \* the volume parameter blocks the requests name
          Teardowns,  \* callers of dismount_and_delete_devices
          MaxMount    \* the last mount generation (u64::MAX in the code)

MountConstants == MaxMount \in Nat \ {0} /\ Cardinality(Teardowns) > 0

VARIABLES rv,      \* MountRendezvous
          ev,      \* which of its four events are signalled
          vpb,     \* v -> the device bound (or NoDevice) and VPB_MOUNTED
          lock,    \* who holds the VPB spin lock (or Free)
          dev,     \* device -> "none", "init", "exposed", "deleted"; its VCB
          mt,      \* MOUNT requests
          td,      \* dismount arrivals
          cell,    \* "Live", "Removing", "Deleted"
          strong,  \* the registry slot's strong count
          access,  \* requests inside the access rundown
          door,    \* "published", "unpublished" (the word is 0), "shut" (the rundown)
          verdict, \* the last VERIFY's answer
          panic

vars == <<rv, ev, vpb, lock, dev, mt, td, cell, strong, access, door, verdict, panic>>

NoDevice == "NoDevice"
Free == "Free"
NoGen == 0
Exhausted == MaxMount + 1

-----------------------------------------------------------------------------
(* MountRendezvous.                                                         *)

Signals == {"Complete", "WaitersDrained", "ResetComplete", "ResetWaitersDrained"}

\* next: the generation an Unmounted rendezvous will give; the code's Exhausted
\* state is Unmounted with next = Exhausted.  ord and rst: ordinary_waiters and reset_waiters.
RvInactive ==
  [st |-> "Inactive", gen |-> NoGen, next |-> NoGen, owner |-> NoDevice,
   ord |-> 0, rst |-> 0, last |-> NoGen, pend |-> {}]

RvActivate(r) == [r EXCEPT !.st = "Unmounted", !.next = 1]

Quiet(r) == r.ord = 0 /\ r.rst = 0 /\ r.pend = {}

CanInstall(r) == r.st = "Unmounted" /\ r.next # Exhausted /\ Quiet(r)

CommitInstall(r, m) ==
  [r EXCEPT !.st = "Publishing", !.gen = r.next, !.next = NoGen, !.owner = m]

CommitOwnerExposure(r) == [r EXCEPT !.st = "Present"]

\* The claim take_or_join will accept right now.
ExpectedTeardown(r) ==
  CASE r.st = "Present" -> [kind |-> "Owner", gen |-> r.gen]
    [] r.st \in {"TearingDown", "Done", "Resetting"} ->
         [kind |-> "Join", gen |-> r.gen]
    [] r.st = "Unmounted" -> [kind |-> "Absent", gen |-> r.next]
    [] OTHER -> [kind |-> "None", gen |-> NoGen]

\* The kind of claim, "Refused" when the rendezvous is not settled.
ClaimKind(r) ==
  CASE r.st = "Present" -> "Owner"
    [] r.st = "TearingDown" -> "Join"
    [] r.st = "Done" ->
         IF r.pend \cap {"Complete", "WaitersDrained"} = {} THEN "Join" ELSE "Refused"
    [] r.st = "Resetting" -> "ResetJoin"
    [] r.st = "Unmounted" -> IF Quiet(r) THEN "Absent" ELSE "Refused"
    [] OTHER -> "Refused"

TakeOrJoin(r) ==
  CASE ClaimKind(r) = "Owner" -> [r EXCEPT !.st = "TearingDown", !.owner = NoDevice]
    [] ClaimKind(r) = "Join" -> [r EXCEPT !.ord = @ + 1]
    [] ClaimKind(r) = "ResetJoin" -> [r EXCEPT !.rst = @ + 1]
    [] OTHER -> r

PublishDone(r) == [r EXCEPT !.st = "Done", !.pend = @ \cup {"Complete"}]

\* An ordinary waiter leaves into the reset count; the last one owes a signal.
ReleaseJoin(r) ==
  [r EXCEPT !.ord = @ - 1, !.rst = @ + 1,
            !.pend = IF r.ord = 1 THEN @ \cup {"WaitersDrained"} ELSE @]

CanPollDrain(r) == r.ord = 0 /\ r.pend \cap {"Complete", "WaitersDrained"} = {}

PollDrain(r) == [r EXCEPT !.st = "Resetting"]

FinishReset(r) == [r EXCEPT !.pend = @ \cup {"ResetComplete"}]

\* acknowledge_reset_signal also ends the generation.
Acknowledge(r, s) ==
  IF s = "ResetComplete"
  THEN [r EXCEPT !.pend = @ \ {s}, !.last = r.gen, !.gen = NoGen,
                 !.st = "Unmounted", !.next = r.gen + 1]
  ELSE [r EXCEPT !.pend = @ \ {s}]

FinishJoinedReset(r) ==
  [r EXCEPT !.rst = @ - 1,
            !.pend = IF r.rst = 1 THEN @ \cup {"ResetWaitersDrained"} ELSE @]

\* complete_owner and complete_joined through completion_cursor.
Completes(r, g) == r.st = "Unmounted" /\ r.last = g /\ Quiet(r)

\* matches_wait_observation: may a holder for generation g wait for event e?
MatchesWait(r, g, e) ==
  CASE r.st = "TearingDown" -> e = "Complete" /\ r.gen = g
    [] r.st = "Done" -> e # "ResetWaitersDrained" /\ r.gen = g
    [] r.st = "Resetting" -> e = "ResetComplete" /\ r.gen = g
    [] r.st = "Unmounted" ->
         e \in {"ResetComplete", "ResetWaitersDrained"} /\ r.last = g
    [] OTHER -> FALSE

Deactivate(r) == RvInactive

-----------------------------------------------------------------------------
(* The mount transaction.                                                   *)

SUCCESS_EFFECTS ==
  <<"AcquireVpb", "ValidateTarget", "ReleaseVpb", "AcquireSessionReference",
    "CreateMountedDevice", "AllocateVcb", "InitializeDeviceAndVcb",
    "AcquireVpb", "Revalidate", "BindVpb", "SetVpbMounted", "ReleaseVpb",
    "PublishMountOwner", "ClearDeviceInitializing">>

ROLLBACK_REFERENCE == <<"ReleaseSessionReference">>
ROLLBACK_VCB == <<"FreeVcb", "DeleteMountedDevice">> \o ROLLBACK_REFERENCE
ROLLBACK_COMMIT_VPB == <<"ReleaseVpbIfHeld">> \o ROLLBACK_VCB
ROLLBACK_BOUND_VPB_AFTER_RELEASE == <<"ClearUnpublishedVpbBinding">> \o ROLLBACK_VCB

\* Mutant: the unpublished binding is cleared after the VCB has gone.
RollbackBindingLast(effect) ==
  CASE effect = "ValidateTarget" -> <<"ReleaseVpbIfHeld">>
    [] effect = "AcquireSessionReference" -> << >>
    [] effect = "CreateMountedDevice" -> ROLLBACK_REFERENCE
    [] effect = "Revalidate" -> ROLLBACK_COMMIT_VPB
    [] effect = "PublishMountOwner" -> ROLLBACK_VCB \o <<"ClearUnpublishedVpbBinding">>

\* The tables for the effects that can refuse: pre_effect_rollback for a native
\* refusal, post_effect_rollback for a failed revalidation, and the owner
\* publication's own.
Rollback(effect) ==
  CASE effect = "ValidateTarget" -> <<"ReleaseVpbIfHeld">>
    [] effect = "AcquireSessionReference" -> << >>
    [] effect = "CreateMountedDevice" -> ROLLBACK_REFERENCE
    [] effect = "Revalidate" -> ROLLBACK_COMMIT_VPB
    [] effect = "PublishMountOwner" -> ROLLBACK_BOUND_VPB_AFTER_RELEASE

IdleMount == [pc |-> "idle", k |-> 0, v |-> NoDevice, ref |-> FALSE,
              vcb |-> "none", todo |-> << >>]

\* The session's own references: the registry lease and the control's.
SessionReferences == 2

Init ==
  /\ rv = RvActivate(RvInactive) /\ ev = {"WaitersDrained", "ResetWaitersDrained"}
  /\ vpb = [v \in Vpbs |-> [dev |-> NoDevice, mounted |-> FALSE]]
  /\ lock = Free
  /\ dev = [m \in Mounters |-> [st |-> "none", vcb |-> FALSE]]
  /\ mt = [m \in Mounters |-> IdleMount]
  /\ td = [a \in Teardowns |-> [pc |-> "idle", gen |-> NoGen, own |-> "None", wait |-> "none"]]
  /\ cell = "Live" /\ strong = SessionReferences
  /\ access = {} /\ door = "published" /\ verdict = "none" /\ panic = FALSE

\* fsring_dispatch_mount: the VDO's locator resolves, and the guard is kept.
MountStart(m) ==
  /\ mt[m].pc = "idle" /\ cell = "Live" /\ door # "shut"
  /\ \E v \in Vpbs : mt' = [mt EXCEPT ![m].pc = "run", ![m].k = 1, ![m].v = v]
  /\ access' = access \cup {m}
  /\ UNCHANGED <<rv, ev, vpb, lock, dev, td, cell, strong, door, verdict, panic>>

At(m, effect) == mt[m].pc = "run" /\ SUCCESS_EFFECTS[mt[m].k] = effect

Done(m) == mt' = [mt EXCEPT ![m].k = @ + 1]

Refuse(m, effect) ==
  mt' = [mt EXCEPT ![m].pc = "undo", ![m].todo = Rollback(effect)]

AcquireVpb(m) ==
  /\ At(m, "AcquireVpb") /\ lock = Free
  /\ lock' = m /\ Done(m)
  /\ UNCHANGED <<rv, ev, vpb, dev, td, cell, strong, access, door, verdict, panic>>

ReleaseVpb(m) ==
  /\ At(m, "ReleaseVpb") /\ lock = m
  /\ lock' = Free /\ Done(m)
  /\ UNCHANGED <<rv, ev, vpb, dev, td, cell, strong, access, door, verdict, panic>>

\* VPB_MOUNTED clear, now and again under the second hold.
CheckBinding(m, effect, ok) ==
  /\ At(m, effect)
  /\ IF ok /\ ~vpb[mt[m].v].mounted THEN Done(m) ELSE Refuse(m, effect)
  /\ UNCHANGED <<rv, ev, vpb, lock, dev, td, cell, strong, access, door, verdict, panic>>

ValidateTarget(m) == CheckBinding(m, "ValidateTarget", TRUE)

\* session_active: the fence may have cleared the session's published word.
\* admission_open is the reference, which the request still holds.
Revalidate(m) == CheckBinding(m, "Revalidate", door = "published" /\ mt[m].ref)

AcquireSessionReference(m) ==
  /\ At(m, "AcquireSessionReference")
  /\ IF cell = "Live"
     THEN /\ strong' = strong + 1
          /\ mt' = [mt EXCEPT ![m].ref = TRUE, ![m].k = @ + 1]
     ELSE Refuse(m, "AcquireSessionReference") /\ UNCHANGED strong
  /\ UNCHANGED <<rv, ev, vpb, lock, dev, td, cell, access, door, verdict, panic>>

\* IoCreateDevice may refuse.
CreateMountedDevice(m) ==
  /\ At(m, "CreateMountedDevice")
  /\ \/ dev' = [dev EXCEPT ![m].st = "init"] /\ Done(m)
     \/ Refuse(m, "CreateMountedDevice") /\ UNCHANGED dev
  /\ UNCHANGED <<rv, ev, vpb, lock, td, cell, strong, access, door, verdict, panic>>

AllocateVcb(m) ==
  /\ At(m, "AllocateVcb")
  /\ mt' = [mt EXCEPT ![m].vcb = "storage", ![m].k = @ + 1]
  /\ UNCHANGED <<rv, ev, vpb, lock, dev, td, cell, strong, access, door, verdict, panic>>

InitializeDeviceAndVcb(m) ==
  /\ At(m, "InitializeDeviceAndVcb")
  /\ mt' = [mt EXCEPT ![m].vcb = "initialized", ![m].k = @ + 1]
  /\ dev' = [dev EXCEPT ![m].vcb = TRUE]
  /\ UNCHANGED <<rv, ev, vpb, lock, td, cell, strong, access, door, verdict, panic>>

BindVpb(m) ==
  /\ At(m, "BindVpb") /\ lock = m
  /\ vpb' = [vpb EXCEPT ![mt[m].v].dev = m] /\ Done(m)
  /\ UNCHANGED <<rv, ev, lock, dev, td, cell, strong, access, door, verdict, panic>>

SetVpbMounted(m) ==
  /\ At(m, "SetVpbMounted") /\ lock = m
  /\ vpb' = [vpb EXCEPT ![mt[m].v].mounted = TRUE] /\ Done(m)
  /\ UNCHANGED <<rv, ev, lock, dev, td, cell, strong, access, door, verdict, panic>>

\* One lock hold: preflight the cell and the rendezvous, clear the two events
\* of the previous generation, move reference, device and VPB into the owner.
PublishMountOwner(m) ==
  /\ At(m, "PublishMountOwner")
  /\ IF cell = "Live" /\ CanInstall(rv)
     THEN /\ rv' = CommitInstall(rv, m)
          /\ ev' = ev \ {"Complete", "ResetComplete"}
          /\ mt' = [mt EXCEPT ![m].ref = FALSE, ![m].vcb = "none", ![m].k = @ + 1]
     ELSE Refuse(m, "PublishMountOwner") /\ UNCHANGED <<rv, ev>>
  /\ UNCHANGED <<vpb, lock, dev, td, cell, strong, access, door, verdict, panic>>

\* expose_published_mount, the trace, and the access guard dropped with success.
ClearDeviceInitializing(m) ==
  /\ At(m, "ClearDeviceInitializing")
  /\ IF rv.st = "Publishing" /\ rv.owner = m
     THEN /\ rv' = CommitOwnerExposure(rv)
          /\ dev' = [dev EXCEPT ![m].st = "exposed"]
          /\ UNCHANGED panic
     ELSE panic' = TRUE /\ UNCHANGED <<rv, dev>>
  /\ mt' = [mt EXCEPT ![m].pc = "mounted"] /\ access' = access \ {m}
  /\ UNCHANGED <<ev, vpb, lock, td, cell, strong, door, verdict>>

\* A stable reference goes back: never the last one, neither in a mount's
\* rollback nor under the terminal owner (`unreachable!` otherwise).
ReleaseReference ==
  /\ strong' = strong - 1 /\ panic' = (panic \/ strong = 1)

Undoing(m, effect) ==
  mt[m].pc = "undo" /\ mt[m].todo # << >> /\ Head(mt[m].todo) = effect

Undone(m) == mt' = [mt EXCEPT ![m].todo = Tail(@)]

\* The binding is cleared under the lock, taken here when it is not held.
UndoBinding(m) ==
  /\ Undoing(m, "ClearUnpublishedVpbBinding") /\ lock \in {Free, m}
  /\ vpb' = [vpb EXCEPT ![mt[m].v] = [dev |-> NoDevice, mounted |-> FALSE]]
  /\ Undone(m)
  /\ UNCHANGED <<rv, ev, lock, dev, td, cell, strong, access, door, verdict, panic>>

UndoVpbHold(m) ==
  /\ Undoing(m, "ReleaseVpbIfHeld")
  /\ lock' = (IF lock = m THEN Free ELSE lock) /\ Undone(m)
  /\ UNCHANGED <<rv, ev, vpb, dev, td, cell, strong, access, door, verdict, panic>>

UndoVcb(m) ==
  /\ Undoing(m, "FreeVcb")
  /\ dev' = [dev EXCEPT ![m].vcb = FALSE]
  /\ mt' = [mt EXCEPT ![m].vcb = "none", ![m].todo = Tail(@)]
  /\ UNCHANGED <<rv, ev, vpb, lock, td, cell, strong, access, door, verdict, panic>>

UndoDevice(m) ==
  /\ Undoing(m, "DeleteMountedDevice")
  /\ dev' = [dev EXCEPT ![m].st = "deleted"] /\ Undone(m)
  /\ UNCHANGED <<rv, ev, vpb, lock, td, cell, strong, access, door, verdict, panic>>

UndoReference(m) ==
  /\ Undoing(m, "ReleaseSessionReference")
  /\ ReleaseReference
  /\ mt' = [mt EXCEPT ![m].ref = FALSE, ![m].todo = Tail(@)]
  /\ UNCHANGED <<rv, ev, vpb, lock, dev, td, cell, access, door, verdict>>

\* unwind_mount ends with one more release of the lock; the guard is dropped.
UnwindEnds(m) ==
  /\ mt[m].pc = "undo" /\ mt[m].todo = << >>
  /\ lock' = (IF lock = m THEN Free ELSE lock)
  /\ mt' = [mt EXCEPT ![m].pc = "refused"] /\ access' = access \ {m}
  /\ UNCHANGED <<rv, ev, vpb, dev, td, cell, strong, door, verdict, panic>>

MountStep(m) ==
  \/ AcquireVpb(m) \/ ReleaseVpb(m) \/ ValidateTarget(m) \/ Revalidate(m)
  \/ AcquireSessionReference(m) \/ CreateMountedDevice(m) \/ AllocateVcb(m)
  \/ InitializeDeviceAndVcb(m) \/ BindVpb(m) \/ SetVpbMounted(m)
  \/ PublishMountOwner(m) \/ ClearDeviceInitializing(m)
  \/ UndoBinding(m) \/ UndoVpbHold(m) \/ UndoVcb(m) \/ UndoDevice(m)
  \/ UndoReference(m) \/ UnwindEnds(m)

\* fsring_dispatch_verify: the VPB read under its lock; a mounted VPB's device
\* is followed to its VCB.  "fault" stands for a device or VCB that is gone.
Verify(v) ==
  /\ lock = Free
  /\ verdict' = CASE ~vpb[v].mounted \/ vpb[v].dev = NoDevice -> "InvalidRequest"
                  [] dev[vpb[v].dev].st \in {"init", "exposed"} /\ dev[vpb[v].dev].vcb -> "Success"
                  [] OTHER -> "fault"
  /\ UNCHANGED <<rv, ev, vpb, lock, dev, mt, td, cell, strong, access, door, panic>>

-----------------------------------------------------------------------------
(* The session ends.                                                        *)

\* The terminal claim: from here no mount can resolve, refer or publish.
ClaimTerminal ==
  /\ cell = "Live" /\ cell' = "Removing"
  /\ UNCHANGED <<rv, ev, vpb, lock, dev, mt, td, strong, access, door, verdict, panic>>

\* close_generation_admission clears the published word; the fence goes on to
\* close the access rundown and wait for the guards inside.
FenceCloseAdmission ==
  /\ cell = "Removing" /\ door = "published" /\ door' = "unpublished"
  /\ UNCHANGED <<rv, ev, vpb, lock, dev, mt, td, cell, strong, access, verdict, panic>>

FenceCloseAccess ==
  /\ door = "unpublished" /\ door' = "shut"
  /\ UNCHANGED <<rv, ev, vpb, lock, dev, mt, td, cell, strong, access, verdict, panic>>

Drained == door = "shut" /\ access = {}

Goes(a, pc) == td' = [td EXCEPT ![a].pc = pc, ![a].wait = "none"]

\* dismount_and_delete_devices up to the claim, in one lock hold; a join clears
\* the event its drain will signal.  A refusal is returned as FALSE and the
\* fence comes back to it.
DismountClaim(a) ==
  /\ td[a].pc \in {"idle", "retry"} /\ Drained
  /\ LET kind == ClaimKind(rv) IN
       /\ rv' = TakeOrJoin(rv)
       /\ ev' = ev \ (CASE kind = "Join" -> {"WaitersDrained"}
                        [] kind = "ResetJoin" -> {"ResetWaitersDrained"}
                        [] OTHER -> {})
       /\ td' = [td EXCEPT ![a] =
                   [pc |-> CASE kind = "Owner" -> "clear"
                             [] kind = "Join" -> "join"
                             [] kind = "ResetJoin" -> "resetjoin"
                             [] kind = "Absent" -> "absent"
                             [] OTHER -> "retry",
                    gen |-> ExpectedTeardown(rv).gen,
                    own |-> IF kind = "Owner" THEN rv.owner ELSE NoDevice,
                    wait |-> "none"]]
  /\ UNCHANGED <<vpb, lock, dev, mt, cell, strong, access, door, verdict, panic>>

\* run_r3_mount_owner_teardown_prefix: VPB, device, reference.
TeardownClearVpb(a) ==
  /\ td[a].pc = "clear" /\ lock = Free
  /\ vpb' = [v \in Vpbs |-> IF v = mt[td[a].own].v
                            THEN [dev |-> NoDevice, mounted |-> FALSE] ELSE vpb[v]]
  /\ Goes(a, "delete")
  /\ UNCHANGED <<rv, ev, lock, dev, mt, cell, strong, access, door, verdict, panic>>

TeardownDeleteDevice(a) ==
  /\ td[a].pc = "delete"
  /\ dev' = [dev EXCEPT ![td[a].own] = [st |-> "deleted", vcb |-> FALSE]]
  /\ Goes(a, "release")
  /\ UNCHANGED <<rv, ev, vpb, lock, mt, cell, strong, access, door, verdict, panic>>

TeardownReleaseReference(a) ==
  /\ td[a].pc = "release"
  /\ ReleaseReference /\ Goes(a, "publish")
  /\ UNCHANGED <<rv, ev, vpb, lock, dev, mt, cell, access, door, verdict>>

\* Everything else of a teardown changes only the rendezvous and its events.
RendezvousOnly ==
  UNCHANGED <<vpb, lock, dev, mt, cell, strong, access, door, verdict>>

\* A publication in one lock hold: the transition `next`, its owed signal s (if
\* any) set and acknowledged.  ok is the code's preflight.
Publish(a, ok, next, s, pc) ==
  /\ IF ok
     THEN /\ rv' = (IF s \in next.pend THEN Acknowledge(next, s) ELSE next)
          /\ ev' = (IF s \in next.pend THEN ev \cup {s} ELSE ev)
          /\ UNCHANGED panic
     ELSE panic' = TRUE /\ UNCHANGED <<rv, ev>>
  /\ Goes(a, pc) /\ RendezvousOnly

TeardownPublishDone(a) ==
  /\ td[a].pc = "publish"
  /\ Publish(a, rv.st = "TearingDown" /\ rv.gen = td[a].gen, PublishDone(rv), "Complete", "drain")

\* What each waiting pc waits for.
Awaited(pc) ==
  CASE pc = "join" -> "Complete"
    [] pc = "drain" -> "WaitersDrained"
    [] pc = "resetjoin" -> "ResetComplete"
    [] pc \in {"ownerproof", "joinproof"} -> "ResetWaitersDrained"
    [] OTHER -> "None"

\* wait_mount_observation: authenticate under the lock, then wait outside it.
ObserveWait(a) ==
  /\ Awaited(td[a].pc) # "None" /\ td[a].wait = "none"
  /\ td' = [td EXCEPT ![a].wait = "waiting"]
  /\ panic' = (panic \/ ~MatchesWait(rv, td[a].gen, Awaited(td[a].pc)))
  /\ UNCHANGED <<rv, ev>> /\ RendezvousOnly

WaitSatisfied(a) ==
  /\ td[a].wait = "waiting" /\ Awaited(td[a].pc) \in ev
  /\ td' = [td EXCEPT ![a].wait = "woken"]
  /\ UNCHANGED <<rv, ev, panic>> /\ RendezvousOnly

Woken(a, pc) == td[a].pc = pc /\ td[a].wait = "woken"

\* A Join that came in after the event sends the owner back to wait.
WaitUntilMountDrained(a) ==
  /\ Woken(a, "drain")
  /\ CASE rv.st # "Done" \/ rv.gen # td[a].gen -> panic' = TRUE /\ UNCHANGED rv /\ Goes(a, "drain")
       [] CanPollDrain(rv) -> rv' = PollDrain(rv) /\ Goes(a, "reset") /\ UNCHANGED panic
       [] OTHER -> UNCHANGED <<rv, panic>> /\ Goes(a, "drain")
  /\ UNCHANGED ev /\ RendezvousOnly

TeardownReset(a) ==
  /\ td[a].pc = "reset"
  /\ Publish(a, rv.st = "Resetting" /\ rv.gen = td[a].gen /\ "ResetComplete" \notin rv.pend,
             FinishReset(rv), "ResetComplete", "ownerproof")

\* complete_mount_join: the conversion clears the reset-waiter event in the
\* same hold.
CompleteMountJoin(a) ==
  /\ Woken(a, "join")
  /\ LET next == ReleaseJoin(rv)
         last == "WaitersDrained" \in next.pend
     IN /\ IF rv.st = "Done" /\ rv.gen = td[a].gen /\ "Complete" \notin rv.pend /\ rv.ord > 0
              /\ (last \/ (next.ord # 0 /\ next.rst # 0))
           THEN /\ rv' = (IF last THEN Acknowledge(next, "WaitersDrained") ELSE next)
                /\ ev' = (ev \ {"ResetWaitersDrained"})
                         \cup (IF last THEN {"WaitersDrained"} ELSE {})
                /\ UNCHANGED panic
           ELSE panic' = TRUE /\ UNCHANGED <<rv, ev>>
        /\ Goes(a, "resetjoin") /\ RendezvousOnly

CompleteMountResetJoin(a) ==
  /\ Woken(a, "resetjoin")
  /\ Publish(a, /\ rv.st = "Unmounted" /\ rv.last = td[a].gen
                /\ "ResetComplete" \notin rv.pend /\ rv.rst > 0,
             FinishJoinedReset(rv), "ResetWaitersDrained", "joinproof")

\* complete_owner and complete_joined, then the completion is bound to the
\* expectation and the shell's VDO deleted.
CompleteTeardown(a, pc) ==
  /\ Woken(a, pc)
  /\ panic' = (panic \/ ~Completes(rv, td[a].gen))
  /\ Goes(a, "done")
  /\ UNCHANGED <<rv, ev>> /\ RendezvousOnly

CompleteMountOwner(a) == CompleteTeardown(a, "ownerproof")

CompleteJoined(a) == CompleteTeardown(a, "joinproof")

CompleteAbsent(a) ==
  /\ td[a].pc = "absent" /\ Goes(a, "done")
  /\ UNCHANGED <<rv, ev, panic>> /\ RendezvousOnly

TeardownStep(a) ==
  \/ DismountClaim(a) \/ TeardownClearVpb(a) \/ TeardownDeleteDevice(a)
  \/ TeardownReleaseReference(a) \/ TeardownPublishDone(a)
  \/ ObserveWait(a) \/ WaitSatisfied(a)
  \/ WaitUntilMountDrained(a) \/ TeardownReset(a) \/ CompleteMountJoin(a)
  \/ CompleteMountResetJoin(a) \/ CompleteMountOwner(a) \/ CompleteJoined(a)
  \/ CompleteAbsent(a)

\* The terminal guard was the last reference: the finalizer deactivates the
\* rendezvous, which must be at the absence its completion recorded.
DeactivateAfterDelete ==
  /\ cell = "Removing"
  /\ \A a \in Teardowns : td[a].pc \in {"idle", "done"}
  /\ \E a \in Teardowns : td[a].pc = "done"
  /\ strong = SessionReferences
  /\ cell' = "Deleted" /\ strong' = 0
  /\ rv' = Deactivate(rv)
  /\ panic' = (panic \/ rv.st # "Unmounted" \/ ~Quiet(rv))
  /\ UNCHANGED <<ev, vpb, lock, dev, mt, td, access, door, verdict>>

Next ==
  \/ \E m \in Mounters : MountStart(m) \/ MountStep(m)
  \/ \E v \in Vpbs : Verify(v)
  \/ \E a \in Teardowns : TeardownStep(a)
  \/ ClaimTerminal \/ FenceCloseAdmission \/ FenceCloseAccess \/ DeactivateAfterDelete

Spec == Init /\ [][Next]_vars

\* Driver threads keep running what they started, spin locks are handed on,
\* and the fence that claimed the session drives at least one dismount.
FairSpec ==
  /\ Spec
  /\ \A m \in Mounters : SF_vars(AcquireVpb(m) \/ UndoBinding(m)) /\ WF_vars(MountStep(m))
  /\ \A a \in Teardowns : SF_vars(TeardownClearVpb(a)) /\ WF_vars(TeardownStep(a))
  /\ WF_vars(FenceCloseAdmission) /\ WF_vars(FenceCloseAccess)
  /\ WF_vars(DeactivateAfterDelete)
-----------------------------------------------------------------------------
(* Properties.                                                              *)

\* No `unreachable!` of the mount, its rollback or the teardown is reached:
\* every publication finds the rendezvous in the state its holder left it,
\* every wait observation still matches when it is checked, a reset-waiter
\* drain does prove every completion, no mount reference is ever the last one,
\* and the finalizer finds the absence (volume.rs, fence.rs:1440-1810).
NoUnreachable == ~panic

\* A VERIFY never follows a VPB to a device that was deleted or whose VCB is not
\* initialised, whatever mount is being rolled back or torn down: every path
\* unbinds under the VPB lock before it frees (volume.rs:1396).
VerifyFindsVcb == verdict # "fault"

\* A refused mount leaves nothing (device, VCB, binding, reference or lock), and
\* a deleted session leaves no device and no bound VPB, so every published
\* mount was torn down exactly once and every reference came back.
NothingLeaks ==
  /\ \A m \in Mounters : mt[m].pc = "refused" =>
       /\ dev[m].st \in {"none", "deleted"} /\ ~dev[m].vcb /\ ~mt[m].ref
       /\ lock # m /\ \A v \in Vpbs : vpb[v].dev # m
  /\ strong = (IF cell = "Deleted" THEN 0 ELSE
                SessionReferences
                + Cardinality({m \in Mounters : mt[m].ref})
                + Cardinality({m \in Mounters : rv.owner = m})
                + Cardinality({a \in Teardowns : td[a].pc \in {"clear", "delete", "release"}}))
  /\ cell = "Deleted" =>
       /\ \A m \in Mounters : dev[m].st \in {"none", "deleted"}
       /\ \A v \in Vpbs : ~vpb[v].mounted

\* A claimed session is deleted: the mounts inside its access drain, one
\* arrival tears the mount down, every joiner is woken and counted out, and the
\* rendezvous comes back to rest (fence.rs:1767).
SessionDeletes == cell = "Removing" ~> cell = "Deleted"
=============================================================================
