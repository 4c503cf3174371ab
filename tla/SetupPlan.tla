----------------------------- MODULE SetupPlan -----------------------------
(***************************************************************************)
(* One SETUP request from its admission to its answer: the twenty-five      *)
(* effects of NativeSetupPlan in order, the protected-view plan that runs   *)
(* inside BuildProtectedViews, and the unwinding of whichever of them       *)
(* failed.  `own` is what the native side holds: an effect adds to it, an   *)
(* undo removes from it, and publication hands the whole of it to the cell. *)
(***************************************************************************)
EXTENDS Naturals, Sequences, FiniteSets

CONSTANTS RingCount   \* rings of the requested topology

SetupPlanConstants == RingCount \in Nat \ {0}

VARIABLES pc,        \* "effect", "views", "viewundo", "prepare", "undo",
                     \* "destroy", "finish", "published" or "failed"
          next,      \* index of the pending effect
          own,       \* what the request holds
          made,      \* what effects that succeeded have acquired
          view,      \* protected views built so far
          vnext,     \* index of the pending view effect
          todo,      \* undo effects still to run
          receipt,   \* captured-process disposition of a view rollback
          modern     \* PlatformProfile: partial MDLs, or section views only

vars == <<pc, next, own, made, view, vnext, todo, receipt, modern>>

SetupEffects == <<"AcquireControlRundown", "SnapshotAndValidateInput",
  "ValidateOutputCapacity", "RejectDuplicate", "AcquireBootLockEvent", "BurnMountId",
  "ReleaseBootLockEvent", "ComputeLayoutAndLedger", "AllocateSectionAndSystemView",
  "ConstructAndValidateSection", "AllocateGrants", "AllocateEventsAndScratch",
  "CreateSecureVdo", "CaptureProcess", "BuildProtectedViews", "BuildOutput",
  "ValidateOutput", "InstallStaging", "CopyValidatedOutput", "PublishLockedSuffix",
  "EmitSessionPublished", "ReleaseSetupAdmission", "SignalSetupComplete",
  "ReturnProviderDisposition", "OuterReleaseControlRundown">>
Effect == SetupEffects[next + 1]
IndexPublish == 19

Resources == {"admission", "bootlock", "shell", "handle", "object", "sysview", "grants",
              "rings", "scratch", "fence", "vdo", "process", "viewarrays", "slot",
              "cell", "root", "runtime"}

-----------------------------------------------------------------------------
(* What the native handlers acquire.                                        *)

AllocateSection == {"shell", "handle", "object", "sysview"}
AllocateLedger == {"grants"}
AllocateEventsAndScratch == {"rings", "scratch", "fence"}
BuildPendingRuntime == {"runtime"}
InstallStaging == {"slot", "cell", "root"} \cup BuildPendingRuntime

Acquires(e) ==
  CASE e = "AcquireBootLockEvent" -> {"bootlock"}
    [] e = "AllocateSectionAndSystemView" -> AllocateSection
    [] e = "AllocateGrants" -> AllocateLedger
    [] e = "AllocateEventsAndScratch" -> AllocateEventsAndScratch
    [] e = "CreateSecureVdo" -> {"vdo"}
    [] e = "CaptureProcess" -> {"process"}
    [] e = "InstallStaging" -> InstallStaging
    [] OTHER -> {}

Releases(e) ==
  CASE e = "ReleaseBootLockEvent" -> {"bootlock"}
    [] e = "ReleaseSetupAdmission" -> {"admission"}
    [] OTHER -> {}

\* What an effect that fails part of the way leaves behind.
Partial(e) ==
  CASE e = "AllocateSectionAndSystemView" ->
         {{}, {"shell"}, {"shell", "handle"}, {"shell", "handle", "object"}}
    [] e = "AllocateGrants" -> {{}, {"grants"}}
    [] e = "AllocateEventsAndScratch" -> {{}, {"rings", "scratch"}}
    [] e = "InstallStaging" -> {{}, {"slot", "cell"}, {"slot", "cell", "root"}}
    [] OTHER -> {{}}

\* AcquireControlRundown to RejectDuplicate ran before the plan began, and the
\* effects after publication report nothing.
MayFail(e) == e \notin {"AcquireControlRundown", "SnapshotAndValidateInput",
                        "ValidateOutputCapacity", "RejectDuplicate", "CaptureProcess",
                        "BuildProtectedViews", "EmitSessionPublished",
                        "ReleaseSetupAdmission", "SignalSetupComplete", "ReturnProviderDisposition",
                        "OuterReleaseControlRundown"}

-----------------------------------------------------------------------------
(* The rollback table, by the index of the effect that failed.              *)

R_BURNED == <<"PreserveBurnedMountId", "ReleaseControlRundown">>
R_SECTION == <<"UnmapAndCloseSection">> \o R_BURNED
R_GRANTS == <<"FreeGrants">> \o R_SECTION
R_EVENTS == <<"FreeEventsAndScratch">> \o R_GRANTS
R_VDO == <<"DeleteVdo">> \o R_EVENTS
R_PROCESS == <<"ReleaseCapturedProcess">> \o R_VDO
R_VIEWS == <<"RollbackProtectedViews">> \o R_PROCESS
R_REFS == <<"ReleaseStrongReferences">> \o R_VIEWS

rollback_effects(n, processRetained) ==
  CASE n = 0 -> <<>>
    [] n \in 1 .. 4 -> <<"ReleaseControlRundown">>
    [] n = 5 -> <<"ReleaseBootLockEvent", "ReleaseControlRundown">>
    [] n = 6 -> <<"PreserveBurnedMountId", "ReleaseBootLockEvent", "ReleaseControlRundown">>
    [] n \in 7 .. 8 -> R_BURNED
    [] n \in 9 .. 10 -> R_SECTION
    [] n = 11 -> R_GRANTS
    [] n = 12 -> R_EVENTS
    [] n = 13 -> R_VDO
    [] n = 14 -> IF processRetained THEN R_PROCESS ELSE R_VDO
    [] n \in 15 .. 17 -> R_VIEWS
    [] OTHER -> R_REFS

\* unwind_all: every undo, for a failure that names no effect.
UnwindAll == <<"ReleaseStrongReferences", "RollbackProtectedViews",
               "ReleaseCapturedProcess", "DeleteVdo", "FreeEventsAndScratch", "FreeGrants",
               "UnmapAndCloseSection", "PreserveBurnedMountId", "ReleaseBootLockEvent",
               "ReleaseControlRundown">>

Undoes(u) ==
  CASE u = "ReleaseCapturedProcess" -> {"process"}
    [] u = "DeleteVdo" -> {"vdo"}
    [] u = "FreeEventsAndScratch" -> {"rings", "scratch", "fence"}
    [] u = "FreeGrants" -> {"grants"}
    [] u = "UnmapAndCloseSection" -> {"sysview", "object", "handle"}
    [] u = "ReleaseBootLockEvent" -> {"bootlock"}
    [] u = "RollbackProtectedViews" -> {"viewarrays"}
    [] OTHER -> {}

\* UnpublishedNativeSessionShell::destroy frees the arrays the session holds.
ShellFrees == {"shell", "viewarrays", "grants", "rings"}

-----------------------------------------------------------------------------
(* Protected views.                                                         *)

NoViews == [masters |-> 0, partials |-> 0, mapped |-> 0, attached |-> FALSE]
master_count == RingCount + 2
view_count_for == 3 * RingCount + 2
partial_count == IF modern THEN view_count_for - 1 ELSE 0

\* Masters are locked, partials built from them, the process attached, the
\* aliases mapped and the process detached.
forward_effect(i) ==
  CASE i < master_count -> "AllocateAndLockMaster"
    [] i \in master_count .. master_count + partial_count - 1 -> "BuildPartial"
    [] i = master_count + partial_count -> "AttachCapturedProcess"
    [] i \in master_count + partial_count + 1 ..
             master_count + partial_count + view_count_for -> "MapAlias"
    [] i = master_count + partial_count + view_count_for + 1 -> "DetachCapturedProcess"
    [] OTHER -> "Complete"

Repeat(e, n) == [i \in 1 .. n |-> e]
Min2(a, b) == IF a < b THEN a ELSE b

\* What the rollback plan derives the views to undo from: the number of
\* effects that succeeded and of aliases that were mapped.
owned_masters == Min2(vnext, master_count)
owned_partials ==
  Min2(IF vnext < master_count THEN 0 ELSE vnext - master_count, partial_count)

\* The partials freed before their aliases are unmapped.
PartialsFirst(mapped) ==
     Repeat("FreePartialMdl", owned_partials)
  \o (IF mapped > 0 THEN <<"AttachCapturedProcess">> ELSE <<>>)
  \o Repeat("UnmapAlias", mapped)
  \o (IF mapped > 0 THEN <<"DetachCapturedProcess">> ELSE <<>>)
  \o Repeat("UnlockAndFreeMaster", owned_masters)
  \o (IF mapped > 0 THEN <<"ReleaseCapturedProcess">> ELSE <<>>)

view_rollback(mapped) ==
     (IF mapped > 0 THEN <<"AttachCapturedProcess">> ELSE <<>>)
  \o Repeat("UnmapAlias", mapped)
  \o Repeat("FreePartialMdl", owned_partials)
  \o (IF mapped > 0 THEN <<"DetachCapturedProcess">> ELSE <<>>)
  \o Repeat("UnlockAndFreeMaster", owned_masters)
  \o (IF mapped > 0 THEN <<"ReleaseCapturedProcess">> ELSE <<>>)

perform_view(e) ==
  CASE e = "AllocateAndLockMaster" -> [view EXCEPT !.masters = @ + 1]
    [] e = "BuildPartial" -> [view EXCEPT !.partials = @ + 1]
    [] e = "AttachCapturedProcess" -> [view EXCEPT !.attached = TRUE]
    [] e = "MapAlias" -> [view EXCEPT !.mapped = @ + 1]
    [] e = "DetachCapturedProcess" -> [view EXCEPT !.attached = FALSE]

perform_view_undo(e) ==
  CASE e = "AttachCapturedProcess" -> [view EXCEPT !.attached = TRUE]
    [] e = "UnmapAlias" -> [view EXCEPT !.mapped = @ - 1]
    [] e = "FreePartialMdl" -> [view EXCEPT !.partials = @ - 1]
    [] e = "DetachCapturedProcess" -> [view EXCEPT !.attached = FALSE]
    [] e = "UnlockAndFreeMaster" -> [view EXCEPT !.masters = @ - 1]
    [] e = "ReleaseCapturedProcess" -> view

-----------------------------------------------------------------------------
(* The request.                                                             *)

\* into_failure: past the locked suffix the session is published whatever an
\* effect reports.
Failure(leftover, processRetained) ==
  /\ own' = own \cup leftover
  /\ IF next > IndexPublish
     THEN pc' = "published" /\ UNCHANGED todo
     ELSE pc' = "prepare" /\ todo' = rollback_effects(next, processRetained)

Succeed ==
  /\ pc = "effect" /\ Effect # "BuildProtectedViews"
  /\ own' = (own \ Releases(Effect)) \cup Acquires(Effect)
  /\ made' = made \cup Acquires(Effect)
  /\ IF next = 24 THEN pc' = "published" /\ UNCHANGED next
                  ELSE next' = next + 1 /\ UNCHANGED pc
  /\ UNCHANGED <<view, vnext, todo, receipt, modern>>

Fail ==
  /\ pc = "effect" /\ MayFail(Effect)
  /\ \E leftover \in Partial(Effect) : Failure(leftover, TRUE)
  /\ UNCHANGED <<next, made, view, vnext, receipt, modern>>

\* The allocations of build_protected_views; a failure here has no receipt,
\* so everything is unwound.
BeginViews ==
  /\ pc = "effect" /\ Effect = "BuildProtectedViews"
  /\ \/ pc' = "views" /\ own' = own \cup {"viewarrays"} /\ UNCHANGED todo
     \/ /\ \E a \in {{}, {"viewarrays"}} : own' = own \cup a
        /\ pc' = "prepare" /\ todo' = UnwindAll
  /\ UNCHANGED <<next, made, view, vnext, receipt, modern>>

ViewStep ==
  /\ pc = "views"
  /\ IF forward_effect(vnext) = "Complete"
     THEN /\ pc' = "effect" /\ next' = next + 1
          /\ made' = made \cup {"viewarrays"}
          /\ UNCHANGED <<view, vnext>>
     ELSE /\ view' = perform_view(forward_effect(vnext)) /\ vnext' = vnext + 1
          /\ UNCHANGED <<pc, next, made>>
  /\ UNCHANGED <<own, todo, receipt, modern>>

\* A refused view effect detaches first; the aliases to unmap are the mapped
\* ones and the rest follows from the completed prefix.
ViewFail ==
  /\ pc = "views"
  /\ forward_effect(vnext) \in {"AllocateAndLockMaster", "BuildPartial", "MapAlias"}
  /\ view' = [view EXCEPT !.attached = FALSE]
  /\ pc' = "viewundo" /\ todo' = view_rollback(view.mapped)
  /\ receipt' = "RetainedBySetup"
  /\ UNCHANGED <<next, own, made, vnext, modern>>

ViewUndo ==
  /\ pc = "viewundo"
  /\ IF todo = <<>>
     THEN Failure({}, receipt = "RetainedBySetup") /\ UNCHANGED <<view, receipt>>
     ELSE /\ view' = perform_view_undo(Head(todo))
          /\ todo' = Tail(todo)
          /\ IF Head(todo) = "ReleaseCapturedProcess"
             THEN own' = own \ {"process"} /\ receipt' = "ReleasedByProtectedViews"
             ELSE UNCHANGED <<own, receipt>>
          /\ UNCHANGED pc
  /\ UNCHANGED <<next, made, vnext, modern>>

\* prepare_setup_rollback clears the cell; unwind releases the runtime first.
Prepare ==
  /\ pc = "prepare"
  /\ own' = own \ {"cell", "runtime"}
  /\ pc' = "undo"
  /\ UNCHANGED <<next, made, view, vnext, todo, receipt, modern>>

Undo ==
  /\ pc = "undo"
  /\ IF todo = <<>> THEN pc' = "destroy" /\ UNCHANGED <<own, view, todo>>
     ELSE /\ own' = own \ Undoes(Head(todo))
          /\ view' = IF Head(todo) = "RollbackProtectedViews" THEN NoViews ELSE view
          /\ todo' = Tail(todo)
          /\ UNCHANGED pc
  /\ UNCHANGED <<next, made, vnext, receipt, modern>>

Destroy ==
  /\ pc = "destroy"
  /\ own' = (own \ {"root"}) \ (IF "shell" \in own THEN ShellFrees ELSE {})
  /\ pc' = "finish"
  /\ UNCHANGED <<next, made, view, vnext, todo, receipt, modern>>

\* finish_setup_rollback: commit the registry slot, leave the admission.
Finish ==
  /\ pc = "finish"
  /\ own' = own \ {"slot", "admission"}
  /\ pc' = "failed"
  /\ UNCHANGED <<next, made, view, vnext, todo, receipt, modern>>

Init ==
  /\ pc = "effect" /\ next = 0 /\ own = {"admission"} /\ made = {}
  /\ view = NoViews /\ vnext = 0 /\ todo = <<>> /\ receipt = "None"
  /\ modern \in BOOLEAN

Next == Succeed \/ Fail \/ BeginViews \/ ViewStep \/ ViewFail \/ ViewUndo \/ Prepare
        \/ Undo \/ Destroy \/ Finish

Spec == Init /\ [][Next]_vars

-----------------------------------------------------------------------------
(* Properties.                                                              *)

\* A failed SETUP holds nothing that one of its completed effects acquired,
\* whichever effect failed and however the view rollback disposed of the
\* captured process: the rollback table agrees with the effect order.
FailedReleasesCompleted ==
  pc = "failed" => /\ own \cap made = {} /\ "admission" \notin own
                   /\ view = NoViews

\* A step: views come down in an order the memory manager accepts: no alias is mapped
\* or unmapped outside the captured process, no partial MDL is freed under a
\* mapped alias, no master unlocked under a partial MDL, and the process is
\* never dereferenced while attached to or still mapped.
ViewOrder ==
  /\ view'.mapped # view.mapped => view.attached \/ pc = "undo"
  /\ view'.partials < view.partials => view'.mapped = 0
  /\ view'.masters < view.masters => view'.partials = 0 /\ view'.mapped = 0
  /\ "process" \in own /\ "process" \notin own' => ~view.attached /\ view.mapped = 0

\* "Everything allocated so far in this array is still owned by the session
\* and is released by `FreeEventsAndScratch`", and "the failing index alone
\* names everything still owned": a failed SETUP holds nothing at all.
FailedReleasesAll == pc = "failed" => own = {}

=============================================================================
