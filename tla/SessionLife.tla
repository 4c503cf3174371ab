---------------------------- MODULE SessionLife ----------------------------
(***************************************************************************)
(* The life of the driver's sessions: SETUP, CLEANUP and CLOSE of the       *)
(* control files, requests that resolve a session, process exit, driver     *)
(* unload, the terminal fence's owners, its retry worker and the finalizer. *)
(*                                                                          *)
(* One action is one hold of the registry lock, or one event, rundown or    *)
(* pool call made between two holds; a wait is a guard.  What the fence's   *)
(* sixteen effects do is FenceRunner; here a pass is its two rundown waits  *)
(* and its verdict.  Mounting is left to MountVolume.                       *)
(***************************************************************************)
EXTENDS SessionCore, FiniteSets

CONSTANTS Files,      \* control files, each opened at most once
          SlotCount,  \* SESSION_CELL_COUNT
          Setups,     \* SETUP requests in flight at once
          Resolvers,  \* ENTER and volume requests in flight at once
          Exiting,    \* the file whose process may exit, or NoFile
          MayUnload   \* the driver may be unloaded

VARIABLES ctx,   \* [Files -> control file context]
          cell,  \* [Slots -> registry slot, native cell and its events]
          door,  \* the admissions unload closes
          fadm,  \* finalizer callback admissions held
          su,    \* [Setups -> SETUP request]
          cl,    \* [Files -> CLEANUP and CLOSE of the file]
          ar,    \* [Arrivals -> terminal arrival]
          rs,    \* [Resolvers -> request using a session]
          pr,    \* the process exit callback
          ul,    \* the unload thread
          fz,    \* [Slots -> finalizer work item]
          wk     \* [Slots -> fence retry worker]

vars == <<ctx, cell, door, fadm, su, cl, ar, rs, pr, ul, fz, wk>>

NoFile == "none"
Slots == 0 .. SlotCount - 1
Arrivals == Files \cup {"process", "unload"}

ASSUME SessionLifeAssumption ==
  SlotCount \in Nat \ {0} /\ Exiting \in Files \cup {NoFile} /\ MayUnload \in BOOLEAN

NewContext == [bind |-> Empty(1), life |-> "Absent", closed |-> FALSE,
               cancel |-> FALSE, complete |-> TRUE]

NewCell == [slot |-> NewSlot, rend |-> Inactive, phase |-> "Free", gen |-> 0,
            owner |-> NoFile, proc |-> NoFile, handled |-> FALSE,
            lease |-> FALSE, owners |-> FALSE, fin |-> "Unbound",
            deposit |-> FALSE, ready |-> FALSE, handoff |-> FALSE,
            admitted |-> FALSE, queued |-> FALSE, failstop |-> "Empty",
            vis |-> FALSE, out |-> FALSE, drained |-> TRUE, shut |-> FALSE]

NoArrival == [pc |-> "idle", loc |-> NoLoc, ctx |-> NoFile]
IdleSetup == [pc |-> "idle", file |-> NoFile, ep |-> 0, loc |-> NoLoc,
              mirror |-> FALSE, closing |-> FALSE]
IdleResolver == [pc |-> "idle", file |-> NoFile, loc |-> NoLoc]

-----------------------------------------------------------------------------
(* Rundowns.  Holders are the requests between acquire and release.         *)

Present(f) == cl[f].pc \notin {"absent", "closed"}
ProcessLives(f) == f = Exiting => pr.pc = "alive"

FileDrained(f) ==
  /\ \A u \in Setups : su[u].file # f
  /\ \A e \in Resolvers : rs[e].file # f
  /\ cl[f].pc # "claim"

AccessDrained(s) ==
  \A e \in Resolvers : rs[e].pc \in {"check", "in"} => rs[e].loc.s # s

SetupsDrained == \A u \in Setups : su[u].pc \in {"idle", "admit", "complete", "exit"}

ContextsDrained == \A f \in Files : ctx[f].life \in {"Absent", "Freed"}

FinalizerEmpty(c) ==
  /\ c.fin = "Unbound" /\ ~c.deposit /\ ~c.handoff
  /\ ~c.admitted /\ ~c.queued /\ c.failstop = "Empty"

-----------------------------------------------------------------------------
(* SETUP.                                                                   *)

SetupGuard(u, f) ==
  /\ su[u].pc = "idle"
  /\ Present(f) /\ ~ctx[f].closed /\ ProcessLives(f)
  /\ su' = [su EXCEPT ![u] = [IdleSetup EXCEPT !.pc = "admit", !.file = f]]
  /\ UNCHANGED <<ctx, cell, door, fadm, cl, ar, rs, pr, ul, fz, wk>>

SetupAdmit(u) ==
  /\ su[u].pc = "admit"
  /\ su' = [su EXCEPT ![u].pc = IF door.setup THEN "entry" ELSE "exit"]
  /\ UNCHANGED <<ctx, cell, door, fadm, cl, ar, rs, pr, ul, fz, wk>>

EntryAdmits(c) == c.complete /\ CanBeginSetup(c.bind)

SetupEntry(u) ==
  LET f == su[u].file
      c == ctx[f]
  IN  /\ su[u].pc = "entry"
      /\ IF EntryAdmits(c)
         THEN /\ ctx' = [ctx EXCEPT ![f] = [c EXCEPT !.bind = BeginSetup(@),
                                            !.cancel = FALSE, !.complete = FALSE]]
              /\ su' = [su EXCEPT ![u].pc = "work", ![u].ep = c.bind.epoch]
         ELSE /\ su' = [su EXCEPT ![u].pc = "exit"]
              /\ UNCHANGED ctx
      /\ UNCHANGED <<cell, door, fadm, cl, ar, rs, pr, ul, fz, wk>>

\* Any effect of the plan may fail (SetupPlan); the rollback starts.
SetupFail(u) ==
  /\ su[u].pc \in {"work", "built"}
  /\ su' = [su EXCEPT ![u].pc = "prepare"]
  /\ UNCHANGED <<ctx, cell, door, fadm, cl, ar, rs, pr, ul, fz, wk>>

Mirrored(c, g, f) ==
  [c EXCEPT !.phase = "Staging", !.gen = g, !.proc = f, !.handled = FALSE]

\* The native cell may still be in the previous generation's epilogue: the
\* slot is then staged and its mirror refused.
SetupInstall(u) ==
  LET f == su[u].file
      b == ctx[f].bind
      free == {s \in Slots : CanInstall(cell[s].slot)}
      s == CHOOSE i \in free : \A j \in free : i <= j
      installed == InstallStaging(cell[s].slot)
      vacant == /\ cell[s].phase = "Free" /\ ~cell[s].lease /\ ~cell[s].owners
                /\ FinalizerEmpty(cell[s])
      staged == [cell[s] EXCEPT !.slot = installed]
  IN  /\ su[u].pc = "work"
      /\ IF b.st = "Staging" /\ b.epoch = su[u].ep /\ door.core /\ free # {}
         THEN /\ cell' = [cell EXCEPT ![s] =
                            IF vacant THEN Mirrored(staged, installed.gen, f)
                                      ELSE staged]
              /\ su' = [su EXCEPT ![u] = [@ EXCEPT
                          !.pc = IF vacant THEN "built" ELSE "prepare",
                          !.loc = [s |-> s, g |-> installed.gen],
                          !.mirror = vacant]]
         ELSE /\ su' = [su EXCEPT ![u].pc = "prepare"]
              /\ UNCHANGED cell
      /\ UNCHANGED <<ctx, door, fadm, cl, ar, rs, pr, ul, fz, wk>>

PublishReady(c, d, loc, ep) ==
  /\ ~c.cancel /\ c.life = "Lease"
  /\ d.phase = "Staging" /\ d.gen = loc.g /\ ~d.lease /\ ~d.owners
  /\ FinalizerEmpty(d)
  /\ c.bind.st = "Staging" /\ c.bind.epoch = ep /\ door.core
  /\ d.rend.st = "Inactive" /\ StagingExact(d.slot, loc)

PublishedCell(d, f, loc) ==
  [d EXCEPT !.vis = FALSE, !.out = FALSE, !.drained = FALSE, !.handoff = FALSE,
            !.slot = CommitLive(@), !.rend = Activate(loc), !.lease = TRUE,
            !.owner = f, !.owners = TRUE, !.fin = "Idle", !.phase = "Live"]

SetupPublish(u) ==
  LET f == su[u].file
      loc == su[u].loc
  IN  /\ su[u].pc = "built"
      /\ IF PublishReady(ctx[f], cell[loc.s], loc, su[u].ep)
         THEN /\ cell' = [cell EXCEPT ![loc.s] = PublishedCell(@, f, loc)]
              /\ ctx' = [ctx EXCEPT ![f].bind = Bound("Active", loc),
                                    ![f].life = "LiveCellOwned"]
              /\ su' = [su EXCEPT ![u].pc = "admrel"]
         ELSE /\ su' = [su EXCEPT ![u].pc = "prepare"]
              /\ UNCHANGED <<ctx, cell>>
      /\ UNCHANGED <<door, fadm, cl, ar, rs, pr, ul, fz, wk>>

ClearStaging(c) ==
  [c EXCEPT !.phase = "Free", !.gen = 0, !.proc = NoFile, !.handled = FALSE]

\* First hold of the rollback: the mirror goes, the slot stays staged.
SetupPrepare(u) ==
  LET loc == su[u].loc
  IN  /\ su[u].pc = "prepare"
      /\ cell' = IF su[u].mirror THEN [cell EXCEPT ![loc.s] = ClearStaging(@)]
                                 ELSE cell
      /\ su' = [su EXCEPT ![u].pc = "commit",
                          ![u].closing = ctx[su[u].file].bind.st = "ClosingSetup"]
      /\ UNCHANGED <<ctx, door, fadm, cl, ar, rs, pr, ul, fz, wk>>

\* Second hold: slot and binding; a retired slot's access closes for good.
SetupCommit(u) ==
  LET f == su[u].file
      loc == su[u].loc
      reset == ResetSlot(cell[loc.s].slot)
  IN  /\ su[u].pc = "commit"
      /\ cell' = IF loc = NoLoc THEN cell
                 ELSE [cell EXCEPT ![loc.s].slot = reset,
                         ![loc.s].shut = @ \/ (reset.st = "Retired" /\ su[u].mirror)]
      /\ ctx' = [ctx EXCEPT ![f].bind = CommitBindingRollback(@)]
      /\ su' = [su EXCEPT ![u].pc = "admrel"]
      /\ UNCHANGED <<door, fadm, cl, ar, rs, pr, ul, fz, wk>>

\* The setup admission goes before setup_complete is signalled.
SetupReleaseAdmission(u) ==
  /\ su[u].pc = "admrel"
  /\ su' = [su EXCEPT ![u].pc = "complete"]
  /\ UNCHANGED <<ctx, cell, door, fadm, cl, ar, rs, pr, ul, fz, wk>>

SetupSignalComplete(u) ==
  /\ su[u].pc = "complete"
  /\ ctx' = [ctx EXCEPT ![su[u].file].complete = TRUE]
  /\ su' = [su EXCEPT ![u].pc = "exit"]
  /\ UNCHANGED <<cell, door, fadm, cl, ar, rs, pr, ul, fz, wk>>

SetupExit(u) ==
  /\ su[u].pc = "exit"
  /\ su' = [su EXCEPT ![u] = IdleSetup]
  /\ UNCHANGED <<ctx, cell, door, fadm, cl, ar, rs, pr, ul, fz, wk>>

SetupStep(u) ==
  \/ SetupAdmit(u) \/ SetupEntry(u) \/ SetupFail(u) \/ SetupInstall(u)
  \/ SetupPublish(u) \/ SetupPrepare(u) \/ SetupCommit(u)
  \/ SetupReleaseAdmission(u) \/ SetupSignalComplete(u) \/ SetupExit(u)

-----------------------------------------------------------------------------
(* Requests that use a session: resolve.                                    *)

\* ENTER names its file and takes the file's rundown; a volume request has
\* only the locator written into its device.
EnterStart(e, f) ==
  /\ rs[e].pc = "idle"
  /\ Present(f) /\ ~ctx[f].closed /\ ProcessLives(f)
  /\ rs' = [rs EXCEPT ![e] = [pc |-> "bind", file |-> f, loc |-> NoLoc]]
  /\ UNCHANGED <<ctx, cell, door, fadm, su, cl, ar, pr, ul, fz, wk>>

VolumeStart(e, s) ==
  LET known == cell[s].slot.gen - (IF cell[s].slot.st = "Staging" THEN 1 ELSE 0)
  IN  /\ rs[e].pc = "idle"
      /\ \E g \in 1 .. known :
           rs' = [rs EXCEPT ![e] = [pc |-> "acquire", file |-> NoFile,
                                    loc |-> [s |-> s, g |-> g]]]
      /\ UNCHANGED <<ctx, cell, door, fadm, su, cl, ar, pr, ul, fz, wk>>

EnterReadBinding(e) ==
  LET b == ctx[rs[e].file].bind
  IN  /\ rs[e].pc = "bind"
      /\ rs' = [rs EXCEPT ![e] = IF b.st = "Active"
                                 THEN [@ EXCEPT !.pc = "acquire", !.loc = b.loc]
                                 ELSE IdleResolver]
      /\ UNCHANGED <<ctx, cell, door, fadm, su, cl, ar, pr, ul, fz, wk>>

AcquireAccess(e) ==
  /\ rs[e].pc = "acquire"
  /\ rs' = [rs EXCEPT ![e] = IF cell[rs[e].loc.s].shut THEN IdleResolver
                             ELSE [@ EXCEPT !.pc = "check"]]
  /\ UNCHANGED <<ctx, cell, door, fadm, su, cl, ar, pr, ul, fz, wk>>

Validates(d, loc) ==
  /\ d.slot.st = "Live" /\ d.slot.gen = loc.g
  /\ d.phase = "Live" /\ d.gen = loc.g /\ d.owners

ResolveValidate(e) ==
  /\ rs[e].pc = "check"
  /\ rs' = [rs EXCEPT ![e] = IF Validates(cell[rs[e].loc.s], rs[e].loc)
                             THEN [@ EXCEPT !.pc = "in"] ELSE IdleResolver]
  /\ UNCHANGED <<ctx, cell, door, fadm, su, cl, ar, pr, ul, fz, wk>>

\* The access goes before the dispatcher lets go of the file.
ReleaseAccess(e) ==
  /\ rs[e].pc = "in"
  /\ rs' = [rs EXCEPT ![e].pc = "leave"]
  /\ UNCHANGED <<ctx, cell, door, fadm, su, cl, ar, pr, ul, fz, wk>>

ResolverLeaves(e) ==
  /\ rs[e].pc = "leave"
  /\ rs' = [rs EXCEPT ![e] = IdleResolver]
  /\ UNCHANGED <<ctx, cell, door, fadm, su, cl, ar, pr, ul, fz, wk>>

ResolverStep(e) ==
  \/ EnterReadBinding(e) \/ AcquireAccess(e) \/ ResolveValidate(e)
  \/ ReleaseAccess(e) \/ ResolverLeaves(e)

-----------------------------------------------------------------------------
(* Terminal arrivals: one wins the fence of a generation, the rest join.    *)

\* prepare_native_terminal_claim: the core claim and the cell's own checks.
NativeClaim(f, loc) ==
  LET d == cell[loc.s]
      k == TerminalClaim(d.slot, ctx[f].bind, d.rend, d.lease, loc)
  IN  CASE d.gen # loc.g \/ (d.owners /\ d.owner # f) -> "Error"
        [] k = "Winner" /\ (d.phase # "Live" \/ ~d.owners) -> "Error"
        [] k = "Join" /\ d.phase \notin {"Removing", "Deleting"} -> "Error"
        [] OTHER -> k

ClaimedCell(d, k) ==
  CASE k = "Winner" -> [d EXCEPT !.slot = CommitTerminalClaim(@), !.lease = FALSE,
                          !.owners = FALSE, !.rend = Admitted(@), !.phase = "Removing"]
    [] k = "Join" -> [d EXCEPT !.rend = Admitted(@)]
    [] OTHER -> d

ClaimedBy(a, f, loc, k) ==
  ar' = [ar EXCEPT ![a] =
    [pc |-> CASE k = "Winner" -> "fence" [] k = "Join" -> "wvis"
              [] k = "Completed" -> "done" [] OTHER -> "blocked",
     loc |-> loc, ctx |-> f]]

\* The winner's claim leaves the file's binding as it was.
ClaimLeavesBinding(a, f, d, loc, k) ==
  /\ cell' = [cell EXCEPT ![loc.s] = ClaimedCell(d, k)]
  /\ ClaimedBy(a, f, loc, k)
  /\ UNCHANGED ctx

\* d is the cell as the claiming hold has it.
CommitClaim(a, f, d, loc, k) ==
  /\ cell' = [cell EXCEPT ![loc.s] = ClaimedCell(d, k)]
  /\ ClaimedBy(a, f, loc, k)
  /\ ctx' = IF k = "Winner"
            THEN [ctx EXCEPT ![f].bind = Bound("ClosingLive", loc)] ELSE ctx

Arrive(a, from, to) == ar[a].pc = from /\ ar' = [ar EXCEPT ![a].pc = to]

\* WaitControlRundown: new control requests are refused, the old ones leave.
FenceCloseControl(a) ==
  /\ Arrive(a, "fence", "ctl")
  /\ ctx' = [ctx EXCEPT ![ar[a].ctx].closed = TRUE]
  /\ UNCHANGED <<cell, door, fadm, su, cl, rs, pr, ul, fz, wk>>

FenceCloseAccess(a) ==
  /\ Arrive(a, "ctl", "acc")
  /\ FileDrained(ar[a].ctx)
  /\ cell' = [cell EXCEPT ![ar[a].loc.s].shut = TRUE]
  /\ UNCHANGED <<ctx, door, fadm, su, cl, rs, pr, ul, fz, wk>>

FenceAccessDrained(a) ==
  /\ Arrive(a, "acc", "verdict")
  /\ AccessDrained(ar[a].loc.s)
  /\ UNCHANGED <<ctx, cell, door, fadm, su, cl, rs, pr, ul, fz, wk>>

\* The pass completes and the winner gives back the control reference.
FenceComplete(a) ==
  LET s == ar[a].loc.s
      kind == StrongReleaseKind(cell[s].slot)
  IN  /\ Arrive(a, "verdict", "finish")
      /\ cell' = [cell EXCEPT ![s].slot = Released(@, kind, FALSE)]
      /\ UNCHANGED <<ctx, door, fadm, su, cl, rs, pr, ul, fz, wk>>

\* A refused pass, before or after the rundowns: parked for the worker, or
\* past its last retry.
FenceParks(a) ==
  /\ ar[a].pc \in {"fence", "verdict"}
  /\ ar' = [ar EXCEPT ![a].pc = "wvis"]
  /\ wk' = [wk EXCEPT ![ar[a].loc.s] =
                  [pc |-> "parked", loc |-> ar[a].loc, ctx |-> ar[a].ctx]]
  /\ UNCHANGED <<ctx, cell, door, fadm, su, cl, rs, pr, ul, fz>>

FenceFails(a) ==
  /\ ar[a].pc \in {"fence", "verdict"}
  /\ ar' = [ar EXCEPT ![a].pc = "store"]
  /\ UNCHANGED <<ctx, cell, door, fadm, su, cl, rs, pr, ul, fz, wk>>

FinishReady(d, loc) ==
  /\ d.gen = loc.g /\ d.phase = "Removing" /\ ~d.owners /\ ~d.ready
  /\ ~d.deposit /\ d.failstop = "Empty" /\ d.fin = "Idle"

\* finish_fence: the terminal reference goes; the last one deposits the
\* generation with its finalizer under an admission taken in the same hold.
Deletes(kind) == kind = "Delete" /\ door.fin

FinishedCell(d, kind) ==
  CASE Deletes(kind) -> [d EXCEPT !.slot = Released(@, kind, TRUE), !.fin = "Queued",
                                  !.deposit = TRUE, !.phase = "Deleting"]
    [] kind = "Retained" -> [d EXCEPT !.slot = Released(@, kind, TRUE), !.ready = TRUE]
    [] OTHER -> d

FinishFence(a) ==
  LET loc == ar[a].loc
      d == cell[loc.s]
      kind == TerminalReleaseKind(d.slot)
  IN  /\ ar[a].pc = "finish"
      /\ IF ~FinishReady(d, loc)
         THEN /\ ar' = [ar EXCEPT ![a].pc = "store"]
              /\ UNCHANGED <<cell, fadm>>
         ELSE /\ ar' = [ar EXCEPT ![a].pc =
                          IF Deletes(kind) THEN "kick"
                          ELSE IF kind = "Retained" THEN "wvis" ELSE "stuck"]
              /\ fadm' = IF Deletes(kind) THEN fadm + 1 ELSE fadm
              /\ cell' = [cell EXCEPT ![loc.s] = FinishedCell(d, kind)]
      /\ UNCHANGED <<ctx, door, su, cl, rs, pr, ul, fz, wk>>

\* queue_cell_finalizer.
Queued(s, by) ==
  /\ cell' = [cell EXCEPT ![s].admitted = TRUE, ![s].queued = TRUE]
  /\ fz' = [fz EXCEPT ![s] = [pc |-> "queued", loc |-> by.loc, ctx |-> by.ctx]]

KickFinalizer(a) ==
  /\ Arrive(a, "kick", "whand")
  /\ Queued(ar[a].loc.s, ar[a])
  /\ UNCHANGED <<ctx, door, fadm, su, cl, rs, pr, ul, wk>>

\* The winner takes the finalizer's handoff, or an authenticated fail stop.
WaitFinalizerResolution(a) ==
  LET d == cell[ar[a].loc.s]
  IN  /\ ar[a].pc = "whand" /\ d.vis
      /\ cell' = [cell EXCEPT ![ar[a].loc.s].handoff = FALSE]
      /\ ar' = [ar EXCEPT ![a].pc =
                  IF d.handoff \/ d.failstop = "Published" THEN "wvis" ELSE "stuck"]
      /\ UNCHANGED <<ctx, door, fadm, su, cl, rs, pr, ul, fz, wk>>

\* An arrival gives its ticket back once the outcome is there; the last one
\* owes the finalizer a signal.
GiveTicketBack(a) ==
  LET d == cell[ar[a].loc.s]
      told == IF d.rend.out = "Completed" THEN "done" ELSE "blocked"
  IN  /\ cell' = [cell EXCEPT ![ar[a].loc.s].rend = TicketReleased(@)]
      /\ ar' = [ar EXCEPT ![a].pc =
                  CASE d.rend.st # "Closed" -> "stuck"
                    [] DrainedBy(d.rend) -> IF told = "done" THEN "signal" ELSE "signalB"
                    [] OTHER -> told]

\* An outcome still open at visibility is waited for by its own event.
WaitVisibility(a) ==
  LET d == cell[ar[a].loc.s]
  IN  /\ \/ ar[a].pc = "wvis" /\ d.vis
         \/ ar[a].pc = "wout" /\ d.out
      /\ IF ar[a].pc = "wvis" /\ d.rend.loc = ar[a].loc /\ d.rend.st = "Open"
         THEN ar' = [ar EXCEPT ![a].pc = "wout"] /\ UNCHANGED cell
         ELSE GiveTicketBack(a)
      /\ UNCHANGED <<ctx, door, fadm, su, cl, rs, pr, ul, fz, wk>>

\* The last arrival leaves without a word.
LastTicketSilent(a) ==
  /\ ar[a].pc \in {"signal", "signalB"}
  /\ ar' = [ar EXCEPT ![a].pc = IF @ = "signal" THEN "done" ELSE "blocked"]
  /\ UNCHANGED <<ctx, cell, door, fadm, su, cl, rs, pr, ul, fz, wk>>

SignalDrained(a) ==
  /\ ar[a].pc \in {"signal", "signalB"}
  /\ cell' = [cell EXCEPT ![ar[a].loc.s].drained = TRUE]
  /\ ar' = [ar EXCEPT ![a].pc = IF @ = "signal" THEN "done" ELSE "blocked"]
  /\ UNCHANGED <<ctx, door, fadm, su, cl, rs, pr, ul, fz, wk>>

-----------------------------------------------------------------------------
(* A generation that cannot be taken down: the durable fail stop.           *)

FailStopKind(f, loc) ==
  LET d == cell[loc.s]
  IN  CASE d.failstop # "Empty" -> "Reentry"
        [] FailStopPublishes(ctx[f].bind, d.rend, loc) /\ ~d.out -> "Published"
        [] OTHER -> "Opaque"

\* store_and_resolve: binding, rendezvous and slot change in one hold.
StoreFailStop(f, loc, handoff) ==
  LET k == FailStopKind(f, loc)
      d == cell[loc.s]
  IN  /\ cell' = [cell EXCEPT ![loc.s] =
           CASE k = "Published" -> [d EXCEPT !.failstop = k, !.handoff = @ \/ handoff,
                                      !.rend = ClosePublished(@, "Blocked")]
             [] k = "Opaque" -> [d EXCEPT !.failstop = k, !.rend = CloseOpaque(@)]
             [] OTHER -> d]
      /\ ctx' = CASE k = "Published" ->
                       [ctx EXCEPT ![f].bind = Bound("ClosingBlocked", loc)]
                  [] k = "Opaque" -> [ctx EXCEPT ![f].bind = Bound("ClosingOpaque", loc)]
                  [] OTHER -> ctx

ArrivalFailStop(a) ==
  LET k == FailStopKind(ar[a].ctx, ar[a].loc)
  IN  /\ Arrive(a, "store", IF k = "Published" THEN "wakeV" ELSE "latch")
      /\ StoreFailStop(ar[a].ctx, ar[a].loc, FALSE)
      /\ UNCHANGED <<door, fadm, su, cl, rs, pr, ul, fz, wk>>

\* signal_terminal_outcome sets visibility, then the outcome; without a
\* published outcome only visibility, and the thread waits forever.
Woken(pc, last) ==
  CASE pc = "wakeV" -> "wakeO" [] pc = "wakeO" -> last [] OTHER -> "stuck"

Wake(s, pc) ==
  cell' = IF pc = "wakeO" THEN [cell EXCEPT ![s].out = TRUE]
                          ELSE [cell EXCEPT ![s].vis = TRUE]

ArrivalWakes(a) ==
  /\ ar[a].pc \in {"wakeV", "wakeO", "latch"}
  /\ ar' = [ar EXCEPT ![a].pc = Woken(@, "wvis")]
  /\ Wake(ar[a].loc.s, ar[a].pc)
  /\ UNCHANGED <<ctx, door, fadm, su, cl, rs, pr, ul, fz, wk>>

ArrivalStep(a) ==
  \/ FenceCloseControl(a) \/ FenceCloseAccess(a) \/ FenceAccessDrained(a)
  \/ FenceComplete(a) \/ FenceParks(a) \/ FenceFails(a) \/ FinishFence(a)
  \/ KickFinalizer(a) \/ WaitFinalizerResolution(a) \/ WaitVisibility(a)
  \/ SignalDrained(a) \/ ArrivalFailStop(a) \/ ArrivalWakes(a)

-----------------------------------------------------------------------------
(* The retry worker: the pass parked in the cell, run again, rundowns       *)
(* included.  It is parked again while a call refuses for now, ends in a    *)
(* fail stop when it may not be repeated, or completes.                     *)

Work(s, from, to) == wk[s].pc = from /\ wk' = [wk EXCEPT ![s].pc = to]

\* A cell that no longer records its context is left without a word.
WorkerResumes(s) ==
  /\ Work(s, "parked", IF cell[s].owner = NoFile THEN "idle" ELSE "ctl")
  /\ ctx' = IF cell[s].owner = NoFile THEN ctx
            ELSE [ctx EXCEPT ![wk[s].ctx].closed = TRUE]
  /\ UNCHANGED <<cell, door, fadm, su, cl, ar, rs, pr, ul, fz>>

WorkerCloses(s) ==
  /\ Work(s, "ctl", "acc")
  /\ FileDrained(wk[s].ctx)
  /\ cell' = [cell EXCEPT ![s].shut = TRUE]
  /\ UNCHANGED <<ctx, door, fadm, su, cl, ar, rs, pr, ul, fz>>

\* defer answers with another delay.
WorkerParksAgain(s) ==
  /\ Work(s, "acc", "parked") /\ AccessDrained(s)
  /\ UNCHANGED <<ctx, cell, door, fadm, su, cl, ar, rs, pr, ul, fz>>

\* The retry is spent, before the rundowns or after them.
WorkerGivesUp(s) ==
  /\ \/ Work(s, "parked", "store")
     \/ Work(s, "acc", "store") /\ AccessDrained(s)
  /\ UNCHANGED <<ctx, cell, door, fadm, su, cl, ar, rs, pr, ul, fz>>

\* The pass completes: the control reference goes, as in FenceComplete.
WorkerCompletes(s) ==
  /\ Work(s, "acc", "finish") /\ AccessDrained(s)
  /\ cell' = [cell EXCEPT ![s].slot = Released(@, StrongReleaseKind(@), FALSE)]
  /\ UNCHANGED <<ctx, door, fadm, su, cl, ar, rs, pr, ul, fz>>

\* finish_fence again; a refusal of its preparation ends the worker in
\* silence, and nobody waits for the finalizer's handoff.
WorkerFinishes(s) ==
  LET d == cell[s]
      kind == TerminalReleaseKind(d.slot)
      ready == FinishReady(d, wk[s].loc)
  IN  /\ Work(s, "finish", IF ready /\ Deletes(kind) THEN "kick" ELSE "idle")
      /\ cell' = IF ready THEN [cell EXCEPT ![s] = FinishedCell(d, kind)] ELSE cell
      /\ fadm' = IF ready /\ Deletes(kind) THEN fadm + 1 ELSE fadm
      /\ UNCHANGED <<ctx, door, su, cl, ar, rs, pr, ul, fz>>

WorkerKicks(s) ==
  /\ Work(s, "kick", "idle")
  /\ Queued(s, wk[s])
  /\ UNCHANGED <<ctx, door, fadm, su, cl, ar, rs, pr, ul>>

WorkerFailStop(s) ==
  LET k == FailStopKind(wk[s].ctx, wk[s].loc)
  IN  /\ Work(s, "store", IF k = "Published" THEN "wakeV" ELSE "latch")
      /\ StoreFailStop(wk[s].ctx, wk[s].loc, FALSE)
      /\ UNCHANGED <<door, fadm, su, cl, ar, rs, pr, ul, fz>>

WorkerWakes(s) ==
  /\ wk[s].pc \in {"wakeV", "wakeO", "latch"}
  /\ wk' = [wk EXCEPT ![s].pc = Woken(@, "idle")]
  /\ Wake(s, wk[s].pc)
  /\ UNCHANGED <<ctx, door, fadm, su, cl, ar, rs, pr, ul, fz>>

WorkerStep(s) ==
  \/ WorkerResumes(s) \/ WorkerCloses(s) \/ WorkerParksAgain(s)
  \/ WorkerGivesUp(s) \/ WorkerCompletes(s) \/ WorkerFinishes(s)
  \/ WorkerKicks(s) \/ WorkerFailStop(s) \/ WorkerWakes(s)

-----------------------------------------------------------------------------
(* The finalizer.                                                           *)

Final(s, from, to) == fz[s].pc = from /\ fz' = [fz EXCEPT ![s].pc = to]

\* fsring_finalizer_callback takes its queued context.
FinalizerTake(s) ==
  /\ Final(s, "queued", IF cell[s].queued THEN "run" ELSE "stuck")
  /\ cell' = [cell EXCEPT ![s].queued = FALSE]
  /\ UNCHANGED <<ctx, door, fadm, su, cl, ar, rs, pr, ul, wk>>

DeleteReady(d, c, loc) ==
  /\ d.slot.st = "Deleting" /\ d.slot.gen = loc.g
  /\ d.rend.st = "Open" /\ d.rend.loc = loc /\ d.rend.n > 0 /\ ~d.out
  /\ ~d.ready /\ d.failstop = "Empty"
  /\ c.bind = Bound("ClosingLive", loc) /\ c.life = "LiveCellOwned"

\* run_queued_finalizer: one hold takes the deposit, prepares the delete and
\* leaves the winner its handoff; a refused delete is a fail stop.
FinalizerRun(s) ==
  LET d == cell[s]
      f == fz[s].ctx
      loc == fz[s].loc
      k == FailStopKind(f, loc)
  IN  /\ IF ~d.deposit \/ d.fin # "Queued" \/ d.handoff
         THEN Final(s, "run", "stuck") /\ UNCHANGED <<ctx, cell>>
         ELSE IF DeleteReady(d, ctx[f], loc)
         THEN /\ Final(s, "run", "destroy")
              /\ cell' = [cell EXCEPT ![s].fin = "Running", ![s].deposit = FALSE,
                                      ![s].handoff = TRUE]
              /\ UNCHANGED ctx
         ELSE /\ Final(s, "run", IF k = "Published" THEN "wakeV" ELSE "latch")
              /\ StoreFailStop(f, loc, TRUE)
      /\ UNCHANGED <<door, fadm, su, cl, ar, rs, pr, ul, wk>>

\* The shell and the driver root reference go before anything is announced.
FinalizerDestroy(s) ==
  /\ Final(s, "destroy", "publish")
  /\ UNCHANGED <<ctx, cell, door, fadm, su, cl, ar, rs, pr, ul, wk>>

\* The cell keeps naming a context that CLOSE may now free.
PublishKeepsContext(s) ==
  /\ Final(s, "publish", "vis")
  /\ ctx' = [ctx EXCEPT ![fz[s].ctx].life = "Completed",
                        ![fz[s].ctx].bind = Bound("ClosingComplete", fz[s].loc)]
  /\ cell' = [cell EXCEPT ![s].rend = ClosePublished(@, "Completed")]
  /\ UNCHANGED <<door, fadm, su, cl, ar, rs, pr, ul, wk>>

\* publish_completed_generation: record, binding, recorded context, outcome.
FinalizerPublish(s) ==
  /\ Final(s, "publish", "vis")
  /\ ctx' = [ctx EXCEPT ![fz[s].ctx].life = "Completed",
                        ![fz[s].ctx].bind = Bound("ClosingComplete", fz[s].loc)]
  /\ cell' = [cell EXCEPT ![s].rend = ClosePublished(@, "Completed"),
                          ![s].owner = NoFile]
  /\ UNCHANGED <<door, fadm, su, cl, ar, rs, pr, ul, wk>>

FinalizerVisible(s) ==
  /\ Final(s, "vis", "wakeV")
  /\ cell' = [cell EXCEPT ![s].vis = TRUE]
  /\ UNCHANGED <<ctx, door, fadm, su, cl, ar, rs, pr, ul, wk>>

\* After a fail stop the callback goes straight to its epilogue.
FinalizerWakes(s) ==
  /\ fz[s].pc \in {"wakeV", "wakeO", "latch"}
  /\ fz' = [fz EXCEPT ![s].pc =
       CASE @ = "wakeV" -> "wakeO"
         [] @ = "wakeO" /\ cell[s].failstop = "Empty" -> "drain"
         [] OTHER -> "epilogue"]
  /\ Wake(s, fz[s].pc)
  /\ UNCHANGED <<ctx, door, fadm, su, cl, ar, rs, pr, ul, wk>>

\* The finalizer does not wait for the arrivals it has woken.
FinalizerHurries(s) ==
  /\ Final(s, "drain", "reset")
  /\ cell' = [cell EXCEPT ![s].shut = cell[s].slot.gen = MaxGeneration]
  /\ UNCHANGED <<ctx, door, fadm, su, cl, ar, rs, pr, ul, wk>>

\* wait_joiners_drained, then the access rundown opens again for a slot that
\* has a generation left.
FinalizerDrained(s) ==
  /\ Final(s, "drain", "reset")
  /\ cell[s].drained
  /\ cell' = [cell EXCEPT ![s].shut = cell[s].slot.gen = MaxGeneration]
  /\ UNCHANGED <<ctx, door, fadm, su, cl, ar, rs, pr, ul, wk>>

\* reset_after_delete: of the events only the outcome is cleared, and the
\* callback admission stays.
FinalizerReset(s) ==
  LET d == cell[s]
      slot == ResetSlot(d.slot)
  IN  /\ Final(s, "reset", "epilogue")
      /\ cell' = [cell EXCEPT ![s] =
           [d EXCEPT !.slot = slot, !.phase = slot.st, !.rend = Inactive,
              !.fin = "Unbound", !.out = FALSE, !.gen = 0, !.proc = NoFile,
              !.handled = FALSE, !.lease = FALSE, !.owners = FALSE, !.ready = FALSE]]
      /\ UNCHANGED <<ctx, door, fadm, su, cl, ar, rs, pr, ul, wk>>

FinalizerEpilogue(s) ==
  /\ Final(s, "epilogue", IF cell[s].admitted THEN "idle" ELSE "stuck")
  /\ cell' = [cell EXCEPT ![s].admitted = FALSE]
  /\ UNCHANGED <<ctx, door, fadm, su, cl, ar, rs, pr, ul, wk>>

\* The admission is released outside the lock, when the cell may already
\* serve its next generation.
FinalizerRelease ==
  /\ fadm > Cardinality({s \in Slots : cell[s].admitted})
            + Cardinality({a \in Arrivals : ar[a].pc = "kick"})
            + Cardinality({s \in Slots : wk[s].pc = "kick"})
  /\ fadm' = fadm - 1
  /\ UNCHANGED <<ctx, cell, door, su, cl, ar, rs, pr, ul, fz, wk>>

FinalizerStep(s) ==
  \/ FinalizerTake(s) \/ FinalizerRun(s) \/ FinalizerDestroy(s)
  \/ FinalizerPublish(s) \/ FinalizerVisible(s) \/ FinalizerWakes(s)
  \/ FinalizerDrained(s) \/ FinalizerReset(s) \/ FinalizerEpilogue(s)

-----------------------------------------------------------------------------
(* CREATE, CLEANUP and CLOSE of a control file.                             *)

Create(f) ==
  /\ cl[f].pc = "absent" /\ door.control
  /\ cl' = [cl EXCEPT ![f].pc = "open"]
  /\ ctx' = [ctx EXCEPT ![f].life = "Lease"]
  /\ UNCHANGED <<cell, door, fadm, su, ar, rs, pr, ul, fz, wk>>

\* CLEANUP takes the file's rundown unless a fence has closed it.
CleanupStart(f) ==
  /\ cl[f].pc = "open"
  /\ cl' = [cl EXCEPT ![f].pc = IF ctx[f].closed THEN "route" ELSE "claim"]
  /\ UNCHANGED <<ctx, cell, door, fadm, su, ar, rs, pr, ul, fz, wk>>

CleanupClaims(f) ==
  LET k == CleanupClaim(ctx[f].bind)
  IN  /\ cl[f].pc = "claim"
      /\ ctx' = [ctx EXCEPT ![f].bind = ClaimCleanup(@),
                            ![f].cancel = @ \/ k = "Setup"]
      /\ cl' = [cl EXCEPT ![f].right = k, ![f].pc =
                  CASE k \in {"Empty", "Setup"} -> "close"
                    [] k = "Error" -> "cleaned" [] OTHER -> "route"]
      /\ UNCHANGED <<cell, door, fadm, su, ar, rs, pr, ul, fz, wk>>

\* wait_and_release_requestor, after every verdict.
CleanupClosesFile(f) ==
  /\ cl[f].pc = "close"
  /\ ctx' = [ctx EXCEPT ![f].closed = TRUE]
  /\ cl' = [cl EXCEPT ![f].pc = "drain"]
  /\ UNCHANGED <<cell, door, fadm, su, ar, rs, pr, ul, fz, wk>>

CleanupDrained(f) ==
  /\ cl[f].pc = "drain" /\ FileDrained(f)
  /\ cl[f].right = "Setup" => ctx[f].complete
  /\ cl' = [cl EXCEPT ![f].pc =
              IF cl[f].right \in {"Empty", "Setup"} THEN "publish"
              ELSE "cleaned"]
  /\ UNCHANGED <<ctx, cell, door, fadm, su, ar, rs, pr, ul, fz, wk>>

\* A setup's binding is retired here; the lease becomes the right to close.
CleanupPublish(f) ==
  LET c == ctx[f]
  IN  /\ cl[f].pc = "publish"
      /\ ctx' = [ctx EXCEPT ![f] = [c EXCEPT
                   !.bind = IF cl[f].right = "Setup" THEN FinishSetupCleanup(@) ELSE @,
                   !.life = IF @ = "Lease" THEN "Close" ELSE @]]
      /\ cl' = [cl EXCEPT ![f].pc = "cleaned"]
      /\ UNCHANGED <<cell, door, fadm, su, ar, rs, pr, ul, fz, wk>>

Refuse(f) == cl' = [cl EXCEPT ![f].pc = "close", ![f].refused = TRUE]
Proceed(f) == cl' = [cl EXCEPT ![f].pc = "close"]

\* The route's stack expansion fails: CLEANUP ends without a claim.
CleanupNoStack(f) ==
  /\ cl[f].pc = "route" /\ ~cl[f].again
  /\ Refuse(f)
  /\ UNCHANGED <<ctx, cell, door, fadm, su, ar, rs, pr, ul, fz, wk>>

\* claim_native_cleanup_route and continue_cleanup, one hold per pass.
CleanupRoute(f) ==
  LET b == ctx[f].bind
      k == CleanupClaim(b)
      n == NativeClaim(f, b.loc)
      first == ~cl[f].again
      plain == IF first THEN Proceed(f) ELSE Refuse(f)
  IN  /\ cl[f].pc = "route"
      /\ CASE k \in {"NeedsLiveClaim", "JoinLive"} /\ n # "Error" ->
                /\ CommitClaim(f, f, cell[b.loc.s], b.loc, n)
                /\ cl' = [cl EXCEPT ![f].pc = "terminal"]
           [] k = "Completed" /\ ctx[f].life = "Completed" ->
                /\ ctx' = [ctx EXCEPT ![f].bind = ClaimCleanup(b), ![f].life = "Close"]
                /\ Proceed(f)
                /\ UNCHANGED <<cell, ar>>
           [] k = "Blocked" -> Refuse(f) /\ UNCHANGED <<ctx, cell, ar>>
           [] OTHER -> /\ ctx' = [ctx EXCEPT ![f].bind = ClaimCleanup(b)]
                       /\ plain
                       /\ UNCHANGED <<cell, ar>>
      /\ UNCHANGED <<door, fadm, su, rs, pr, ul, fz, wk>>

\* A completed arrival claims once more for its record.
CleanupContinue(f) ==
  /\ cl[f].pc = "terminal" /\ ar[f].pc \in {"done", "blocked"}
  /\ IF ar[f].pc = "done" /\ ~cl[f].again
     THEN cl' = [cl EXCEPT ![f].pc = "route", ![f].again = TRUE]
     ELSE Refuse(f)
  /\ ar' = [ar EXCEPT ![f] = NoArrival]
  /\ UNCHANGED <<ctx, cell, door, fadm, su, rs, pr, ul, fz, wk>>

\* take_close_ownership.
MayFree(c) == c.life = "Close" \/ (c.life = "Lease" /\ c.bind.st = "Empty")

\* CLOSE follows the last request of the file; a context it may not free
\* stays with its cell, unreachable.
Close(f) ==
  /\ cl[f].pc = "cleaned" /\ FileDrained(f)
  /\ cl' = [cl EXCEPT ![f].pc = "closed"]
  /\ ctx' = IF MayFree(ctx[f]) THEN [ctx EXCEPT ![f].life = "Freed"] ELSE ctx
  /\ UNCHANGED <<cell, door, fadm, su, ar, rs, pr, ul, fz, wk>>

FileStep(f) ==
  \/ CleanupClaims(f) \/ CleanupClosesFile(f) \/ CleanupDrained(f)
  \/ CleanupPublish(f) \/ CleanupNoStack(f) \/ CleanupRoute(f)
  \/ CleanupContinue(f) \/ Close(f)

-----------------------------------------------------------------------------
(* Process exit.                                                            *)

\* The exit of a process follows its requests; its handles may be open.
ProcessExit ==
  /\ pr.pc = "alive" /\ Exiting # NoFile
  /\ \A u \in Setups : su[u].file # Exiting
  /\ \A e \in Resolvers : rs[e].file # Exiting
  /\ pr' = [pc |-> IF door.process THEN "scan" ELSE "gone", cur |-> 0]
  /\ UNCHANGED <<ctx, cell, door, fadm, su, cl, ar, rs, ul, fz, wk>>

\* process_locator.
Matches(d) ==
  /\ d.proc = Exiting /\ ~d.handled /\ d.gen # 0
  /\ d.phase \in {"Live", "Removing", "Deleting"} /\ d.rend.loc.g = d.gen

\* What a scan answers for a cell: a claim through the recorded context while
\* there is one, afterwards the rendezvous alone.
ScanAnswer(d) ==
  CASE d.owner # NoFile -> NativeClaim(d.owner, d.rend.loc)
    [] d.rend.st = "Open" -> "Join"
    [] d.rend.st = "Closed" -> d.rend.out
    [] OTHER -> "Error"

\* scan_one_cell_for_process: the action and its mark in one hold; the scan
\* starts again after it.
ProcessScan ==
  LET d == cell[pr.cur]
      n == ScanAnswer(d)
      matched == Matches(d)
      acts == matched /\ n # "Error"
  IN  /\ pr.pc = "scan"
      /\ IF acts THEN CommitClaim("process", d.owner, [d EXCEPT !.handled = TRUE],
                                  d.rend.loc, n)
                 ELSE UNCHANGED <<ctx, cell, ar>>
      /\ pr' = CASE acts -> [pr EXCEPT !.pc = "act"]
                 [] matched -> [pr EXCEPT !.pc = "stuck"]
                 [] pr.cur + 1 < SlotCount -> [pr EXCEPT !.cur = @ + 1]
                 [] OTHER -> [pr EXCEPT !.pc = "gone"]
      /\ UNCHANGED <<door, fadm, su, cl, rs, ul, fz, wk>>

ProcessContinue ==
  /\ pr.pc = "act" /\ ar["process"].pc \in {"done", "blocked"}
  /\ pr' = [pc |-> "scan", cur |-> 0]
  /\ ar' = [ar EXCEPT !["process"] = NoArrival]
  /\ UNCHANGED <<ctx, cell, door, fadm, su, cl, rs, ul, fz, wk>>

-----------------------------------------------------------------------------
(* Driver unload.                                                           *)

Unload(from, to) == ul.pc = from /\ ul' = [pc |-> to, cur |-> 0]

\* close_global_admissions: every door but the finalizers', in one hold.
UnloadClosesDoors ==
  /\ MayUnload /\ Unload("idle", "wait")
  /\ door' = [door EXCEPT !.core = FALSE, !.process = FALSE,
                          !.setup = FALSE, !.control = FALSE]
  /\ UNCHANGED <<ctx, cell, fadm, su, cl, ar, rs, pr, fz, wk>>

\* The process callbacks under way, then the setups.
UnloadWaits ==
  /\ Unload("wait", "scan")
  /\ pr.pc \notin {"scan", "act", "stuck"} /\ SetupsDrained
  /\ UNCHANGED <<ctx, cell, door, fadm, su, cl, ar, rs, pr, fz, wk>>

EmptyBut(d) ==
  /\ d.phase \in {"Free", "Retired"} /\ d.gen = 0 /\ d.proc = NoFile /\ ~d.handled
  /\ ~d.lease /\ ~d.owners /\ d.rend = Inactive /\ ~d.ready
  /\ FinalizerEmpty([d EXCEPT !.admitted = FALSE])

ExactlyEmpty(d) == EmptyBut(d) /\ ~d.admitted

\* The end of a pass over the cells, or the next cell.
NextCell(to) ==
  ul' = IF ul.cur + 1 < SlotCount THEN [ul EXCEPT !.cur = @ + 1]
                                  ELSE [pc |-> to, cur |-> 0]

\* observe_r3_unload_cell; a callback in its epilogue is looked at again.
UnloadScan ==
  LET d == cell[ul.cur]
      n == ScanAnswer(d)
      acts == ~EmptyBut(d) /\ d.rend.st # "Inactive" /\ d.gen = d.rend.loc.g /\ n # "Error"
  IN  /\ ul.pc = "scan"
      /\ IF acts THEN CommitClaim("unload", d.owner, d, d.rend.loc, n)
                 ELSE UNCHANGED <<ctx, cell, ar>>
      /\ CASE ExactlyEmpty(d) -> NextCell("finclose")
           [] EmptyBut(d) -> ul' = [ul EXCEPT !.cur = 0]
           [] acts -> ul' = [ul EXCEPT !.pc = "act"]
           [] OTHER -> ul' = [ul EXCEPT !.pc = "stuck"]
      /\ UNCHANGED <<door, fadm, su, cl, rs, pr, fz, wk>>

\* A blocked generation blocks the unload for good.
UnloadContinue ==
  /\ ar["unload"].pc \in {"done", "blocked"}
  /\ Unload("act", IF ar["unload"].pc = "done" THEN "scan" ELSE "blocked")
  /\ ar' = [ar EXCEPT !["unload"] = NoArrival]
  /\ UNCHANGED <<ctx, cell, door, fadm, su, cl, rs, pr, fz, wk>>

UnloadClosesFinalizers ==
  /\ Unload("finclose", "fin")
  /\ door' = [door EXCEPT !.fin = FALSE]
  /\ UNCHANGED <<ctx, cell, fadm, su, cl, ar, rs, pr, fz, wk>>

\* observe_r3_finalizer_for_drain: an empty cell's visibility is cleared.
UnloadFinalizerPass ==
  LET d == cell[ul.cur]
      inFlight == /\ d.phase = "Deleting" /\ d.admitted /\ d.fin = "Running"
                  /\ ~d.ready /\ d.failstop = "Empty" /\ d.rend.out = "Completed"
  IN  /\ ul.pc = "fin"
      /\ cell' = IF EmptyBut(d) THEN [cell EXCEPT ![ul.cur].vis = FALSE] ELSE cell
      /\ CASE EmptyBut(d) \/ inFlight -> NextCell("rundown")
           [] d.failstop # "Empty" -> ul' = [ul EXCEPT !.pc = "blocked"]
           [] d.admitted /\ ~d.vis -> UNCHANGED ul
           [] OTHER -> ul' = [ul EXCEPT !.pc = "stuck"]
      /\ UNCHANGED <<ctx, door, fadm, su, cl, ar, rs, pr, fz, wk>>

\* The callbacks' admissions are not waited for.
UnloadHurries ==
  /\ Unload("rundown", "ack")
  /\ UNCHANGED <<ctx, cell, door, fadm, su, cl, ar, rs, pr, fz, wk>>

UnloadFinalizersDrained ==
  /\ Unload("rundown", "ack") /\ fadm = 0
  /\ UNCHANGED <<ctx, cell, door, fadm, su, cl, ar, rs, pr, fz, wk>>

\* acknowledge_r3_finalizer_after_rundown.
UnloadAcknowledge ==
  LET d == cell[ul.cur]
  IN  /\ ul.pc = "ack"
      /\ IF ExactlyEmpty(d) THEN NextCell("contexts") ELSE ul' = [ul EXCEPT !.pc = "stuck"]
      /\ cell' = IF ExactlyEmpty(d) THEN [cell EXCEPT ![ul.cur].vis = FALSE] ELSE cell
      /\ UNCHANGED <<ctx, door, fadm, su, cl, ar, rs, pr, fz, wk>>

\* prepare_r3_native_ledgers_clear, after the last control file is gone.
LedgersClear(s) ==
  /\ ExactlyEmpty(cell[s]) /\ cell[s].slot.st \in {"Free", "Retired"}
  /\ ~cell[s].out /\ ~cell[s].vis /\ cell[s].drained

UnloadPreflight ==
  /\ Unload("contexts", IF \A s \in Slots : LedgersClear(s) THEN "done" ELSE "stuck")
  /\ ContextsDrained
  /\ UNCHANGED <<ctx, cell, door, fadm, su, cl, ar, rs, pr, fz, wk>>

UnloadStep ==
  \/ UnloadWaits \/ UnloadScan \/ UnloadContinue
  \/ UnloadClosesFinalizers \/ UnloadFinalizerPass \/ UnloadFinalizersDrained
  \/ UnloadAcknowledge \/ UnloadPreflight

-----------------------------------------------------------------------------

Init ==
  /\ ctx = [f \in Files |-> NewContext]
  /\ cell = [s \in Slots |-> NewCell]
  /\ door = [core |-> TRUE, setup |-> TRUE, process |-> TRUE,
             control |-> TRUE, fin |-> TRUE]
  /\ fadm = 0
  /\ su = [u \in Setups |-> IdleSetup]
  /\ cl = [f \in Files |-> [pc |-> "absent", right |-> "None",
                            again |-> FALSE, refused |-> FALSE]]
  /\ ar = [a \in Arrivals |-> NoArrival]
  /\ rs = [e \in Resolvers |-> IdleResolver]
  /\ pr = [pc |-> "alive", cur |-> 0]
  /\ ul = [pc |-> "idle", cur |-> 0]
  /\ fz = [s \in Slots |-> NoArrival]
  /\ wk = [s \in Slots |-> NoArrival]

\* What the driver does by itself once asked.
DriverStep ==
  \/ \E u \in Setups : SetupStep(u)
  \/ \E e \in Resolvers : ResolverStep(e)
  \/ \E a \in Arrivals : ArrivalStep(a)
  \/ \E s \in Slots : WorkerStep(s) \/ FinalizerStep(s)
  \/ FinalizerRelease
  \/ \E f \in Files : FileStep(f)
  \/ ProcessScan \/ ProcessContinue \/ UnloadStep

\* What arrives from outside.
Request ==
  \/ \E f \in Files : \/ Create(f) \/ CleanupStart(f)
                      \/ \E u \in Setups : SetupGuard(u, f)
                      \/ \E e \in Resolvers : EnterStart(e, f)
  \/ \E e \in Resolvers, s \in Slots : VolumeStart(e, s)
  \/ ProcessExit \/ UnloadClosesDoors

Next == DriverStep \/ Request

Spec == Init /\ [][Next]_vars

\* Every thread of the driver keeps running, a refusal that is only for now
\* does not come back for ever, and a control handle is closed at some time
\* (process exit does it); no one has to call SETUP or ENTER.
FairSpec ==
  /\ Spec
  /\ \A u \in Setups : WF_vars(SetupStep(u))
  /\ \A e \in Resolvers : WF_vars(ResolverStep(e))
  /\ \A a \in Arrivals : WF_vars(ArrivalStep(a))
  /\ \A s \in Slots : /\ WF_vars(WorkerStep(s)) /\ WF_vars(FinalizerStep(s))
                      /\ SF_vars(WorkerCompletes(s) \/ WorkerGivesUp(s))
  /\ WF_vars(FinalizerRelease)
  /\ \A f \in Files : WF_vars(FileStep(f)) /\ WF_vars(CleanupStart(f))
  /\ WF_vars(ProcessScan) /\ WF_vars(ProcessContinue) /\ WF_vars(UnloadStep)

-----------------------------------------------------------------------------
(* Properties.                                                              *)

TypeOK ==
  /\ \A f \in Files : ctx[f].life \in {"Absent", "Lease", "LiveCellOwned",
                                       "Completed", "Close", "Freed"}
  /\ \A s \in Slots : /\ cell[s].phase \in {"Free", "Staging", "Live", "Removing",
                                            "Deleting", "Retired"}
                      /\ cell[s].slot.gen \in 0 .. MaxGeneration
                      /\ cell[s].rend.n \in 0 .. Cardinality(Arrivals)
  /\ fadm \in 0 .. 2 * SlotCount

Fencing == {"fence", "ctl", "acc", "verdict", "finish", "kick", "store"}
HoldsTicket == Fencing \cup {"whand", "wvis", "wout", "wakeV", "wakeO", "latch", "stuck"}

\* A freed control context is named by nobody who will look at it again: no
\* cell's recorded context, no arrival fencing with it, no retry worker, no
\* finalizer before its publication, no request (close frees, control.rs:525;
\* the scans follow recorded_control_context, lifecycle.rs:5516 and 5827).
ContextOutlivesUsers ==
  \A f \in Files : ctx[f].life = "Freed" =>
    /\ \A s \in Slots : /\ cell[s].owner # f
                        /\ wk[s].ctx = f => wk[s].pc = "idle"
                        /\ fz[s].ctx = f =>
                             fz[s].pc \notin {"queued", "run", "destroy", "publish"}
    /\ \A a \in Arrivals : ar[a].ctx = f => ar[a].pc \notin Fencing
    /\ \A u \in Setups : su[u].file # f
    /\ \A e \in Resolvers : rs[e].file # f

\* What one hold of the lock prepared still holds when a later hold commits it
\* without looking again: the rollback's reservation and slot, CLEANUP's setup
\* right, the finalizer's admission and its prepared delete (the unreachable!
\* and unchecked commits of session.rs:3475, control.rs:1880, fence.rs:765,
\* lifecycle.rs:4317 and 1885).
PreparedStaysValid ==
  /\ \A u \in Setups :
       LET c == ctx[su[u].file]
           d == cell[su[u].loc.s]
       IN  /\ su[u].pc = "commit" => RollbackCommits(c.bind, su[u].ep, su[u].closing)
           /\ su[u].pc \in {"prepare", "commit"} /\ su[u].loc # NoLoc =>
                StagingExact(d.slot, su[u].loc)
           /\ su[u].pc = "prepare" /\ su[u].mirror =>
                d.phase = "Staging" /\ d.gen = su[u].loc.g
  /\ \A f \in Files : cl[f].pc = "publish" =>
       /\ cl[f].right = "Setup" => ctx[f].bind.st = "ClosingSetup"
       /\ ctx[f].life = "Lease"
  /\ \A a \in Arrivals :
       LET s == ar[a].loc.s
       IN  /\ ar[a].pc \in {"fence", "verdict"} => wk[s].pc = "idle"
           /\ ar[a].pc = "finish" => door.fin /\ FinishReady(cell[s], ar[a].loc)
           /\ ar[a].pc = "kick" => /\ ~cell[s].admitted /\ ~cell[s].queued
                                   /\ fz[s].pc = "idle"
  /\ \A s \in Slots : fz[s].pc = "publish" =>
       /\ cell[s].rend.st = "Open" /\ cell[s].rend.loc = fz[s].loc
       /\ ctx[fz[s].ctx].bind = Bound("ClosingLive", fz[s].loc)

\* Slot, native cell, rendezvous and control binding tell one story about a
\* generation: a live slot has its owners, an open rendezvous and exactly one
\* file bound to it; a file bound to a generation finds the slot still there
\* (the locked publication, session.rs:3075, and claim, lifecycle.rs:3049).
GenerationCoherent ==
  /\ \A s \in Slots :
       LET d == cell[s]
           here == [s |-> s, g |-> d.slot.gen]
       IN  d.slot.st = "Live" =>
             /\ d.phase = "Live" /\ d.owners /\ d.lease /\ d.gen = d.slot.gen
             /\ d.rend = Activate(here)
             /\ Cardinality({f \in Files : ctx[f].bind = Bound("Active", here)}) = 1
  /\ \A f \in Files :
       LET b == ctx[f].bind
           d == cell[b.loc.s]
       IN  b.st \in {"Active", "ClosingLive", "ClosingBlocked"} =>
             /\ d.slot.gen = b.loc.g /\ d.rend.loc = b.loc /\ d.owner = f
             /\ b.st = "Active" => d.slot.st = "Live"
             /\ b.st = "ClosingLive" => d.slot.st \in {"Removing", "Deleting"}

\* The rendezvous counts exactly the arrivals that still have to be told, so
\* no generation is reset under one of them (session.rs:639, lifecycle.rs:4505).
TicketsConserved ==
  \A s \in Slots :
    cell[s].rend.n = Cardinality({a \in Arrivals :
                         ar[a].pc \in HoldsTicket /\ ar[a].loc.s = s})

\* A request that resolved a session keeps the generation it named, whole,
\* until it lets go: the shell is not destroyed and no other generation has
\* taken the slot (lifecycle.rs:5168, fence.rs:3119).
ResolvedStaysWhole ==
  \A e \in Resolvers : rs[e].pc = "in" =>
    LET d == cell[rs[e].loc.s]
    IN  /\ d.gen = rs[e].loc.g /\ d.phase \in {"Live", "Removing"}
        /\ fz[rs[e].loc.s].pc = "idle"

\* "Clear every generation-specific observation in one commit ... after it, only
\* the complete Free or Retired successor" (lifecycle.rs:4500): no cell that
\* reset_after_delete has released keeps the last generation's handoff.
Stranded(d) == d.phase \in {"Free", "Retired"} /\ d.handoff
HandoffCleared == \A s \in Slots : ~Stranded(cell[s])

\* No thread ends in a wait that nothing will signal: no scan is contradicted,
\* no handoff is missing, no fail stop lacks its outcome, no finalizer finds
\* its admission gone, and unload's ledgers are clear of all but a handoff (the
\* wait_blocked_unload_forever calls of fence.rs:2141, 2796 and lifecycle.rs:4378).
NoActorStrands ==
  /\ \A a \in Arrivals : ar[a].pc # "stuck"
  /\ \A s \in Slots : fz[s].pc # "stuck" /\ wk[s].pc # "stuck"
  /\ pr.pc # "stuck"
  /\ ul.pc = "stuck" => \E s \in Slots : Stranded(cell[s])

\* The driver state goes last: when unload is done no callback has an admission
\* left to release, no worker, finalizer, scan or SETUP is under way and every
\* control context is free (driver.rs:930, lifecycle.rs:1575).
RegistryOutlivesUsers ==
  ul.pc = "done" =>
    /\ fadm = 0 /\ pr.pc \in {"alive", "gone"}
    /\ \A s \in Slots : fz[s].pc = "idle" /\ wk[s].pc = "idle"
    /\ \A u \in Setups : su[u].pc = "idle"
    /\ \A f \in Files : ctx[f].life \in {"Absent", "Freed"}

\* A CLEANUP that was not refused leaves CLOSE a context it may free, whatever
\* arrivals, setups and finalizers ran beside it (control.rs:525, 1685).
CloseFrees ==
  \A f \in Files : cl[f].pc = "closed" /\ ~cl[f].refused => ctx[f].life = "Freed"

\* Every CLEANUP is completed, also when it joins a fence that is parked,
\* retried and given up (control.rs:1685).
CleanupCompletes ==
  \A f \in Files : cl[f].pc \in {"claim", "route"} ~> cl[f].pc = "cleaned"

\* Unload finishes unless a generation is blocked, a refused CLEANUP has
\* stranded its context, or a fence that completed on a retry has left its
\* finalizer's handoff in the cell (driver.rs:930, fence.rs:3716).
UnloadEnds ==
  ul.pc = "wait" ~> \/ ul.pc \in {"done", "blocked"}
                    \/ \E f \in Files : cl[f].refused
                    \/ ~HandoffCleared

\* Nobody waits for ever: every CLEANUP completes and unload ends (control.rs:1685,
\* driver.rs:930).
LifecycleEnds == CleanupCompletes /\ UnloadEnds

=============================================================================
