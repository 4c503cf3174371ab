---------------------------- MODULE MCProtocols -----------------------------
(***************************************************************************)
(* The protocols that must end, for TLC, under the fairness of each: the    *)
(* journaled operation (ExactlyOnce), the provider's notifications          *)
(* (NotifyContract), the terminal fence with its retries (FenceRunner) and  *)
(* the mount against its teardown (MountVolume).  They share no state:      *)
(* `comp` picks the one a behaviour is about.                               *)
(***************************************************************************)
EXTENDS ExactlyOnce

CONSTANTS MAX_RING_COUNT, MAX_COMPONENT_UTF16_CODE_UNITS, OutboxRows, LastPt,
          MaxNotifyLosses, RingCount, MaxRefusals, Mounters, Vpbs, Teardowns, MaxMount

VARIABLES comp,
          prov, kern, lane, klane, cq, sq, turns, faulted,
          notified, notifyLosses,
          phase, ops, calls, doing, next, home, ran, refusals, lc, park, owners, retry,
          rv, ev, vpb, lock, dev, mt, td, cell, strong, access, door, verdict, panic

\* One operation of each shape: an open, a write, and mutations with and
\* without a result record of their own.
MCOperations ==
    {[opcode |-> "COMMIT_OPEN", kind |-> NoKind, write_length |-> 0, body |-> NoKind],
     [opcode |-> "WRITE", kind |-> NoKind, write_length |-> 2, body |-> NoKind]}
    \cup {[opcode |-> "MUTATE", kind |-> k, write_length |-> 0, body |-> k] :
            k \in {"SET_SECURITY", "SET_END_OF_FILE", "RENAME", "UNLINK"}}

\* A rename with names of unequal length and a surrogate pair, a removal
\* whose name needs padding; one PT_EXTERNAL_MUTATION_SAFE lane, not on ring zero.
MCChanges ==
    <<[change_kind |-> "RENAME", object_kind |-> "FILE", old |-> <<"plain">>, new |-> <<"dot", "high", "low">>],
      [change_kind |-> "REMOVE", object_kind |-> "DIRECTORY", old |-> <<"plain", "plain">>, new |-> <<>>]>>
MCLanes == {<<2, 1>>}

Notify == INSTANCE NotifyContract WITH Changes <- MCChanges, Lanes <- MCLanes,
             MaxLosses <- MaxNotifyLosses, applied <- notified, losses <- notifyLosses
Fence == INSTANCE FenceRunner
Mount == INSTANCE MountVolume

ASSUME ProtocolConstants == Fence!FenceRunnerConstants /\ Mount!MountConstants

\* The components a behaviour is not about rest in one initial state.
ProtocolInit ==
    /\ comp \in {"operation", "notify", "fence", "mount"}
    /\ Init /\ Notify!Init /\ Fence!Init /\ Mount!Init
    /\ comp # "operation" => op.opcode = "WRITE"

notifyvars == <<prov, kern, lane, klane, cq, sq, notified, turns, notifyLosses, faulted>>
fencevars == <<phase, ops, calls, doing, next, home, ran, refusals, lc, park, owners, retry>>
mountvars == <<rv, ev, vpb, lock, dev, mt, td, cell, strong, access, door, verdict, panic>>

OperationSteps ==
    comp = "operation" /\ Next /\ UNCHANGED <<comp, notifyvars, fencevars, mountvars>>
NotifySteps == comp = "notify" /\ Notify!Next /\ UNCHANGED <<comp, vars, fencevars, mountvars>>
FenceSteps == comp = "fence" /\ Fence!Next /\ UNCHANGED <<comp, vars, notifyvars, mountvars>>
MountSteps == comp = "mount" /\ Mount!Next /\ UNCHANGED <<comp, vars, notifyvars, fencevars>>

allvars == <<comp, vars, notifyvars, fencevars, mountvars>>
ProtocolNext == OperationSteps \/ NotifySteps \/ FenceSteps \/ MountSteps

\* Each component's own fairness, while it is the one that runs.
OperationFairness == WF_vars(comp = "operation" /\ Kernel) /\ WF_vars(comp = "operation" /\ Provider)
NotifyFairness ==
    WF_notifyvars(comp = "notify" /\ Notify!Provider) /\ WF_notifyvars(comp = "notify" /\ Notify!Kernel)
FenceFairness ==
    /\ WF_fencevars(comp = "fence" /\ Fence!StartPass) /\ WF_fencevars(comp = "fence" /\ Fence!PassStep)
    /\ WF_fencevars(comp = "fence" /\ Fence!ArmTimer) /\ WF_fencevars(comp = "fence" /\ Fence!DpcTake)
    /\ WF_fencevars(comp = "fence" /\ Fence!DpcStep) /\ WF_fencevars(comp = "fence" /\ Fence!WorkerResume)
MountFairness ==
    /\ \A m \in Mounters :
          /\ SF_mountvars(comp = "mount" /\ (Mount!AcquireVpb(m) \/ Mount!UndoBinding(m)))
          /\ WF_mountvars(comp = "mount" /\ Mount!MountStep(m))
    /\ \A a \in Teardowns :
          /\ SF_mountvars(comp = "mount" /\ Mount!TeardownClearVpb(a))
          /\ WF_mountvars(comp = "mount" /\ Mount!TeardownStep(a))
    /\ WF_mountvars(comp = "mount" /\ Mount!FenceCloseAdmission)
    /\ WF_mountvars(comp = "mount" /\ Mount!FenceCloseAccess)
    /\ WF_mountvars(comp = "mount" /\ Mount!DeactivateAfterDelete)

ProtocolSpec ==
    /\ ProtocolInit /\ [][ProtocolNext]_allvars
    /\ OperationFairness /\ NotifyFairness /\ FenceFairness /\ MountFairness

-----------------------------------------------------------------------------

\* No external change is lost or applied twice, a transition is performed once
\* per ordinal, admission reopens only with the kernel caught up, and neither
\* side of an honest pair is accused (classify_external_change_cut_v21 and the
\* other classifiers of fsring-abi).
NotifyConsistent ==
    Notify!NobodyAccused /\ Notify!ChangesOnce /\ Notify!TransitionsOnce /\ Notify!ReopenedCaughtUp

\* However often the terminal fence is refused, parked and resumed, it skips no
\* effect, destroys nothing twice, and loses neither a CQ consumer role nor the
\* owners of the generation (KernelFenceOps, fsring_fence_retry_worker).
FenceKeepsRoster ==
    Fence!TokensConserved /\ Fence!NothingSkipped /\ Fence!DestroyedOnce /\ Fence!OwnersNeverDropped

\* A mount against its teardown reaches no `unreachable!`, never leads a VERIFY
\* to a freed VCB, and leaves nothing behind (volume.rs, fence.rs).
MountClean == Mount!NoUnreachable /\ Mount!VerifyFindsVcb /\ Mount!NothingLeaks

Ended ==
    CASE comp = "operation" -> row.done # "no"
      [] comp = "notify" -> prov.honest => /\ kern.active /\ kern.high = prov.counter
                                           /\ \A l \in MCLanes : lane[l].pending = 0
      [] comp = "fence" -> phase \in {"complete", "failstop"}
      [] comp = "mount" -> cell # "Removing"

\* Every protocol comes to its end and stays there: the operation is resolved
\* (OperationResolves), every change has reached the kernel and admission is
\* open (LanesCatchUp), the fence has settled (FenceSettles), and a session
\* claimed for removal has been deleted (SessionDeletes).
ProtocolsEnd == <>[]Ended
=============================================================================
