---------------------------- MODULE SessionCore ----------------------------
(***************************************************************************)
(* The registry's decisions, as operators: the control binding of one open  *)
(* file, one registry slot, the rendezvous every terminal arrival of a      *)
(* generation meets at, and the claim that joins the three.  Each operator  *)
(* is what one hold of the registry lock computes.                          *)
(***************************************************************************)
EXTENDS Naturals

CONSTANTS MaxEpoch,       \* last setup epoch of a binding (u64::MAX)
          MaxGeneration   \* last generation of a slot (u64::MAX)

ASSUME SessionCoreAssumption ==
  MaxEpoch \in Nat \ {0} /\ MaxGeneration \in Nat \ {0}

\* A locator: slot index and generation.  Generation 0 is never published.
NoLoc == [s |-> 0, g |-> 0]

-----------------------------------------------------------------------------
(* ControlBinding.                                                          *)

Empty(epoch) == [st |-> "Empty", epoch |-> epoch, loc |-> NoLoc]
Bound(st, loc) == [st |-> st, epoch |-> 0, loc |-> loc]

CanBeginSetup(b) == b.st = "Empty" /\ b.epoch <= MaxEpoch

BeginSetup(b) == [b EXCEPT !.st = "Staging"]

\* What claim_cleanup answers, and the binding it leaves.
CleanupClaim(b) ==
  CASE b.st = "Empty" -> "Empty"
    [] b.st = "Staging" -> "Setup"
    [] b.st = "Active" -> "NeedsLiveClaim"
    [] b.st = "ClosingSetup" -> "Error"
    [] b.st = "ClosingLive" -> "JoinLive"
    [] b.st = "ClosingComplete" -> "Completed"
    [] b.st = "Closed" -> "AlreadyClosed"
    [] OTHER -> "Blocked"

ClaimCleanup(b) ==
  CASE b.st \in {"Empty", "ClosingComplete"} -> Bound("Closed", NoLoc)
    [] b.st = "Staging" -> [b EXCEPT !.st = "ClosingSetup"]
    [] OTHER -> b

CanFinishSetupCleanup(b, epoch) == b.st = "ClosingSetup" /\ b.epoch = epoch

FinishSetupCleanup(b) == Bound("Closed", NoLoc)

\* The reservation of this epoch still holds the binding; it may have been
\* overtaken by CLEANUP.
ReservationHolds(b, epoch) ==
  b.st \in {"Staging", "ClosingSetup"} /\ b.epoch = epoch

RollbackCommits(b, epoch, closing) ==
  /\ ReservationHolds(b, epoch)
  /\ closing => b.st = "ClosingSetup"

CommitBindingRollback(b) ==
  IF b.st = "Staging" THEN Empty(b.epoch + 1) ELSE b

-----------------------------------------------------------------------------
(* RegistrySlot.                                                            *)

NewSlot == [st |-> "Free", gen |-> 0, n |-> 0, done |-> FALSE]

CanInstall(s) == s.st = "Free" /\ s.gen < MaxGeneration

InstallStaging(s) ==
  [st |-> "Staging", gen |-> s.gen + 1, n |-> 2, done |-> FALSE]

ResetSlot(s) ==
  [st |-> IF s.gen = MaxGeneration THEN "Retired" ELSE "Free",
   gen |-> s.gen, n |-> 0, done |-> FALSE]

StagingExact(s, loc) == s.st = "Staging" /\ s.gen = loc.g /\ s.n = 2 /\ ~s.done

CommitLive(s) == [s EXCEPT !.st = "Live"]

CommitTerminalClaim(s) == [s EXCEPT !.st = "Removing"]

\* A strong reference goes: "Retained", "Delete" or "Error".
StrongReleaseKind(s) ==
  CASE s.st = "Live" /\ s.n > 1 -> "Retained"
    [] s.st = "Removing" /\ s.n > 1 -> "Retained"
    [] s.st = "Removing" /\ s.n = 1 /\ s.done -> "Delete"
    [] OTHER -> "Error"

\* The terminal guard goes; the last reference hands over the delete right.
TerminalReleaseKind(s) ==
  IF s.st = "Removing" /\ ~s.done /\ s.n > 0
  THEN IF s.n = 1 THEN "Delete" ELSE "Retained"
  ELSE "Error"

Released(s, kind, terminal) ==
  CASE kind = "Retained" -> [s EXCEPT !.n = @ - 1, !.done = @ \/ terminal]
    [] kind = "Delete" -> [s EXCEPT !.n = 0, !.st = "Deleting"]
    [] OTHER -> s

-----------------------------------------------------------------------------
(* TerminalRendezvous.                                                      *)

Inactive == [st |-> "Inactive", loc |-> NoLoc, n |-> 0, out |-> "None"]

Activate(loc) == [st |-> "Open", loc |-> loc, n |-> 0, out |-> "None"]

\* A ticket for one more arrival: the winner's claim or a counted join.
Admitted(r) == [r EXCEPT !.n = @ + 1]

ClosePublished(r, out) == [r EXCEPT !.st = "Closed", !.out = out]

CloseOpaque(r) == [r EXCEPT !.st = "Opaque"]

\* release: an open rendezvous hands the ticket back.
TicketReleased(r) == IF r.st = "Open" THEN r ELSE [r EXCEPT !.n = @ - 1]

DrainedBy(r) == r.st # "Open" /\ r.n = 1

-----------------------------------------------------------------------------
(* The terminal claim: preflight_terminal_claim.                            *)

\* `lease` says that the cell still holds the generation's registry lease.
TerminalClaim(s, b, r, lease, loc) ==
  IF s.gen # loc.g \/ r.loc # loc THEN "Error"
  ELSE CASE s.st = "Live" ->
              IF /\ s.n > 0 /\ ~s.done /\ r.st = "Open" /\ r.n = 0 /\ lease
                 /\ b.st = "Active" /\ b.loc = loc
              THEN "Winner" ELSE "Error"
         [] s.st \in {"Removing", "Deleting"} ->
              IF \/ lease
                 \/ b.st = "Active" /\ b.loc = loc
                 \/ b.st \in {"ClosingLive", "ClosingBlocked", "ClosingOpaque"}
                    /\ b.loc # loc
              THEN "Error"
              ELSE CASE r.st = "Open" /\ r.n > 0 -> "Join"
                     [] r.st = "Closed" -> r.out
                     [] OTHER -> "Error"
         [] OTHER -> "Error"

\* A stored fail stop is published when the binding and the rendezvous are
\* still the winner's; anything else is retained without an outcome.
FailStopPublishes(b, r, loc) ==
  b.st = "ClosingLive" /\ b.loc = loc /\ r.st = "Open" /\ r.loc = loc /\ r.n > 0
=============================================================================
