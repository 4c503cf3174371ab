-------------------------- MODULE EnterCall_theorems -------------------------
(* An ENTER leaves nothing behind in its ring, through none of its exits,  *)
(* for any number of calls, rings, modes, credits and faults.              *)
EXTENDS EnterCall, TLAPS

USE EnterPlanAssumption, EnterCallAssumption

-----------------------------------------------------------------------------
(* The plan's operators keep its type.                                     *)

\* Another phase of the same plan: all else that the invariant looks at stays.
Carried(p, q) ==
    /\ q \in NativeEnterPlan /\ q.kind = p.kind /\ q.role = p.role
    /\ q.ring_index = p.ring_index /\ q.first_commit_won = p.first_commit_won
    /\ q.remaining_budget = p.remaining_budget
    /\ q.notify_preflight = p.notify_preflight /\ q.claimed_credit = p.claimed_credit

\* An effect with one outcome moves the phase, and at most the installed prefix.
LEMMA FollowingFacts ==
    ASSUME NEW p \in NativeEnterPlan,
           p.phase \in DoneEffects \cup {"WriteExactOutput", "InsertCsq",
                                         "AcquireSessionAndFileReferences"},
           p.phase = "ClaimFirstCommit" => p.notify_preflight # NoCredit
    PROVE  /\ Carried(p, succeeded(p, "Done"))
           /\ succeeded(p, "Done").phase = Following(p.phase)
<1> DEFINE q == [p EXCEPT !.phase = Following(p.phase),
                          !.completed_prefix =
                             IF p.phase \in InstallPhases \ {"ReturnPending"}
                             THEN installation_prefix(p.phase) + 1 ELSE @]
<1>1. succeeded(p, "Done") = q
  BY Zenon DEF succeeded, DoneEffects
<1>2. Following(p.phase) \in EnterPhase
  BY Zenon DEF Following, EnterPhase, DoneEffects, InstallPhases
<1>3. p.phase \in InstallPhases \ {"ReturnPending"} => installation_prefix(p.phase) + 1 \in 0 .. 6
  BY DEF installation_prefix, InstallPhases
<1>4. q \in NativeEnterPlan
  BY <1>2, <1>3, Zenon DEF NativeEnterPlan
<1>5. Carried(p, q) /\ q.phase = Following(p.phase)
  BY <1>4, Zenon DEF NativeEnterPlan, Carried
<1> QED  BY <1>1, <1>5, Zenon

\* Where the effects that are always Done take a plan.
LEMMA SettledFacts ==
    ASSUME NEW p \in NativeEnterPlan,
           p.phase = "ClaimFirstCommit" => p.notify_preflight # NoCredit
    PROVE  /\ Carried(p, Settled(p))
           /\ p.phase \notin DoneEffects => Settled(p).phase = p.phase
           /\ p.phase = "SnapshotAndValidateInput" => Settled(p).phase = "AcquireRole"
           /\ p.phase = "ClaimFirstCommit" => Settled(p).phase = "ClaimCredit"
           /\ p.phase = "AllocatePendingContext" =>
                Settled(p).phase = "AcquireSessionAndFileReferences"
           /\ p.phase = "MarkIrpPending" => Settled(p).phase = "InsertCsq"
           /\ p.phase = "ExchangeDispatchRundown" => Settled(p).phase = "Parked"
<1> DEFINE q == PerformDone(p)
<1>1. /\ Carried(p, q)
      /\ q.phase = IF p.phase \in DoneEffects THEN Following(p.phase) ELSE p.phase
  <2>1. CASE p.phase \in DoneEffects
    BY <2>1, FollowingFacts, Zenon DEF PerformDone
  <2>2. CASE p.phase \notin DoneEffects
    BY <2>2, Zenon DEF PerformDone, Carried
  <2> QED  BY <2>1, <2>2, Zenon
<1>2. q \in NativeEnterPlan /\ q.phase # "ClaimFirstCommit"
  <2>1. p.phase \in DoneEffects => Following(p.phase) # "ClaimFirstCommit"
    BY Zenon DEF Following, DoneEffects
  <2>2. p.phase \notin DoneEffects => p.phase # "ClaimFirstCommit"
    BY Zenon DEF DoneEffects
  <2> QED  BY <1>1, <2>1, <2>2, Zenon DEF Carried
<1>3. /\ Carried(q, Settled(p))
      /\ Settled(p).phase = IF q.phase \in DoneEffects THEN Following(q.phase) ELSE q.phase
  <2> HIDE DEF q
  <2>1. Settled(p) = PerformDone(q)
    BY Zenon DEF Settled, q
  <2>2. CASE q.phase \in DoneEffects
    BY <1>2, <2>1, <2>2, FollowingFacts, Zenon DEF PerformDone
  <2>3. CASE q.phase \notin DoneEffects
    BY <1>2, <2>1, <2>3, Zenon DEF PerformDone, Carried
  <2> QED  BY <2>2, <2>3, Zenon
<1> HIDE DEF q
<1>4. Carried(p, Settled(p))
  BY <1>1, <1>3, Zenon DEF Carried
<1> QED  BY <1>1, <1>3, <1>4, Zenon DEF DoneEffects, Following

\* A plan begins before its role.
LEMMA BeginFacts ==
    ASSUME NEW request \in EnterRequest
    PROVE  LET p == Settled(begin(NativeEnterKind(request), request))
           IN  /\ p \in NativeEnterPlan /\ p.phase = "AcquireRole"
               /\ p.kind = NativeEnterKind(request) /\ p.role = NoLease
               /\ p.first_commit_won = FALSE /\ p.ring_index = request.ring_index
               /\ p.remaining_budget = request.cq_budget
<1> DEFINE b == begin(NativeEnterKind(request), request)
<1>1. NativeEnterKind(request) \in {"Poll", "WaitFinite", "WaitInfinite", "Drain"}
  BY Zenon DEF NativeEnterKind
<1>2. /\ b \in NativeEnterPlan /\ b.phase = "SnapshotAndValidateInput"
      /\ b.kind = NativeEnterKind(request) /\ b.role = NoLease /\ b.first_commit_won = FALSE
      /\ b.ring_index = request.ring_index /\ b.remaining_budget = request.cq_budget
  BY <1>1 DEF begin, NativeEnterPlan, EnterRequest, EnterPhase
<1> HIDE DEF b
<1>3. Carried(b, Settled(b)) /\ Settled(b).phase = "AcquireRole"
  BY <1>2, SettledFacts, Zenon
<1> QED  BY <1>2, <1>3, Zenon DEF b, Carried

\* The lease that AcquireRole brings.
LEMMA AcquiredFacts ==
    ASSUME NEW p \in NativeEnterPlan, p.phase = "AcquireRole", p.role = NoLease,
           NEW role \in {"Sq", "Cq"}
    PROVE  LET q == Settled(succeeded(p, role))
           IN  /\ q \in NativeEnterPlan /\ q.phase = "PollClearRecheck"
               /\ q.kind = p.kind /\ q.role = role /\ q.ring_index = p.ring_index
               /\ q.first_commit_won = p.first_commit_won
               /\ q.remaining_budget = p.remaining_budget
<1> DEFINE q == [p EXCEPT !.role = role, !.phase = "PollClearRecheck"]
<1>1. succeeded(p, role) = q
  BY Zenon DEF succeeded
<1>2. /\ q \in NativeEnterPlan /\ q.phase = "PollClearRecheck" /\ q.kind = p.kind
      /\ q.role = role /\ q.first_commit_won = p.first_commit_won
      /\ q.ring_index = p.ring_index /\ q.remaining_budget = p.remaining_budget
  BY Zenon DEF NativeEnterPlan, EnterPhase
<1> HIDE DEF q
<1>3. Carried(q, Settled(q)) /\ Settled(q).phase = "PollClearRecheck"
  BY <1>2, SettledFacts, Zenon DEF DoneEffects
<1> QED  BY <1>1, <1>2, <1>3, Zenon DEF Carried

\* Where a readiness observation takes a plan.
LEMMA PolledFacts ==
    ASSUME NEW p \in NativeEnterPlan, p.phase = "PollClearRecheck",
           NEW decision \in {"Ready", "Empty", "Pending"},
           p.kind \in {"Poll", "Drain"} => decision # "Pending"
    PROVE  LET q == Settled(succeeded(p, decision))
           IN  /\ Carried(p, q)
               /\ p.kind = "Drain" => q.phase = "PreflightCqAndCredit"
               /\ p.kind # "Drain" =>
                    q.phase \in {"WriteExactOutput", "AcquireSessionAndFileReferences"}
<1> DEFINE n == readiness_phase(p.kind, decision)
           q == [p EXCEPT !.phase = n]
<1>1. succeeded(p, decision) = q
  BY Zenon DEF succeeded
<1>2. /\ p.kind = "Drain" => n = "PreflightCqAndCredit"
      /\ p.kind # "Drain" => n \in {"WriteExactOutput", "AllocatePendingContext"}
  <2>1. p.kind \in {"Poll", "WaitFinite", "WaitInfinite", "Drain"}
    BY Zenon DEF NativeEnterPlan
  <2> QED  BY <2>1, Zenon DEF readiness_phase
<1> HIDE DEF n
<1>3. Carried(p, q) /\ q.phase = n
  <2>1. n \in EnterPhase
    BY <1>2, Zenon DEF EnterPhase, InstallPhases
  <2> QED  BY <2>1, Zenon DEF NativeEnterPlan, Carried
<1> HIDE DEF q
<1>4. Carried(q, Settled(q)) /\ (q.phase \notin DoneEffects => Settled(q).phase = q.phase)
      /\ (q.phase = "AllocatePendingContext" =>
            Settled(q).phase = "AcquireSessionAndFileReferences")
  <2>1. q \in NativeEnterPlan /\ q.phase # "ClaimFirstCommit"
    BY <1>2, <1>3, Zenon DEF Carried
  <2> QED  BY <2>1, SettledFacts, Zenon
<1>5. Carried(p, Settled(q))
  BY <1>3, <1>4, Zenon DEF Carried
<1>6. "WriteExactOutput" \notin DoneEffects /\ "PreflightCqAndCredit" \notin DoneEffects
  BY Zenon DEF DoneEffects
<1> QED  BY <1>1, <1>2, <1>3, <1>4, <1>5, <1>6, Zenon

\* Where the classification of a record takes a drain that has budget for it.
LEMMA ClassifiedFacts ==
    ASSUME NEW p \in NativeEnterPlan, NEW classified, NEW slot \in Credits \cup {NoCredit},
           classified = "Notify" => slot \in Credits /\ p.remaining_budget > 0
    PROVE  LET q == Settled(classify_phase(p, classified, slot))
           IN  /\ q \in NativeEnterPlan /\ q.kind = p.kind /\ q.role = p.role
               /\ q.first_commit_won = p.first_commit_won /\ q.ring_index = p.ring_index
               /\ q.remaining_budget = p.remaining_budget
               /\ q.phase = IF classified = "Notify" THEN "ClaimCredit" ELSE "WriteExactOutput"
               /\ classified = "Notify" => q.notify_preflight = slot
<1> DEFINE q == classify_phase(p, classified, slot)
<1>1. CASE classified = "Notify"
  <2> DEFINE n == IF p.credits = 0 THEN "ClaimFirstCommit" ELSE "ClaimCredit"
  <2>1. q = [p EXCEPT !.notify_preflight = slot, !.phase = n]
    <3>1. p.remaining_budget # 0
      BY <1>1 DEF NativeEnterPlan
    <3> QED  BY <1>1, <3>1, Zenon DEF classify_phase
  <2>2. n \in {"ClaimFirstCommit", "ClaimCredit"} /\ n \in EnterPhase
    BY Zenon DEF EnterPhase
  <2> HIDE DEF n
  <2>3. /\ q \in NativeEnterPlan /\ q.kind = p.kind /\ q.role = p.role /\ q.phase = n
        /\ q.first_commit_won = p.first_commit_won /\ q.ring_index = p.ring_index
        /\ q.remaining_budget = p.remaining_budget /\ q.notify_preflight = slot
    BY <2>1, <2>2, Zenon DEF NativeEnterPlan
  <2>4. slot # NoCredit
    BY <1>1, Zenon
  <2> HIDE DEF q
  <2>5. Carried(q, Settled(q)) /\ Settled(q).phase = "ClaimCredit"
    BY <2>2, <2>3, <2>4, SettledFacts, Zenon DEF DoneEffects
  <2> QED  BY <1>1, <2>3, <2>5, Zenon DEF q, Carried
<1>2. CASE classified # "Notify"
  <2> DEFINE s == IF classified \in Faults THEN "INVALID_DEVICE_STATE" ELSE p.status
  <2>1. q = [p EXCEPT !.phase = "WriteExactOutput", !.status = s]
    BY <1>2, Zenon DEF classify_phase
  <2>2. s \in {"SUCCESS", "INVALID_DEVICE_STATE"}
    BY Zenon DEF NativeEnterPlan
  <2> HIDE DEF s
  <2>3. /\ q \in NativeEnterPlan /\ q.kind = p.kind /\ q.role = p.role
        /\ q.phase = "WriteExactOutput" /\ q.ring_index = p.ring_index
        /\ q.first_commit_won = p.first_commit_won
        /\ q.remaining_budget = p.remaining_budget
    BY <2>1, <2>2, Zenon DEF NativeEnterPlan, EnterPhase
  <2> HIDE DEF q
  <2>4. Carried(q, Settled(q)) /\ Settled(q).phase = "WriteExactOutput"
    BY <2>3, SettledFacts, Zenon DEF DoneEffects
  <2> QED  BY <1>2, <2>3, <2>4, Zenon DEF q, Carried
<1> QED  BY <1>1, <1>2, Zenon

\* A plan that no later Done effect moves.
LEMMA StillFacts ==
    ASSUME NEW q \in NativeEnterPlan,
           q.phase \in {"AdvanceCqHeadRelease", "RefreshCredit", "PreflightCqAndCredit",
                        "WriteExactOutput", "ReleaseRole"}
    PROVE  Carried(q, Settled(q)) /\ Settled(q).phase = q.phase
BY SettledFacts, Zenon DEF DoneEffects

\* A credit is claimed, its record taken, and returned; then the next record is
\* looked at, or the answer written.
LEMMA CreditFacts ==
    ASSUME NEW p \in NativeEnterPlan
    PROVE  /\ LET q == Settled(claim(p))
              IN  /\ q \in NativeEnterPlan /\ q.kind = p.kind /\ q.role = p.role
                  /\ q.first_commit_won = p.first_commit_won /\ q.ring_index = p.ring_index
                  /\ q.remaining_budget = p.remaining_budget
                  /\ q.claimed_credit = p.notify_preflight
                  /\ q.phase = "AdvanceCqHeadRelease"
           /\ LET q == Settled(completed_release(p))
              IN  /\ q \in NativeEnterPlan /\ q.kind = p.kind /\ q.role = p.role
                  /\ q.ring_index = p.ring_index /\ q.remaining_budget = p.remaining_budget
                  /\ q.claimed_credit = p.claimed_credit /\ q.phase = "RefreshCredit"
           /\ p.claimed_credit # NoCredit /\ p.remaining_budget > 0 =>
              LET q == Settled(refresh(p))
              IN  /\ q \in NativeEnterPlan /\ q.kind = p.kind /\ q.role = p.role
                  /\ q.first_commit_won = p.first_commit_won /\ q.ring_index = p.ring_index
                  /\ q.remaining_budget = p.remaining_budget - 1
                  /\ q.phase \in {"PreflightCqAndCredit", "WriteExactOutput"}
<1>1. LET q == claim(p)
      IN  /\ q \in NativeEnterPlan /\ q.kind = p.kind /\ q.role = p.role
          /\ q.first_commit_won = p.first_commit_won /\ q.ring_index = p.ring_index
          /\ q.remaining_budget = p.remaining_budget
          /\ q.claimed_credit = p.notify_preflight /\ q.phase = "AdvanceCqHeadRelease"
  BY Zenon DEF claim, NativeEnterPlan, EnterPhase
<1>2. LET q == completed_release(p)
      IN  /\ q \in NativeEnterPlan /\ q.kind = p.kind /\ q.role = p.role
          /\ q.ring_index = p.ring_index /\ q.remaining_budget = p.remaining_budget
          /\ q.claimed_credit = p.claimed_credit /\ q.phase = "RefreshCredit"
  BY Zenon DEF completed_release, NativeEnterPlan, EnterPhase
<1>3. ASSUME p.claimed_credit # NoCredit, p.remaining_budget > 0
      PROVE  LET q == refresh(p)
             IN  /\ q \in NativeEnterPlan /\ q.kind = p.kind /\ q.role = p.role
                 /\ q.first_commit_won = p.first_commit_won /\ q.ring_index = p.ring_index
                 /\ q.remaining_budget = p.remaining_budget - 1
                 /\ q.phase \in {"PreflightCqAndCredit", "WriteExactOutput"}
  <2> DEFINE m == p.remaining_budget - 1
             k == p.credits + 1
             n == IF m > 0 THEN "PreflightCqAndCredit" ELSE "WriteExactOutput"
             q == [p EXCEPT !.credits = k, !.status = p.status, !.claimed_credit = NoCredit,
                            !.remaining_budget = m, !.phase = n]
  <2>1. refresh(p) = q
    BY <1>3, Zenon DEF refresh
  <2>2. m \in Nat /\ k \in Nat
    BY <1>3 DEF NativeEnterPlan
  <2>3. n \in {"PreflightCqAndCredit", "WriteExactOutput"} /\ n \in EnterPhase
    BY Zenon DEF EnterPhase
  <2> HIDE DEF m, k, n
  <2>4. /\ q \in NativeEnterPlan /\ q.kind = p.kind /\ q.role = p.role
        /\ q.first_commit_won = p.first_commit_won /\ q.ring_index = p.ring_index
        /\ q.remaining_budget = m /\ q.phase = n
    BY <2>2, <2>3, Zenon DEF NativeEnterPlan
  <2> HIDE DEF q
  <2> QED  BY <2>1, <2>3, <2>4, Zenon DEF m
<1>4. Carried(claim(p), Settled(claim(p))) /\ Settled(claim(p)).phase = claim(p).phase
  BY <1>1, StillFacts, Zenon
<1>5. /\ Carried(completed_release(p), Settled(completed_release(p)))
      /\ Settled(completed_release(p)).phase = completed_release(p).phase
  BY <1>2, StillFacts, Zenon
<1>6. p.claimed_credit # NoCredit /\ p.remaining_budget > 0 =>
        Carried(refresh(p), Settled(refresh(p))) /\ Settled(refresh(p)).phase = refresh(p).phase
  BY <1>3, StillFacts, Zenon
<1>7. LET q == Settled(claim(p))
      IN  /\ q \in NativeEnterPlan /\ q.kind = p.kind /\ q.role = p.role
          /\ q.first_commit_won = p.first_commit_won /\ q.ring_index = p.ring_index
          /\ q.remaining_budget = p.remaining_budget
          /\ q.claimed_credit = p.notify_preflight /\ q.phase = "AdvanceCqHeadRelease"
  BY <1>1, <1>4, Zenon DEF Carried
<1>8. LET q == Settled(completed_release(p))
      IN  /\ q \in NativeEnterPlan /\ q.kind = p.kind /\ q.role = p.role
          /\ q.ring_index = p.ring_index /\ q.remaining_budget = p.remaining_budget
          /\ q.claimed_credit = p.claimed_credit /\ q.phase = "RefreshCredit"
  BY <1>2, <1>5, Zenon DEF Carried
<1>9. p.claimed_credit # NoCredit /\ p.remaining_budget > 0 =>
      LET q == Settled(refresh(p))
      IN  /\ q \in NativeEnterPlan /\ q.kind = p.kind /\ q.role = p.role
          /\ q.first_commit_won = p.first_commit_won /\ q.ring_index = p.ring_index
          /\ q.remaining_budget = p.remaining_budget - 1
          /\ q.phase \in {"PreflightCqAndCredit", "WriteExactOutput"}
  BY <1>3, <1>6, Zenon DEF Carried
<1> QED  BY <1>7, <1>8, <1>9, Zenon


-----------------------------------------------------------------------------
(* Steps of one call.                                                      *)

\* What the invariant says of one call.
LEMMA CallFacts ==
    ASSUME IndInv, NEW i \in Calls
    PROVE  /\ call \in [Calls -> CallRecs] /\ call[i] \in CallRecs
           /\ Plan(i) \in NativeEnterPlan /\ call[i].request \in EnterRequest
           /\ CallInv(i) /\ i # Nobody /\ ring \in Rings /\ strong \in Owners
           /\ cq \in Seq(CqRecs) /\ grants \in [Credits -> {"Issued", "Claimed"}]
BY Zenon DEF IndInv, TypeOK, CallRecs, Plan

\* A call that a step leaves alone, in a ring that the step leaves to it.
LEMMA Kept ==
    ASSUME NEW j \in Calls, CallInv(j), call'[j] = call[j], op'[j] = op[j],
           ring'.sq_owner = j <=> ring.sq_owner = j,
           ring'.cq_owner = j <=> ring.cq_owner = j,
           ring'.spin = j <=> ring.spin = j, strong' = j => strong = j,
           ring.spin = j /\ cq # <<>> => cq' # <<>> /\ Head(cq') = Head(cq),
           ring.spin = j => grants' = grants
    PROVE  CallInv(j)'
<1>1. RoleInv(j)' /\ PhaseInv(j)'
  BY Zenon DEF CallInv, RoleInv, PhaseInv, Plan, Role, HasRing
<1>2. CreditInv(j)'
  BY Zenon DEF CallInv, CreditInv, Plan
<1>3. HoldInv(j)'
  BY Zenon DEF CallInv, HoldInv, Plan
<1>4. OwnerInv(j)'
  BY Zenon DEF CallInv, OwnerInv, Plan, Outstanding
<1> QED  BY <1>1, <1>2, <1>3, <1>4, Zenon DEF CallInv

\* A step of the driver for one call: it answers for that call, and leaves the
\* others what they hold of the ring.
LEMMA KernelStep ==
    ASSUME IndInv, NEW i \in Calls, call' \in [Calls -> CallRecs],
           \A j \in Calls : j # i => call'[j] = call[j],
           ring' \in Rings, strong' \in Owners, cq' \in Seq(CqRecs),
           grants' \in [Credits -> {"Issued", "Claimed"}],
           UNCHANGED <<sqReady, held, op, faults>>,
           \A j \in Calls : j # i =>
               /\ ring'.sq_owner = j <=> ring.sq_owner = j
               /\ ring'.cq_owner = j <=> ring.cq_owner = j
               /\ ring'.spin = j <=> ring.spin = j
               /\ strong' = j => strong = j,
           UNCHANGED <<cq, grants>> \/ ring.spin = i,
           CallInv(i)'
    PROVE  IndInv'
<1>1. TypeOK'
  BY Zenon DEF IndInv, TypeOK
<1>2. ASSUME NEW j \in Calls, j # i PROVE CallInv(j)'
  <2>1. CallInv(j)
    BY Zenon DEF IndInv
  <2>2. /\ ring.spin = j /\ cq # <<>> => cq' # <<>> /\ Head(cq') = Head(cq)
        /\ ring.spin = j => grants' = grants
    BY <1>2, Zenon
  <2> QED  BY <1>2, <2>1, <2>2, Kept, Zenon
<1> QED  BY <1>1, <1>2 DEF IndInv

\* A failed effect, in a plan that committed nothing: the lock is dropped, the
\* rollback begins with its first step.
LEMMA FailStep ==
    ASSUME IndInv, NEW i \in Calls, call[i].pc = "plan", ~Plan(i).first_commit_won,
           NEW reason \in {"Resource", "InvalidState"}, Fail(i, reason),
           strong = i => Plan(i).phase = "InsertCsq",
           UNCHANGED <<strong, cq, grants, sqReady, held, op, faults>>
    PROVE  IndInv'
<1>1. /\ call \in [Calls -> CallRecs] /\ call[i] \in CallRecs /\ CallInv(i)
      /\ i # Nobody /\ ring \in Rings /\ strong \in Owners /\ cq \in Seq(CqRecs)
      /\ grants \in [Credits -> {"Issued", "Claimed"}]
  BY CallFacts, Zenon
<1>2. /\ into_failure(Plan(i), reason).next = 1
      /\ into_failure(Plan(i), reason).status
           \in {"INSUFFICIENT_RESOURCES", "INVALID_DEVICE_STATE"}
  BY Zenon DEF into_failure, FailureStatus
<1>3. /\ call' \in [Calls -> CallRecs]
      /\ \A j \in Calls : j # i => call'[j] = call[j]
      /\ call'[i].pc = "unwind" /\ call'[i].undo = 1 /\ call'[i].plan = call[i].plan
      /\ call'[i].request = call[i].request
  <2> DEFINE f == into_failure(Plan(i), reason)
             c == [call[i] EXCEPT !.pc = "unwind", !.undo = f.next, !.status = f.status]
  <2>1. /\ c \in CallRecs /\ c.pc = "unwind" /\ c.undo = 1 /\ c.plan = call[i].plan
        /\ c.request = call[i].request
    <3> HIDE DEF f
    <3>1. f.next \in 1 .. 8 /\ f.next = 1
      BY <1>2 DEF f
    <3>2. f.status \in {"INSUFFICIENT_RESOURCES", "INVALID_DEVICE_STATE"}
      BY <1>2, Zenon DEF f
    <3> QED  BY <1>1, <3>1, <3>2, Zenon DEF CallRecs
  <2>2. call' = [call EXCEPT ![i] = c]
    BY <1>1, Zenon DEF Fail, Leave
  <2> HIDE DEF c
  <2> QED  BY <1>1, <2>1, <2>2, Zenon
<1>4. /\ ring' \in Rings /\ ring'.sq_owner = ring.sq_owner /\ ring'.cq_owner = ring.cq_owner
      /\ ring'.spin = IF ring.spin = i THEN Nobody ELSE ring.spin
  <2>1. ring' = [ring EXCEPT !.spin = IF ring.spin = i THEN Nobody ELSE ring.spin]
    BY <1>1, Zenon DEF Fail, Leave
  <2> QED  BY <1>1, <2>1, Zenon DEF Rings, Owners
<1>5. CallInv(i)'
  <2>1. RoleInv(i)' /\ CreditInv(i)'
    BY <1>3 DEF RoleInv, CreditInv, Plan
  <2>2. PhaseInv(i)'
    BY <1>1, <1>3, Zenon DEF CallInv, PhaseInv, HasRing
  <2>3. HoldInv(i)'
    BY <1>1, <1>3, <1>4 DEF HoldInv, Plan
  <2>4. OwnerInv(i)'
    BY <1>1, <1>3, <1>4, Zenon DEF CallInv, OwnerInv, Plan, Outstanding
  <2> QED  BY <2>1, <2>2, <2>3, <2>4, Zenon DEF CallInv
<1> QED  BY <1>1, <1>3, <1>4, <1>5, KernelStep

\* The answer of an ENTER: its plan stays as it is.
LEMMA ReturnFacts ==
    ASSUME IndInv, NEW i \in Calls, NEW information \in Nat,
           NEW status \in {"None", "SUCCESS", "INVALID_PARAMETER", "BUFFER_TOO_SMALL",
                           "INSUFFICIENT_RESOURCES", "CANCELLED", "INVALID_DEVICE_STATE"}
    PROVE  LET c == Return(i, status, information)
           IN  /\ c \in CallRecs /\ c.pc = "answered" /\ c.plan = call[i].plan
               /\ c.result = call[i].result
<1>1. call[i] \in CallRecs
  BY CallFacts, Zenon
<1> DEFINE n == IF status = "SUCCESS" THEN information ELSE 0
           c == [call[i] EXCEPT !.pc = "answered", !.status = status, !.information = n]
<1>2. Return(i, status, information) = c
  BY Zenon DEF Return
<1>3. n \in Nat
  BY Zenon
<1> HIDE DEF n
<1>4. c \in CallRecs /\ c.pc = "answered" /\ c.plan = call[i].plan /\ c.result = call[i].result
  BY <1>1, <1>3, Zenon DEF CallRecs
<1> QED  BY <1>2, <1>4, Zenon

\* A loop that goes on: the plan settled at a phase of the code.
LEMMA ContinueFacts ==
    ASSUME NEW i \in Calls, NEW next, Continue(i, next),
           Settled(next.plan).phase # "Refused"
    PROVE  /\ call' = [call EXCEPT ![i] = [next EXCEPT !.plan = Settled(next.plan)]]
           /\ ring' = ring
BY Zenon DEF Continue

-----------------------------------------------------------------------------
(* The driver's steps.                                                     *)

\* The request is refused, or its plan begins: no role is held yet.
LEMMA ValidateStep ==
    ASSUME IndInv, NEW i \in Calls, Validate(i), UNCHANGED <<sqReady, held, op, faults>>
    PROVE  IndInv'
<1> DEFINE request == call[i].request
           kind == NativeEnterKind(request)
           p == Settled(begin(kind, request))
<1>1. /\ call \in [Calls -> CallRecs] /\ call[i] \in CallRecs /\ CallInv(i)
      /\ i # Nobody /\ ring \in Rings /\ strong \in Owners /\ cq \in Seq(CqRecs)
      /\ request \in EnterRequest /\ grants \in [Credits -> {"Issued", "Claimed"}]
  BY CallFacts, Zenon
<1>2. call[i].pc = "validate" /\ UNCHANGED <<ring, strong, cq, grants>>
  BY Zenon DEF Validate
<1>3. Plan(i).role = NoLease /\ strong # i /\ ring.spin # i /\ call[i].out = <<>>
  BY <1>1, <1>2, Zenon DEF CallInv, RoleInv, PhaseInv, HoldInv
<1>4. /\ ring.sq_owner # i /\ ring.cq_owner # i
      /\ op[i].memory # "freed" /\ op[i].state # "none"
  BY <1>1, <1>2, <1>3, Zenon DEF CallInv, OwnerInv, Outstanding
<1>5. ASSUME NEW c \in CallRecs, call' = [call EXCEPT ![i] = c], c.pc \in {"answered", "plan"},
             c.plan.role = NoLease,
             c.pc = "plan" => /\ c.plan.phase = "AcquireRole" /\ ~c.plan.first_commit_won
                              /\ c.request.ring_index < ring_count /\ c.out = <<>>
                              /\ c.plan.ring_index = c.request.ring_index
                              /\ c.plan.remaining_budget = c.request.cq_budget
                              /\ c.plan.kind = "Drain" =>
                                   Drains(c.request) /\ c.request.timeout_ms = 0
      PROVE  IndInv'
  <2>1. /\ call' \in [Calls -> CallRecs] /\ call'[i] = c
        /\ \A j \in Calls : j # i => call'[j] = call[j]
    BY <1>1, <1>5, Zenon
  <2>2. RoleInv(i)' /\ PhaseInv(i)'
    BY <1>5, <2>1, Zenon DEF RoleInv, PhaseInv, Plan, Early, HasRing
  <2>3. CreditInv(i)'
    <3>1. c.pc = "plan" =>
            c.plan.remaining_budget + Len(c.out) = c.request.cq_budget
      BY <1>5 DEF CallRecs, EnterRequest
    <3> QED  BY <1>5, <2>1, <3>1, Zenon DEF CreditInv, Plan, Early
  <2>4. HoldInv(i)' /\ OwnerInv(i)'
    BY <1>2, <1>3, <1>4, <1>5, <2>1, Zenon DEF HoldInv, OwnerInv, Plan, Outstanding
  <2>5. CallInv(i)'
    BY <2>2, <2>3, <2>4, Zenon DEF CallInv
  <2> QED  BY <1>1, <1>2, <2>1, <2>5, KernelStep, Zenon
<1>6. ASSUME NEW status \in {"INVALID_PARAMETER", "BUFFER_TOO_SMALL", "INVALID_DEVICE_STATE"},
             call' = [call EXCEPT ![i] = Return(i, status, 0)]
      PROVE  IndInv'
  <2> DEFINE c == Return(i, status, 0)
  <2>1. c \in CallRecs /\ c.pc = "answered" /\ c.plan = call[i].plan
    BY ReturnFacts
  <2> HIDE DEF c
  <2> QED  BY <1>3, <1>5, <1>6, <2>1, Zenon DEF c, Plan
<1>7. ASSUME validate_enter_request_shape(request), ValidInput(kind, request),
             call' = [call EXCEPT ![i] = [call[i] EXCEPT !.pc = "plan", !.plan = p]]
      PROVE  IndInv'
  <2> DEFINE c == [call[i] EXCEPT !.pc = "plan", !.plan = p]
  <2>1. /\ p \in NativeEnterPlan /\ p.phase = "AcquireRole" /\ p.kind = kind
        /\ p.role = NoLease /\ p.first_commit_won = FALSE
        /\ p.ring_index = request.ring_index /\ p.remaining_budget = request.cq_budget
    BY <1>1, BeginFacts, Zenon
  <2>2. kind = "Drain" => Drains(request) /\ request.timeout_ms = 0
    <3>1. kind = "Drain" => Drains(request)
      BY Zenon DEF NativeEnterKind
    <3>2. kind = "Drain" => request.timeout_ms = 0
      BY <1>7, Zenon DEF ValidInput
    <3> QED  BY <3>1, <3>2, Zenon
  <2>3. request.ring_index < ring_count
    BY <1>7, Zenon DEF validate_enter_request_shape
  <2> HIDE DEF p
  <2>4. /\ c \in CallRecs /\ c.pc = "plan" /\ c.plan = p /\ c.request = request
        /\ c.out = call[i].out
    BY <1>1, <2>1, Zenon DEF CallRecs
  <2> HIDE DEF c
  <2> QED  BY <1>3, <1>5, <1>7, <2>1, <2>2, <2>3, <2>4, Zenon DEF c
<1> QED  BY <1>6, <1>7, Zenon DEF Validate

\* The role is taken if nobody has it; the answer for one that is busy rolls back.
LEMMA AcquireRoleStep ==
    ASSUME IndInv, NEW i \in Calls, AcquireRole(i), UNCHANGED <<sqReady, held, op, faults>>
    PROVE  IndInv'
<1>1. /\ call \in [Calls -> CallRecs] /\ call[i] \in CallRecs /\ CallInv(i)
      /\ i # Nobody /\ ring \in Rings /\ strong \in Owners /\ cq \in Seq(CqRecs)
      /\ Plan(i) \in NativeEnterPlan /\ grants \in [Credits -> {"Issued", "Claimed"}]
  BY CallFacts, Zenon
<1>2. call[i].pc = "plan" /\ Plan(i).phase = "AcquireRole" /\ UNCHANGED <<strong, cq, grants>>
  BY Zenon DEF AcquireRole, At
<1>3. /\ Plan(i).role = NoLease /\ strong # i /\ ring.spin # i /\ ~Plan(i).first_commit_won
      /\ HasRing(i) /\ Plan(i).ring_index = call[i].request.ring_index
      /\ Plan(i).kind = "Drain" =>
           /\ Drains(call[i].request) /\ call[i].request.timeout_ms = 0 /\ call[i].out = <<>>
           /\ Plan(i).remaining_budget + Len(call[i].out) = call[i].request.cq_budget
  BY <1>1, <1>2, Zenon DEF CallInv, RoleInv, PhaseInv, CreditInv, HoldInv, Early, Late, DrainPhases
<1>4. /\ ring.sq_owner # i /\ ring.cq_owner # i
      /\ op[i].memory # "freed" /\ op[i].state # "none"
  BY <1>1, <1>2, <1>3 DEF CallInv, OwnerInv, Outstanding
<1>5. CASE OwnerOf(Role(i)) = Nobody
  <2> DEFINE q == Settled(succeeded(Plan(i), Role(i)))
             c == [call[i] EXCEPT !.plan = q]
  <2>1. Role(i) \in {"Sq", "Cq"} /\ (Role(i) = "Cq" <=> Plan(i).kind = "Drain")
    BY Zenon DEF Role
  <2>2. /\ q \in NativeEnterPlan /\ q.phase = "PollClearRecheck" /\ q.kind = Plan(i).kind
        /\ q.role = Role(i) /\ q.first_commit_won = Plan(i).first_commit_won
        /\ q.ring_index = Plan(i).ring_index /\ q.remaining_budget = Plan(i).remaining_budget
    BY <1>1, <1>2, <1>3, <2>1, AcquiredFacts
  <2>3. call' = [call EXCEPT ![i] = c]
    BY <1>1, <1>3, <1>5, <2>2, Zenon DEF AcquireRole
  <2>4. /\ ring' \in Rings /\ ring'.spin = ring.spin
        /\ ring'.sq_owner = IF Role(i) = "Sq" THEN i ELSE ring.sq_owner
        /\ ring'.cq_owner = IF Role(i) = "Cq" THEN i ELSE ring.cq_owner
    <3>1. ring' = IF Role(i) = "Sq" THEN [ring EXCEPT !.sq_owner = i]
                  ELSE [ring EXCEPT !.cq_owner = i]
      BY <1>3, <1>5, Zenon DEF AcquireRole
    <3> QED  BY <1>1, <2>1, <3>1, Zenon DEF Rings, Owners
  <2> HIDE DEF q
  <2>5. /\ c \in CallRecs /\ c.pc = "plan" /\ c.plan = q /\ c.request = call[i].request
        /\ c.out = call[i].out
    BY <1>1, <1>2, <2>2, Zenon DEF CallRecs
  <2> HIDE DEF c
  <2>6. /\ call' \in [Calls -> CallRecs] /\ call'[i] = c
        /\ \A j \in Calls : j # i => call'[j] = call[j]
    BY <1>1, <2>3, <2>5, Zenon
  <2>7. /\ Role(i) = "Sq" => ring.sq_owner = Nobody
        /\ Role(i) = "Cq" => ring.cq_owner = Nobody
    BY <1>5, Zenon DEF OwnerOf
  <2>8. CallInv(i)'
    <3>1. Role(i)' = Role(i)
      BY <2>2, <2>5, <2>6, Zenon DEF Role, Plan
    <3>2. RoleInv(i)'
      BY <2>2, <2>5, <2>6, <3>1, Zenon DEF RoleInv, Plan
    <3>3. PhaseInv(i)'
      BY <1>3, <2>2, <2>5, <2>6, Zenon DEF PhaseInv, Plan, Early, HasRing
    <3>4. CreditInv(i)'
      BY <1>3, <2>2, <2>5, <2>6, Zenon DEF CreditInv, Plan, Early
    <3>5. HoldInv(i)'
      BY <1>2, <1>3, <2>4, Zenon DEF HoldInv
    <3>6. OwnerInv(i)'
      BY <1>4, <2>1, <2>2, <2>4, <2>5, <2>6, Zenon DEF OwnerInv, Plan
    <3> QED  BY <3>2, <3>3, <3>4, <3>5, <3>6, Zenon DEF CallInv
  <2>9. ASSUME NEW j \in Calls, j # i
        PROVE  /\ ring'.sq_owner = j <=> ring.sq_owner = j
               /\ ring'.cq_owner = j <=> ring.cq_owner = j
    BY <2>4, <2>7, <2>9
  <2> QED  BY <1>1, <1>2, <2>4, <2>6, <2>8, <2>9, KernelStep
<1>6. CASE OwnerOf(Role(i)) # Nobody
  <2>1. Fail(i, "Resource")
    BY <1>3, <1>6, Zenon DEF AcquireRole
  <2> QED  BY <1>2, <1>3, <2>1, FailStep, Zenon
<1> QED  BY <1>5, <1>6, Zenon

\* A step that only moves a call's plan to a later phase, within what the role,
\* the lock and the reference allow.
LEMMA MovedStep ==
    ASSUME IndInv, NEW i \in Calls, call[i].pc = "plan", Plan(i).phase # "AcquireRole",
           UNCHANGED <<strong, sqReady, held, op, faults>>,
           NEW c \in CallRecs, call' = [call EXCEPT ![i] = c], c.pc = "plan",
           c.request = call[i].request, c.plan.kind = Plan(i).kind,
           c.plan.role = Plan(i).role, c.plan.phase # "AcquireRole",
           ring' \in Rings, ring'.sq_owner = ring.sq_owner, ring'.cq_owner = ring.cq_owner,
           (RingFree(i) /\ ring'.spin = i) \/ ring'.spin = ring.spin,
           cq' \in Seq(CqRecs), grants' \in [Credits -> {"Issued", "Claimed"}],
           UNCHANGED <<cq, grants>> \/ ring.spin = i,
           PhaseInv(i)', CreditInv(i)', HoldInv(i)'
    PROVE  IndInv'
<1>1. call \in [Calls -> CallRecs] /\ CallInv(i) /\ i # Nobody /\ strong \in Owners
  BY CallFacts, Zenon
<1>2. /\ call' \in [Calls -> CallRecs] /\ call'[i] = c
      /\ \A j \in Calls : j # i => call'[j] = call[j]
  BY <1>1, Zenon
<1>3. RoleInv(i)'
  <2>1. Role(i)' = Role(i)
    BY <1>2, Zenon DEF Role, Plan
  <2> QED  BY <1>1, <1>2, <2>1, Zenon DEF CallInv, RoleInv, Plan
<1>4. OwnerInv(i)'
  BY <1>1, <1>2, Zenon DEF CallInv, OwnerInv, Plan, Outstanding
<1>5. CallInv(i)'
  BY <1>3, <1>4, Zenon DEF CallInv
<1>6. \A j \in Calls : j # i => (ring'.spin = j <=> ring.spin = j)
  BY <1>1 DEF RingFree
<1> QED  BY <1>1, <1>2, <1>5, <1>6, KernelStep

\* The readiness poll of the plan, with whatever it decides.
LEMMA PollStep ==
    ASSUME IndInv, NEW i \in Calls, PollClearRecheck(i), UNCHANGED <<sqReady, held, op, faults>>
    PROVE  IndInv'
<1> DEFINE decision == IF sqReady /\ HasRing(i) THEN "Ready"
                       ELSE IF Plan(i).kind \in {"Poll", "Drain"} THEN "Empty" ELSE "Pending"
           p == succeeded(Plan(i), decision)
           q == Settled(p)
           n == [call[i] EXCEPT !.plan = p, !.decision = decision]
           c == [n EXCEPT !.plan = q]
<1>1. /\ call \in [Calls -> CallRecs] /\ call[i] \in CallRecs /\ CallInv(i)
      /\ ring \in Rings /\ Plan(i) \in NativeEnterPlan
      /\ cq \in Seq(CqRecs) /\ grants \in [Credits -> {"Issued", "Claimed"}]
  BY CallFacts, Zenon
<1>2. /\ call[i].pc = "plan" /\ Plan(i).phase = "PollClearRecheck"
      /\ UNCHANGED <<strong, cq, grants>> /\ Continue(i, n)
  BY Zenon DEF PollClearRecheck, At
<1>3. /\ strong # i /\ ring.spin # i /\ ~Plan(i).first_commit_won
      /\ HasRing(i) /\ Plan(i).ring_index = call[i].request.ring_index
      /\ Plan(i).kind = "Drain" =>
           /\ Drains(call[i].request) /\ call[i].request.timeout_ms = 0 /\ call[i].out = <<>>
           /\ Plan(i).remaining_budget + Len(call[i].out) = call[i].request.cq_budget
  BY <1>1, <1>2, Zenon DEF CallInv, PhaseInv, CreditInv, HoldInv, Early, Late, DrainPhases
<1>4. /\ decision \in {"Ready", "Empty", "Pending"}
      /\ Plan(i).kind \in {"Poll", "Drain"} => decision \in {"Ready", "Empty"}
  BY Zenon
<1> HIDE DEF decision
<1>5. /\ Carried(Plan(i), q)
      /\ Plan(i).kind = "Drain" => q.phase = "PreflightCqAndCredit"
      /\ Plan(i).kind # "Drain" =>
           q.phase \in {"WriteExactOutput", "AcquireSessionAndFileReferences"}
  BY <1>1, <1>2, <1>4, PolledFacts, Zenon
<1>6. q.phase \notin {"Refused", "AcquireRole"}
  BY <1>5, Zenon
<1>7. n.plan = p
  BY <1>1, Zenon DEF CallRecs
<1>8. ring' = ring /\ call' = [call EXCEPT ![i] = c]
  BY <1>2, <1>6, <1>7, ContinueFacts, Zenon
<1> HIDE DEF q, p
<1>9. /\ c \in CallRecs /\ c.pc = "plan" /\ c.plan = q /\ c.decision = decision
      /\ c.request = call[i].request /\ c.out = call[i].out
  <2>1. q \in NativeEnterPlan
    BY <1>5, Zenon DEF Carried
  <2> QED  BY <1>1, <1>2, <1>4, <2>1 DEF CallRecs
<1> HIDE DEF c
<1>10. call'[i] = c
  BY <1>1, <1>8, Zenon
<1>11. PhaseInv(i)'
  BY <1>3, <1>4, <1>5, <1>9, <1>10
     DEF PhaseInv, Plan, Early, Late, DrainPhases, WaitPhases, Carried, HasRing
<1>12. CreditInv(i)'
  BY <1>3, <1>5, <1>9, <1>10, Zenon DEF CreditInv, Plan, Early, Carried
<1>13. HoldInv(i)'
  BY <1>2, <1>3, <1>8, Zenon DEF HoldInv
<1>14. q.kind = Plan(i).kind /\ q.role = Plan(i).role
  BY <1>5, Zenon DEF Carried
<1> QED  BY <1>1, <1>2, <1>6, <1>8, <1>9, <1>11, <1>12, <1>13, <1>14, MovedStep, Zenon

\* A drain looks at the head of the CQ: what it finds to fit stays to be claimed.
\* Before its first look it may still fail, for then it has committed nothing.
LEMMA PreflightStep ==
    ASSUME IndInv, NEW i \in Calls, PreflightCqAndCredit(i), UNCHANGED <<sqReady, held, op, faults>>
    PROVE  IndInv'
<1>1. /\ call \in [Calls -> CallRecs] /\ call[i] \in CallRecs /\ CallInv(i)
      /\ ring \in Rings /\ Plan(i) \in NativeEnterPlan /\ cq \in Seq(CqRecs)
      /\ call[i].request \in EnterRequest /\ grants \in [Credits -> {"Issued", "Claimed"}]
  BY CallFacts, Zenon
<1>2. /\ call[i].pc = "plan" /\ Plan(i).phase = "PreflightCqAndCredit"
      /\ UNCHANGED <<strong, cq, grants>> /\ RingFree(i)
  BY Zenon DEF PreflightCqAndCredit, At
<1>3. /\ strong # i /\ Plan(i).kind = "Drain" /\ call[i].decision \in {"Ready", "Empty"}
      /\ Drains(call[i].request) /\ call[i].request.timeout_ms = 0
      /\ HasRing(i) /\ Plan(i).ring_index = call[i].request.ring_index
      /\ Plan(i).remaining_budget + Len(call[i].out) = call[i].request.cq_budget
      /\ Plan(i).first_commit_won => ring.spin = i
  BY <1>1, <1>2, Zenon DEF CallInv, PhaseInv, CreditInv, HoldInv, Early, Late, WaitPhases
<1>4. CASE ring.spin # i /\ Fail(i, "InvalidState")
  BY <1>2, <1>3, <1>4, FailStep, Zenon
<1>5. ASSUME NEW classified \in Classified(i),
             LET slot == IF classified = "Notify" THEN Head(cq).slot ELSE NoCredit
                 plan == Settled(classify_phase(Plan(i), classified, slot))
             IN IF plan.phase = "Refused" THEN LeaveStatus(i, "INVALID_DEVICE_STATE")
                ELSE /\ ring' = [ring EXCEPT !.spin = i]
                     /\ call' = [call EXCEPT ![i].plan = plan,
                                   ![i].cqState = cq_result_state(classified)]
      PROVE  IndInv'
  <2> DEFINE slot == IF classified = "Notify" THEN Head(cq).slot ELSE NoCredit
             q == Settled(classify_phase(Plan(i), classified, slot))
             state == cq_result_state(classified)
             c == [call[i] EXCEPT !.plan = q, !.cqState = state]
  <2>1. classified = "Notify" => /\ cq # <<>> /\ Head(cq).kind # "FAULT"
                                 /\ Room(i) >= NOTIFICATION_CREDIT_V1_SIZE
                                 /\ grants[Head(cq).slot] = "Issued"
    <3>1. Room(i) \in Nat
      BY <1>1 DEF Room, CallRecs, information_for, ENTER_RESULT_V1_PREFIX_SIZE,
                  NOTIFICATION_CREDIT_V1_SIZE
    <3> QED  BY <3>1 DEF Classified, Faults, NOTIFICATION_CREDIT_V1_SIZE
  <2>2. classified = "Notify" => Head(cq).kind = "NOTIFY" /\ Head(cq).slot \in Credits
    <3>1. cq # <<>> => Head(cq) \in CqRecs
      BY <1>1
    <3> QED  BY <2>1, <3>1, Zenon DEF CqRecs
  <2>3. classified = "Notify" =>
          /\ information_for(Len(call[i].out) + 1) <= call[i].capacity
          /\ Plan(i).remaining_budget > 0
    <3>1. /\ Len(call[i].out) \in Nat /\ call[i].capacity \in Nat
          /\ call[i].request.cq_budget \in Nat /\ Plan(i).remaining_budget \in Nat
      BY <1>1 DEF CallRecs, EnterRequest, NativeEnterPlan
    <3>2. Room(i) >= NOTIFICATION_CREDIT_V1_SIZE =>
            /\ information_for(Len(call[i].out) + 1) <= call[i].capacity
            /\ Len(call[i].out) < call[i].request.cq_budget
      BY <3>1 DEF Room, information_for, ENTER_RESULT_V1_PREFIX_SIZE, NOTIFICATION_CREDIT_V1_SIZE
    <3> QED  BY <1>3, <2>1, <3>1, <3>2
  <2>4. slot \in Credits \cup {NoCredit} /\ (classified = "Notify" => slot = Head(cq).slot)
    BY <2>2, Zenon
  <2> HIDE DEF slot
  <2>5. /\ q \in NativeEnterPlan /\ q.kind = Plan(i).kind /\ q.role = Plan(i).role
        /\ q.first_commit_won = Plan(i).first_commit_won /\ q.ring_index = Plan(i).ring_index
        /\ q.remaining_budget = Plan(i).remaining_budget
        /\ q.phase = IF classified = "Notify" THEN "ClaimCredit" ELSE "WriteExactOutput"
        /\ classified = "Notify" => q.notify_preflight = slot
    BY <1>1, <2>2, <2>3, <2>4, ClassifiedFacts
  <2>6. state \in {"None", "Contended", "NotifyBlocked"}
    BY Zenon DEF cq_result_state
  <2>7. /\ ring' = [ring EXCEPT !.spin = i]
        /\ call' = [call EXCEPT ![i].plan = q, ![i].cqState = state]
    <3>1. q.phase # "Refused"
      BY <2>5, Zenon
    <3> QED  BY <1>5, <3>1, Zenon DEF slot
  <2> HIDE DEF q, state
  <2>8. /\ c \in CallRecs /\ c.pc = "plan" /\ c.plan = q /\ c.decision = call[i].decision
        /\ c.request = call[i].request /\ c.out = call[i].out /\ c.capacity = call[i].capacity
    BY <1>1, <1>2, <2>5, <2>6, Zenon DEF CallRecs
  <2>9. call' = [call EXCEPT ![i] = c]
    BY <1>1, <2>7, Zenon
  <2> HIDE DEF c
  <2>10. call'[i] = c
    BY <1>1, <2>9, Zenon
  <2>11. /\ ring' \in Rings /\ ring'.sq_owner = ring.sq_owner /\ ring'.cq_owner = ring.cq_owner
         /\ ring'.spin = i
    BY <1>1, <2>7, Zenon DEF Rings, Owners
  <2>12. PhaseInv(i)'
    BY <1>3, <2>5, <2>8, <2>10 DEF PhaseInv, Plan, Early, Late, DrainPhases, HasRing
  <2>13. CreditInv(i)'
    BY <1>2, <1>3, <2>1, <2>2, <2>3, <2>4, <2>5, <2>8, <2>10, <2>11 DEF CreditInv, Plan, Early
  <2>14. HoldInv(i)'
    BY <1>2, <1>3, <2>5, <2>8, <2>10, Zenon DEF HoldInv, Plan, DrainPhases, Late
  <2>15. q.phase # "AcquireRole"
    BY <2>5, Zenon
  <2> QED  BY <1>1, <1>2, <2>5, <2>8, <2>9, <2>11, <2>12, <2>13, <2>14, <2>15, MovedStep, Zenon
<1> QED  BY <1>4, <1>5, Zenon DEF PreflightCqAndCredit

\* What a drain that has read a record knows of it.
LEMMA TakenFacts ==
    ASSUME IndInv, NEW i \in Calls, call[i].pc = "plan",
           Plan(i).phase \in {"ClaimCredit", "AdvanceCqHeadRelease", "RefreshCredit"}
    PROVE  /\ Plan(i).kind = "Drain" /\ strong # i /\ ring.spin = i /\ HasRing(i)
           /\ Plan(i).ring_index = call[i].request.ring_index
           /\ Drains(call[i].request) /\ call[i].request.timeout_ms = 0
           /\ call[i].decision \in {"Ready", "Empty"} /\ Plan(i).remaining_budget > 0
           /\ Plan(i).remaining_budget + Len(call[i].out) = call[i].request.cq_budget
           /\ information_for(Len(call[i].out) + 1) <= call[i].capacity
<1>1. CallInv(i)
  BY CallFacts, Zenon
<1>2. Plan(i).kind = "Drain" /\ Plan(i).phase \notin Early
  BY <1>1, Zenon DEF CallInv, PhaseInv, Early, Late, DrainPhases, WaitPhases
<1>3. /\ strong # i /\ HasRing(i) /\ Plan(i).ring_index = call[i].request.ring_index
      /\ Drains(call[i].request) /\ call[i].request.timeout_ms = 0
      /\ call[i].decision \in {"Ready", "Empty"}
  BY <1>1, <1>2, Zenon DEF CallInv, PhaseInv, HoldInv
<1>4. /\ ring.spin = i /\ Plan(i).remaining_budget > 0
      /\ Plan(i).remaining_budget + Len(call[i].out) = call[i].request.cq_budget
      /\ information_for(Len(call[i].out) + 1) <= call[i].capacity
  BY <1>1, <1>2, Zenon DEF CallInv, CreditInv
<1> QED  BY <1>2, <1>3, <1>4, Zenon

\* The credit at the head is claimed, with the ring's lock still held: the table
\* that the preflight read has not changed.
LEMMA ClaimStep ==
    ASSUME IndInv, NEW i \in Calls, ClaimCredit(i), UNCHANGED <<sqReady, held, op, faults>>
    PROVE  IndInv'
<1> DEFINE p == claim(Plan(i))
           q == Settled(p)
           n == [call[i] EXCEPT !.plan = p]
           c == [n EXCEPT !.plan = q]
<1>1. /\ call \in [Calls -> CallRecs] /\ call[i] \in CallRecs /\ CallInv(i)
      /\ ring \in Rings /\ Plan(i) \in NativeEnterPlan /\ cq \in Seq(CqRecs)
      /\ grants \in [Credits -> {"Issued", "Claimed"}]
  BY CallFacts, Zenon
<1>2. call[i].pc = "plan" /\ Plan(i).phase = "ClaimCredit" /\ UNCHANGED <<strong, cq>>
  BY Zenon DEF ClaimCredit, At
<1>3. /\ Plan(i).kind = "Drain" /\ strong # i /\ ring.spin = i /\ HasRing(i)
      /\ Plan(i).ring_index = call[i].request.ring_index
      /\ Drains(call[i].request) /\ call[i].request.timeout_ms = 0
      /\ call[i].decision \in {"Ready", "Empty"} /\ Plan(i).remaining_budget > 0
      /\ Plan(i).remaining_budget + Len(call[i].out) = call[i].request.cq_budget
      /\ information_for(Len(call[i].out) + 1) <= call[i].capacity
  BY <1>2, TakenFacts, Zenon
<1>4. /\ Plan(i).notify_preflight \in Credits
      /\ grants[Plan(i).notify_preflight] = "Issued"
      /\ cq # <<>> /\ Head(cq).kind = "NOTIFY"
  BY <1>1, <1>2, <1>3, Zenon DEF CallInv, CreditInv
<1>5. ClaimFailure(Plan(i), grants) = "None"
  BY <1>4, Zenon DEF ClaimFailure
<1>6. Continue(i, n) /\ grants' = [grants EXCEPT ![Plan(i).notify_preflight] = "Claimed"]
  BY <1>3, <1>5, Zenon DEF ClaimCredit, Advance
<1>7. /\ q \in NativeEnterPlan /\ q.kind = Plan(i).kind /\ q.role = Plan(i).role
      /\ q.first_commit_won = Plan(i).first_commit_won /\ q.ring_index = Plan(i).ring_index
      /\ q.remaining_budget = Plan(i).remaining_budget
      /\ q.claimed_credit = Plan(i).notify_preflight /\ q.phase = "AdvanceCqHeadRelease"
  BY <1>1, CreditFacts, Zenon
<1>8. n.plan = p /\ q.phase \notin {"Refused", "AcquireRole"}
  BY <1>1, <1>7, Zenon DEF CallRecs
<1>9. ring' = ring /\ call' = [call EXCEPT ![i] = c]
  BY <1>6, <1>8, ContinueFacts, Zenon
<1> HIDE DEF q, p
<1>10. /\ c \in CallRecs /\ c.pc = "plan" /\ c.plan = q /\ c.decision = call[i].decision
       /\ c.request = call[i].request /\ c.out = call[i].out /\ c.capacity = call[i].capacity
  BY <1>1, <1>2, <1>7, Zenon DEF CallRecs
<1> HIDE DEF c
<1>11. call'[i] = c
  BY <1>1, <1>9, Zenon
<1>12. PhaseInv(i)'
  BY <1>3, <1>7, <1>10, <1>11 DEF PhaseInv, Plan, Early, DrainPhases, HasRing
<1>13. CreditInv(i)'
  BY <1>2, <1>3, <1>4, <1>7, <1>9, <1>10, <1>11 DEF CreditInv, Plan, Early
<1>14. HoldInv(i)'
  BY <1>2, <1>3, <1>7, <1>10, <1>11 DEF HoldInv, Plan, DrainPhases
<1>15. grants' \in [Credits -> {"Issued", "Claimed"}]
  BY <1>1, <1>6, Zenon
<1> QED  BY <1>1, <1>2, <1>3, <1>7, <1>8, <1>9, <1>10, <1>12, <1>13, <1>14, <1>15, MovedStep, Zenon

\* The record at the head is taken: from here the drain has committed.
LEMMA AdvanceStep ==
    ASSUME IndInv, NEW i \in Calls, AdvanceCqHeadRelease(i), UNCHANGED <<sqReady, held, op, faults>>
    PROVE  IndInv'
<1> DEFINE p == completed_release(Plan(i))
           q == Settled(p)
           n == [call[i] EXCEPT !.plan = p]
           c == [n EXCEPT !.plan = q]
<1>1. /\ call \in [Calls -> CallRecs] /\ call[i] \in CallRecs /\ CallInv(i)
      /\ ring \in Rings /\ Plan(i) \in NativeEnterPlan /\ cq \in Seq(CqRecs)
      /\ grants \in [Credits -> {"Issued", "Claimed"}]
  BY CallFacts, Zenon
<1>2. /\ call[i].pc = "plan" /\ Plan(i).phase = "AdvanceCqHeadRelease"
      /\ UNCHANGED <<strong, grants>>
  BY Zenon DEF AdvanceCqHeadRelease, At
<1>3. /\ Plan(i).kind = "Drain" /\ strong # i /\ ring.spin = i /\ HasRing(i)
      /\ Plan(i).ring_index = call[i].request.ring_index
      /\ Drains(call[i].request) /\ call[i].request.timeout_ms = 0
      /\ call[i].decision \in {"Ready", "Empty"} /\ Plan(i).remaining_budget > 0
      /\ Plan(i).remaining_budget + Len(call[i].out) = call[i].request.cq_budget
      /\ information_for(Len(call[i].out) + 1) <= call[i].capacity
  BY <1>2, TakenFacts, Zenon
<1>4. cq # <<>> /\ Plan(i).claimed_credit \in Credits
  BY <1>1, <1>2, <1>3, Zenon DEF CallInv, CreditInv
<1>5. Continue(i, n) /\ cq' = Tail(cq)
  BY <1>3, Zenon DEF AdvanceCqHeadRelease, Advance
<1>6. Tail(cq) \in Seq(CqRecs)
  BY <1>1, <1>4
<1>7. /\ q \in NativeEnterPlan /\ q.kind = Plan(i).kind /\ q.role = Plan(i).role
      /\ q.ring_index = Plan(i).ring_index /\ q.remaining_budget = Plan(i).remaining_budget
      /\ q.claimed_credit = Plan(i).claimed_credit /\ q.phase = "RefreshCredit"
  BY <1>1, CreditFacts, Zenon
<1>8. n.plan = p /\ q.phase \notin {"Refused", "AcquireRole"}
  BY <1>1, <1>7, Zenon DEF CallRecs
<1>9. ring' = ring /\ call' = [call EXCEPT ![i] = c]
  BY <1>5, <1>8, ContinueFacts, Zenon
<1> HIDE DEF q, p
<1>10. /\ c \in CallRecs /\ c.pc = "plan" /\ c.plan = q /\ c.decision = call[i].decision
       /\ c.request = call[i].request /\ c.out = call[i].out /\ c.capacity = call[i].capacity
  BY <1>1, <1>2, <1>7, Zenon DEF CallRecs
<1> HIDE DEF c
<1>11. call'[i] = c
  BY <1>1, <1>9, Zenon
<1>12. PhaseInv(i)'
  BY <1>3, <1>7, <1>10, <1>11 DEF PhaseInv, Plan, Early, DrainPhases, HasRing
<1>13. CreditInv(i)'
  BY <1>3, <1>4, <1>7, <1>9, <1>10, <1>11 DEF CreditInv, Plan, Early
<1>14. HoldInv(i)'
  BY <1>2, <1>3, <1>7, <1>10, <1>11 DEF HoldInv, Plan, DrainPhases
<1>15. cq' \in Seq(CqRecs) /\ grants' \in [Credits -> {"Issued", "Claimed"}]
  BY <1>1, <1>2, <1>5, <1>6, Zenon
<1> QED  BY <1>1, <1>2, <1>3, <1>7, <1>8, <1>9, <1>10, <1>12, <1>13, <1>14, <1>15, MovedStep, Zenon

\* The claimed credit fits, so that the role is not left behind.
LEMMA RefreshStep ==
    ASSUME IndInv, NEW i \in Calls, RefreshCredit(i), UNCHANGED <<sqReady, held, op, faults>>
    PROVE  IndInv'
<1> DEFINE p == refresh(Plan(i))
           q == Settled(p)
           out == Append(call[i].out, Plan(i).claimed_credit)
           n == [call[i] EXCEPT !.plan = p, !.out = out]
           c == [n EXCEPT !.plan = q]
<1>1. /\ call \in [Calls -> CallRecs] /\ call[i] \in CallRecs /\ CallInv(i)
      /\ ring \in Rings /\ Plan(i) \in NativeEnterPlan /\ cq \in Seq(CqRecs)
      /\ grants \in [Credits -> {"Issued", "Claimed"}]
  BY CallFacts, Zenon
<1>2. /\ call[i].pc = "plan" /\ Plan(i).phase = "RefreshCredit" /\ UNCHANGED <<strong, cq>>
      /\ grants' = [k \in Credits |-> IF k = Plan(i).claimed_credit THEN "Issued" ELSE grants[k]]
  BY Zenon DEF RefreshCredit, At
<1>3. /\ Plan(i).kind = "Drain" /\ strong # i /\ ring.spin = i /\ HasRing(i)
      /\ Plan(i).ring_index = call[i].request.ring_index
      /\ Drains(call[i].request) /\ call[i].request.timeout_ms = 0
      /\ call[i].decision \in {"Ready", "Empty"} /\ Plan(i).remaining_budget > 0
      /\ Plan(i).remaining_budget + Len(call[i].out) = call[i].request.cq_budget
      /\ information_for(Len(call[i].out) + 1) <= call[i].capacity
  BY <1>2, TakenFacts, Zenon
<1>4. Plan(i).claimed_credit \in Credits
  BY <1>1, <1>2, <1>3, Zenon DEF CallInv, CreditInv
<1>5. /\ call[i].out \in Seq(Credits) /\ Len(call[i].out) \in Nat /\ call[i].capacity \in Nat
      /\ call[i].request.cq_budget \in Nat /\ Plan(i).remaining_budget \in Nat
  BY <1>1 DEF CallRecs, EnterRequest, NativeEnterPlan
<1>6. Continue(i, n)
  <2>1. ~(call[i].capacity < information_for(Len(call[i].out) + 1))
    BY <1>3, <1>5 DEF information_for, ENTER_RESULT_V1_PREFIX_SIZE, NOTIFICATION_CREDIT_V1_SIZE
  <2>2. n = [call[i] EXCEPT !.plan = refresh(Plan(i)),
                            !.out = Append(call[i].out, Plan(i).claimed_credit)]
    BY Zenon
  <2> HIDE DEF n
  <2> QED  BY <1>1, <2>1, <2>2, Zenon DEF RefreshCredit, n
<1>7. /\ q \in NativeEnterPlan /\ q.kind = Plan(i).kind /\ q.role = Plan(i).role
      /\ q.first_commit_won = Plan(i).first_commit_won /\ q.ring_index = Plan(i).ring_index
      /\ q.remaining_budget = Plan(i).remaining_budget - 1
      /\ q.phase \in {"PreflightCqAndCredit", "WriteExactOutput"}
  <2>1. Plan(i).claimed_credit # NoCredit
    BY <1>4, Zenon
  <2> QED  BY <1>1, <1>3, <2>1, CreditFacts, Zenon
<1>8. out \in Seq(Credits) /\ Len(out) = Len(call[i].out) + 1
  BY <1>4, <1>5
<1>9. q.remaining_budget + Len(out) = call[i].request.cq_budget
  BY <1>3, <1>5, <1>7, <1>8
<1>10. n.plan = p /\ q.phase \notin {"Refused", "AcquireRole"}
  BY <1>1, <1>7, Zenon DEF CallRecs
<1>11. ring' = ring /\ call' = [call EXCEPT ![i] = c]
  BY <1>6, <1>10, ContinueFacts, Zenon
<1> HIDE DEF q, p, out
<1>12. /\ c \in CallRecs /\ c.pc = "plan" /\ c.plan = q /\ c.decision = call[i].decision
       /\ c.request = call[i].request /\ c.out = out
  BY <1>1, <1>2, <1>7, <1>8, Zenon DEF CallRecs
<1> HIDE DEF c
<1>13. call'[i] = c
  BY <1>1, <1>11, Zenon
<1>14. PhaseInv(i)'
  BY <1>3, <1>7, <1>12, <1>13 DEF PhaseInv, Plan, Early, Late, DrainPhases, HasRing
<1>15. CreditInv(i)'
  BY <1>3, <1>7, <1>9, <1>11, <1>12, <1>13 DEF CreditInv, Plan, Early
<1>16. HoldInv(i)'
  BY <1>2, <1>3, <1>7, <1>12, <1>13 DEF HoldInv, Plan, DrainPhases, Late
<1>17. grants' \in [Credits -> {"Issued", "Claimed"}] /\ cq' \in Seq(CqRecs)
  BY <1>1, <1>2, Zenon
<1> QED  BY <1>1, <1>2, <1>3, <1>7, <1>10, <1>11, <1>12, <1>14, <1>15, <1>16, <1>17, MovedStep, Zenon

\* A result has its type; a drain's can always be built.
LEMMA ResultFacts ==
    ASSUME NEW request \in EnterRequest, NEW credits \in Seq(Credits),
           NEW decision \in {"Ready", "Empty", "Pending", "TimedOut"},
           NEW state \in {"None", "Contended", "NotifyBlocked"}
    PROVE  /\ build_enter_result(request, decision, credits, state) \in Results
           /\ Drains(request) /\ request.timeout_ms = 0 /\ decision \in {"Ready", "Empty"}
              => build_enter_result(request, decision, credits, state).flags # Unwritable
<1> DEFINE role == IF Drains(request) THEN "Cq" ELSE "Sq"
           flags == result_flags(role, decision, state)
           result == [struct_size |-> enter_result_size_v1(Len(credits)),
                      flags |-> flags, cq_drained |-> Len(credits),
                      sq_ready |-> IF decision = "Ready" THEN 1 ELSE 0, credits |-> credits]
<1>1. /\ flags = Unwritable \/ flags \in SUBSET ResultFlags
      /\ decision \in {"Ready", "Empty"} /\ role = "Cq" => flags \in SUBSET ResultFlags
  BY Zenon DEF result_flags, ResultFlags, Unwritable
<1>2. Unwritable \notin SUBSET ResultFlags
  BY Zenon DEF ResultFlags, Unwritable
<1>3. build_enter_result(request, decision, credits, state) \in {NoResult, result}
  BY Zenon DEF build_enter_result
<1>4. Drains(request) /\ request.timeout_ms = 0 /\ decision \in {"Ready", "Empty"}
      => build_enter_result(request, decision, credits, state) = result /\ flags # Unwritable
  BY <1>1, <1>2, Zenon DEF build_enter_result
<1>5. NoResult \in Results
  BY DEF NoResult, Results
<1>6. result \in Results /\ result.flags = flags
  <2>1. Len(credits) \in Nat /\ enter_result_size_v1(Len(credits)) \in Nat
    BY DEF enter_result_size_v1, ENTER_RESULT_V1_PREFIX_SIZE, NOTIFICATION_CREDIT_V1_SIZE
  <2> HIDE DEF flags
  <2> QED  BY <1>1, <2>1, Zenon DEF Results
<1> HIDE DEF flags, result
<1> QED  BY <1>3, <1>4, <1>5, <1>6, Zenon

\* The answer is written; one that cannot be is a failure, never of a committed drain.
LEMMA WriteStep ==
    ASSUME IndInv, NEW i \in Calls, WriteExactOutput(i), UNCHANGED <<sqReady, held, op, faults>>
    PROVE  IndInv'
<1> DEFINE result == build_enter_result(call[i].request, call[i].decision,
                                        call[i].out, call[i].cqState)
           p == succeeded(Plan(i), "Done")
           q == Settled(p)
           n == [call[i] EXCEPT !.plan = p, !.result = result]
           c == [n EXCEPT !.plan = q]
<1>1. /\ call \in [Calls -> CallRecs] /\ call[i] \in CallRecs /\ CallInv(i) /\ i # Nobody
      /\ ring \in Rings /\ Plan(i) \in NativeEnterPlan /\ cq \in Seq(CqRecs)
      /\ grants \in [Credits -> {"Issued", "Claimed"}]
  BY CallFacts, Zenon
<1>2. /\ call[i].pc = "plan" /\ Plan(i).phase = "WriteExactOutput"
      /\ UNCHANGED <<strong, cq, grants>>
  BY Zenon DEF WriteExactOutput, At
<1>3. strong # i
  BY <1>1, <1>2, Zenon DEF CallInv, HoldInv
<1>4. /\ call[i].request \in EnterRequest /\ call[i].out \in Seq(Credits)
      /\ call[i].decision \in {"None", "Ready", "Empty", "Pending"}
      /\ call[i].cqState \in {"None", "Contended", "NotifyBlocked"}
  BY <1>1, Zenon DEF CallRecs
<1>5. CASE call[i].decision = "None" \/ result.flags = Unwritable
  <2>1. Fail(i, "InvalidState")
    BY <1>5, Zenon DEF WriteExactOutput
  <2>2. ~Plan(i).first_commit_won
    <3>1. SUFFICES ASSUME Plan(i).first_commit_won PROVE FALSE
      BY Zenon
    <3>2. /\ Drains(call[i].request) /\ call[i].request.timeout_ms = 0
          /\ call[i].decision \in {"Ready", "Empty"}
      BY <1>1, <1>2, <3>1, Zenon DEF CallInv, PhaseInv
    <3>3. result.flags # Unwritable
      BY <1>4, <3>2, ResultFacts
    <3> QED  BY <1>5, <3>2, <3>3, Zenon
  <2> QED  BY <1>2, <1>3, <2>1, <2>2, FailStep, Zenon
<1>6. CASE call[i].decision # "None" /\ result.flags # Unwritable
  <2>1. Continue(i, n)
    BY <1>6, Zenon DEF WriteExactOutput
  <2>2. result \in Results
    BY <1>4, <1>6, ResultFacts, Zenon
  <2>3. Carried(Plan(i), q) /\ q.phase = "ReleaseRole"
    <3>1. Following("WriteExactOutput") = "ReleaseRole" /\ "ReleaseRole" \notin DoneEffects
      BY Zenon DEF Following, DoneEffects
    <3>2. Carried(Plan(i), p) /\ p.phase = "ReleaseRole"
      BY <1>1, <1>2, <3>1, FollowingFacts, Zenon
    <3> HIDE DEF p
    <3>3. p \in NativeEnterPlan /\ p.phase # "ClaimFirstCommit"
      BY <3>2, Zenon DEF Carried
    <3>4. Carried(p, Settled(p)) /\ Settled(p).phase = p.phase
      BY <3>1, <3>2, <3>3, SettledFacts, Zenon
    <3> QED  BY <3>2, <3>4, Zenon DEF Carried
  <2>4. n.plan = p /\ q.phase \notin {"Refused", "AcquireRole"}
    BY <1>1, <2>3, Zenon DEF CallRecs
  <2>5. ring' = ring /\ call' = [call EXCEPT ![i] = c]
    BY <2>1, <2>4, ContinueFacts, Zenon
  <2>6. q \in NativeEnterPlan /\ q.kind = Plan(i).kind /\ q.role = Plan(i).role
    BY <2>3, Zenon DEF Carried
  <2> HIDE DEF p, q, result
  <2>7. /\ c \in CallRecs /\ c.pc = "plan" /\ c.plan = q /\ c.decision = call[i].decision
        /\ c.request = call[i].request
    BY <1>1, <1>2, <2>2, <2>6, Zenon DEF CallRecs
  <2> HIDE DEF c
  <2>8. call'[i] = c
    BY <1>1, <2>5, Zenon
  <2>9. PhaseInv(i)'
    BY <1>1, <1>2, <2>3, <2>7, <2>8
       DEF CallInv, PhaseInv, Plan, Early, Late, HasRing, Carried
  <2>10. CreditInv(i)'
    BY <1>1, <1>2, <2>3, <2>5, <2>7, <2>8 DEF CallInv, CreditInv, Plan, Early, Carried
  <2>11. HoldInv(i)'
    BY <1>1, <1>2, <2>3, <2>5, <2>7, <2>8, Zenon DEF CallInv, HoldInv, Plan, Late, Carried
  <2> QED  BY <1>1, <1>2, <2>4, <2>5, <2>6, <2>7, <2>9, <2>10, <2>11, MovedStep, Zenon
<1> QED  BY <1>5, <1>6, Zenon

\* A role that goes back leaves the other one to its owner.
LEMMA VacatedFacts ==
    ASSUME ring \in Rings, NEW role \in {"Sq", "Cq"}
    PROVE  /\ Vacated(role) \in Rings /\ Vacated(role).spin = ring.spin
           /\ Vacated(role).sq_owner = IF role = "Sq" THEN Nobody ELSE ring.sq_owner
           /\ Vacated(role).cq_owner = IF role = "Cq" THEN Nobody ELSE ring.cq_owner
BY Zenon DEF Vacated, Rings, Owners

\* The ring takes back the role of any ENTER that has one.
LEMMA TakesBack ==
    ASSUME IndInv, NEW i \in Calls, call[i].pc \in {"plan", "unwind"},
           Plan(i).role \in {"Sq", "Cq"}
    PROVE  CanRelease(i)
<1>1. CallInv(i)
  BY CallFacts, Zenon
<1> QED  BY <1>1, Zenon DEF CallInv, PhaseInv, OwnerInv, CanRelease, OwnerOf

\* An ENTER whose last holding was its role is answered.
LEMMA AnsweredStep ==
    ASSUME IndInv, NEW i \in Calls, Plan(i).role \in {"Sq", "Cq"}, RingFree(i),
           NEW c \in CallRecs, call' = [call EXCEPT ![i] = c], c.pc = "answered",
           c.plan.role = NoLease, strong' \in {strong, Nobody}, strong' # i,
           ring' \in Rings, ring'.spin # i, ring.spin # i => ring'.spin = ring.spin,
           ring'.sq_owner = Vacated(Plan(i).role).sq_owner,
           ring'.cq_owner = Vacated(Plan(i).role).cq_owner,
           ring'.spin \in {ring.spin, Nobody},
           UNCHANGED <<cq, grants, sqReady, held, op, faults>>
    PROVE  IndInv'
<1>1. /\ call \in [Calls -> CallRecs] /\ CallInv(i) /\ i # Nobody
      /\ ring \in Rings /\ strong \in Owners /\ cq \in Seq(CqRecs)
      /\ grants \in [Credits -> {"Issued", "Claimed"}]
  BY CallFacts, Zenon
<1>2. /\ call' \in [Calls -> CallRecs] /\ call'[i] = c
      /\ \A j \in Calls : j # i => call'[j] = call[j]
  BY <1>1, Zenon
<1>3. /\ ring'.sq_owner = IF Plan(i).role = "Sq" THEN Nobody ELSE ring.sq_owner
      /\ ring'.cq_owner = IF Plan(i).role = "Cq" THEN Nobody ELSE ring.cq_owner
  BY <1>1, VacatedFacts, Zenon
<1>4. /\ Plan(i).role = "Sq" => ring.sq_owner = i /\ ring.cq_owner # i
      /\ Plan(i).role = "Cq" => ring.cq_owner = i /\ ring.sq_owner # i
  BY <1>1, Zenon DEF CallInv, OwnerInv
<1>5. CallInv(i)'
  <2>1. RoleInv(i)' /\ PhaseInv(i)' /\ CreditInv(i)' /\ HoldInv(i)'
    BY <1>2, Zenon DEF RoleInv, PhaseInv, CreditInv, HoldInv, Plan
  <2>2. ring'.sq_owner # i /\ ring'.cq_owner # i
    BY <1>1, <1>3, <1>4
  <2>3. OwnerInv(i)'
    BY <1>2, <2>2, Zenon DEF OwnerInv, Plan, Outstanding
  <2> QED  BY <2>1, <2>3, Zenon DEF CallInv
<1>6. ASSUME NEW j \in Calls, j # i
      PROVE  /\ ring'.sq_owner = j <=> ring.sq_owner = j
             /\ ring'.cq_owner = j <=> ring.cq_owner = j
             /\ ring'.spin = j <=> ring.spin = j
             /\ strong' = j => strong = j
  <2>1. j # Nobody
    BY <1>6, Zenon
  <2> QED  BY <1>3, <1>4, <1>6, <2>1, Zenon DEF RingFree
<1>7. strong' \in Owners
  BY <1>1, Zenon DEF Owners
<1> QED  BY <1>1, <1>2, <1>5, <1>6, <1>7, KernelStep, Zenon

\* The role goes back, and the ENTER is answered.
LEMMA ReleaseStep ==
    ASSUME IndInv, NEW i \in Calls, ReleaseRole(i), UNCHANGED <<sqReady, held, op, faults>>
    PROVE  IndInv'
<1> DEFINE done == Finished(release(Plan(i)))
           a == Return(i, done.status, done.information)
           c == [a EXCEPT !.plan = release(Plan(i))]
<1>1. /\ call \in [Calls -> CallRecs] /\ CallInv(i) /\ i # Nobody /\ Nobody \in Owners
      /\ ring \in Rings /\ Plan(i) \in NativeEnterPlan
  BY CallFacts, Zenon DEF Owners
<1>2. /\ call[i].pc = "plan" /\ Plan(i).phase = "ReleaseRole"
      /\ UNCHANGED <<strong, cq, grants>> /\ RingFree(i)
  BY Zenon DEF ReleaseRole, At
<1>3. strong # i /\ Plan(i).role \in {"Sq", "Cq"}
  BY <1>1, <1>2, Zenon DEF CallInv, HoldInv, RoleInv, Role
<1>4. /\ ring' = [Vacated(Plan(i).role) EXCEPT !.spin = Nobody]
      /\ call' = [call EXCEPT ![i] = c]
  <2>1. CanRelease(i)
    BY <1>2, <1>3, TakesBack, Zenon
  <2> QED  BY <2>1, Zenon DEF ReleaseRole
<1>5. release(Plan(i)) \in NativeEnterPlan /\ release(Plan(i)).role = NoLease
  BY <1>1, Zenon DEF release, NativeEnterPlan, EnterPhase
<1>6. done.status \in {"SUCCESS", "INVALID_DEVICE_STATE"} /\ done.information \in Nat
  <2>1. /\ release(Plan(i)).status \in {"SUCCESS", "INVALID_DEVICE_STATE"}
        /\ release(Plan(i)).credits \in Nat
    BY <1>5, Zenon DEF NativeEnterPlan
  <2> QED  BY <2>1 DEF Finished, information_for, ENTER_RESULT_V1_PREFIX_SIZE,
                       NOTIFICATION_CREDIT_V1_SIZE
<1> HIDE DEF done
<1>7. a \in CallRecs /\ a.pc = "answered"
  BY <1>6, ReturnFacts
<1> HIDE DEF a
<1>8. c \in CallRecs /\ c.pc = "answered" /\ c.plan.role = NoLease
  BY <1>5, <1>7, Zenon DEF CallRecs
<1> HIDE DEF c
<1>9. /\ ring' \in Rings /\ ring'.spin = Nobody
      /\ ring'.sq_owner = Vacated(Plan(i).role).sq_owner
      /\ ring'.cq_owner = Vacated(Plan(i).role).cq_owner
  <2>1. Vacated(Plan(i).role) \in Rings
    BY <1>1, <1>3, VacatedFacts, Zenon
  <2> QED  BY <1>1, <1>4, <2>1, Zenon DEF Rings
<1>10. ring.spin # i => ring'.spin = ring.spin
  BY <1>2, <1>9, Zenon DEF RingFree
<1> QED  BY <1>1, <1>2, <1>3, <1>4, <1>8, <1>9, <1>10, AnsweredStep, Zenon

\* The reference and the queue's place of a wait that parks; either may be refused.
LEMMA InstallStep ==
    ASSUME IndInv, NEW i \in Calls, AcquireReferences(i) \/ InsertCsq(i),
           UNCHANGED <<sqReady, held, op, faults>>
    PROVE  IndInv'
<1> DEFINE p == succeeded(Plan(i), "Done")
           q == Settled(p)
           n == [call[i] EXCEPT !.plan = p]
           c == [n EXCEPT !.plan = q]
<1>1. /\ call \in [Calls -> CallRecs] /\ call[i] \in CallRecs /\ CallInv(i) /\ i # Nobody
      /\ ring \in Rings /\ Plan(i) \in NativeEnterPlan /\ strong \in Owners
      /\ cq \in Seq(CqRecs) /\ grants \in [Credits -> {"Issued", "Claimed"}]
  BY CallFacts, Zenon
<1>2. /\ call[i].pc = "plan" /\ UNCHANGED <<cq, grants>>
      /\ Plan(i).phase \in {"AcquireSessionAndFileReferences", "InsertCsq"}
  BY Zenon DEF AcquireReferences, InsertCsq, At
<1>3. /\ Plan(i).kind # "Drain" /\ ~Plan(i).first_commit_won /\ ring.spin # i
      /\ strong = i => Plan(i).phase = "InsertCsq"
  BY <1>1, <1>2, Zenon DEF CallInv, PhaseInv, HoldInv, Early, Late, DrainPhases
<1>4. CASE Fail(i, "InvalidState") /\ strong' = strong
  BY <1>2, <1>3, <1>4, FailStep, Zenon
<1>5. ASSUME Continue(i, n), strong' \in {strong, i}, strong' # strong => strong = Nobody
      PROVE  IndInv'
  <2>1. Carried(Plan(i), q) /\ q.phase \in {"InsertCsq", "Parked"}
    <3>1. /\ Following("AcquireSessionAndFileReferences") = "MarkIrpPending"
          /\ Following("InsertCsq") = "ExchangeDispatchRundown"
      BY Zenon DEF Following
    <3>2. Carried(Plan(i), p) /\ p.phase = Following(Plan(i).phase)
      BY <1>1, <1>2, FollowingFacts, Zenon
    <3> HIDE DEF p
    <3>3. p \in NativeEnterPlan /\ p.phase \in {"MarkIrpPending", "ExchangeDispatchRundown"}
      BY <1>2, <3>1, <3>2, Zenon DEF Carried
    <3>4. Carried(p, Settled(p)) /\ Settled(p).phase \in {"InsertCsq", "Parked"}
      BY <3>3, SettledFacts, Zenon
    <3> QED  BY <3>2, <3>4, Zenon DEF Carried
  <2>2. n.plan = p /\ q.phase # "Refused"
    BY <1>1, <2>1, Zenon DEF CallRecs
  <2>3. ring' = ring /\ call' = [call EXCEPT ![i] = c]
    BY <1>5, <2>2, ContinueFacts, Zenon
  <2>4. q \in NativeEnterPlan
    BY <2>1, Zenon DEF Carried
  <2> HIDE DEF p, q
  <2>5. c \in CallRecs /\ c.pc = "plan" /\ c.plan = q /\ c.request = call[i].request
    BY <1>1, <1>2, <2>4, Zenon DEF CallRecs
  <2> HIDE DEF c
  <2>6. /\ call' \in [Calls -> CallRecs] /\ call'[i] = c
        /\ \A j \in Calls : j # i => call'[j] = call[j]
    BY <1>1, <2>3, <2>5, Zenon
  <2>7. CallInv(i)'
    <3>1. Role(i)' = Role(i)
      BY <2>1, <2>5, <2>6 DEF Role, Plan, Carried
    <3>2. RoleInv(i)'
      BY <1>1, <1>2, <2>1, <2>5, <2>6, <3>1 DEF CallInv, RoleInv, Plan, Carried
    <3>3. PhaseInv(i)'
      BY <1>1, <1>2, <1>3, <2>1, <2>5, <2>6, Zenon
         DEF CallInv, PhaseInv, Plan, WaitPhases, HasRing, Carried
    <3>4. CreditInv(i)'
      BY <1>3, <2>1, <2>5, <2>6 DEF CreditInv, Plan, Carried
    <3>5. HoldInv(i)'
      BY <1>2, <1>3, <2>1, <2>3, <2>5, <2>6, Zenon DEF HoldInv, Plan
    <3>6. OwnerInv(i)'
      BY <1>1, <1>2, <2>1, <2>3, <2>5, <2>6 DEF CallInv, OwnerInv, Plan, Outstanding, Carried
    <3> QED  BY <3>2, <3>3, <3>4, <3>5, <3>6, Zenon DEF CallInv
  <2>8. strong' \in Owners /\ \A j \in Calls : j # i => (strong' = j => strong = j)
    BY <1>1, <1>5, Zenon DEF Owners
  <2> QED  BY <1>1, <1>2, <2>3, <2>6, <2>7, <2>8, KernelStep, Zenon
<1>6. CASE AcquireReferences(i)
  BY <1>4, <1>5, <1>6, Zenon DEF AcquireReferences, Advance
<1>7. CASE InsertCsq(i)
  BY <1>4, <1>5, <1>7, Zenon DEF InsertCsq, Advance
<1> QED  BY <1>6, <1>7, Zenon

\* A wait parks with its role, its reference and its place in the queue: the slot
\* of its ring is free, because one parked in it would have the role.
LEMMA ParkStep ==
    ASSUME IndInv, NEW i \in Calls, Park(i), UNCHANGED <<sqReady, held, op, faults>>
    PROVE  IndInv'
<1> DEFINE c == [call[i] EXCEPT !.pc = "parked"]
<1>1. /\ call \in [Calls -> CallRecs] /\ call[i] \in CallRecs /\ CallInv(i) /\ i # Nobody
      /\ ring \in Rings /\ strong \in Owners /\ cq \in Seq(CqRecs)
      /\ grants \in [Credits -> {"Issued", "Claimed"}]
  BY CallFacts, Zenon
<1>2. call[i].pc = "plan" /\ Plan(i).phase = "Parked" /\ UNCHANGED <<strong, cq, grants>>
  BY Zenon DEF Park, At
<1>3. Plan(i).role = "Sq" /\ ring.spin # i
  BY <1>1, <1>2, Zenon DEF CallInv, PhaseInv, RoleInv, HoldInv, Role, Early, Late, DrainPhases
<1>4. Stores(i)
  <2>1. HasRing(i) /\ ring.sq_owner = i
    BY <1>1, <1>2, <1>3, Zenon DEF CallInv, PhaseInv, OwnerInv
  <2>2. ASSUME NEW j \in Calls, call[j].pc = "parked" PROVE FALSE
    <3>1. CallInv(j)
      BY CallFacts, Zenon
    <3>2. ring.sq_owner = j
      BY <2>2, <3>1, Zenon DEF CallInv, RoleInv, OwnerInv
    <3> QED  BY <1>2, <2>1, <2>2, <3>2, Zenon
  <2> QED  BY <1>3, <2>1, <2>2, Zenon DEF Stores
<1>5. /\ ring' = [ring EXCEPT !.sq_wait_pending = TRUE]
      /\ call' = [call EXCEPT ![i].pc = "parked"]
  BY <1>4, Zenon DEF Park
<1>6. c \in CallRecs /\ c.pc = "parked" /\ c.plan = call[i].plan
  BY <1>1, Zenon DEF CallRecs
<1>7. call' = [call EXCEPT ![i] = c]
  BY <1>1, <1>5, Zenon
<1> HIDE DEF c
<1>8. /\ call' \in [Calls -> CallRecs] /\ call'[i] = c
      /\ \A j \in Calls : j # i => call'[j] = call[j]
  BY <1>1, <1>6, <1>7, Zenon
<1>9. /\ ring' \in Rings /\ ring'.sq_owner = ring.sq_owner /\ ring'.cq_owner = ring.cq_owner
      /\ ring'.spin = ring.spin
  BY <1>1, <1>5, Zenon DEF Rings
<1>10. CallInv(i)'
  <2>1. RoleInv(i)' /\ PhaseInv(i)' /\ CreditInv(i)'
    BY <1>3, <1>6, <1>8, Zenon DEF RoleInv, PhaseInv, CreditInv, Plan
  <2>2. HoldInv(i)'
    BY <1>3, <1>6, <1>8, <1>9, Zenon DEF HoldInv
  <2>3. OwnerInv(i)'
    BY <1>1, <1>2, <1>6, <1>8, <1>9, Zenon DEF CallInv, OwnerInv, Plan, Outstanding
  <2> QED  BY <2>1, <2>2, <2>3, Zenon DEF CallInv
<1> QED  BY <1>1, <1>2, <1>8, <1>9, <1>10, KernelStep, Zenon

\* The steps of a rollback, from its cursor on: the reference is given up no
\* later than step 4, the role at step 7.
LEMMA RollbackFacts ==
    ASSUME NEW p \in NativeEnterPlan, NEW next \in 1 .. 8
    PROVE  LET due == EnterRollbackPlan(p, next)
           IN  /\ due \subseteq next .. 7
               /\ next <= 7 /\ p.role # NoLease => 7 \in due
               /\ next <= 4 /\ p.phase = "InsertCsq" => 4 \in due
               /\ 7 \in due => p.role # NoLease
<1>1. Len(ROLLBACK_ORDER) = 7
  BY Zenon DEF ROLLBACK_ORDER
<1>2. /\ ROLLBACK_REQUIRES[4] = 3 /\ ROLLBACK_REQUIRES[7] = 0
      /\ ROLLBACK_ORDER[4] # "ReleaseRole" /\ ROLLBACK_ORDER[7] = "ReleaseRole"
  BY Zenon DEF ROLLBACK_REQUIRES, ROLLBACK_ORDER
<1>3. installation_prefix(p.phase) \in Nat /\ installation_prefix("InsertCsq") = 4
  BY Zenon DEF installation_prefix
<1> QED  BY <1>1, <1>2, <1>3 DEF EnterRollbackPlan

\* A step of a rollback, least first; the rollback whose steps are done has
\* given everything back.
LEMMA UnwindStep ==
    ASSUME IndInv, NEW i \in Calls, Unwind(i), UNCHANGED <<sqReady, held, op, faults>>
    PROVE  IndInv'
<1> DEFINE due == EnterRollbackPlan(Plan(i), call[i].undo)
<1>1. /\ call \in [Calls -> CallRecs] /\ call[i] \in CallRecs /\ CallInv(i) /\ i # Nobody
      /\ ring \in Rings /\ strong \in Owners /\ cq \in Seq(CqRecs) /\ Nobody \in Owners
      /\ Plan(i) \in NativeEnterPlan /\ grants \in [Credits -> {"Issued", "Claimed"}]
  BY CallFacts, Zenon DEF Owners
<1>2. call[i].pc = "unwind" /\ UNCHANGED <<cq, grants>> /\ call[i].undo \in 1 .. 8
  BY <1>1, Zenon DEF Unwind, CallRecs
<1>3. /\ due \subseteq call[i].undo .. 7
      /\ call[i].undo <= 7 /\ Plan(i).role # NoLease => 7 \in due
      /\ call[i].undo <= 4 /\ Plan(i).phase = "InsertCsq" => 4 \in due
      /\ 7 \in due => Plan(i).role # NoLease
  BY <1>1, <1>2, RollbackFacts, Zenon
<1>4. /\ Plan(i).role = NoLease \/ 7 \in due
      /\ strong = i => 4 \in due /\ Plan(i).phase = "InsertCsq"
      /\ ring.spin # i
  BY <1>1, <1>2, <1>3, Zenon DEF CallInv, RoleInv, HoldInv
<1>5. \/ /\ due = {} /\ call' = [call EXCEPT ![i] = Return(i, call[i].status, 0)]
         /\ UNCHANGED <<ring, strong>>
      \/ \E k \in due :
           /\ \A m \in due : k <= m
           /\ ROLLBACK_ORDER[k] = "ReleaseRole" => RingFree(i)
           /\ strong' = IF ROLLBACK_ORDER[k] = "ReleaseSessionAndFileReferences"
                        THEN Nobody ELSE strong
           /\ ring' = IF ROLLBACK_ORDER[k] = "ReleaseRole" THEN Vacated(Plan(i).role)
                      ELSE ring
           /\ call' = [call EXCEPT ![i].undo = k + 1,
                         ![i].plan.role = IF ROLLBACK_ORDER[k] = "ReleaseRole"
                                          THEN NoLease ELSE call[i].plan.role]
  <2>1. CASE /\ due = {} /\ call' = [call EXCEPT ![i] = Return(i, call[i].status, 0)]
             /\ UNCHANGED <<ring, strong>>
    BY <2>1, Zenon
  <2>2. ASSUME NEW k \in due,
               /\ \A m \in due : k <= m
               /\ ROLLBACK_ORDER[k] = "ReleaseRole" => RingFree(i)
               /\ strong' = IF ROLLBACK_ORDER[k] = "ReleaseSessionAndFileReferences"
                            THEN Nobody ELSE strong
               /\ IF ROLLBACK_ORDER[k] = "ReleaseRole" /\ ~CanRelease(i)
                  THEN LeaveStatus(i, "INVALID_DEVICE_STATE")
                  ELSE /\ ring' = IF ROLLBACK_ORDER[k] = "ReleaseRole"
                                  THEN Vacated(Plan(i).role) ELSE ring
                       /\ call' = [call EXCEPT ![i].undo = k + 1,
                                     ![i].plan.role = IF ROLLBACK_ORDER[k] = "ReleaseRole"
                                                      THEN NoLease ELSE call[i].plan.role]
        PROVE  /\ ring' = IF ROLLBACK_ORDER[k] = "ReleaseRole" THEN Vacated(Plan(i).role)
                          ELSE ring
               /\ call' = [call EXCEPT ![i].undo = k + 1,
                             ![i].plan.role = IF ROLLBACK_ORDER[k] = "ReleaseRole"
                                              THEN NoLease ELSE call[i].plan.role]
    <3>1. ROLLBACK_ORDER[k] = "ReleaseRole" => CanRelease(i)
      <4>1. ROLLBACK_ORDER[k] = "ReleaseRole" => Plan(i).role # NoLease
        BY <2>2, Zenon DEF EnterRollbackPlan
      <4>2. Plan(i).role # NoLease => Plan(i).role \in {"Sq", "Cq"}
        BY <1>1, Zenon DEF NativeEnterPlan
      <4> QED  BY <1>2, <4>1, <4>2, TakesBack, Zenon
    <3> QED  BY <2>2, <3>1, Zenon
  <2>3. \/ /\ due = {} /\ call' = [call EXCEPT ![i] = Return(i, call[i].status, 0)]
           /\ UNCHANGED <<ring, strong>>
        \/ \E k \in due :
             /\ \A m \in due : k <= m
             /\ ROLLBACK_ORDER[k] = "ReleaseRole" => RingFree(i)
             /\ strong' = IF ROLLBACK_ORDER[k] = "ReleaseSessionAndFileReferences"
                          THEN Nobody ELSE strong
             /\ IF ROLLBACK_ORDER[k] = "ReleaseRole" /\ ~CanRelease(i)
                THEN LeaveStatus(i, "INVALID_DEVICE_STATE")
                ELSE /\ ring' = IF ROLLBACK_ORDER[k] = "ReleaseRole"
                                THEN Vacated(Plan(i).role) ELSE ring
                     /\ call' = [call EXCEPT ![i].undo = k + 1,
                                   ![i].plan.role = IF ROLLBACK_ORDER[k] = "ReleaseRole"
                                                    THEN NoLease ELSE call[i].plan.role]
    BY <1>1, Zenon DEF Unwind, Plan
  <2> HIDE DEF due
  <2> QED  BY <2>2, <2>3, Zenon
<1> HIDE DEF due
<1>6. CASE /\ due = {} /\ call' = [call EXCEPT ![i] = Return(i, call[i].status, 0)]
           /\ UNCHANGED <<ring, strong>>
  <2> DEFINE c == Return(i, call[i].status, 0)
  <2>1. c \in CallRecs /\ c.pc = "answered" /\ c.plan = call[i].plan
    <3>1. call[i].status \in {"None", "SUCCESS", "INVALID_PARAMETER", "BUFFER_TOO_SMALL",
                   "INSUFFICIENT_RESOURCES", "CANCELLED", "INVALID_DEVICE_STATE"}
      BY <1>1, Zenon DEF CallRecs
    <3> QED  BY <3>1, ReturnFacts
  <2>2. call' = [call EXCEPT ![i] = c]
    BY <1>6, Zenon
  <2> HIDE DEF c
  <2>3. /\ call' \in [Calls -> CallRecs] /\ call'[i] = c
        /\ \A j \in Calls : j # i => call'[j] = call[j]
    BY <1>1, <2>1, <2>2, Zenon
  <2>4. Plan(i).role = NoLease /\ strong # i
    BY <1>4, <1>6, Zenon
  <2>5. RoleInv(i)' /\ PhaseInv(i)' /\ CreditInv(i)' /\ HoldInv(i)'
    BY <1>4, <1>6, <2>1, <2>3, <2>4, Zenon DEF RoleInv, PhaseInv, CreditInv, HoldInv, Plan
  <2>6. OwnerInv(i)'
    BY <1>1, <1>6, <2>1, <2>3, Zenon DEF CallInv, OwnerInv, Plan, Outstanding
  <2>7. CallInv(i)'
    BY <2>5, <2>6, Zenon DEF CallInv
  <2> QED  BY <1>1, <1>2, <1>6, <2>3, <2>7, KernelStep, Zenon
<1>7. ASSUME NEW k \in due, \A m \in due : k <= m,
             ROLLBACK_ORDER[k] = "ReleaseRole" => RingFree(i),
             strong' = IF ROLLBACK_ORDER[k] = "ReleaseSessionAndFileReferences"
                       THEN Nobody ELSE strong,
             ring' = IF ROLLBACK_ORDER[k] = "ReleaseRole" THEN Vacated(Plan(i).role) ELSE ring,
             call' = [call EXCEPT ![i].undo = k + 1,
                        ![i].plan.role = IF ROLLBACK_ORDER[k] = "ReleaseRole"
                                         THEN NoLease ELSE call[i].plan.role]
      PROVE  IndInv'
  <2>1. k \in 1 .. 7
    BY <1>2, <1>3
  <2>2. /\ ROLLBACK_ORDER[k] = "ReleaseRole" <=> k = 7
        /\ ROLLBACK_ORDER[k] = "ReleaseSessionAndFileReferences" <=> k = 4
    <3>1. \/ k = 1 \/ k = 2 \/ k = 3 \/ k = 4 \/ k = 5 \/ k = 6 \/ k = 7
      BY <2>1
    <3> QED  BY <3>1 DEF ROLLBACK_ORDER
  <2> DEFINE r == IF k = 7 THEN NoLease ELSE call[i].plan.role
             p == [call[i].plan EXCEPT !.role = r]
             u == k + 1
             c == [call[i] EXCEPT !.undo = u, !.plan = p]
  <2>3. p \in NativeEnterPlan /\ p.role = r /\ p.phase = call[i].plan.phase
    <3>1. call[i].plan \in NativeEnterPlan
      BY <1>1, Zenon DEF Plan
    <3>2. r \in {"Sq", "Cq", NoLease}
      BY <3>1, Zenon DEF NativeEnterPlan
    <3> HIDE DEF r
    <3> QED  BY <3>1, <3>2, Zenon DEF NativeEnterPlan
  <2>4. call' = [call EXCEPT ![i] = c]
    BY <1>1, <1>7, <2>2, Zenon
  <2> HIDE DEF p, r
  <2>5. /\ c \in CallRecs /\ c.pc = "unwind" /\ c.undo = k + 1 /\ c.plan = p
        /\ c.request = call[i].request
    <3>1. u \in 1 .. 8 /\ u = k + 1
      BY <2>1
    <3> HIDE DEF u
    <3>2. /\ c \in CallRecs /\ c.pc = "unwind" /\ c.undo = u /\ c.plan = p
          /\ c.request = call[i].request
      BY <1>1, <1>2, <2>3, <3>1, Zenon DEF CallRecs
    <3> QED  BY <3>1, <3>2, Zenon
  <2> HIDE DEF c, u
  <2>6. /\ call' \in [Calls -> CallRecs] /\ call'[i] = c
        /\ \A j \in Calls : j # i => call'[j] = call[j]
    BY <1>1, <2>4, <2>5, Zenon
  <2>7. strong' \in {strong, Nobody} /\ (k = 4 => strong' = Nobody) /\ strong' \in Owners
    BY <1>1, <1>7, <2>2, Zenon
  <2>8. /\ ring' \in Rings /\ ring'.spin = ring.spin
        /\ ring'.sq_owner = IF k = 7 /\ Plan(i).role = "Sq" THEN Nobody ELSE ring.sq_owner
        /\ ring'.cq_owner = IF k = 7 /\ Plan(i).role = "Cq" THEN Nobody ELSE ring.cq_owner
    <3>1. CASE k = 7
      <4>1. Plan(i).role \in {"Sq", "Cq"}
        BY <1>1, <1>3, <1>7, <3>1, Zenon DEF NativeEnterPlan
      <4>2. ring' = Vacated(Plan(i).role)
        BY <1>7, <2>2, <3>1
      <4> QED  BY <1>1, <3>1, <4>1, <4>2, VacatedFacts, Zenon
    <3>2. CASE k # 7
      BY <1>1, <1>7, <2>2, <3>2, Zenon
    <3> QED  BY <3>1, <3>2, Zenon
  <2>9. CallInv(i)'
    <3>1. RoleInv(i)'
      <4>1. p.role = NoLease \/ c.undo <= 7
        BY <2>1, <2>3, <2>5 DEF r
      <4> QED  BY <2>5, <2>6, <4>1, Zenon DEF RoleInv, Plan
    <3>2. PhaseInv(i)' /\ CreditInv(i)'
      BY <1>1, <1>2, <2>5, <2>6, Zenon DEF CallInv, PhaseInv, CreditInv, Plan, HasRing
    <3>3. HoldInv(i)'
      <4>1. strong' = i => k < 4 /\ Plan(i).phase = "InsertCsq"
        BY <1>1, <1>4, <1>7, <2>1, <2>7
      <4>2. strong' = i => c.undo <= 4 /\ p.phase = "InsertCsq"
        BY <2>1, <2>3, <2>5, <4>1 DEF Plan
      <4> QED  BY <1>4, <2>5, <2>6, <2>8, <4>2, Zenon DEF HoldInv, Plan
    <3>4. OwnerInv(i)'
      <4>1. /\ ring.sq_owner = i <=> Plan(i).role = "Sq"
            /\ ring.cq_owner = i <=> Plan(i).role = "Cq"
            /\ op[i].memory # "freed" /\ op[i].state # "none"
        BY <1>1, <1>2, Zenon DEF CallInv, OwnerInv, Outstanding
      <4>2. /\ ring'.sq_owner = i <=> p.role = "Sq"
            /\ ring'.cq_owner = i <=> p.role = "Cq"
        BY <1>1, <2>3, <2>8, <4>1, Zenon DEF r, Plan
      <4> QED  BY <2>5, <2>6, <4>1, <4>2, Zenon DEF OwnerInv, Plan, Outstanding
    <3> QED  BY <3>1, <3>2, <3>3, <3>4, Zenon DEF CallInv
  <2>10. ASSUME NEW j \in Calls, j # i
         PROVE  /\ ring'.sq_owner = j <=> ring.sq_owner = j
                /\ ring'.cq_owner = j <=> ring.cq_owner = j
                /\ ring'.spin = j <=> ring.spin = j
                /\ strong' = j => strong = j
    <3>1. j # Nobody
      BY Zenon
    <3>2. /\ Plan(i).role = "Sq" => ring.sq_owner = i
          /\ Plan(i).role = "Cq" => ring.cq_owner = i
      BY <1>1, Zenon DEF CallInv, OwnerInv
    <3> QED  BY <2>7, <2>8, <2>10, <3>1, <3>2, Zenon
  <2> QED  BY <1>1, <1>2, <2>6, <2>7, <2>8, <2>9, <2>10, KernelStep, Zenon
<1> QED  BY <1>5, <1>6, <1>7, Zenon

\* The worker answers a parked ENTER: its role and its reference go back with
\* the answer.
LEMMA WorkerStep ==
    ASSUME IndInv, NEW i \in Calls, WorkerCompletes(i), UNCHANGED <<sqReady, held, op, faults>>
    PROVE  IndInv'
<1>1. /\ CallInv(i) /\ i # Nobody /\ ring \in Rings /\ Plan(i) \in NativeEnterPlan
      /\ call[i] \in CallRecs /\ call[i].request \in EnterRequest
  BY CallFacts, Zenon
<1>2. PICK completion \in Completions(i) :
        LET done == finish_arbitrated(Plan(i), completion)
            result == build_enter_result(call[i].request,
                        ParkedDecision(i, completion), <<>>, "None")
            legible == result.flags # Unwritable
        IN call' = [call EXCEPT ![i] =
             [Return(i, IF done.status = "SUCCESS" /\ ~legible
                        THEN "INVALID_DEVICE_STATE" ELSE done.status,
                     done.information) EXCEPT
                !.plan = [@ EXCEPT !.role = NoLease],
                !.result = result]]
  BY Zenon DEF WorkerCompletes
<1>3. /\ call[i].pc = "parked" /\ RingFree(i) /\ ring' = Vacated("Sq") /\ strong' = Nobody
      /\ UNCHANGED <<cq, grants>>
  BY Zenon DEF WorkerCompletes
<1>4. Plan(i).role = "Sq" /\ ring.spin # i
  BY <1>1, <1>3, Zenon DEF CallInv, RoleInv, HoldInv
<1> DEFINE done == finish_arbitrated(Plan(i), completion)
           result == build_enter_result(call[i].request,
                       ParkedDecision(i, completion), <<>>, "None")
           status == IF done.status = "SUCCESS" /\ ~(result.flags # Unwritable)
                     THEN "INVALID_DEVICE_STATE" ELSE done.status
           a == Return(i, status, done.information)
           p == [a.plan EXCEPT !.role = NoLease]
           c == [a EXCEPT !.plan = p, !.result = result]
<1>5. call' = [call EXCEPT ![i] = c]
  BY <1>2, Zenon
<1>6. /\ done.status \in {"SUCCESS", "CANCELLED", "INVALID_DEVICE_STATE"}
      /\ done.information \in Nat
  <2>1. completion \in {"Ready", "Fenced", "TimedOut", "Cancelled"}
    BY Zenon DEF Completions
  <2>2. completion_status(completion) \in {"SUCCESS", "CANCELLED", "INVALID_DEVICE_STATE"}
    BY <2>1, Zenon DEF completion_status
  <2>3. information_for(Plan(i).credits) \in Nat
    BY <1>1 DEF NativeEnterPlan, information_for, ENTER_RESULT_V1_PREFIX_SIZE,
                NOTIFICATION_CREDIT_V1_SIZE
  <2> QED  BY <2>2, <2>3, Zenon DEF finish_arbitrated
<1>7. result \in Results
  <2>1. ParkedDecision(i, completion) \in {"Ready", "TimedOut"} /\ <<>> \in Seq(Credits)
    BY DEF ParkedDecision
  <2> QED  BY <1>1, <2>1, ResultFacts, Zenon
<1> HIDE DEF done, result
<1>8. status \in {"SUCCESS", "CANCELLED", "INVALID_DEVICE_STATE"}
  BY <1>6, Zenon
<1> HIDE DEF status
<1>9. a \in CallRecs /\ a.pc = "answered" /\ a.plan = call[i].plan
  BY <1>6, <1>8, ReturnFacts
<1> HIDE DEF a
<1>10. p \in NativeEnterPlan /\ p.role = NoLease
  BY <1>1, <1>9, Zenon DEF NativeEnterPlan, Plan
<1> HIDE DEF p
<1>11. c \in CallRecs /\ c.pc = "answered" /\ c.plan.role = NoLease
  BY <1>7, <1>9, <1>10, Zenon DEF CallRecs
<1> HIDE DEF c
<1>12. /\ ring' \in Rings /\ ring'.spin = ring.spin
       /\ ring'.sq_owner = Vacated(Plan(i).role).sq_owner
       /\ ring'.cq_owner = Vacated(Plan(i).role).cq_owner
  BY <1>1, <1>3, <1>4, VacatedFacts, Zenon
<1> QED  BY <1>1, <1>3, <1>4, <1>5, <1>11, <1>12, AnsweredStep, Zenon

\* A step of the driver.
LEMMA KernelSteps ==
    ASSUME IndInv, NEW i \in Calls, Kernel(i)
    PROVE  IndInv'
BY ValidateStep, AcquireRoleStep, PollStep, PreflightStep, ClaimStep, AdvanceStep,
   RefreshStep, WriteStep, ReleaseStep, InstallStep, ParkStep, UnwindStep, WorkerStep
   DEF Kernel

-----------------------------------------------------------------------------
(* The daemon's steps.                                                     *)

\* An ENTER that is not begun, and one that is.
LEMMA RequestFacts ==
    /\ Idle \in CallRecs /\ Idle.pc = "none" /\ Idle.plan.role = NoLease
    /\ \A m \in Modes : LET c == enter_request(m[1], m[2], m[3])
                        IN  /\ c \in CallRecs /\ c.pc = "validate" /\ c.plan.role = NoLease
                            /\ c.out = <<>>
<1>1. ASSUME NEW mode, mode[1] \in {"Poll", "Wait", "Drain"}, mode[1] # "Poll" => mode[2] \in Nat,
             NEW x \in Nat
      PROVE  wire(mode, x) \in EnterRequest
  <2> DEFINE f == CASE mode[1] = "Poll" -> {}
                    [] mode[1] = "Wait" -> {"WAIT_SQ"}
                    [] mode[1] = "Drain" -> {"DRAIN_CQ"}
             b == IF mode[1] = "Drain" THEN mode[2] ELSE 0
             t == IF mode[1] = "Wait" THEN mode[2] ELSE 0
  <2>1. f \in SUBSET {"WAIT_SQ", "DRAIN_CQ"} /\ b \in Nat /\ t \in Nat
    BY <1>1, Zenon
  <2>2. wire(mode, x) = [flags |-> f, cq_budget |-> b, timeout_ms |-> t, ring_index |-> x]
    BY Zenon DEF wire
  <2> HIDE DEF f, b, t
  <2> QED  BY <2>1, <2>2 DEF EnterRequest
<1> DEFINE w == wire(<<"Poll">>, 0)
           p == begin("Poll", w)
<1>2. w \in EnterRequest
  BY <1>1
<1> HIDE DEF w
<1>3. p \in NativeEnterPlan /\ p.role = NoLease
  BY <1>2 DEF begin, NativeEnterPlan, EnterRequest, EnterPhase
<1>4. Idle = [pc |-> "none", request |-> w, capacity |-> 0, plan |-> p, decision |-> "None",
              cqState |-> "None", out |-> <<>>, undo |-> 1, cancel |-> FALSE,
              status |-> "None", information |-> 0, result |-> NoResult]
  BY Zenon DEF Idle, w
<1> HIDE DEF p
<1>5. NoResult \in Results /\ <<>> \in Seq(Credits)
  BY DEF NoResult, Results
<1>6. /\ Idle \in CallRecs /\ Idle.pc = "none" /\ Idle.plan.role = NoLease
      /\ Idle.out = <<>>
  BY <1>2, <1>3, <1>4, <1>5 DEF CallRecs
<1>7. ASSUME NEW m \in Modes
      PROVE  LET c == enter_request(m[1], m[2], m[3])
             IN  /\ c \in CallRecs /\ c.pc = "validate" /\ c.plan.role = NoLease
                 /\ c.out = <<>>
  <2> DEFINE r == wire(m[1], m[3])
             n == enter_result_size_v1(m[2])
  <2>1. r \in EnterRequest
    BY <1>1
  <2>2. n \in Nat
    BY DEF enter_result_size_v1, ENTER_RESULT_V1_PREFIX_SIZE,
                               NOTIFICATION_CREDIT_V1_SIZE
  <2>3. enter_request(m[1], m[2], m[3]) =
          [Idle EXCEPT !.pc = "validate", !.request = r, !.capacity = n]
    BY Zenon DEF enter_request
  <2> DEFINE c == [Idle EXCEPT !.pc = "validate", !.request = r, !.capacity = n]
  <2> HIDE DEF r, n
  <2>4. c \in CallRecs /\ c.pc = "validate" /\ c.plan = Idle.plan /\ c.out = Idle.out
    BY <1>6, <2>1, <2>2, Zenon DEF CallRecs
  <2> HIDE DEF c
  <2>5. enter_request(m[1], m[2], m[3]) = c
    BY <2>3, Zenon DEF c
  <2> QED  BY <1>6, <2>4, <2>5, Zenon
<1> QED  BY <1>6, <1>7, Zenon

\* A step that the daemon takes for one operation leaves the ring alone.
LEMMA DaemonStep ==
    ASSUME IndInv, NEW i \in Calls, call' \in [Calls -> CallRecs], op' \in [Calls -> OpRecs],
           \A j \in Calls : j # i => call'[j] = call[j] /\ op'[j] = op[j],
           UNCHANGED <<ring, strong, cq, grants, sqReady>>, held' \subseteq Credits, faults' \in Nat,
           CallInv(i)'
    PROVE  IndInv'
<1>1. TypeOK'
  BY Zenon DEF IndInv, TypeOK
<1>2. ASSUME NEW j \in Calls, j # i PROVE CallInv(j)'
  <2>1. CallInv(j)
    BY Zenon DEF IndInv
  <2> QED  BY <1>2, <2>1, Kept, Zenon
<1> QED  BY <1>1, <1>2, Zenon DEF IndInv

\* The daemon writes only in its own record of the operation, which stays.
LEMMA OperationStep ==
    ASSUME IndInv, NEW i \in Calls, NEW o \in OpRecs, op' = [op EXCEPT ![i] = o],
           o.state # "none", o.memory \in {op[i].memory, "forgotten"},
           call' \in {call, cancel_exact(i)}, faults' \in Nat,
           UNCHANGED <<ring, strong, cq, grants, sqReady, held>>
    PROVE  IndInv'
<1>1. /\ call \in [Calls -> CallRecs] /\ call[i] \in CallRecs /\ CallInv(i)
      /\ op \in [Calls -> OpRecs] /\ held \subseteq Credits
  BY CallFacts, Zenon DEF IndInv, TypeOK
<1> DEFINE b == call[i].cancel \/ call[i].pc = "parked"
           c == [call[i] EXCEPT !.cancel = b]
<1>2. /\ c \in CallRecs /\ c.pc = call[i].pc /\ c.plan = call[i].plan /\ c.out = call[i].out
      /\ c.request = call[i].request /\ c.decision = call[i].decision
      /\ c.capacity = call[i].capacity /\ c.undo = call[i].undo
  <2>1. b \in BOOLEAN
    BY Zenon
  <2> HIDE DEF b
  <2> QED  BY <1>1, <2>1, Zenon DEF CallRecs
<1>3. cancel_exact(i) = [call EXCEPT ![i] = c]
  BY <1>1, Zenon DEF cancel_exact
<1> HIDE DEF c
<1>4. /\ call' \in [Calls -> CallRecs] /\ call'[i] \in {call[i], c}
      /\ \A j \in Calls : j # i => call'[j] = call[j]
  BY <1>1, <1>2, <1>3
<1>5. /\ call'[i].pc = call[i].pc /\ call'[i].plan = call[i].plan /\ call'[i].out = call[i].out
      /\ call'[i].request = call[i].request /\ call'[i].decision = call[i].decision
      /\ call'[i].capacity = call[i].capacity /\ call'[i].undo = call[i].undo
  BY <1>2, <1>4, Zenon
<1>6. /\ op' \in [Calls -> OpRecs] /\ op'[i] = o /\ \A j \in Calls : j # i => op'[j] = op[j]
  BY <1>1, Zenon
<1>7. CallInv(i)'
  <2>1. RoleInv(i)' /\ PhaseInv(i)'
    BY <1>1, <1>5 DEF CallInv, RoleInv, PhaseInv, Plan, Role, HasRing
  <2>2. CreditInv(i)' /\ HoldInv(i)'
    BY <1>1, <1>5 DEF CallInv, CreditInv, HoldInv, Plan
  <2>3. OwnerInv(i)'
    BY <1>1, <1>5, <1>6, Zenon DEF CallInv, OwnerInv, Plan, Outstanding
  <2> QED  BY <2>1, <2>2, <2>3, Zenon DEF CallInv
<1> QED  BY <1>1, <1>4, <1>6, <1>7, DaemonStep, Zenon

\* An ENTER that the driver has answered, or that was never made, holds nothing:
\* another may take its place.
LEMMA ReplacedStep ==
    ASSUME IndInv, NEW i \in Calls, ~Outstanding(i), NEW c \in CallRecs, NEW o \in OpRecs,
           call' = [call EXCEPT ![i] = c], op' = [op EXCEPT ![i] = o],
           c.pc \in {"none", "validate"}, c.plan.role = NoLease,
           c.pc = "validate" => o.state # "none" /\ o.memory = "owned" /\ c.out = <<>>,
           UNCHANGED <<ring, strong, cq, grants, sqReady, faults>>, held' \subseteq Credits
    PROVE  IndInv'
<1>1. /\ call \in [Calls -> CallRecs] /\ call[i] \in CallRecs /\ CallInv(i)
      /\ op \in [Calls -> OpRecs] /\ faults \in Nat
  BY CallFacts, Zenon DEF IndInv, TypeOK
<1>2. /\ call' \in [Calls -> CallRecs] /\ call'[i] = c /\ op' \in [Calls -> OpRecs]
      /\ op'[i] = o /\ \A j \in Calls : j # i => call'[j] = call[j] /\ op'[j] = op[j]
  BY <1>1, Zenon
<1>3. call[i].pc \in {"none", "answered"}
  BY <1>1, Zenon DEF Outstanding, CallRecs
<1>4. Plan(i).role = NoLease /\ strong # i /\ ring.spin # i
  BY <1>1, <1>3, Zenon DEF CallInv, RoleInv, HoldInv
<1>5. CallInv(i)'
  <2>1. RoleInv(i)' /\ PhaseInv(i)' /\ CreditInv(i)' /\ HoldInv(i)'
    BY <1>2, <1>4, Zenon DEF RoleInv, PhaseInv, CreditInv, HoldInv, Plan
  <2>2. ring.sq_owner # i /\ ring.cq_owner # i
    BY <1>1, <1>4, Zenon DEF CallInv, OwnerInv
  <2>3. OwnerInv(i)'
    BY <1>2, <2>2, Zenon DEF OwnerInv, Plan, Outstanding
  <2> QED  BY <2>1, <2>3, Zenon DEF CallInv
<1> QED  BY <1>1, <1>2, <1>5, DaemonStep, Zenon

\* A step of the daemon.
LEMMA DaemonSteps ==
    ASSUME IndInv, NEW i \in Calls, Daemon(i)
    PROVE  IndInv'
<1>1. /\ op \in [Calls -> OpRecs] /\ op[i] \in OpRecs /\ call[i] \in CallRecs
      /\ held \subseteq Credits /\ faults \in Nat /\ CallInv(i)
  BY CallFacts, Zenon DEF IndInv, TypeOK
<1>2. NoOp \in OpRecs
  BY Zenon DEF NoOp, OpRecs
<1>3. CASE BeginIoctl(i)
  <2>1. PICK m \in Modes : call' = [call EXCEPT ![i] = enter_request(m[1], m[2], m[3])]
    BY <1>3, Zenon DEF BeginIoctl
  <2>2. /\ op[i].state = "none" /\ op' = [op EXCEPT ![i].state = "begun", ![i].memory = "owned"]
        /\ UNCHANGED <<ring, strong, sqReady, cq, grants, held, faults>>
    BY <1>3, Zenon DEF BeginIoctl
  <2> DEFINE c == enter_request(m[1], m[2], m[3])
             o == [op[i] EXCEPT !.state = "begun", !.memory = "owned"]
  <2>3. c \in CallRecs /\ c.pc = "validate" /\ c.plan.role = NoLease /\ c.out = <<>>
    BY RequestFacts, Zenon
  <2>4. o \in OpRecs /\ o.state = "begun" /\ o.memory = "owned"
    BY <1>1, Zenon DEF OpRecs
  <2>5. op' = [op EXCEPT ![i] = o]
    BY <1>1, <2>2, Zenon
  <2>6. call' = [call EXCEPT ![i] = c] /\ ~Outstanding(i)
    BY <1>1, <2>1, <2>2, Zenon DEF CallInv, OwnerInv
  <2> HIDE DEF c, o
  <2>7. held' \subseteq Credits /\ UNCHANGED <<ring, strong, cq, grants, sqReady, faults>>
    BY <1>1, <2>2, Zenon
  <2>8. c.pc \in {"none", "validate"} /\ o.state # "none"
    BY <2>3, <2>4, Zenon
  <2> QED  BY <2>3, <2>4, <2>5, <2>6, <2>7, <2>8, ReplacedStep, Zenon
<1>4. ASSUME call[i].pc = "answered", op' = [op EXCEPT ![i] = NoOp],
             call' = [call EXCEPT ![i] = Idle], held' \subseteq Credits,
             UNCHANGED <<ring, strong, cq, grants, sqReady, faults>>
      PROVE  IndInv'
  <2>1. ~Outstanding(i)
    BY <1>4, Zenon DEF Outstanding
  <2>2. Idle \in CallRecs /\ Idle.pc = "none" /\ Idle.plan.role = NoLease
    BY RequestFacts, Zenon
  <2> QED  BY <1>2, <1>4, <2>1, <2>2, ReplacedStep, Zenon
<1>5. ASSUME call[i].pc = "answered", Observed(i), UNCHANGED <<ring, strong, cq, grants, sqReady, faults>>
      PROVE  IndInv'
  <2>1. held' \subseteq Credits
    <3>1. call[i].result.credits \in Seq(Credits)
      BY <1>1, Zenon DEF CallRecs, Results
    <3>2. {call[i].result.credits[n] : n \in DOMAIN call[i].result.credits} \subseteq Credits
      BY <3>1
    <3> QED  BY <1>1, <1>5, <3>2, Zenon DEF Observed
  <2>2. op' = [op EXCEPT ![i] = NoOp] /\ call' = [call EXCEPT ![i] = Idle]
    BY <1>5, Zenon DEF Observed, Release
  <2> QED  BY <1>4, <1>5, <2>1, <2>2, Zenon
<1>6. ASSUME NEW state \in {"pending", "observe", "drop", "dropped"}, NEW cancelling \in BOOLEAN,
             NEW memory \in {op[i].memory, "forgotten"},
             op' = [op EXCEPT ![i] = [op[i] EXCEPT !.state = state, !.cancelling = cancelling,
                                                   !.memory = memory]],
             call' \in {call, cancel_exact(i)}, faults' \in {faults, faults + 1},
             UNCHANGED <<ring, strong, cq, grants, sqReady, held>>
      PROVE  IndInv'
  <2> DEFINE o == [op[i] EXCEPT !.state = state, !.cancelling = cancelling, !.memory = memory]
  <2>1. o \in OpRecs /\ o.state = state /\ o.memory = memory
    BY <1>1, <1>6, Zenon DEF OpRecs
  <2>2. op' = [op EXCEPT ![i] = o] /\ faults' \in Nat
    BY <1>1, <1>6
  <2> HIDE DEF o
  <2> QED  BY <1>6, <2>1, <2>2, OperationStep, Zenon
<1>7. CASE IoctlReturns(i)
  <2>1. CASE call[i].pc = "answered"
    BY <1>5, <1>7, <2>1, Zenon DEF IoctlReturns
  <2>2. CASE call[i].pc # "answered"
    <3>1. /\ op' = [op EXCEPT ![i].state = "pending"]
          /\ UNCHANGED <<held, call, ring, strong, cq, grants, sqReady, faults>>
      BY <1>7, <2>2, Zenon DEF IoctlReturns
    <3>2. op' = [op EXCEPT ![i] = [op[i] EXCEPT !.state = "pending",
                   !.cancelling = op[i].cancelling, !.memory = op[i].memory]]
      BY <1>1, <3>1, Zenon DEF OpRecs
    <3>3. op[i].cancelling \in BOOLEAN
      BY <1>1, Zenon DEF OpRecs
    <3> QED  BY <1>6, <3>1, <3>2, <3>3, Zenon
  <2> QED  BY <2>1, <2>2, Zenon
<1>8. CASE Wait(i)
  <2>1. /\ op' = [op EXCEPT ![i].state = "observe", ![i].cancelling = FALSE]
        /\ UNCHANGED <<held, call, ring, strong, cq, grants, sqReady, faults>>
    BY <1>8, Zenon DEF Wait, kernelVars
  <2>2. op' = [op EXCEPT ![i] = [op[i] EXCEPT !.state = "observe", !.cancelling = FALSE,
                                              !.memory = op[i].memory]]
    BY <1>1, <2>1, Zenon DEF OpRecs
  <2> QED  BY <1>6, <2>1, <2>2, Zenon
<1>9. CASE Cancel(i)
  <2>1. PICK state \in {"observe", "drop"} :
          op' = [op EXCEPT ![i].state = state, ![i].cancelling = TRUE]
    BY <1>9, Zenon DEF Cancel
  <2>2. call' = cancel_exact(i) /\ UNCHANGED <<held, ring, strong, cq, grants, sqReady, faults>>
    BY <1>9, Zenon DEF Cancel
  <2>3. op' = [op EXCEPT ![i] = [op[i] EXCEPT !.state = state, !.cancelling = TRUE,
                                              !.memory = op[i].memory]]
    BY <1>1, <2>1, Zenon DEF OpRecs
  <2> QED  BY <1>6, <2>2, <2>3, Zenon
<1>10. CASE Observe(i)
  BY <1>5, <1>10, Zenon DEF Observe
<1>11. CASE DropObserved(i)
  <2>1. op' = [op EXCEPT ![i] = NoOp] /\ call' = [call EXCEPT ![i] = Idle]
    BY <1>11, Zenon DEF DropObserved, Release
  <2> QED  BY <1>1, <1>4, <1>11, <2>1, Zenon DEF DropObserved
<1>12. CASE Win32Fails(i)
  <2>1. /\ op' = [op EXCEPT ![i].state = "pending"] /\ faults' = faults + 1
        /\ UNCHANGED <<held, call, ring, strong, cq, grants, sqReady>>
    BY <1>12, Zenon DEF Win32Fails, kernelVars
  <2>2. op' = [op EXCEPT ![i] = [op[i] EXCEPT !.state = "pending",
                 !.cancelling = op[i].cancelling, !.memory = op[i].memory]]
    BY <1>1, <2>1, Zenon DEF OpRecs
  <2>3. op[i].cancelling \in BOOLEAN
    BY <1>1, Zenon DEF OpRecs
  <2> QED  BY <1>6, <2>1, <2>2, <2>3, Zenon
<1>13. CASE DropForgets(i)
  <2>1. /\ op' = [op EXCEPT ![i].state = "dropped", ![i].memory = "forgotten"]
        /\ faults' = faults + 1 /\ UNCHANGED <<held, call, ring, strong, cq, grants, sqReady>>
    BY <1>13, Zenon DEF DropForgets, kernelVars
  <2>2. op' = [op EXCEPT ![i] = [op[i] EXCEPT !.state = "dropped",
                 !.cancelling = op[i].cancelling, !.memory = "forgotten"]]
    BY <1>1, <2>1, Zenon DEF OpRecs
  <2>3. op[i].cancelling \in BOOLEAN
    BY <1>1, Zenon DEF OpRecs
  <2> QED  BY <1>6, <2>1, <2>2, <2>3, Zenon
<1> QED  BY <1>3, <1>7, <1>8, <1>9, <1>10, <1>11, <1>12, <1>13 DEF Daemon

-----------------------------------------------------------------------------
(* The whole system.                                                       *)

\* SQ entries come and go, and the daemon publishes CQ records: what an ENTER
\* has found at the head of the CQ stays there.
LEMMA RingSteps ==
    ASSUME IndInv, SqMoves \/ Publish
    PROVE  IndInv'
<1>1. /\ TypeOK /\ \A j \in Calls : CallInv(j)
      /\ cq \in Seq(CqRecs) /\ held \subseteq Credits /\ sqReady \in BOOLEAN
  BY Zenon DEF IndInv, TypeOK
<1>2. UNCHANGED <<ring, strong, grants, call, op, faults>>
  BY Zenon DEF SqMoves, Publish
<1>3. /\ cq' \in Seq(CqRecs) /\ held' \subseteq Credits /\ sqReady' \in BOOLEAN
      /\ cq # <<>> => cq' # <<>> /\ Head(cq') = Head(cq)
  <2>1. CASE SqMoves
    BY <1>1, <2>1, Zenon DEF SqMoves
  <2>2. CASE Publish
    <3>1. PICK r \in CqRecord : cq' = Append(cq, r) /\ held' = held \ {r.slot}
      BY <2>2, Zenon DEF Publish
    <3>2. r \in CqRecs /\ sqReady' = sqReady
      BY <1>1, <2>2, Zenon DEF CqRecord, CqRecs, Publish
    <3>3. /\ Append(cq, r) \in Seq(CqRecs)
          /\ cq # <<>> => Append(cq, r) # <<>> /\ Head(Append(cq, r)) = Head(cq)
      BY <1>1, <3>2
    <3> QED  BY <1>1, <3>1, <3>2, <3>3, Zenon
  <2> QED  BY <2>1, <2>2, Zenon
<1>4. TypeOK'
  BY <1>1, <1>2, <1>3, Zenon DEF TypeOK
<1>5. ASSUME NEW j \in Calls PROVE CallInv(j)'
  BY <1>1, <1>2, <1>3, Kept, Zenon
<1> QED  BY <1>4, <1>5, Zenon DEF IndInv

\* Nothing is held and no ENTER is under way at the start.
LEMMA InitInv == Init => IndInv
<1> SUFFICES ASSUME Init PROVE IndInv
  BY Zenon
<1>1. Idle \in CallRecs /\ Idle.pc = "none" /\ Idle.plan.role = NoLease
  BY RequestFacts, Zenon
<1>2. NoOp \in OpRecs
  BY Zenon DEF NoOp, OpRecs
<1>3. /\ ring \in Rings /\ ring.sq_owner = Nobody /\ ring.cq_owner = Nobody
      /\ ring.spin = Nobody
  BY Zenon DEF Init, Rings, Owners
<1>4. TypeOK
  BY <1>1, <1>2, <1>3 DEF Init, TypeOK, Owners
<1>5. ASSUME NEW i \in Calls PROVE CallInv(i)
  <2>1. call[i] = Idle /\ i # Nobody /\ strong = Nobody
    BY Zenon DEF Init
  <2>2. RoleInv(i) /\ PhaseInv(i) /\ CreditInv(i) /\ HoldInv(i)
    BY <1>1, <1>3, <2>1, Zenon DEF RoleInv, PhaseInv, CreditInv, HoldInv, Plan
  <2>3. OwnerInv(i)
    BY <1>1, <1>3, <2>1, Zenon DEF OwnerInv, Plan, Outstanding
  <2> QED  BY <2>2, <2>3, Zenon DEF CallInv
<1> QED  BY <1>4, <1>5, Zenon DEF IndInv

\* The inductive invariant holds in every reachable state, for any number of
\* calls, modes, credits and failing Win32 calls.
THEOREM Invariant == Spec => []IndInv
<1>1. ASSUME IndInv, [Next]_vars PROVE IndInv'
  <2>1. CASE SqMoves \/ Publish
    BY <1>1, <2>1, RingSteps, Zenon
  <2>2. ASSUME NEW i \in Calls, Kernel(i) PROVE IndInv'
    BY <1>1, <2>2, KernelSteps, Zenon
  <2>3. ASSUME NEW i \in Calls, Daemon(i) PROVE IndInv'
    BY <1>1, <2>3, DaemonSteps, Zenon
  <2>4. CASE UNCHANGED vars
    <3>1. TypeOK' /\ \A j \in Calls : CallInv(j)
      BY <1>1, <2>4, Zenon DEF IndInv, TypeOK, vars
    <3>2. ASSUME NEW j \in Calls PROVE CallInv(j)'
      BY <2>4, <3>1, Kept, Zenon DEF vars
    <3> QED  BY <3>1, <3>2, Zenon DEF IndInv
  <2> QED  BY <1>1, <2>1, <2>2, <2>3, <2>4, Zenon DEF Next
<1> QED  BY <1>1, InitInv, PTL DEF Spec

\* Every variable keeps its type: plans, requests, results and CQ records are
\* well formed at each step of an ENTER.
THEOREM TypeCorrect == Spec => []TypeOK
<1>1. IndInv => TypeOK
  BY Zenon DEF IndInv
<1> QED  BY <1>1, Invariant, PTL

\* An ENTER that was answered, through whichever exit of the dispatch and after
\* whichever effect failed, has left no role, session reference or ring lock
\* behind: the exits that give nothing back are not taken by one that has any.
THEOREM LeavesNothing == Spec => []NothingLeftBehind
<1>1. ASSUME IndInv PROVE NothingLeftBehind
  <2>1. ASSUME NEW i \in Calls
        PROVE  /\ ring.sq_owner = i <=> Plan(i).role = "Sq"
               /\ ring.cq_owner = i <=> Plan(i).role = "Cq"
               /\ ~Outstanding(i) =>
                    i \notin {ring.sq_owner, ring.cq_owner, ring.spin, strong}
    <3>1. OwnerInv(i) /\ HoldInv(i) /\ RoleInv(i) /\ call[i] \in CallRecs
      BY <1>1, CallFacts, Zenon DEF CallInv
    <3>2. ~Outstanding(i) => call[i].pc \in {"none", "answered"}
      BY <3>1, Zenon DEF Outstanding, CallRecs
    <3>3. ~Outstanding(i) => Plan(i).role = NoLease /\ strong # i /\ ring.spin # i
      BY <3>1, <3>2, Zenon DEF HoldInv, RoleInv
    <3> QED  BY <3>1, <3>3, Zenon DEF OwnerInv
  <2> QED  BY <2>1, Zenon DEF NothingLeftBehind
<1> QED  BY <1>1, Invariant, PTL

\* While the driver may still complete the IRP of an operation, its overlapped
\* structure and buffers are not freed, whichever Win32 call fails and whoever
\* cancels or drops it.
THEOREM MemoryStays == Spec => []MemoryOutlivesIo
<1>1. ASSUME IndInv PROVE MemoryOutlivesIo
  BY <1>1, Zenon DEF IndInv, CallInv, OwnerInv, MemoryOutlivesIo
<1> QED  BY <1>1, Invariant, PTL

=============================================================================
