---------------------------- MODULE FenceRunner ----------------------------
(***************************************************************************)
(* The terminal fence of one session generation: the sixteen-effect runner  *)
(* KernelFenceOps, the cursor over the CQ consumer tokens it takes from the *)
(* rings, and the lifecycle that parks a refused pass, waits out a backoff  *)
(* in a timer DPC and resumes the pass in a work item.                      *)
(*                                                                          *)
(* `run_from` is a loop over the pass order, and releasing the consumers    *)
(* calls it again from inside that loop.  `calls` is therefore the stack of *)
(* loops still to finish; a frame that is not `checked` is the straight     *)
(* line of calls `reacquire_then` makes, which tests no prerequisite.       *)
(***************************************************************************)
EXTENDS Naturals, Sequences, FiniteSets

CONSTANTS RingCount,    \* rings of the session, one CQ consumer token each
          MaxRefusals   \* bound: how often a native call may refuse

FenceRunnerConstants == RingCount \in Nat \ {0} /\ MaxRefusals \in Nat

VARIABLES phase,     \* "idle", "pass", "waiting", "complete" or "failstop"
          ops,       \* the KernelFenceOps of the pass
          calls,     \* the loops and call lists of the pass still to run
          doing,     \* native loop in progress: "none", "acquire", "release"
          next,      \* ConsumerReleaseNext of the release in progress
          home,      \* rings whose CQ consumer role is free
          ran,       \* native successes of each effect (a release made only
                     \* to rebuild the consumer set is not counted)
          refusals,  \* native refusals so far
          lc,        \* FenceRetryLifecycle
          park,      \* ParkedFenceResidual of the session cell
          owners,    \* who holds the terminal, shell, root and closing owners
          retry      \* timer, DPC, exit event and work item

vars == <<phase, ops, calls, doing, next, home, ran, refusals, lc, park,
          owners, retry>>

Rings == 0 .. RingCount - 1
NoRing == RingCount

Order == <<"Close", "Signal", "WaitControl", "UnmapProducer", "WaitProducer",
           "Acquire", "Drain", "Retire", "Release", "Queue", "WaitPending",
           "UnmapReadOnly", "Mdls", "Process", "Dismount", "Backing">>
Effects == {Order[i] : i \in DOMAIN Order}
Index(e) == CHOOSE i \in DOMAIN Order : Order[i] = e

\* Effects run through do_simple, and those that record a `*_done` flag.
Simple == {"Close", "Signal", "WaitControl", "UnmapProducer", "WaitProducer",
           "Queue", "UnmapReadOnly", "Mdls", "Process"}
Flagged == Simple \cup {"WaitPending", "Dismount"}
\* Native calls with a refusing return; the others always answer success.
Refusable == {"Signal", "UnmapProducer", "Queue", "UnmapReadOnly"}

-----------------------------------------------------------------------------
(* The cursor over the consumer tokens: ConsumerPrefix.                     *)

NoPrefix == [phase |-> "None", high |-> 0, rem |-> 0, inflight |-> NoRing,
             failed |-> NoRing]
EmptyPrefix == [NoPrefix EXCEPT !.phase = "Acquiring"]
SlabTokens(p) == {r \in Rings : r < p.rem \/ r = p.inflight}

ReleasingPhase(rem, none) ==
  CASE rem = 0 -> none
    [] rem = 1 -> "ReleasingComplete"
    [] OTHER -> "ReleasingPartial"

PushAcquired(p) ==
  [p EXCEPT !.high = @ + 1, !.rem = p.high + 1, !.failed = NoRing,
            !.phase = IF p.high + 1 = RingCount THEN "AcquiredComplete" ELSE @]

BeginRelease(p) ==
  IF p.phase \in {"Acquiring", "AcquiredComplete", "ReleasedPartial"}
  THEN [p EXCEPT !.phase = ReleasingPhase(p.rem, "ReleasedComplete")]
  ELSE p

PopForRelease(p) ==
  [p EXCEPT !.rem = @ - 1, !.inflight = p.rem - 1,
            !.phase = ReleasingPhase(IF p.rem = 1 THEN 1 ELSE 2, @)]

\* The refusal forgets the token it popped.
LoseReleasedToken(p) == [p EXCEPT !.inflight = NoRing]

RestoreReleasedToken(p) ==
  [p EXCEPT !.rem = @ + 1, !.inflight = NoRing,
            !.phase = ReleasingPhase(p.rem + 1, @)]

ConfirmReleasedToken(p) ==
  [p EXCEPT !.inflight = NoRing,
            !.phase = ReleasingPhase(p.rem, "ReleasedComplete")]

ParkPartialRelease(p) == [p EXCEPT !.phase = "ReleasedPartial"]

-----------------------------------------------------------------------------
(* The runner: KernelFenceOps.                                              *)

NoRetry == [kind |-> "None", at |-> "None", cause |-> "None"]
RetryEffect(e, cause) == [kind |-> "Effect", at |-> e, cause |-> cause]
RetryRelease(n, cause) == [kind |-> "Release", at |-> n, cause |-> cause]

Blank == [attempted |-> {}, failed |-> {}, done |-> {}, proofs |-> {},
          prefix |-> NoPrefix, first |-> NoRetry]

RecordFirstRetry(o, point) ==
  IF o.first = NoRetry THEN [o EXCEPT !.first = point] ELSE o

RecordNative(o, e) ==
  RecordFirstRetry([o EXCEPT !.failed = @ \cup {e}], RetryEffect(e, "Transient"))

RecordInvariant(o, e) == RecordFirstRetry(o, RetryEffect(e, "Invariant"))

Loop(start) == [checked |-> TRUE, rest |-> SubSeq(Order, Index(start), 16)]
Script(s) == [checked |-> FALSE, rest |-> s]

\* run_from: every effect before the start counts as attempted and done.
RunFrom(o, start) ==
  LET before == {Order[i] : i \in 1 .. Index(start) - 1}
  IN  [o EXCEPT !.attempted = @ \cup before,
                !.done = @ \cup (before \cap Flagged)]

PrereqReady(e) ==
  CASE e \in {"Close", "Signal"} -> TRUE
    [] e = "WaitControl" -> {"Close", "Signal"} \subseteq ops.done
    [] e = "UnmapProducer" -> "WaitControl" \in ops.done
    [] e = "WaitProducer" -> "UnmapProducer" \in ops.done
    [] e = "Acquire" -> "WaitProducer" \in ops.done
    [] e = "Drain" -> ops.prefix.phase = "AcquiredComplete"
    [] e = "Retire" -> "drain" \in ops.proofs \/ ops.prefix # NoPrefix
    [] e = "Release" -> ops.prefix # NoPrefix
    [] e = "Queue" -> "Signal" \in ops.done
    [] e = "WaitPending" -> /\ {"Queue", "WaitControl"} \subseteq ops.done
                            /\ "consumers" \in ops.proofs
    [] e = "UnmapReadOnly" -> /\ "WaitPending" \in ops.done
                              /\ "consumers" \in ops.proofs
    [] e = "Mdls" -> "UnmapReadOnly" \in ops.done
    [] e = "Process" -> "Mdls" \in ops.done
    [] e = "Dismount" -> "Process" \in ops.done
    [] e = "Backing" -> /\ "Dismount" \in ops.done
                        /\ "consumers" \in ops.proofs
                        /\ ops.prefix = NoPrefix

Running == phase = "pass" /\ doing = "none" /\ ops.first = NoRetry
AtHead(e) == Running /\ calls # <<>> /\ Head(Head(calls).rest) = e
Dispatched(e) == AtHead(e) /\ (Head(calls).checked => PrereqReady(e))

\* The stack once the call at its head has been made.
Advanced ==
  LET top == Head(calls)
  IN  IF Len(top.rest) = 1 THEN Tail(calls)
      ELSE <<[top EXCEPT !.rest = Tail(@)]>> \o Tail(calls)

Attempt(e) == [ops EXCEPT !.attempted = @ \cup {e}]
Performed(e) == ran' = [ran EXCEPT ![e] = @ + 1] /\ UNCHANGED refusals
Refused == /\ refusals < MaxRefusals
           /\ refusals' = refusals + 1
           /\ UNCHANGED ran
InPass == UNCHANGED <<phase, lc, park, owners, retry>>

PrereqRefusal ==
  /\ Running /\ calls # <<>> /\ Head(calls).checked
  /\ LET e == Head(Head(calls).rest)
     IN  ~PrereqReady(e) /\ ops' = RecordInvariant(ops, e)
  /\ UNCHANGED <<calls, doing, next, home, ran, refusals>> /\ InPass

SimpleEffect(e) ==
  /\ e \in Simple /\ Dispatched(e)
  /\ calls' = Advanced
  /\ \/ Performed(e) /\ ops' = [Attempt(e) EXCEPT !.done = @ \cup {e}]
     \/ e \in Refusable /\ Refused /\ ops' = RecordNative(Attempt(e), e)
  /\ UNCHANGED <<doing, next, home>> /\ InPass

WaitPending ==
  /\ Dispatched("WaitPending")
  /\ calls' = Advanced
  /\ \/ /\ ops.prefix # NoPrefix
        /\ ops' = RecordInvariant(ops, "WaitPending")
        /\ UNCHANGED <<ran, refusals>>
     \/ /\ ops.prefix = NoPrefix /\ Performed("WaitPending")
        /\ ops' = [Attempt("WaitPending") EXCEPT !.done = @ \cup {"WaitPending"}]
     \/ /\ ops.prefix = NoPrefix /\ Refused
        /\ ops' = RecordNative(Attempt("WaitPending"), "WaitPending")
  /\ UNCHANGED <<doing, next, home>> /\ InPass

\* The native call binds the completed teardown itself: its Bind error and
\* WaitPending's publication error are never returned by NativeFenceDdi.
Dismount ==
  /\ Dispatched("Dismount")
  /\ calls' = Advanced
  /\ \/ /\ Performed("Dismount")
        /\ ops' = [Attempt("Dismount") EXCEPT !.done = @ \cup {"Dismount"},
                                              !.proofs = @ \cup {"mount"}]
     \/ Refused /\ ops' = RecordNative(Attempt("Dismount"), "Dismount")
  /\ UNCHANGED <<doing, next, home>> /\ InPass

ReleaseBacking ==
  /\ Dispatched("Backing")
  /\ Performed("Backing")
  /\ ops' = [Attempt("Backing") EXCEPT !.proofs = @ \ {"consumers"}]
  /\ calls' = Advanced
  /\ UNCHANGED <<doing, next, home>> /\ InPass

\* The next stage of the release once a prefix cannot be kept: the retry
\* begins by giving back every token taken so far.
ParkReleaseForRebuild(o, resume) ==
  RecordFirstRetry([o EXCEPT !.prefix = BeginRelease(@)],
                   RetryRelease(resume, "Transient"))

AcquireBegin ==
  /\ Dispatched("Acquire")
  /\ ops' = [Attempt("Acquire") EXCEPT !.prefix = IF @ = NoPrefix THEN EmptyPrefix ELSE @]
  /\ doing' = "acquire"
  /\ calls' = Advanced
  /\ UNCHANGED <<next, home, ran, refusals>> /\ InPass

AcquireRing ==
  /\ phase = "pass" /\ doing = "acquire" /\ ops.prefix.high < RingCount
  /\ LET r == ops.prefix.high
     IN  \/ /\ r \in home
            /\ home' = home \ {r}
            /\ ops' = [ops EXCEPT !.prefix = PushAcquired(@)]
            /\ UNCHANGED <<doing, refusals>>
         \/ /\ refusals < MaxRefusals
            /\ refusals' = refusals + 1
            /\ ops' = ParkReleaseForRebuild([ops EXCEPT !.prefix.failed = r], "Drain")
            /\ doing' = "none"
            /\ UNCHANGED home
  /\ UNCHANGED <<calls, next, ran>> /\ InPass

AcquireEnd ==
  /\ phase = "pass" /\ doing = "acquire" /\ ops.prefix.high = RingCount
  /\ doing' = "none"
  /\ Performed("Acquire")
  /\ ops' = IF ops.prefix.phase = "AcquiredComplete" THEN ops
            ELSE ParkReleaseForRebuild(ops, "Drain")
  /\ UNCHANGED <<calls, next, home>> /\ InPass

DrainPrefixes ==
  /\ Dispatched("Drain") /\ ops.prefix.phase = "AcquiredComplete"
  /\ calls' = Advanced
  /\ \/ Performed("Drain") /\ ops' = [Attempt("Drain") EXCEPT !.proofs = @ \cup {"drain"}]
     \/ Refused /\ ops' = ParkReleaseForRebuild(Attempt("Drain"), "Drain")
  /\ UNCHANGED <<doing, next, home>> /\ InPass

\* Retiring spends the drain proof; a refusal keeps it in the retry point.
RetireCredits ==
  /\ Dispatched("Retire") /\ "drain" \in ops.proofs
  /\ calls' = Advanced
  /\ LET o == [Attempt("Retire") EXCEPT !.proofs = @ \ {"drain"}]
     IN  \/ Performed("Retire") /\ ops' = [o EXCEPT !.proofs = @ \cup {"retire"}]
         \/ Refused /\ ops' = ParkReleaseForRebuild(o, "Retire")
  /\ UNCHANGED <<doing, next, home>> /\ InPass

ReleaseBegin ==
  /\ Dispatched("Release") /\ "retire" \in ops.proofs
  /\ ops' = [Attempt("Release") EXCEPT !.proofs = @ \ {"retire"},
                                       !.prefix = BeginRelease(@)]
  /\ doing' = "release" /\ next' = "Continue"
  /\ calls' = Advanced
  /\ UNCHANGED <<home, ran, refusals>> /\ InPass

ReleasePop ==
  /\ phase = "pass" /\ doing = "release"
  /\ ops.prefix.rem > 0 /\ ops.prefix.inflight = NoRing
  /\ ops' = [ops EXCEPT !.prefix = PopForRelease(@)]
  /\ UNCHANGED <<calls, doing, next, home, ran, refusals>> /\ InPass

ReleaseGiveBack ==
  /\ phase = "pass" /\ doing = "release" /\ ops.prefix.inflight # NoRing
  /\ \/ /\ home' = home \cup {ops.prefix.inflight}
        /\ ops' = [ops EXCEPT !.prefix = ConfirmReleasedToken(@)]
        /\ UNCHANGED <<doing, refusals>>
     \/ /\ refusals < MaxRefusals
        /\ refusals' = refusals + 1
        /\ ops' = RecordFirstRetry(
                    [ops EXCEPT !.prefix = ParkPartialRelease(RestoreReleasedToken(@))],
                    RetryRelease(next, "Transient"))
        /\ doing' = "none"
        /\ UNCHANGED home
  /\ UNCHANGED <<calls, next, ran>> /\ InPass

\* reacquire_then: the calls a rebuilt consumer set still owes.
ReacquireThen(resume) ==
  Script(IF resume = "Drain" THEN <<"Acquire", "Drain", "Retire", "Release">>
                             ELSE <<"Acquire", "Retire", "Release">>)

ReleaseEnd ==
  /\ phase = "pass" /\ doing = "release"
  /\ ops.prefix.rem = 0 /\ ops.prefix.inflight = NoRing
  /\ doing' = "none" /\ next' = "None"
  /\ IF next = "Continue"
     THEN /\ Performed("Release")
          /\ ops' = RunFrom([ops EXCEPT !.prefix = NoPrefix,
                                        !.proofs = @ \cup {"consumers"},
                                        !.done = IF "Signal" \in @ THEN @ \cup {"Queue"}
                                                                   ELSE @ \ {"Queue"}],
                            "Queue")
          /\ calls' = <<Loop("Queue")>> \o calls
     ELSE /\ ops' = [ops EXCEPT !.prefix = EmptyPrefix,
                                !.proofs = @ \cup (IF next = "Retire" THEN {"drain"} ELSE {})]
          /\ calls' = <<ReacquireThen(next)>> \o calls
          /\ UNCHANGED <<ran, refusals>>
  /\ UNCHANGED home /\ InPass

-----------------------------------------------------------------------------
(* The end of a pass and the retry lifecycle.                               *)

RosterComplete ==
  /\ ops.first = NoRetry /\ ops.prefix = NoPrefix
  /\ {"drain", "retire"} \cap ops.proofs = {}
  /\ ops.attempted = Effects /\ ops.failed = {}
  /\ {"consumers", "mount"} \subseteq ops.proofs

\* finish: the retry point, or an invariant failure when no call refused.
ResidualPoint ==
  CASE ops.first # NoRetry -> ops.first
    [] ops.prefix # NoPrefix -> RetryRelease("Drain", "Invariant")
    [] OTHER -> RetryEffect(IF ops.attempted = Effects THEN "Backing"
                            ELSE Order[CHOOSE i \in DOMAIN Order :
                                         /\ Order[i] \notin ops.attempted
                                         /\ \A j \in 1 .. i - 1 : Order[j] \in ops.attempted],
                            "Invariant")

Residual == [failed |-> ops.failed, point |-> ResidualPoint,
             proofs |-> ops.proofs \cap {"consumers", "mount"},
             prefix |-> ops.prefix]

NoPark == [residual |-> [failed |-> {}, point |-> NoRetry, proofs |-> {},
                         prefix |-> NoPrefix],
           delay |-> FALSE, queued |-> FALSE]

RetryKey(r) == [point |-> [r.point EXCEPT !.cause = "None"], prefix |-> r.prefix]
NoKey == RetryKey(NoPark.residual)

FENCE_RETRY_DELAY_MS == <<100, 200, 400, 800, 1600, 3200, 6400, 12800, 25600, 30000>>

\* prepare_fence_retry: the same refusal again lengthens the delay.
PrepareRetry(l, r) ==
  LET again == IF l.key = RetryKey(r) THEN l.attempts + 1 ELSE 0
  IN  [state |-> "DelayArmed", key |-> RetryKey(r), attempts |-> again,
       delay |-> FENCE_RETRY_DELAY_MS[IF again >= 9 THEN 10 ELSE again + 1]]

\* Rights of the lifecycle: each turns one exact state into the next.
BeginDelayDpc(l) == [l EXCEPT !.state = "DelayDpcRunning"]
QueueFromDpc(l) == [l EXCEPT !.state = "Queued"]
BeginFenceRetryRun(l) == [l EXCEPT !.state = "Running"]
Defer(l, r) == PrepareRetry([l EXCEPT !.state = "Idle"], r)
CommitRetryComplete(l) == [l EXCEPT !.state = "Idle", !.key = NoKey, !.attempts = 0]
FailStopRight(l, r) == [l EXCEPT !.state = "FailStop", !.key = RetryKey(r)]

PassOver == phase = "pass" /\ doing = "none" /\ (calls = <<>> \/ ops.first # NoRetry)
PassLeft == ops' = Blank /\ calls' = <<>> /\ UNCHANGED <<doing, next, home, ran, refusals>>

\* finish, and run_kernel_fence on its outcome.
FinishPass ==
  /\ PassOver /\ (RosterComplete \/ ResidualPoint.cause = "Invariant")
  /\ IF RosterComplete
     THEN /\ phase' = "complete" /\ owners' = "finish"
          /\ lc' = CommitRetryComplete(lc)
          /\ UNCHANGED park
     ELSE /\ phase' = "failstop" /\ owners' = "stored"
          /\ lc' = FailStopRight(lc, Residual)
          /\ park' = [NoPark EXCEPT !.residual = Residual]
  /\ PassLeft /\ UNCHANGED retry

\* prepare_fence_retry or defer, then the locked park of the whole packet.
ParkPass ==
  /\ PassOver /\ ~RosterComplete /\ ResidualPoint.cause = "Transient"
  /\ phase' = "waiting" /\ owners' = "park"
  /\ lc' = IF lc.state = "Running" THEN Defer(lc, Residual) ELSE PrepareRetry(lc, Residual)
  /\ park' = [residual |-> Residual, delay |-> TRUE, queued |-> FALSE]
  /\ retry' = [retry EXCEPT !.toArm = TRUE]
  /\ PassLeft

\* KeSetTimer follows the release of the registry lock.
ArmTimer ==
  /\ retry.toArm
  /\ retry' = [retry EXCEPT !.toArm = FALSE, !.timer = TRUE]
  /\ UNCHANGED <<phase, ops, calls, doing, next, home, ran, refusals, lc, park, owners>>

PassIdle == UNCHANGED <<phase, ops, calls, doing, next, home, ran, refusals, owners>>

\* fsring_fence_retry_dpc under the registry lock: the delay right becomes
\* the queued right of the parked packet.
DpcTake ==
  /\ retry.timer /\ retry.dpc = "idle"
  /\ retry' = [retry EXCEPT !.timer = FALSE, !.dpc = "clear"]
  /\ IF park.delay /\ lc.state = "DelayArmed"
     THEN /\ park' = [park EXCEPT !.delay = FALSE, !.queued = TRUE]
          /\ lc' = QueueFromDpc(BeginDelayDpc(lc))
     ELSE UNCHANGED <<park, lc>>
  /\ PassIdle

DpcStep ==
  /\ \/ retry.dpc = "clear" /\ retry' = [retry EXCEPT !.dpc = "queue", !.exit = FALSE]
     \/ retry.dpc = "queue" /\ retry' = [retry EXCEPT !.dpc = "set", !.work = TRUE]
     \/ retry.dpc = "set" /\ retry' = [retry EXCEPT !.dpc = "idle", !.exit = TRUE]
  /\ PassIdle /\ UNCHANGED <<lc, park>>

\* KernelFenceOps::resume.
ResumeOps(r) ==
  LET o == [Blank EXCEPT !.failed = r.failed, !.proofs = r.proofs]
  IN  IF r.point.kind = "Effect" THEN RunFrom(o, r.point.at)
      ELSE [o EXCEPT !.attempted = {"Release"}, !.prefix = BeginRelease(r.prefix)]

\* fsring_fence_retry_worker: wait for the DPC to leave, take the park
\* without the lock, resume the pass.
WorkerResume ==
  /\ retry.work /\ retry.exit
  /\ retry' = [retry EXCEPT !.work = FALSE]
  /\ park' = NoPark
  /\ LET r == park.residual
     IN  IF park.queued /\ lc.state = "Queued"
         THEN /\ phase' = "pass" /\ owners' = "pass"
              /\ lc' = BeginFenceRetryRun(lc)
              /\ ops' = ResumeOps(r)
              /\ IF r.point.kind = "Effect"
                 THEN calls' = <<Loop(r.point.at)>> /\ UNCHANGED <<doing, next>>
                 ELSE calls' = <<>> /\ doing' = "release" /\ next' = r.point.at
         ELSE /\ owners' = "dropped"
              /\ UNCHANGED <<phase, lc, ops, calls, doing, next>>
  /\ UNCHANGED <<home, ran, refusals>>

StartPass ==
  /\ phase = "idle"
  /\ phase' = "pass" /\ ops' = Blank /\ calls' = <<Loop("Close")>>
  /\ UNCHANGED <<doing, next, home, ran, refusals, lc, park, owners, retry>>

Init ==
  /\ phase = "idle" /\ ops = Blank /\ calls = <<>> /\ doing = "none" /\ next = "None"
  /\ home = Rings /\ ran = [e \in Effects |-> 0] /\ refusals = 0
  /\ lc = [state |-> "Idle", key |-> NoKey, attempts |-> 0, delay |-> 0]
  /\ park = NoPark /\ owners = "pass"
  /\ retry = [toArm |-> FALSE, timer |-> FALSE, dpc |-> "idle", exit |-> FALSE,
              work |-> FALSE]

PassStep ==
  \/ PrereqRefusal \/ (\E e \in Simple : SimpleEffect(e)) \/ WaitPending \/ Dismount
  \/ ReleaseBacking \/ AcquireBegin \/ AcquireRing \/ AcquireEnd \/ DrainPrefixes
  \/ RetireCredits \/ ReleaseBegin \/ ReleasePop \/ ReleaseGiveBack \/ ReleaseEnd
  \/ FinishPass \/ ParkPass

Next == StartPass \/ PassStep \/ ArmTimer \/ DpcTake \/ DpcStep \/ WorkerResume

Spec == Init /\ [][Next]_vars
FairSpec == Spec /\ WF_vars(StartPass) /\ WF_vars(PassStep) /\ WF_vars(ArmTimer)
                 /\ WF_vars(DpcTake) /\ WF_vars(DpcStep) /\ WF_vars(WorkerResume)

-----------------------------------------------------------------------------
(* Properties.                                                              *)

Prefixes == [phase : {"None", "Acquiring", "AcquiredComplete", "ReleasingPartial",
                      "ReleasingComplete", "ReleasedPartial", "ReleasedComplete"},
             high : 0 .. RingCount, rem : 0 .. RingCount,
             inflight : 0 .. RingCount, failed : 0 .. RingCount]

\* The prefix that owns tokens now: the running pass's or the parked one.
LivePrefix == IF phase = "pass" THEN ops.prefix ELSE park.residual.prefix

\* Every CQ consumer role the fence took is either back at its ring or in the
\* slab of the one live prefix, whatever refuses: acquire, drain, retire,
\* release or any resumed pass (`native_release_consumers` puts a refused
\* token back; "dropping one ... wedges every later fence acquire").
TokensConserved ==
  /\ LivePrefix \in Prefixes
  /\ \A r \in Rings : (r \in home) <=> (r \notin SlabTokens(LivePrefix))

\* No effect of the pass order is skipped: a native call succeeds only after
\* every earlier one has, over all passes of the generation, and nothing from
\* QueueInstalledWork on runs while the fence still holds a consumer role.
NothingSkipped ==
  \A i, j \in DOMAIN Order :
    i < j /\ ran[Order[j]] > 0 =>
      ran[Order[i]] > 0 /\ (j >= Index("Queue") => home = Rings)

\* The effects that destroy something succeed once per generation, however
\* often the pass is parked and resumed: a second unmap, dismount or free
\* would act on what is gone.
DestroyedOnce ==
  \A e \in {"UnmapProducer", "UnmapReadOnly", "Mdls", "Process", "Dismount", "Backing"} :
    ran[e] <= 1

\* The retry worker always finds the parked packet with its queued right, so
\* the affine owners of the generation are never dropped.
OwnersNeverDropped ==
  /\ owners # "dropped"
  /\ (owners = "park") = (phase = "waiting")

\* A started fence stops refusing only by completing or by storing its
\* owners in the fail-stop slot; it is never lost between park, timer, DPC
\* and worker.
FenceSettles == (phase = "pass") ~> (phase \in {"complete", "failstop"})

\* "a full pass with both proofs must discharge": a fence none of whose
\* native calls refused ends complete.
FullPassDischarges == phase = "failstop" => refusals > 0

=============================================================================
