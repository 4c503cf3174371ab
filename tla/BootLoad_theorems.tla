-------------------------- MODULE BootLoad_theorems --------------------------
(***************************************************************************)
(* Every step of every load, rollback, unload and setup keeps the inductive *)
(* invariant of BootLoad; what it says about the boot lock, the identities  *)
(* and the captured images holds for any number of drivers and setups.      *)
(***************************************************************************)
EXTENDS BootLoad_lemmas


-----------------------------------------------------------------------------
(* The effects of a load.                                                  *)

\* A load between two effects.
LEMMA IdleLoad ==
    ASSUME IndInv, NEW d \in Drivers, plan[d].pc = "loading", th[d].pc = "idle"
    PROVE  /\ d \in Threads /\ d \notin Setups
           /\ plan[d] \in Plans /\ plan[d].next \in 0..14
           /\ th[d].holds <=> plan[d].next \in 1..5
           /\ ~Discards(d) /\ th[d].pc \notin InFlight
           /\ ControlInv(d) /\ PlanInv(d) /\ PublishInv(d) /\ ReadInv(d)
           /\ boot \in [Drivers -> Boots] /\ plan \in [Drivers -> Plans]
           /\ th \in [Threads -> ThreadRecs]
<1>1. /\ d \in Threads /\ d \notin Setups
  BY ThreadFacts, Zenon
<1>2. /\ plan[d] \in Plans /\ ControlInv(d) /\ PlanInv(d) /\ PublishInv(d) /\ ReadInv(d)
      /\ boot \in [Drivers -> Boots] /\ plan \in [Drivers -> Plans]
      /\ th \in [Threads -> ThreadRecs]
  BY <1>1, Zenon DEF IndInv, TypeOK
<1>3. plan[d].next \in 0..14 /\ (th[d].holds <=> plan[d].next \in 1..5)
  BY <1>2 DEF ControlInv, Plans
<1>4. ~Discards(d) /\ th[d].pc \notin InFlight
  BY Zenon DEF Discards, InFlight, Publishing
<1> QED  BY <1>1, <1>2, <1>3, <1>4, Zenon

\* An effect past the first ones: what was published stays published.
LEMMA DoneStep ==
    ASSUME IndInv, NEW d \in Drivers, plan[d].pc = "loading", th[d].pc = "idle",
           plan[d].next = 2 \/ plan[d].next >= 6, Done(d), th' = th,
           UNCHANGED <<event, section, committed, minted, reminted>>,
           boot' \in [Drivers -> Boots], boot'[d].handle = boot[d].handle,
           boot'[d].at = boot[d].at \/ plan[d].next >= 6,
           \A e \in Drivers : e # d => boot'[e].at = boot[e].at /\ boot'[e].handle = boot[e].handle
    PROVE  IndInv'
<1>1. /\ d \in Threads /\ d \notin Setups
      /\ plan[d] \in Plans /\ plan[d].next \in 0..14
      /\ th[d].holds <=> plan[d].next \in 1..5
      /\ ~Discards(d) /\ th[d].pc \notin InFlight
      /\ ControlInv(d) /\ PlanInv(d) /\ PublishInv(d) /\ ReadInv(d)
      /\ plan \in [Drivers -> Plans] /\ th \in [Threads -> ThreadRecs]
  BY IdleLoad, Zenon
<1>2. plan' = [plan EXCEPT ![d] = Succeeded(plan[d])]
  BY Zenon DEF Done
<1>3. /\ Succeeded(plan[d]) \in Plans
      /\ Succeeded(plan[d]).next = plan[d].next + 1
      /\ Succeeded(plan[d]).pc = IF plan[d].next = 14 THEN "loaded" ELSE "loading"
      /\ Succeeded(plan[d]).created = plan[d].created /\ Succeeded(plan[d]).ready = plan[d].ready
  BY <1>1, SucceededFacts
<1>4. /\ plan' \in [Drivers -> Plans] /\ plan'[d].next = plan[d].next + 1
      /\ plan'[d].pc = IF plan[d].next = 14 THEN "loaded" ELSE "loading"
      /\ plan'[d].created = plan[d].created /\ plan'[d].ready = plan[d].ready
      /\ \A e \in Drivers : e # d => plan'[e] = plan[e]
  BY <1>1, <1>2, <1>3, Zenon
<1>5. PublishInv(d)' /\ TodoInv(d)' /\ ReadInv(d)'
  BY <1>1, <1>4 DEF PublishInv, TodoInv, ReadInv, Prepared, Publishing, Reading
<1>6. ControlInv(d)'
  <2>1. plan'[d].next < 15 => plan'[d].pc = "loading"
    BY <1>1, <1>4
  <2>2. "idle" \in LoadPcs(plan'[d].next)
    BY Zenon DEF LoadPcs
  <2>3. th[d].holds <=> plan[d].next = 2
    BY <1>1
  <2>4. plan'[d].next \in 1..5 <=> plan[d].next = 2
    BY <1>1, <1>4
  <2> QED  BY <1>1, <1>4, <2>1, <2>2, <2>3, <2>4 DEF ControlInv, Owning, Publishing
<1>7. PlanInv(d)'
  <2>1. CASE plan[d].next = 2
    <3>1. plan'[d].next = 3 /\ plan'[d].pc = "loading" /\ boot'[d].at = boot[d].at
      BY <1>4, <2>1
    <3>2. Created(d)' => Created(d)
      BY <1>4, <2>1 DEF Created
    <3> QED  BY <1>1, <2>1, <3>1, <3>2 DEF PlanInv
  <2>2. CASE plan[d].next >= 6
    <3>1. plan[d].ready /\ committed # {} /\ (boot[d].handle => section.named)
      BY <1>1, <2>2 DEF PlanInv
    <3>2. plan'[d].ready /\ committed' # {} /\ (boot'[d].handle => section'.named)
      BY <1>4, <3>1, Zenon
    <3>3. plan'[d].next \notin 2..4
      BY <1>1, <1>4, <2>2
    <3> QED  BY <3>2, <3>3, Zenon DEF PlanInv, Created
  <2> QED  BY <2>1, <2>2, Zenon
<1> QED  BY <1>1, <1>4, <1>5, <1>6, <1>7, DriverStep, Zenon

\* The steps that enter, capture, publish and release on behalf of an effect.
LEMMA EffectGotoSteps ==
    ASSUME IndInv, NEW d \in Drivers,
           PublishLoadGeneration(d) \/ ReleaseBootLockEvent(d)
    PROVE  IndInv'
<1>1. /\ plan[d].pc = "loading" /\ th[d].pc = "idle"
      /\ UNCHANGED <<event, section, boot, plan, committed, minted, reminted>>
  BY Zenon DEF PublishLoadGeneration, ReleaseBootLockEvent, Performing, At
<1>2. /\ d \in Threads /\ d \notin Setups
      /\ plan[d] \in Plans /\ plan[d].next \in 0..14
      /\ th[d].holds <=> plan[d].next \in 1..5
      /\ ~Discards(d) /\ th[d].pc \notin InFlight
      /\ ControlInv(d) /\ PublishInv(d) /\ ReadInv(d)
      /\ boot \in [Drivers -> Boots] /\ th \in [Threads -> ThreadRecs]
  BY <1>1, IdleLoad, Zenon
<1>3. CASE PublishLoadGeneration(d)
  <2>1. plan[d].next = 4 /\ Goto(d, "publish")
    BY <1>2, <1>3, EffectIndex, Zenon DEF PublishLoadGeneration, Performing, Effect
  <2>2. "publish" \in ThreadPcs /\ TypeOK
    BY Zenon DEF ThreadPcs, Owning, IndInv
  <2>3. /\ th' \in [Threads -> ThreadRecs]
        /\ th'[d].pc = "publish" /\ th'[d].holds = th[d].holds /\ th'[d].img = th[d].img
        /\ \A u \in Threads : u # d => th'[u] = th[u]
    BY <1>2, <2>1, <2>2, GotoFacts
  <2>4. ControlInv(d)' /\ ReadInv(d)'
    BY <1>1, <1>2, <2>1, <2>3 DEF ControlInv, ReadInv, Reading, LoadPcs
  <2>5. PublishInv(d)'
    <3>1. NextImage(d)' <=> NextImage(d)
      BY <1>1, <2>3, Zenon DEF NextImage
    <3>2. Settled' <=> Settled
      BY <1>1, Zenon DEF Settled, Header
    <3>3. Prepared(d)
      BY <1>1, <2>1, Zenon DEF Prepared
    <3> QED  BY <1>1, <1>2, <2>3, <3>1, <3>2, <3>3, Zenon DEF PublishInv, Publishing
  <2>6. /\ boot' \in [Drivers -> Boots]
        /\ \A e \in Drivers : boot'[e].at = boot[e].at /\ boot'[e].handle = boot[e].handle
    BY <1>1, <1>2, Zenon
  <2> QED  BY <1>1, <1>2, <2>3, <2>4, <2>5, <2>6, MoveStep, Zenon
<1>4. CASE ReleaseBootLockEvent(d)
  <2>1. plan[d].next = 5 /\ Goto(d, "release")
    BY <1>2, <1>4, EffectIndex, Zenon DEF ReleaseBootLockEvent, Performing, Effect
  <2>2. "release" \in ThreadPcs
    BY Zenon DEF ThreadPcs, Owning
  <2>3. /\ boot' \in [Drivers -> Boots]
        /\ \A e \in Drivers : boot'[e].at = boot[e].at /\ boot'[e].handle = boot[e].handle
    BY <1>1, <1>2, Zenon
  <2>4. ASSUME th'[d].pc = "release", th'[d].holds = th[d].holds
        PROVE  ControlInv(d)' /\ PublishInv(d)' /\ ReadInv(d)'
    <3>1. ControlInv(d)'
      BY <1>1, <1>2, <2>1, <2>4 DEF ControlInv, LoadPcs, Releasing
    <3> QED  BY <2>4, <3>1, Zenon DEF PublishInv, ReadInv, Prepared, Publishing, Reading
  <2> QED  BY <1>1, <1>2, <2>1, <2>2, <2>3, <2>4, GotoStep, Zenon
<1> QED  BY <1>3, <1>4, Zenon

\* The effects that only take or publish a resource of the driver.
LEMMA ResourceSteps ==
    ASSUME IndInv, NEW d \in Drivers, MapSystemView(d) \/ AcquireResource(d)
    PROVE  IndInv'
<1>1. /\ plan[d].pc = "loading" /\ th[d].pc = "idle" /\ Done(d)
      /\ UNCHANGED <<event, section, th, committed, minted, reminted>>
  BY Zenon DEF MapSystemView, AcquireResource, Performing, At
<1>2. boot \in [Drivers -> Boots] /\ plan[d].next \in 0..14 /\ plan[d] \in Plans
  BY <1>1, IdleLoad, Zenon
<1>3. CASE MapSystemView(d)
  <2>1. plan[d].next = 2 /\ boot' = [boot EXCEPT ![d].view = TRUE]
    BY <1>2, <1>3, EffectIndex, Zenon DEF MapSystemView, Performing, Effect
  <2>2. /\ boot' \in [Drivers -> Boots]
        /\ \A e \in Drivers : boot'[e].at = boot[e].at /\ boot'[e].handle = boot[e].handle
    BY <1>2, <2>1, Zenon DEF Boots
  <2> QED  BY <1>1, <2>1, <2>2, DoneStep, Zenon
<1>4. CASE AcquireResource(d)
  <2>1. /\ plan[d].next >= 6
        /\ boot' = [boot EXCEPT ![d].at = "root"] \/ boot' = boot
    BY <1>4, Zenon DEF AcquireResource
  <2>2. /\ boot' \in [Drivers -> Boots]
        /\ \A e \in Drivers : /\ boot'[e].handle = boot[e].handle
                              /\ e # d => boot'[e].at = boot[e].at
    BY <1>2, <2>1 DEF Boots
  <2> QED  BY <1>1, <2>1, <2>2, DoneStep, Zenon
<1> QED  BY <1>3, <1>4, Zenon

\* The plan before a load, and the one a load starts with.
LEMMA NewPlanFacts ==
    /\ NewPlan \in Plans /\ [NewPlan EXCEPT !.pc = "loading"] \in Plans
    /\ IdleThread \in ThreadRecs /\ NewBootObjects \in Boots
<1>1. <<>> \in Seq(Undos)
  OBVIOUS
<1>2. NewPlan \in Plans
  BY <1>1 DEF NewPlan, Plans
<1>3. [NewPlan EXCEPT !.pc = "loading"] \in Plans
  BY <1>2, Zenon DEF Plans
<1>4. IdleThread \in ThreadRecs /\ NewBootObjects \in Boots
  BY Zenon DEF IdleThread, ThreadRecs, NoImage, Images, ThreadPcs, NewBootObjects, Boots
<1> QED  BY <1>2, <1>3, <1>4, Zenon

\* A load starts with nothing.
LEMMA LoadStart ==
    ASSUME IndInv, NEW d \in Drivers, Load(d)
    PROVE  IndInv'
<1> DEFINE p == [NewPlan EXCEPT !.pc = "loading"]
<1>1. /\ plan[d].pc = "unloaded" /\ plan' = [plan EXCEPT ![d] = p]
      /\ boot' = [boot EXCEPT ![d] = NewBootObjects]
      /\ UNCHANGED <<event, section, th, committed, minted, reminted>>
  BY Zenon DEF Load
<1>2. /\ d \in Threads /\ d \notin Setups /\ ControlInv(d)
      /\ boot \in [Drivers -> Boots] /\ plan \in [Drivers -> Plans]
      /\ th \in [Threads -> ThreadRecs]
  BY ThreadFacts, Zenon DEF IndInv, TypeOK
<1>3. /\ p \in Plans /\ p.pc = "loading" /\ p.next = 0
      /\ NewBootObjects \in Boots /\ ~NewBootObjects.handle /\ NewBootObjects.at = "context"
  BY NewPlanFacts, Zenon DEF NewPlan, NewBootObjects, Boots
<1> HIDE DEF p
<1>4. /\ plan' \in [Drivers -> Plans] /\ plan'[d].pc = "loading" /\ plan'[d].next = 0
      /\ boot' \in [Drivers -> Boots] /\ ~boot'[d].handle /\ boot'[d].at = "context"
      /\ \A e \in Drivers : e # d => plan'[e] = plan[e] /\ boot'[e] = boot[e]
  BY <1>1, <1>2, <1>3, Zenon
<1>5. th[d].pc = "idle" /\ ~th[d].holds /\ th[d].pc \notin InFlight /\ ~Discards(d)
  BY <1>1, <1>2, Zenon DEF ControlInv, InFlight, Publishing, Discards
<1>6. /\ PublishInv(d)' /\ TodoInv(d)' /\ ReadInv(d)'
  BY <1>1, <1>4, <1>5 DEF PublishInv, TodoInv, ReadInv, Prepared, Publishing, Reading
<1>7. PlanInv(d)'
  BY <1>4 DEF PlanInv, Created
<1>8. ControlInv(d)'
  <2>1. "idle" \in LoadPcs(plan'[d].next)
    BY Zenon DEF LoadPcs
  <2> QED  BY <1>1, <1>2, <1>4, <1>5, <2>1 DEF ControlInv, Owning, Publishing
<1> QED  BY <1>1, <1>2, <1>4, <1>5, <1>6, <1>7, <1>8, DriverStep, Zenon

\* The event is created signalled, and only when nobody can own it.
LEMMA OpenEventStep ==
    ASSUME IndInv, NEW d \in Drivers, OpenAndAcquireBootLockEvent(d)
    PROVE  IndInv'
<1>1. /\ plan[d].pc = "loading" /\ th[d].pc = "idle" /\ Goto(d, "enter")
      /\ event' = IF event.exists THEN event ELSE [exists |-> TRUE, signalled |-> TRUE]
      /\ UNCHANGED <<section, boot, plan, committed, minted, reminted>>
  BY Zenon DEF OpenAndAcquireBootLockEvent, Performing, At
<1>2. /\ d \in Threads /\ d \notin Setups
      /\ plan[d] \in Plans /\ plan[d].next \in 0..14
      /\ th[d].holds <=> plan[d].next \in 1..5
      /\ ~Discards(d) /\ th[d].pc \notin InFlight /\ ControlInv(d) /\ PlanInv(d)
  BY <1>1, IdleLoad, Zenon
<1>3. plan[d].next = 0 /\ ~th[d].holds
  BY <1>2, EffectIndex DEF OpenAndAcquireBootLockEvent, Performing, Effect
<1>4. TypeOK /\ LockInv /\ "enter" \in ThreadPcs /\ TodoInv(d)
  BY Zenon DEF IndInv, ThreadPcs
<1>5. /\ th' \in [Threads -> ThreadRecs]
      /\ th'[d].pc = "enter" /\ th'[d].holds = th[d].holds
      /\ \A u \in Threads : u # d => th'[u] = th[u]
      /\ \A u \in Threads : th'[u].holds = th[u].holds
  BY <1>1, <1>2, <1>4, GotoFacts, Zenon
<1>6. LockInv'
  <2>1. CASE event.exists
    BY <1>1, <1>4, <1>5, <2>1, LockKept, Zenon
  <2>2. CASE ~event.exists
    BY <1>1, <1>4, <1>5, <2>2, Zenon DEF LockInv, LockExact
  <2> QED  BY <2>1, <2>2, Zenon
<1>7. TypeOK' /\ Alone(d)
  BY <1>1, <1>4, <1>5, Zenon DEF TypeOK, Alone
<1>8. ControlInv(d)'
  <2>1. "enter" \in LoadPcs(0)
    BY DEF LoadPcs
  <2> QED  BY <1>1, <1>2, <1>3, <1>5, <2>1, Zenon DEF ControlInv, Owning, Publishing
<1>9. PublishInv(d)' /\ ReadInv(d)'
  BY <1>5, Zenon DEF PublishInv, ReadInv, Prepared, Publishing, Reading
<1>10. TodoInv(d)'
  BY <1>1, Zenon DEF TodoInv
<1>11. PlanInv(d)'
  BY <1>1, <1>2, <1>3 DEF PlanInv, Created
<1> QED  BY <1>1, <1>2, <1>6, <1>7, <1>8, <1>9, <1>10, <1>11, QuietStep, Zenon

\* A section that has no name is created, entirely zero, by the lock's owner.
LEMMA CreateStep ==
    ASSUME IndInv, NEW d \in Drivers, th[d].holds, ~section.named,
           section' = [NoSection EXCEPT !.named = TRUE], th' = th,
           UNCHANGED <<event, committed, minted, reminted>>,
           boot' \in [Drivers -> Boots], plan' \in [Drivers -> Plans],
           \A e \in Drivers : e # d => plan'[e] = plan[e] /\ boot'[e] = boot[e],
           committed = {} => ControlInv(d)' /\ PublishInv(d)' /\ ReadInv(d)' /\ TodoInv(d)' /\ PlanInv(d)'
    PROVE  IndInv' /\ committed = {}
<1>1. committed = {}
  BY Zenon DEF IndInv, SectionInv
<1>2. d \in Threads /\ TypeOK
  BY ThreadFacts, Zenon DEF IndInv
<1>3. /\ section' \in Sections /\ section'.named /\ ~section'.temporary /\ ~section'.slots
      /\ section'.seq = 0 /\ section'.gen = 0 /\ section'.mount = 0 /\ section'.ready = FALSE
  BY Zenon DEF NoSection, Sections
<1>4. Blank'
  BY <1>3, Zenon DEF Blank, Header, NoImage
<1>5. SectionInv'
  BY <1>1, <1>3, <1>4, Zenon DEF SectionInv
<1>6. MintInv'
  BY Zenon DEF IndInv, MintInv, IdentitiesUnique
<1>7. TypeOK' /\ Alone(d)
  BY <1>2, <1>3, Zenon DEF TypeOK, Alone
<1> QED  BY <1>1, <1>2, <1>3, <1>5, <1>6, <1>7, WriteStep

\* The section is opened, or created and then the load's own.
LEMMA OpenSectionStep ==
    ASSUME IndInv, NEW d \in Drivers, OpenOrCreateBootSection(d)
    PROVE  IndInv'
<1> DEFINE p == [Succeeded(plan[d]) EXCEPT !.created = ~section.named]
<1>1. /\ plan[d].pc = "loading" /\ th[d].pc = "idle" /\ boot' = [boot EXCEPT ![d].handle = TRUE]
      /\ section' = IF section.named THEN section ELSE [NoSection EXCEPT !.named = TRUE]
      /\ plan' = [plan EXCEPT ![d] = p]
      /\ UNCHANGED <<event, th, committed, minted, reminted>>
  BY Zenon DEF OpenOrCreateBootSection, Performing, At
<1>2. /\ d \in Threads /\ d \notin Setups
      /\ plan[d] \in Plans /\ plan[d].next \in 0..14
      /\ th[d].holds <=> plan[d].next \in 1..5
      /\ ~Discards(d) /\ th[d].pc \notin InFlight /\ ControlInv(d) /\ PlanInv(d)
      /\ boot \in [Drivers -> Boots] /\ plan \in [Drivers -> Plans]
      /\ th \in [Threads -> ThreadRecs]
  BY <1>1, IdleLoad, Zenon
<1>3. plan[d].next = 1 /\ th[d].holds
  BY <1>2, EffectIndex DEF OpenOrCreateBootSection, Performing, Effect
<1>4. section.named \in BOOLEAN
  BY Zenon DEF IndInv, TypeOK, Sections
<1>5. /\ Succeeded(plan[d]) \in Plans /\ Succeeded(plan[d]).next = 2
      /\ Succeeded(plan[d]).pc = "loading"
  BY <1>2, <1>3, SucceededFacts
<1>6. p \in Plans /\ p.next = 2 /\ p.pc = "loading" /\ (p.created <=> ~section.named)
  BY <1>4, <1>5, Zenon DEF Plans
<1> HIDE DEF p
<1>7. /\ plan' \in [Drivers -> Plans] /\ plan'[d].next = 2 /\ plan'[d].pc = "loading"
      /\ plan'[d].created <=> ~section.named
      /\ boot' \in [Drivers -> Boots] /\ boot'[d].handle /\ boot'[d].at = boot[d].at
      /\ \A e \in Drivers : e # d => plan'[e] = plan[e] /\ boot'[e] = boot[e]
  <2> DEFINE b == [boot[d] EXCEPT !.handle = TRUE]
  <2>1. boot[d] \in Boots
    BY <1>2, Zenon
  <2>2. b \in Boots /\ b.handle /\ b.at = boot[d].at
    BY <2>1, Zenon DEF Boots
  <2>3. boot' = [boot EXCEPT ![d] = b]
    BY <1>1, Zenon
  <2> HIDE DEF b
  <2> QED  BY <1>1, <1>2, <1>6, <2>2, <2>3
<1>8. /\ PublishInv(d)' /\ TodoInv(d)' /\ ReadInv(d)'
  BY <1>1, <1>7 DEF PublishInv, TodoInv, ReadInv, Prepared, Publishing, Reading
<1>9. ControlInv(d)'
  <2>1. "idle" \in LoadPcs(plan'[d].next)
    BY Zenon DEF LoadPcs
  <2> QED  BY <1>1, <1>2, <1>3, <1>7, <2>1 DEF ControlInv, Owning, Publishing
<1>10. boot[d].at = "root" => committed # {}
  BY <1>2, Zenon DEF PlanInv
<1>11. section'.named
  BY <1>1, <1>4, Zenon DEF NoSection
<1>12. committed = {} \/ section.named => PlanInv(d)'
  BY <1>1, <1>7, <1>10, <1>11 DEF PlanInv, Created
<1>13. CASE section.named
  BY <1>1, <1>2, <1>7, <1>8, <1>9, <1>12, <1>13, DriverStep, Zenon
<1>14. CASE ~section.named
  BY <1>1, <1>3, <1>7, <1>8, <1>9, <1>12, <1>14, CreateStep, Zenon
<1> QED  BY <1>13, <1>14, Zenon

\* A load that fails before it published, or after it gave the lock back.
LEMMA FailSteps ==
    ASSUME IndInv, NEW d \in Drivers, OpenSectionRefused(d) \/ FailEffect(d)
    PROVE  IndInv'
<1>1. /\ plan[d].pc = "loading" /\ th[d].pc = "idle" /\ plan' = [plan EXCEPT ![d] = Failed(plan[d])]
      /\ UNCHANGED <<event, boot, th, committed, minted, reminted>>
  BY Zenon DEF OpenSectionRefused, FailEffect, Performing, At
<1>2. /\ d \in Threads /\ plan[d].next \in 0..14
      /\ th[d].holds <=> plan[d].next \in 1..5
      /\ ~Discards(d) /\ th[d].pc \notin InFlight
      /\ boot \in [Drivers -> Boots] /\ plan \in [Drivers -> Plans]
      /\ th \in [Threads -> ThreadRecs]
  BY <1>1, IdleLoad, Zenon
<1>3. /\ plan'[d] = Failed(plan[d]) /\ th'[d].pc = "idle" /\ th'[d].holds = th[d].holds
      /\ boot'[d].at = boot[d].at /\ boot'[d].handle = boot[d].handle
      /\ \A e \in Drivers : e # d => plan'[e] = plan[e] /\ boot'[e] = boot[e]
      /\ boot' \in [Drivers -> Boots] /\ th' \in [Threads -> ThreadRecs]
  BY <1>1, <1>2, Zenon
<1>4. \/ section' = section /\ plan[d].next \notin {4, 5}
      \/ /\ ~section.named /\ section' = [NoSection EXCEPT !.named = TRUE] /\ plan[d].next = 1
  <2>1. CASE FailEffect(d)
    BY <1>2, <2>1, EffectIndex, Zenon DEF FailEffect, Effect
  <2>2. CASE OpenSectionRefused(d)
    <3>1. plan[d].next = 1
      BY <1>2, <2>2, EffectIndex, Zenon DEF OpenSectionRefused, Performing, Effect
    <3> QED  BY <2>2, <3>1 DEF OpenSectionRefused
  <2> QED  BY <2>1, <2>2, Zenon
<1>5. (section.named => section'.named) /\ plan[d].next \notin {4, 5}
  BY <1>4
<1>6. /\ ControlInv(d)' /\ TodoInv(d)' /\ PlanInv(d)' /\ PublishInv(d)' /\ ReadInv(d)'
      /\ Failed(plan[d]) \in Plans
  BY <1>1, <1>2, <1>3, <1>5, FailedStep, Zenon
<1>7. plan' \in [Drivers -> Plans]
  BY <1>1, <1>2, <1>6, Zenon
<1>8. CASE section' = section
  BY <1>1, <1>2, <1>3, <1>6, <1>7, <1>8, DriverStep, Zenon
<1>9. CASE ~section.named /\ section' = [NoSection EXCEPT !.named = TRUE] /\ plan[d].next = 1
  <2>1. th[d].holds
    BY <1>2, <1>9
  <2> QED  BY <1>1, <1>3, <1>6, <1>7, <1>9, <2>1, CreateStep, Zenon
<1> QED  BY <1>4, <1>8, <1>9, Zenon

\* What the owner of the lock finds in a section that was never published.
LEMMA NeverPublished ==
    ASSUME IndInv, NEW d \in Drivers, th[d].holds, th[d].pc \notin InFlight, section.seq = 0
    PROVE  committed = {}
<1> SUFFICES ASSUME committed # {}  PROVE FALSE
  BY Zenon
<1>1. d \in Threads /\ SectionInv /\ MintInv /\ section.slots
  BY ThreadFacts, Zenon DEF IndInv, SectionInv
<1>2. ~Blank
  BY <1>1, Zenon DEF Blank
<1>3. ~Settled
  BY <1>1, Zenon DEF Settled, Header, MintInv
<1>4. PICK t \in Threads : th[t].pc \in InFlight
  BY <1>1, <1>2, <1>3, Zenon DEF SectionInv
<1>5. th[t].holds
  BY <1>4, PublisherFacts, Zenon
<1>6. t = d
  BY <1>1, <1>5, Zenon DEF IndInv, LockInv, LockExact
<1> QED  BY <1>4, <1>6, Zenon

\* What the owner of the lock captured is the newest committed image.
LEMMA CapturedFacts ==
    ASSUME IndInv, NEW t \in Threads, th[t].pc = "captured", th[t].holds
    PROVE  /\ th[t].img \in committed /\ th[t].img \in Images
           /\ Settled /\ section.slots /\ section.named
           /\ \A i \in committed : i.seq <= th[t].img.seq
<1>1. ReadInv(t) /\ SectionInv /\ MintInv /\ committed \subseteq Images
  BY Zenon DEF IndInv, TypeOK
<1>2. th[t].img \in committed /\ th[t].img = Header
  BY <1>1, Zenon DEF ReadInv
<1>3. section.seq # 0 /\ section.seq % 2 = 0 /\ section.seq = th[t].img.seq
  BY <1>1, <1>2 DEF MintInv, Header
<1>4. Settled
  BY <1>1, <1>3, Zenon DEF SectionInv
<1> QED  BY <1>1, <1>2, <1>3, <1>4, Zenon DEF Settled

\* A new section is prepared; any other is captured.
LEMMA ValidateStep ==
    ASSUME IndInv, NEW d \in Drivers, ValidateOrInitialize(d)
    PROVE  IndInv'
<1>1. /\ plan[d].pc = "loading" /\ th[d].pc = "idle"
      /\ UNCHANGED <<event, section, boot, committed, minted, reminted>>
  BY Zenon DEF ValidateOrInitialize, Performing, At
<1>2. /\ d \in Threads /\ d \notin Setups
      /\ plan[d] \in Plans /\ plan[d].next \in 0..14
      /\ th[d].holds <=> plan[d].next \in 1..5
      /\ ~Discards(d) /\ th[d].pc \notin InFlight
      /\ ControlInv(d) /\ PlanInv(d)
      /\ boot \in [Drivers -> Boots] /\ plan \in [Drivers -> Plans]
      /\ th \in [Threads -> ThreadRecs]
  BY <1>1, IdleLoad, Zenon
<1>3. plan[d].next = 3 /\ th[d].holds
  BY <1>2, EffectIndex DEF ValidateOrInitialize, Performing, Effect
<1>4. /\ boot' \in [Drivers -> Boots]
      /\ \A e \in Drivers : boot'[e].at = boot[e].at /\ boot'[e].handle = boot[e].handle
  BY <1>1, <1>2, Zenon
<1>5. CASE Goto(d, "capture") /\ plan' = plan
  <2>1. "capture" \in ThreadPcs
    BY Zenon DEF ThreadPcs
  <2>2. ASSUME th'[d].pc = "capture", th'[d].holds = th[d].holds
        PROVE  ControlInv(d)' /\ PublishInv(d)' /\ ReadInv(d)'
    <3>1. "capture" \in LoadPcs(3)
      BY DEF LoadPcs
    <3>2. ControlInv(d)'
      BY <1>2, <1>3, <1>5, <1>1, <2>2, <3>1, Zenon DEF ControlInv, Owning, Publishing
    <3> QED  BY <2>2, <3>2, Zenon DEF PublishInv, ReadInv, Prepared, Publishing, Reading
  <2> QED  BY <1>1, <1>2, <1>4, <1>5, <2>1, <2>2, GotoStep, Zenon
<1>6. CASE RefuseThread(d)
  BY <1>1, <1>2, <1>3, <1>6, RefusedStep
<1> DEFINE p == [Succeeded(plan[d]) EXCEPT !.validation = "NewPrepared"]
<1>7. CASE /\ section.seq = 0 /\ plan' = [plan EXCEPT ![d] = p]
           /\ th' = [th EXCEPT ![d].img = InitializingImage]
  <2>1. /\ Succeeded(plan[d]) \in Plans /\ Succeeded(plan[d]).next = 4
        /\ Succeeded(plan[d]).pc = "loading"
        /\ Succeeded(plan[d]).created = plan[d].created /\ Succeeded(plan[d]).ready = plan[d].ready
    BY <1>2, <1>3, SucceededFacts
  <2>2. /\ p \in Plans /\ p.next = 4 /\ p.pc = "loading"
        /\ p.created = plan[d].created /\ p.ready = plan[d].ready
    BY <2>1, Zenon DEF Plans
  <2> HIDE DEF p
  <2>3. /\ plan' \in [Drivers -> Plans] /\ plan'[d].next = 4 /\ plan'[d].pc = "loading"
        /\ plan'[d].created = plan[d].created /\ plan'[d].ready = plan[d].ready
        /\ \A e \in Drivers : e # d => plan'[e] = plan[e]
    BY <1>2, <1>7, <2>2, Zenon
  <2>4. InitializingImage \in Images /\ InitializingImage.seq = 1 /\ ~InitializingImage.ready
    BY Zenon DEF InitializingImage, Images
  <2>5. /\ th' \in [Threads -> ThreadRecs] /\ th'[d].pc = "idle" /\ th'[d].holds = th[d].holds
        /\ th'[d].img = InitializingImage
        /\ \A u \in Threads : u # d => th'[u] = th[u]
    BY <1>1, <1>2, <1>7, <2>4 DEF ThreadRecs
  <2>6. committed = {}
    BY <1>2, <1>3, <1>7, NeverPublished, Zenon
  <2>7. boot[d].handle /\ section.named
    BY <1>1, <1>2, <1>3 DEF PlanInv
  <2>8. PublishInv(d)'
    <3>1. NextImage(d)'
      BY <1>1, <2>5, <2>6, Zenon DEF NextImage
    <3>2. section'.seq = th'[d].img.seq - 1 /\ ~th'[d].img.ready /\ section'.named
      BY <1>1, <1>7, <2>4, <2>5, <2>7
    <3> QED  BY <1>1, <2>5, <2>6, <3>1, <3>2, Zenon DEF PublishInv, Publishing
  <2>9. TodoInv(d)' /\ ReadInv(d)'
    BY <2>3, <2>5, Zenon DEF TodoInv, ReadInv, Reading
  <2>10. PlanInv(d)'
    <3>1. boot[d].at # "root"
      BY <1>2, <2>6, Zenon DEF PlanInv
    <3> QED  BY <1>1, <2>3, <2>6, <2>7, <3>1 DEF PlanInv
  <2>11. ControlInv(d)'
    <3>1. "idle" \in LoadPcs(4)
      BY Zenon DEF LoadPcs
    <3> QED  BY <1>2, <1>3, <2>3, <2>5, <3>1 DEF ControlInv, Owning, Publishing
  <2> QED  BY <1>1, <1>2, <1>4, <2>3, <2>5, <2>8, <2>9, <2>10, <2>11, DriverStep, Zenon
<1>8. \/ Goto(d, "capture") /\ plan' = plan
      \/ RefuseThread(d)
      \/ /\ section.seq = 0 /\ plan' = [plan EXCEPT ![d] = p]
         /\ th' = [th EXCEPT ![d].img = InitializingImage]
  BY Zenon DEF ValidateOrInitialize
<1> QED  BY <1>5, <1>6, <1>7, <1>8, Zenon

\* The planners build images.
LEMMA PlannedImages ==
    ASSUME NEW img \in Images
    PROVE  plan_existing_context(img) \in Images /\ plan_mount_burn(img) \in Images
<1>1. img.seq + 2 \in Nat /\ img.gen + 1 \in Nat /\ img.mount + 1 \in Nat
  BY DEF Images
<1>2. \A s, n \in Nat : [img EXCEPT !.seq = s, !.gen = n] \in Images
                       /\ [img EXCEPT !.seq = s, !.mount = n] \in Images
  BY Zenon DEF Images
<1> QED  BY <1>1, <1>2, Zenon DEF plan_existing_context, plan_mount_burn

\* An image built on the captured one is ready to be published.
LEMMA PlannedFacts ==
    ASSUME IndInv, NEW t \in Threads, th[t].pc = "captured", th[t].holds,
           th'[t].img = IF t \in Drivers THEN plan_existing_context(th[t].img)
                        ELSE plan_mount_burn(th[t].img),
           th'[t].pc \in {"idle", "publish"}, section' = section, committed' = committed
    PROVE  PublishInv(t)' /\ ReadInv(t)' /\ committed # {}
<1>1. /\ th[t].img \in committed /\ Settled /\ section.slots /\ section.named
      /\ \A i \in committed : i.seq <= th[t].img.seq
  BY CapturedFacts, Zenon
<1>2. NextImage(t)'
  BY <1>1, Zenon DEF NextImage
<1>3. Settled'
  BY <1>1, Zenon DEF Settled, Header
<1>4. committed' # {} /\ section'.slots /\ section'.named
  BY <1>1, Zenon
<1>5. PublishInv(t)'
  BY <1>2, <1>3, <1>4, Zenon DEF PublishInv, Publishing
<1>6. ReadInv(t)'
  BY Zenon DEF ReadInv, Reading
<1> QED  BY <1>1, <1>5, <1>6, Zenon

\* An existing section is adopted.
LEMMA AdoptStep ==
    ASSUME IndInv, NEW d \in Drivers, AdoptContext(d)
    PROVE  IndInv'
<1> DEFINE p == [Succeeded(plan[d]) EXCEPT !.validation = "ExistingReady", !.ready = TRUE]
<1>1. /\ th[d].pc = "captured" /\ UNCHANGED <<event, section, boot, committed, minted, reminted>>
  BY Zenon DEF AdoptContext, At
<1>2. /\ d \in Threads /\ d \notin Setups /\ plan[d] \in Plans /\ ControlInv(d) /\ PlanInv(d)
      /\ boot \in [Drivers -> Boots] /\ plan \in [Drivers -> Plans]
      /\ th \in [Threads -> ThreadRecs] /\ th[d] \in ThreadRecs
  BY ThreadFacts, Zenon DEF IndInv, TypeOK
<1>3. /\ plan[d].pc = "loading" /\ plan[d].next = 3 /\ th[d].holds
      /\ ~Discards(d) /\ th[d].pc \notin InFlight
  BY <1>1, LoadPlaces, Zenon DEF Discards, InFlight, Publishing
<1>4. CASE RefuseThread(d)
  BY <1>1, <1>2, <1>3, <1>4, RefusedStep
<1>5. CASE /\ plan' = [plan EXCEPT ![d] = p]
           /\ th' = [th EXCEPT ![d].pc = "idle", ![d].img = plan_existing_context(th[d].img)]
  <2>1. /\ Succeeded(plan[d]) \in Plans /\ Succeeded(plan[d]).next = 4
        /\ Succeeded(plan[d]).pc = "loading"
    BY <1>2, <1>3, SucceededFacts
  <2>2. p \in Plans /\ p.next = 4 /\ p.pc = "loading" /\ p.ready
    BY <2>1, Zenon DEF Plans
  <2> HIDE DEF p
  <2>3. /\ plan' \in [Drivers -> Plans] /\ plan'[d].next = 4 /\ plan'[d].pc = "loading"
        /\ plan'[d].ready /\ \A e \in Drivers : e # d => plan'[e] = plan[e]
    BY <1>2, <1>5, <2>2, Zenon
  <2>4. th[d].img \in Images
    BY <1>2, Zenon DEF ThreadRecs
  <2>5. plan_existing_context(th[d].img) \in Images /\ "idle" \in ThreadPcs
    BY <2>4, PlannedImages, Zenon DEF ThreadPcs
  <2>6. /\ th' \in [Threads -> ThreadRecs] /\ th'[d].pc = "idle" /\ th'[d].holds = th[d].holds
        /\ th'[d].img = plan_existing_context(th[d].img)
        /\ \A u \in Threads : u # d => th'[u] = th[u]
    BY <1>2, <1>5, <2>5, Zenon DEF ThreadRecs
  <2>7. PublishInv(d)' /\ ReadInv(d)' /\ committed # {}
    BY <1>1, <1>2, <1>3, <2>6, PlannedFacts, Zenon
  <2>8. TodoInv(d)'
    BY <2>3, Zenon DEF TodoInv
  <2>9. boot[d].handle /\ section.named
    BY <1>2, <1>3 DEF PlanInv
  <2>10. PlanInv(d)'
    BY <1>1, <2>3, <2>7, <2>9, Zenon DEF PlanInv, Created
  <2>11. ControlInv(d)'
    <3>1. "idle" \in LoadPcs(4)
      BY Zenon DEF LoadPcs
    <3> QED  BY <1>2, <1>3, <2>3, <2>6, <3>1 DEF ControlInv, Owning, Publishing
  <2> QED  BY <1>1, <1>2, <1>3, <2>3, <2>6, <2>7, <2>8, <2>10, <2>11, DriverStep, Zenon
<1>6. \/ RefuseThread(d)
      \/ /\ plan' = [plan EXCEPT ![d] = p]
         /\ th' = [th EXCEPT ![d].pc = "idle", ![d].img = plan_existing_context(th[d].img)]
  BY Zenon DEF AdoptContext
<1> QED  BY <1>4, <1>5, <1>6, Zenon

-----------------------------------------------------------------------------
(* The unwind and the unload.                                              *)

\* An unwind between two undos.
LEMMA IdleUnwind ==
    ASSUME IndInv, NEW d \in Drivers, NEW e \in Undos, Undoing(d, e), Undone(d), th' = th,
           e # "ReleaseBootLockEvent"
    PROVE  /\ d \in Threads /\ d \notin Setups /\ th[d].pc \notin InFlight
           /\ th \in [Threads -> ThreadRecs] /\ boot \in [Drivers -> Boots]
           /\ plan[d].pc = "unwinding" /\ th[d].pc = "idle" /\ plan[d].todo # <<>>
           /\ Head(plan[d].todo) = e /\ plan[d].todo \in Seq(Undos)
           /\ ControlInv(d) /\ TodoInv(d) /\ PlanInv(d)
           /\ plan' \in [Drivers -> Plans] /\ \A o \in Drivers : o # d => plan'[o] = plan[o]
           /\ plan'[d].pc = "unwinding" /\ plan'[d].next = plan[d].next
           /\ plan'[d].created = plan[d].created /\ plan'[d].ready = plan[d].ready
           /\ plan'[d].todo = Tail(plan[d].todo)
           /\ ControlInv(d)' /\ TodoInv(d)' /\ PublishInv(d)' /\ ReadInv(d)'
           /\ \A u \in Undos : u # e => (Pending(d, u)' <=> Pending(d, u))
           /\ e = "CloseBootSection" => (th[d].holds <=> Pending(d, "ReleaseBootLockEvent"))
<1>1. /\ d \in Threads /\ d \notin Setups
  BY ThreadFacts, Zenon
<1>2. /\ plan[d].pc = "unwinding" /\ th[d].pc = "idle" /\ plan[d].todo # <<>>
      /\ Head(plan[d].todo) = e /\ th[d].pc \notin InFlight
  BY Zenon DEF Undoing, At, InFlight, Publishing
<1>3. /\ ControlInv(d) /\ TodoInv(d) /\ PlanInv(d) /\ plan \in [Drivers -> Plans]
      /\ th \in [Threads -> ThreadRecs] /\ boot \in [Drivers -> Boots]
  BY <1>1, Zenon DEF IndInv, TypeOK
<1>4. /\ plan' = [plan EXCEPT ![d].todo = Tail(plan[d].todo)]
  BY Zenon DEF Undone
<1>5. /\ plan'[d] = [plan[d] EXCEPT !.todo = Tail(plan[d].todo)]
      /\ \A o \in Drivers : o # d => plan'[o] = plan[o]
  BY <1>3, <1>4, Zenon
<1>6. /\ plan'[d] \in Plans /\ ControlInv(d)' /\ TodoInv(d)' /\ PublishInv(d)' /\ ReadInv(d)'
      /\ \A u \in Undos : u # e => (Pending(d, u)' <=> Pending(d, u))
      /\ e = "CloseBootSection" => (th[d].holds <=> Pending(d, "ReleaseBootLockEvent"))
  <2>1. /\ th'[d].pc = "idle" /\ Head(plan[d].todo) # "ReleaseBootLockEvent"
        /\ th'[d].holds <=> th[d].pc = "idle" /\ th[d].holds
                            /\ Head(plan[d].todo) # "ReleaseBootLockEvent"
    BY <1>2, Zenon
  <2>2. /\ plan'[d] \in Plans /\ ControlInv(d)' /\ TodoInv(d)' /\ PublishInv(d)' /\ ReadInv(d)'
        /\ \A u \in Undos : u # Head(plan[d].todo) => (Pending(d, u)' <=> Pending(d, u))
        /\ Head(plan[d].todo) = "CloseBootSection" =>
             (th[d].holds <=> Pending(d, "ReleaseBootLockEvent"))
    BY <1>2, <1>5, <2>1, UndoneStep
  <2> QED  BY <1>2, <2>2, Zenon
<1>7. plan' \in [Drivers -> Plans]
  BY <1>3, <1>4, <1>5, <1>6, Zenon
<1>8. plan[d] \in Plans
  BY <1>3, Zenon
<1>9. /\ plan[d].todo \in Seq(Undos)
      /\ plan'[d].pc = "unwinding" /\ plan'[d].next = plan[d].next
      /\ plan'[d].created = plan[d].created /\ plan'[d].ready = plan[d].ready
      /\ plan'[d].todo = Tail(plan[d].todo)
  BY <1>2, <1>5, <1>8, Zenon DEF Plans
<1> QED  BY <1>1, <1>2, <1>3, <1>5, <1>6, <1>7, <1>9

\* An undo that touches neither the section nor the lock.
LEMMA UndoneQuiet ==
    ASSUME IndInv, NEW d \in Drivers, NEW e \in Undos, Undoing(d, e), Undone(d), th' = th,
           e \notin {"MakeNewBootSectionTemporary", "CloseBootSection", "ReleaseBootLockEvent"},
           UNCHANGED <<event, section, committed, minted, reminted>>,
           boot' \in [Drivers -> Boots], boot'[d].handle = boot[d].handle,
           boot'[d].at \in {"context", boot[d].at},
           \A o \in Drivers : o # d => boot'[o].at = boot[o].at /\ boot'[o].handle = boot[o].handle
    PROVE  IndInv'
<1>1. /\ d \in Threads /\ th[d].pc \notin InFlight /\ th \in [Threads -> ThreadRecs]
      /\ plan[d].pc = "unwinding" /\ Head(plan[d].todo) = e /\ PlanInv(d)
      /\ plan' \in [Drivers -> Plans] /\ \A o \in Drivers : o # d => plan'[o] = plan[o]
      /\ plan'[d].pc = "unwinding" /\ plan'[d].next = plan[d].next
      /\ plan'[d].created = plan[d].created /\ plan'[d].ready = plan[d].ready
      /\ ControlInv(d)' /\ TodoInv(d)' /\ PublishInv(d)' /\ ReadInv(d)'
      /\ \A u \in Undos : u # e => (Pending(d, u)' <=> Pending(d, u))
  BY IdleUnwind
<1>2. /\ Pending(d, "CloseBootSection")' <=> Pending(d, "CloseBootSection")
      /\ Pending(d, "ReleaseBootLockEvent")' <=> Pending(d, "ReleaseBootLockEvent")
  BY <1>1, UndoNames, Zenon
<1>3. Created(d)' <=> Created(d)
  BY <1>1, Zenon DEF Created
<1>4. PlanInv(d)'
  BY <1>1, <1>2, <1>3, Zenon DEF PlanInv
<1>5. ~Discards(d)
  BY <1>1, Zenon DEF Discards
<1> QED  BY <1>1, <1>4, <1>5, DriverStep, Zenon

\* The rollback's effects that touch neither the lock nor the section's name.
LEMMA UndoQuietSteps ==
    ASSUME IndInv, NEW d \in Drivers,
           UndoResource(d) \/ UndoUnmapSystemView(d) \/ UndoCloseBootLock(d)
    PROVE  IndInv'
<1>1. boot \in [Drivers -> Boots] /\ boot[d] \in Boots
  BY Zenon DEF IndInv, TypeOK
<1>2. CASE UndoResource(d)
  <2>1. PICK e \in DOMAIN Returns :
          /\ Undoing(d, e) /\ Undone(d) /\ th' = th
          /\ boot' = IF e = "ReleaseDriverState" THEN [boot EXCEPT ![d].at = "context"] ELSE boot
          /\ UNCHANGED <<event, section, committed, minted, reminted>>
    BY <1>2, Zenon DEF UndoResource
  <2>2. e \in Undos /\ e \notin {"MakeNewBootSectionTemporary", "CloseBootSection",
                                 "ReleaseBootLockEvent"}
    BY UndoNames, Zenon DEF Undos
  <2>3. /\ boot' \in [Drivers -> Boots] /\ boot'[d].handle = boot[d].handle
        /\ boot'[d].at \in {"context", boot[d].at}
        /\ \A o \in Drivers : o # d => boot'[o].at = boot[o].at /\ boot'[o].handle = boot[o].handle
    BY <1>1, <2>1, Zenon DEF Boots
  <2> QED  BY <2>1, <2>2, <2>3, UndoneQuiet, Zenon
<1>3. ASSUME NEW b \in Boots, boot' = [boot EXCEPT ![d] = b], b.handle = boot[d].handle,
             b.at = boot[d].at
      PROVE  /\ boot' \in [Drivers -> Boots] /\ boot'[d].handle = boot[d].handle
             /\ boot'[d].at \in {"context", boot[d].at}
             /\ \A o \in Drivers : o # d => boot'[o].at = boot[o].at /\ boot'[o].handle = boot[o].handle
  BY <1>1, <1>3, Zenon
<1>4. CASE UndoUnmapSystemView(d)
  <2> DEFINE b == IF boot[d].at = "context" THEN [boot[d] EXCEPT !.view = FALSE] ELSE boot[d]
  <2>1. /\ Undoing(d, "UnmapSystemView") /\ Undone(d) /\ th' = th /\ boot' = [boot EXCEPT ![d] = b]
        /\ UNCHANGED <<event, section, committed, minted, reminted>>
    BY <1>4, Zenon DEF UndoUnmapSystemView, InContext
  <2>2. b \in Boots /\ b.handle = boot[d].handle /\ b.at = boot[d].at
    BY <1>1, Zenon DEF Boots
  <2> HIDE DEF b
  <2>3. "UnmapSystemView" \in Undos
    BY UndoNames, Zenon
  <2> QED  BY <1>3, <2>1, <2>2, <2>3, UndoneQuiet, Zenon
<1>5. CASE UndoCloseBootLock(d)
  <2> DEFINE b == IF boot[d].at = "context" THEN [boot[d] EXCEPT !.lock = FALSE] ELSE boot[d]
  <2>1. /\ Undoing(d, "CloseBootLockEvent") /\ Undone(d) /\ th' = th /\ boot' = [boot EXCEPT ![d] = b]
        /\ UNCHANGED <<event, section, committed, minted, reminted>>
    BY <1>5, Zenon DEF UndoCloseBootLock, InContext
  <2>2. b \in Boots /\ b.handle = boot[d].handle /\ b.at = boot[d].at
    BY <1>1, Zenon DEF Boots
  <2> HIDE DEF b
  <2>3. "CloseBootLockEvent" \in Undos
    BY UndoNames, Zenon
  <2> QED  BY <1>3, <2>1, <2>2, <2>3, UndoneQuiet, Zenon
<1> QED  BY <1>2, <1>4, <1>5, Zenon

\* A section nobody published in is made temporary by the load that owns it,
\* which closes it next.
LEMMA MakeTemporaryStep ==
    ASSUME IndInv, NEW d \in Drivers, UndoMakeTemporary(d)
    PROVE  IndInv'
<1>1. /\ Undoing(d, "MakeNewBootSectionTemporary") /\ Undone(d)
      /\ section' = [section EXCEPT !.temporary = TRUE]
      /\ UNCHANGED <<event, boot, th, committed, minted, reminted>>
  BY Zenon DEF UndoMakeTemporary
<1>2. "MakeNewBootSectionTemporary" \in Undos /\ "MakeNewBootSectionTemporary" # "ReleaseBootLockEvent"
  BY UndoNames, Zenon
<1>3. /\ d \in Threads /\ plan[d].pc = "unwinding" /\ th[d].pc = "idle" /\ plan[d].todo # <<>>
      /\ Head(plan[d].todo) = "MakeNewBootSectionTemporary" /\ plan[d].todo \in Seq(Undos)
      /\ ControlInv(d) /\ TodoInv(d) /\ PlanInv(d)
      /\ plan' \in [Drivers -> Plans] /\ \A o \in Drivers : o # d => plan'[o] = plan[o]
      /\ plan'[d].pc = "unwinding" /\ plan'[d].next = plan[d].next
      /\ plan'[d].created = plan[d].created /\ plan'[d].ready = plan[d].ready
      /\ plan'[d].todo = Tail(plan[d].todo)
      /\ ControlInv(d)' /\ TodoInv(d)' /\ PublishInv(d)' /\ ReadInv(d)'
      /\ \A u \in Undos : u # "MakeNewBootSectionTemporary" => (Pending(d, u)' <=> Pending(d, u))
  BY <1>1, <1>2, IdleUnwind
<1>4. /\ 1 \in DOMAIN plan[d].todo /\ plan[d].todo[1] = "MakeNewBootSectionTemporary"
      /\ \A i \in DOMAIN plan[d].todo : i # 1 =>
           i - 1 \in DOMAIN Tail(plan[d].todo) /\ Tail(plan[d].todo)[i - 1] = plan[d].todo[i]
      /\ Tail(plan[d].todo) \in Seq(Undos)
  BY <1>3, TailFacts
<1>5. /\ 2 \in DOMAIN plan[d].todo /\ plan[d].todo[2] = "CloseBootSection"
      /\ Pending(d, "ReleaseBootLockEvent") /\ plan[d].created /\ ~plan[d].ready /\ plan[d].next >= 2
  BY <1>3, <1>4 DEF TodoInv
<1>6. th[d].holds /\ Created(d) /\ committed = {}
  BY <1>3, <1>5, Zenon DEF ControlInv, PlanInv, Created
<1>7. 1 \in DOMAIN plan'[d].todo /\ plan'[d].todo[1] = "CloseBootSection"
      /\ plan'[d].todo \in Seq(Undos)
  BY <1>3, <1>4, <1>5
<1>8. plan'[d].todo # <<>> /\ Head(plan'[d].todo) = "CloseBootSection"
  BY <1>7
<1>9. Created(d)' /\ Discards(d)'
  BY <1>1, <1>3, <1>6, <1>8, Zenon DEF Created, Discards
<1>10. section \in Sections /\ SectionInv /\ TypeOK /\ MintInv
  BY Zenon DEF IndInv, TypeOK
<1>11. /\ section' \in Sections /\ section'.named = section.named /\ section'.slots = section.slots
       /\ section'.seq = section.seq /\ Header' = Header
  BY <1>1, <1>10, Zenon DEF Sections, Header
<1>12. ~Settled
  BY <1>6, Zenon DEF Settled
<1>13. SectionInv'
  <2>1. ~(section'.seq # 0 /\ section'.seq % 2 = 0)
    BY <1>10, <1>11, <1>12, Zenon DEF SectionInv
  <2>2. Blank' \/ \E t \in Threads : th'[t].pc \in InFlight
    BY <1>1, <1>10, <1>11, <1>12, Zenon DEF SectionInv, Blank, NoImage
  <2> QED  BY <1>1, <1>6, <1>9, <2>1, <2>2, Zenon DEF SectionInv
<1>14. /\ Pending(d, "CloseBootSection")' <=> Pending(d, "CloseBootSection")
       /\ Pending(d, "ReleaseBootLockEvent")' <=> Pending(d, "ReleaseBootLockEvent")
  BY <1>3, UndoNames
<1>15. PlanInv(d)'
  BY <1>1, <1>3, <1>5, <1>6, <1>11, <1>14, Zenon DEF PlanInv, Created
<1>16. MintInv'
  BY <1>1, <1>10, Zenon DEF MintInv, IdentitiesUnique
<1>17. TypeOK' /\ Alone(d)
  BY <1>1, <1>3, <1>10, <1>11, Zenon DEF TypeOK, Alone
<1>18. section'.seq \in Nat /\ \A o \in Drivers : o # d /\ boot[o].handle => section'.named
  BY <1>10, <1>11, Zenon DEF Sections, IndInv, PlanInv
<1> QED  BY <1>1, <1>3, <1>6, <1>13, <1>15, <1>16, <1>17, <1>18, WriteStep, Zenon

\* A handle to a section nobody published in is the lock owner's.
LEMMA HandlesOwned ==
    ASSUME IndInv, NEW o \in Drivers, committed = {},
           boot[o].handle \/ (plan[o].pc = "unwinding" /\ Pending(o, "CloseBootSection"))
    PROVE  th[o].holds
<1>1. /\ o \in Threads /\ plan[o] \in Plans /\ ControlInv(o) /\ TodoInv(o) /\ PlanInv(o)
  BY ThreadFacts, Zenon DEF IndInv, TypeOK
<1>2. CASE plan[o].pc = "unwinding" /\ Pending(o, "CloseBootSection")
  <2>1. Pending(o, "ReleaseBootLockEvent")
    BY <1>1, <1>2, Zenon DEF PlanInv
  <2>2. th[o].pc = "idle"
    <3> SUFFICES ASSUME th[o].pc # "idle"  PROVE FALSE
      BY Zenon
    <3>1. /\ plan[o].todo # <<>> /\ Head(plan[o].todo) = "ReleaseBootLockEvent"
          /\ plan[o].todo \in Seq(Undos)
      BY <1>1, <1>2, Zenon DEF ControlInv, Plans
    <3>2. /\ 1 \in DOMAIN plan[o].todo /\ plan[o].todo[1] = "ReleaseBootLockEvent"
          /\ \A i \in DOMAIN plan[o].todo : i \in Nat /\ i >= 1
      BY <3>1, TailFacts, Zenon
    <3> QED  BY <1>1, <1>2, <3>2 DEF TodoInv, Pending
  <2> QED  BY <1>1, <1>2, <2>1, <2>2 DEF ControlInv
<1>3. CASE plan[o].pc = "loading" /\ plan[o].next \in 2..4
  <2>1. th[o].pc \in LoadPcs(plan[o].next)
    BY <1>1, <1>3, Zenon DEF ControlInv
  <2>2. CASE plan[o].next = 2
    <3>1. th[o].pc = "idle"
      BY <2>1, <2>2 DEF LoadPcs
    <3> QED  BY <1>1, <1>3, <2>2, <3>1 DEF ControlInv
  <2>3. CASE plan[o].next = 3
    BY <1>1, <1>3, <2>3, Zenon DEF ControlInv
  <2>4. CASE plan[o].next = 4
    <3>1. th[o].pc \in {"idle", "publish", "slots"} \cup Publishing
      BY <2>1, <2>4 DEF LoadPcs
    <3> QED  BY <1>1, <1>3, <2>4, <3>1 DEF ControlInv, Owning
  <2> QED  BY <1>3, <2>2, <2>3, <2>4
<1> QED  BY <1>1, <1>2, <1>3, Zenon DEF PlanInv

\* A temporary section goes with the handle that made it so; any other stays.
LEMMA CloseSectionStep ==
    ASSUME IndInv, NEW d \in Drivers, UndoCloseBootSection(d)
    PROVE  IndInv'
<1> DEFINE b == IF boot[d].at = "context" THEN [boot[d] EXCEPT !.handle = FALSE] ELSE boot[d]
<1>1. /\ Undoing(d, "CloseBootSection") /\ Undone(d) /\ boot' = [boot EXCEPT ![d] = b]
      /\ section' = IF boot[d].at = "context" THEN CloseSection(d) ELSE section
      /\ UNCHANGED <<event, th, committed, minted, reminted>>
  BY Zenon DEF UndoCloseBootSection, InContext
<1>2. "CloseBootSection" \in Undos /\ "ReleaseBootLockEvent" \in Undos
  BY UndoNames, Zenon
<1>3. /\ d \in Threads /\ th[d].pc \notin InFlight /\ th \in [Threads -> ThreadRecs]
      /\ boot \in [Drivers -> Boots]
      /\ plan[d].pc = "unwinding" /\ th[d].pc = "idle" /\ plan[d].todo # <<>>
      /\ Head(plan[d].todo) = "CloseBootSection" /\ plan[d].todo \in Seq(Undos)
      /\ ControlInv(d) /\ TodoInv(d) /\ PlanInv(d)
      /\ plan' \in [Drivers -> Plans] /\ \A o \in Drivers : o # d => plan'[o] = plan[o]
      /\ plan'[d].pc = "unwinding" /\ plan'[d].next = plan[d].next
      /\ plan'[d].created = plan[d].created /\ plan'[d].ready = plan[d].ready
      /\ ControlInv(d)' /\ TodoInv(d)' /\ PublishInv(d)' /\ ReadInv(d)'
      /\ \A u \in Undos : u # "CloseBootSection" => (Pending(d, u)' <=> Pending(d, u))
  BY <1>1, <1>2, IdleUnwind
<1>4. /\ b \in Boots /\ b.at = boot[d].at
      /\ b.handle => boot[d].handle /\ boot[d].at = "root"
  BY <1>3, Zenon DEF Boots
<1> HIDE DEF b
<1>5. /\ boot' \in [Drivers -> Boots] /\ boot'[d].at = boot[d].at
      /\ boot'[d].handle => boot[d].handle /\ boot[d].at = "root"
      /\ \A o \in Drivers : o # d => boot'[o] = boot[o]
  BY <1>1, <1>3, <1>4, Zenon
<1>6. Pending(d, "CloseBootSection")
      /\ (Pending(d, "ReleaseBootLockEvent")' <=> Pending(d, "ReleaseBootLockEvent"))
  <2>1. 1 \in DOMAIN plan[d].todo /\ plan[d].todo[1] = "CloseBootSection"
    BY <1>3, TailFacts, Zenon
  <2> QED  BY <1>2, <1>3, <2>1, Zenon DEF Pending
<1>7. boot[d].at = "root" => committed # {}
  BY <1>3, Zenon DEF PlanInv
<1>8. Created(d)' <=> Created(d)
  BY <1>1, <1>3, Zenon DEF Created
<1>9. section' = section \/ committed = {} => PlanInv(d)'
  <2>1. committed # {} => (boot'[d].handle => section.named)
    BY <1>3, <1>5, Zenon DEF PlanInv
  <2>2. committed = {} => ~boot'[d].handle /\ boot'[d].at # "root"
    BY <1>5, <1>7, Zenon
  <2>3. ~Pending(d, "ReleaseBootLockEvent") => committed # {}
    BY <1>3, <1>6, Zenon DEF PlanInv
  <2> QED  BY <1>1, <1>3, <1>5, <1>6, <1>7, <1>8, <2>1, <2>2, <2>3 DEF PlanInv
<1>10. CASE ~section.temporary
  <2>1. section' = section
    BY <1>1, <1>10, Zenon DEF CloseSection
  <2> QED  BY <1>1, <1>3, <1>5, <1>9, <1>10, <2>1, DriverStep
<1>11. CASE section.temporary
  <2>1. PICK e \in Drivers : Discards(e)
    BY <1>11, Zenon DEF IndInv, SectionInv
  <2>2. Created(e) /\ e \in Threads /\ PlanInv(e)
    BY <2>1, ThreadFacts, Zenon DEF Discards, IndInv
  <2>3. committed = {} /\ th[e].holds
    BY <2>2, Zenon DEF PlanInv, Created
  <2>4. th[d].holds
    BY <1>3, <1>6, <2>3, HandlesOwned, Zenon
  <2>5. \A o \in Drivers : o # d => ~boot[o].handle
    <3> SUFFICES ASSUME NEW o \in Drivers, o # d, boot[o].handle  PROVE FALSE
      BY Zenon
    <3>1. th[o].holds /\ o \in Threads
      BY <2>3, HandlesOwned, ThreadFacts, Zenon
    <3> QED  BY <1>3, <2>4, <3>1 DEF IndInv, LockInv, LockExact
  <2>6. boot[d].at = "context"
    BY <1>3, <1>7, <2>3, Zenon DEF Boots
  <2>7. section' = NoSection
    BY <1>1, <1>11, <2>5, <2>6, Zenon DEF CloseSection
  <2>8. /\ section' \in Sections /\ ~section'.temporary /\ ~section'.slots
        /\ section'.seq = 0 /\ section'.gen = 0 /\ section'.mount = 0 /\ section'.ready = FALSE
    BY <2>7, Zenon DEF NoSection, Sections
  <2>9. Blank'
    BY <2>8, Zenon DEF Blank, Header, NoImage
  <2>10. SectionInv'
    BY <1>1, <2>3, <2>8, <2>9 DEF SectionInv
  <2>11. MintInv' /\ TypeOK
    BY <1>1, Zenon DEF IndInv, MintInv, IdentitiesUnique
  <2>12. TypeOK' /\ Alone(d)
    BY <1>1, <1>3, <1>5, <2>8, <2>11 DEF TypeOK, Alone
  <2>13. section'.seq \in Nat /\ \A o \in Drivers : o # d /\ boot[o].handle => section'.named
    BY <2>5, <2>8
  <2> QED  BY <1>1, <1>3, <1>9, <2>3, <2>4, <2>10, <2>11, <2>12, <2>13, WriteStep
<1> QED  BY <1>10, <1>11, Zenon

\* The unwind gives the lock back.
LEMMA UndoReleaseStep ==
    ASSUME IndInv, NEW d \in Drivers, UndoReleaseBootLock(d)
    PROVE  IndInv'
<1>1. /\ plan[d].pc = "unwinding" /\ th[d].pc = "idle" /\ plan[d].todo # <<>>
      /\ Head(plan[d].todo) = "ReleaseBootLockEvent" /\ Goto(d, "release")
      /\ UNCHANGED <<event, section, boot, plan, committed, minted, reminted>>
  BY Zenon DEF UndoReleaseBootLock, Undoing, At
<1>2. /\ d \in Threads /\ d \notin Setups /\ ControlInv(d) /\ plan[d] \in Plans
      /\ boot \in [Drivers -> Boots]
  BY ThreadFacts, Zenon DEF IndInv, TypeOK
<1>3. th[d].pc \notin InFlight /\ ~Discards(d) /\ "release" \in ThreadPcs
  BY <1>1, Zenon DEF InFlight, Publishing, Discards, ThreadPcs, Owning
<1>4. th[d].holds
  <2>1. 1 \in DOMAIN plan[d].todo /\ plan[d].todo[1] = "ReleaseBootLockEvent"
    BY <1>1, <1>2, TailFacts, Zenon DEF Plans
  <2>2. Pending(d, "ReleaseBootLockEvent")
    BY <2>1, Zenon DEF Pending
  <2> QED  BY <1>1, <1>2, <2>2 DEF ControlInv
<1>5. ASSUME th'[d].pc = "release", th'[d].holds = th[d].holds
      PROVE  ControlInv(d)' /\ PublishInv(d)' /\ ReadInv(d)'
  <2>1. ControlInv(d)'
    BY <1>1, <1>2, <1>4, <1>5, Zenon DEF ControlInv, Releasing
  <2> QED  BY <1>5, <2>1, Zenon DEF PublishInv, ReadInv, Prepared, Publishing, Reading
<1>6. /\ boot' \in [Drivers -> Boots]
      /\ \A o \in Drivers : boot'[o].at = boot[o].at /\ boot'[o].handle = boot[o].handle
  BY <1>1, <1>2, Zenon
<1> QED  BY <1>1, <1>2, <1>3, <1>5, <1>6, GotoStep, Zenon

\* The end of an unwind and of an unload: nothing of the section is left.
LEMMA EndSteps ==
    ASSUME IndInv, NEW d \in Drivers, Unwound(d) \/ Unloaded(d)
    PROVE  IndInv'
<1>1. /\ plan' = [plan EXCEPT ![d] = NewPlan] /\ th' = [th EXCEPT ![d] = IdleThread]
      /\ UNCHANGED <<event, section, boot, committed, minted, reminted>>
      /\ plan[d].pc \in {"unwinding", "unloading"} /\ plan[d].todo = <<>>
  BY Zenon DEF Unwound, Unloaded
<1>2. /\ d \in Threads /\ d \notin Setups /\ ControlInv(d) /\ PlanInv(d)
      /\ boot \in [Drivers -> Boots] /\ plan \in [Drivers -> Plans]
      /\ th \in [Threads -> ThreadRecs] /\ th[d] \in ThreadRecs
  BY ThreadFacts, Zenon DEF IndInv, TypeOK
<1>3. \A e \in Undos : ~Pending(d, e)
  BY <1>1 DEF Pending
<1>4. th[d].pc = "idle" /\ ~th[d].holds
  BY <1>1, <1>2, <1>3, UndoNames, Zenon DEF ControlInv
<1>5. /\ th' \in [Threads -> ThreadRecs] /\ th'[d] = IdleThread
      /\ \A u \in Threads : u # d => th'[u] = th[u]
      /\ plan' \in [Drivers -> Plans] /\ plan'[d] = NewPlan
      /\ \A o \in Drivers : o # d => plan'[o] = plan[o]
  BY <1>1, <1>2, NewPlanFacts, Zenon
<1>6. th'[d].pc = "idle" /\ ~th'[d].holds /\ plan'[d].pc = "unloaded" /\ plan'[d].next = 0
  BY <1>5 DEF IdleThread, NewPlan
<1>7. th'[d].holds = th[d].holds
  BY <1>2, <1>4, <1>5, <1>6, Zenon DEF ThreadRecs
<1>8. th[d].pc \notin InFlight /\ ~Discards(d)
  BY <1>1, <1>4, Zenon DEF InFlight, Publishing, Discards
<1>9. ControlInv(d)' /\ PublishInv(d)' /\ ReadInv(d)' /\ TodoInv(d)'
  BY <1>2, <1>6 DEF ControlInv, PublishInv, ReadInv, TodoInv, Prepared, Owning, Publishing, Reading
<1>10. PlanInv(d)'
  <2>1. boot[d].handle => section.named /\ committed # {}
    BY <1>1, <1>2, <1>3, UndoNames, Zenon DEF PlanInv
  <2>2. boot[d].at = "root" => committed # {}
    BY <1>2, Zenon DEF PlanInv
  <2> QED  BY <1>1, <1>6, <2>1, <2>2, Zenon DEF PlanInv, Created
<1> QED  BY <1>1, <1>2, <1>5, <1>7, <1>8, <1>9, <1>10, DriverStep, Zenon

\* An unload finds a section that was published and leaves it.
LEMMA UnloadSteps ==
    ASSUME IndInv, NEW d \in Drivers, BeginUnload(d) \/ UnloadStep(d)
    PROVE  IndInv'
<1>1. /\ plan[d].pc \in {"loaded", "unloading"}
      /\ UNCHANGED <<event, th, committed, minted, reminted>>
  BY Zenon DEF BeginUnload, UnloadStep
<1>2. /\ d \in Threads /\ d \notin Setups /\ ControlInv(d) /\ PlanInv(d) /\ SectionInv
      /\ boot \in [Drivers -> Boots] /\ plan \in [Drivers -> Plans] /\ plan[d] \in Plans
      /\ th \in [Threads -> ThreadRecs] /\ boot[d] \in Boots
  BY ThreadFacts, Zenon DEF IndInv, TypeOK
<1>3. committed # {} /\ section.named /\ ~section.temporary
  BY <1>1, <1>2, Zenon DEF PlanInv, SectionInv
<1>4. th[d].pc = "idle" /\ ~th[d].holds /\ th[d].pc \notin InFlight
  BY <1>1, <1>2, Zenon DEF ControlInv, InFlight, Publishing
<1>5. /\ plan' \in [Drivers -> Plans] /\ plan'[d].pc = "unloading"
      /\ \A o \in Drivers : o # d => plan'[o] = plan[o]
  <2>1. CASE BeginUnload(d)
    <3> DEFINE p == [plan[d] EXCEPT !.pc = "unloading", !.todo = UNLOAD_EFFECTS]
    <3>1. plan' = [plan EXCEPT ![d] = p]
      BY <1>2, <2>1, Zenon DEF BeginUnload
    <3>2. UNLOAD_EFFECTS \in Seq(Undos)
      BY UndoNames DEF UNLOAD_EFFECTS
    <3>3. p \in Plans /\ p.pc = "unloading"
      BY <1>2, <3>2, Zenon DEF Plans
    <3> HIDE DEF p
    <3> QED  BY <1>2, <3>1, <3>3, Zenon
  <2>2. CASE UnloadStep(d)
    <3> DEFINE p == [plan[d] EXCEPT !.todo = Tail(plan[d].todo)]
    <3>1. plan' = [plan EXCEPT ![d] = p] /\ plan[d].pc = "unloading" /\ plan[d].todo # <<>>
      BY <1>2, <2>2, Zenon DEF UnloadStep, Undone
    <3>2. Tail(plan[d].todo) \in Seq(Undos)
      BY <1>2, <3>1, TailFacts, Zenon DEF Plans
    <3>3. p \in Plans /\ p.pc = "unloading"
      BY <1>2, <3>1, <3>2, Zenon DEF Plans
    <3> HIDE DEF p
    <3> QED  BY <1>2, <3>1, <3>3, Zenon
  <2> QED  BY <2>1, <2>2, Zenon
<1>6. section' = section
  BY <1>3, Zenon DEF BeginUnload, UnloadStep, CloseSection
<1>7. /\ boot' \in [Drivers -> Boots] /\ \A o \in Drivers : o # d => boot'[o] = boot[o]
  <2> DEFINE b == [boot[d] EXCEPT !.view = FALSE, !.handle = FALSE, !.lock = FALSE]
  <2>1. b \in Boots
    BY <1>2, Zenon DEF Boots
  <2>2. boot' = boot \/ boot' = [boot EXCEPT ![d] = b]
    BY <1>2, Zenon DEF BeginUnload, UnloadStep
  <2> HIDE DEF b
  <2> QED  BY <1>2, <2>1, <2>2, Zenon
<1>8. ControlInv(d)' /\ PublishInv(d)' /\ ReadInv(d)' /\ TodoInv(d)'
  BY <1>1, <1>2, <1>4, <1>5
     DEF ControlInv, PublishInv, ReadInv, TodoInv, Prepared, Owning, Publishing, Reading
<1>9. PlanInv(d)'
  BY <1>1, <1>3, <1>4, <1>5, <1>6, Zenon DEF PlanInv, Created
<1> QED  BY <1>1, <1>2, <1>3, <1>4, <1>5, <1>6, <1>7, <1>8, <1>9, DriverStep, Zenon

-----------------------------------------------------------------------------
(* SETUP.                                                                  *)

\* A SETUP captures, takes the lock, captures again and burns.
LEMMA SetupSteps ==
    ASSUME IndInv, NEW s \in Setups, SetupStart(s) \/ SetupStep(s)
    PROVE  IndInv'
<1>1. /\ s \in Threads /\ s \notin Drivers /\ ControlInv(s) /\ TypeOK
      /\ boot \in [Drivers -> Boots] /\ th \in [Threads -> ThreadRecs] /\ th[s] \in ThreadRecs
  BY ThreadFacts, Zenon DEF IndInv, TypeOK
<1>2. /\ th[s].pc \in {"idle", "captured", "burn"} /\ th[s].pc \notin InFlight
      /\ UNCHANGED <<event, section, boot, committed, minted, reminted>>
  BY Zenon DEF SetupStart, SetupStep, SetupIdentified, BurnMountId, BurnPlanned, At, InFlight, Publishing
<1>3. /\ boot' \in [Drivers -> Boots]
      /\ \A d \in Drivers : boot'[d].at = boot[d].at /\ boot'[d].handle = boot[d].handle
  BY <1>1, <1>2, Zenon
<1>4. {"capture", "enter", "publish"} \subseteq ThreadPcs
  BY DEF ThreadPcs, Owning
<1>5. ASSUME th'[s].pc = "capture"
      PROVE  ControlInv(s)' /\ PublishInv(s)' /\ ReadInv(s)'
  BY <1>1, <1>5, Zenon DEF ControlInv, PublishInv, ReadInv, Prepared, Owning, Publishing, Reading
<1>6. CASE SetupStart(s)
  <2> DEFINE r == [IdleThread EXCEPT !.pc = "capture"]
  <2>1. th[s].pc = "idle" /\ th' = [th EXCEPT ![s] = r] /\ plan' = plan
    BY <1>6, Zenon DEF SetupStart, At
  <2>2. r \in ThreadRecs /\ r.pc = "capture" /\ r.holds = FALSE
    BY <1>4, NewPlanFacts, Zenon DEF ThreadRecs, IdleThread
  <2>3. th[s].holds = FALSE
    BY <1>1, <2>1, Zenon DEF ControlInv, ThreadRecs
  <2> HIDE DEF r
  <2>4. /\ th' \in [Threads -> ThreadRecs] /\ th'[s].pc = "capture" /\ th'[s].holds = th[s].holds
        /\ \A u \in Threads : u # s => th'[u] = th[u]
    BY <1>1, <2>1, <2>2, <2>3, Zenon
  <2> QED  BY <1>1, <1>2, <1>3, <1>5, <2>1, <2>4, MoveStep
<1>7. CASE SetupIdentified(s)
  <2>1. Goto(s, "enter") /\ plan' = plan /\ ~th[s].holds
    BY <1>7 DEF SetupIdentified
  <2>2. ASSUME th'[s].pc = "enter", th'[s].holds = th[s].holds
        PROVE  ControlInv(s)' /\ PublishInv(s)' /\ ReadInv(s)'
    BY <1>1, <2>1, <2>2 DEF ControlInv, PublishInv, ReadInv, Prepared, Owning, Publishing, Reading
  <2> QED  BY <1>1, <1>2, <1>3, <1>4, <2>1, <2>2, GotoStep, Zenon
<1>8. CASE BurnMountId(s)
  <2>1. Goto(s, "capture") /\ plan' = plan
    BY <1>8, Zenon DEF BurnMountId
  <2> QED  BY <1>1, <1>2, <1>3, <1>4, <1>5, <2>1, GotoStep
<1>9. CASE BurnPlanned(s)
  <2>1. /\ th[s].pc = "captured" /\ th[s].holds
        /\ \/ /\ th' = [th EXCEPT ![s].pc = "publish", ![s].img = plan_mount_burn(th[s].img)]
              /\ plan' = plan
           \/ RefuseThread(s)
    BY <1>9, Zenon DEF BurnPlanned, At
  <2>2. CASE RefuseThread(s)
    BY <1>1, <1>2, <2>2, RefusedStep
  <2>3. CASE /\ th' = [th EXCEPT ![s].pc = "publish", ![s].img = plan_mount_burn(th[s].img)]
             /\ plan' = plan
    <3>1. plan_mount_burn(th[s].img) \in Images
      BY <1>1, PlannedImages, Zenon DEF ThreadRecs
    <3>2. /\ th' \in [Threads -> ThreadRecs] /\ th'[s].pc = "publish" /\ th'[s].holds = th[s].holds
          /\ th'[s].img = plan_mount_burn(th[s].img)
          /\ \A u \in Threads : u # s => th'[u] = th[u]
      BY <1>1, <1>4, <2>3, <3>1, Zenon DEF ThreadRecs
    <3>3. PublishInv(s)' /\ ReadInv(s)'
      BY <1>1, <1>2, <2>1, <3>2, PlannedFacts
    <3>4. ControlInv(s)'
      BY <1>1, <2>1, <3>2, Zenon DEF ControlInv
    <3> QED  BY <1>1, <1>2, <1>3, <2>3, <3>2, <3>3, <3>4, MoveStep
  <2> QED  BY <2>1, <2>2, <2>3, Zenon
<1> QED  BY <1>6, <1>7, <1>8, <1>9 DEF SetupStep

-----------------------------------------------------------------------------
(* The theorems.                                                           *)

\* Nothing is loaded, and there is no section, at the start.
LEMMA InitInv == Init => IndInv
<1> SUFFICES ASSUME Init  PROVE IndInv
  BY Zenon
<1>1. /\ event = [exists |-> FALSE, signalled |-> FALSE] /\ section = NoSection
      /\ \A d \in Drivers : boot[d] = NewBootObjects /\ plan[d] = NewPlan
      /\ \A t \in Threads : th[t] = IdleThread
      /\ committed = {} /\ minted = {} /\ reminted = FALSE
  BY Zenon DEF Init
<1>2. TypeOK
  <2>1. NoSection \in Sections
    BY Zenon DEF NoSection, Sections
  <2>2. /\ boot \in [Drivers -> Boots] /\ plan \in [Drivers -> Plans]
        /\ th \in [Threads -> ThreadRecs]
    BY NewPlanFacts, Zenon DEF Init
  <2>3. event \in [exists : BOOLEAN, signalled : BOOLEAN]
    BY <1>1, Zenon
  <2> QED  BY <1>1, <2>1, <2>2, <2>3, Zenon DEF TypeOK
<1>3. \A t \in Threads : th[t].pc = "idle" /\ ~th[t].holds
  BY <1>1 DEF IdleThread
<1>4. LockInv
  BY <1>1, <1>3, Zenon DEF LockInv, LockExact
<1>5. SectionInv
  <2>1. /\ ~section.temporary /\ ~section.slots /\ section.seq = 0 /\ section.gen = 0
        /\ section.mount = 0 /\ section.ready = FALSE
    BY <1>1, Zenon DEF NoSection
  <2>2. Blank
    BY <2>1, Zenon DEF Blank, Header, NoImage
  <2> QED  BY <1>1, <2>1, <2>2, Zenon DEF SectionInv
<1>6. MintInv
  BY <1>1, Zenon DEF MintInv, IdentitiesUnique
<1>7. \A d \in Drivers : /\ plan[d].pc = "unloaded" /\ plan[d].next = 0
                         /\ ~boot[d].handle /\ boot[d].at = "context"
  <2>1. NewPlan.pc = "unloaded" /\ NewPlan.next = 0
    BY Zenon DEF NewPlan
  <2>2. ~NewBootObjects.handle /\ NewBootObjects.at = "context"
    BY DEF NewBootObjects
  <2> QED  BY <1>1, <2>1, <2>2, Zenon
<1>8. \A t \in Threads : ControlInv(t) /\ PublishInv(t) /\ ReadInv(t)
  BY <1>3, <1>7 DEF ControlInv, PublishInv, ReadInv, Prepared, Owning, Publishing, Reading
<1>9. ASSUME NEW d \in Drivers  PROVE TodoInv(d) /\ PlanInv(d)
  <2>1. /\ plan[d].pc = "unloaded" /\ ~(plan[d].next >= 2)
        /\ ~boot[d].handle /\ boot[d].at = "context"
    BY <1>7
  <2> QED  BY <2>1, Zenon DEF TodoInv, PlanInv, Created
<1> QED  BY <1>2, <1>4, <1>5, <1>6, <1>8, <1>9 DEF IndInv

\* Every step keeps the invariant.
LEMMA StepInv == IndInv /\ [Next]_vars => IndInv'
<1> SUFFICES ASSUME IndInv, [Next]_vars  PROVE IndInv'
  BY Zenon
<1>1. ASSUME NEW t \in Threads, ThreadStep(t)  PROVE IndInv'
  <2>1. CASE Publish(t)
    BY <2>1, StoreSteps, SlotsSteps, CommitStep, Zenon DEF Publish
  <2> QED  BY <1>1, <2>1, AcquireSteps, CaptureSteps, ReleaseSteps DEF ThreadStep
<1>2. ASSUME NEW d \in Drivers, Load(d) \/ BeginUnload(d)  PROVE IndInv'
  BY <1>2, LoadStart, UnloadSteps
<1>3. ASSUME NEW d \in Drivers, LoadStep(d)  PROVE IndInv'
  <2>1. CASE \/ OpenAndAcquireBootLockEvent(d) \/ OpenOrCreateBootSection(d)
             \/ OpenSectionRefused(d) \/ FailEffect(d)
    BY <2>1, OpenEventStep, OpenSectionStep, FailSteps
  <2>2. CASE \/ MapSystemView(d) \/ AcquireResource(d) \/ ValidateOrInitialize(d)
             \/ AdoptContext(d) \/ PublishLoadGeneration(d) \/ ReleaseBootLockEvent(d)
    BY <2>2, ResourceSteps, ValidateStep, AdoptStep, EffectGotoSteps, Zenon
  <2>3. CASE \/ UndoResource(d) \/ UndoUnmapSystemView(d) \/ UndoCloseBootLock(d)
             \/ UndoMakeTemporary(d) \/ UndoCloseBootSection(d) \/ UndoReleaseBootLock(d)
    BY <2>3, UndoQuietSteps, MakeTemporaryStep, CloseSectionStep, UndoReleaseStep
  <2>4. CASE Unwound(d) \/ UnloadStep(d) \/ Unloaded(d)
    BY <2>4, EndSteps, UnloadSteps, Zenon
  <2> QED  BY <1>3, <2>1, <2>2, <2>3, <2>4, Zenon DEF LoadStep
<1>4. ASSUME NEW s \in Setups, SetupStart(s) \/ SetupStep(s)  PROVE IndInv'
  BY <1>4, SetupSteps
<1>5. CASE UNCHANGED vars
  <2>1. UNCHANGED <<event, section, boot, plan, th, committed, minted, reminted>>
    BY <1>5 DEF vars
  <2>2. TypeOK' /\ LockInv'
    BY <2>1 DEF IndInv, TypeOK, LockInv, LockExact
  <2>3. SectionInv' /\ MintInv'
    BY <2>1 DEF IndInv, SectionInv, Blank, Settled, Header, Discards, Created, MintInv, IdentitiesUnique
  <2>4. ASSUME NEW t \in Threads  PROVE ControlInv(t)' /\ PublishInv(t)' /\ ReadInv(t)'
    <3>1. ControlInv(t) /\ PublishInv(t) /\ ReadInv(t)
      BY DEF IndInv
    <3>2. ControlInv(t)'
      BY <2>1, <3>1, Zenon DEF ControlInv, Pending
    <3>3. PublishInv(t)'
      BY <2>1, <3>1 DEF PublishInv, Prepared, NextImage, Settled, Header
    <3>4. ReadInv(t)'
      BY <2>1, <3>1 DEF ReadInv, Header
    <3> QED  BY <3>2, <3>3, <3>4, Zenon
  <2>5. ASSUME NEW d \in Drivers  PROVE TodoInv(d)' /\ PlanInv(d)'
    BY <2>1 DEF IndInv, TodoInv, PlanInv, Created, Pending
  <2> QED  BY <2>2, <2>3, <2>4, <2>5, Zenon DEF IndInv
<1> QED  BY <1>1, <1>2, <1>3, <1>4, <1>5, Zenon DEF Next

\* The inductive invariant of the boot section and its lock.
THEOREM Invariant == Spec => []IndInv
BY InitInv, StepInv, PTL DEF Spec

\* The types of the state.
THEOREM TypeCorrect == Spec => []TypeOK
<1>1. IndInv => TypeOK
  BY Zenon DEF IndInv
<1> QED  BY <1>1, Invariant, PTL

\* At most one thread of all drivers owns the publication lock, and the event
\* is unsignalled exactly while one does: no failure path of acquire_guard,
\* release_lock_event, a load's unwind or a SETUP's rollback loses it.
THEOREM LockOwned == Spec => []LockExact
<1>1. IndInv => LockExact
  BY Zenon DEF IndInv, LockInv
<1> QED  BY <1>1, Invariant, PTL

\* No load generation and no mount sequence is handed out twice in a boot
\* (plan_existing_context, plan_mount_burn, publish_record).
THEOREM Identities == Spec => []IdentitiesUnique
<1>1. IndInv => IdentitiesUnique
  BY Zenon DEF IndInv, MintInv
<1> QED  BY <1>1, Invariant, PTL

\* capture_record accepts only images that were committed whole, with the lock
\* or without it.
THEOREM WholeCaptures == Spec => []CapturesWhole
<1>1. IndInv => CapturesWhole
  BY Zenon DEF IndInv, ReadInv, CapturesWhole, At
<1> QED  BY <1>1, Invariant, PTL

\* Between two owners of the lock the section is entirely zero or READY with
\* the newest committed image.
THEOREM Settles == Spec => []SettledSection
<1>1. IndInv => SettledSection
  <2> SUFFICES ASSUME IndInv, event.signalled, section.named
               PROVE  section = [NoSection EXCEPT !.named = TRUE] \/ Settled
    BY Zenon DEF SettledSection
  <2>1. /\ SectionInv /\ section \in Sections /\ LockInv
    BY Zenon DEF IndInv, TypeOK
  <2>2. \A t \in Threads : ~th[t].holds
    BY <2>1, Zenon DEF LockInv, LockExact
  <2>3. \A t \in Threads : th[t].pc \notin InFlight
    BY <2>2, PublisherFacts, Zenon
  <2>4. ~section.temporary
    <3>1. \A d \in Drivers : ~Discards(d)
      BY <2>2, ThreadFacts, Zenon DEF Discards, Created
    <3> QED  BY <2>1, <3>1, Zenon DEF SectionInv
  <2>5. Blank => section = [NoSection EXCEPT !.named = TRUE]
    <3> SUFFICES ASSUME Blank  PROVE section = [NoSection EXCEPT !.named = TRUE]
      BY Zenon
    <3>1. /\ ~section.slots /\ section.seq = 0 /\ section.gen = 0 /\ section.mount = 0
          /\ section.ready = FALSE
      BY Zenon DEF Blank, Header, NoImage
    <3>2. section.named = TRUE /\ section.temporary = FALSE /\ section.slots = FALSE
      BY <2>1, <2>4, <3>1, Zenon DEF Sections
    <3> DEFINE new == [NoSection EXCEPT !.named = TRUE]
    <3>3. /\ new \in Sections /\ new.named = TRUE /\ new.temporary = FALSE /\ new.slots = FALSE
          /\ new.seq = 0 /\ new.gen = 0 /\ new.mount = 0 /\ new.ready = FALSE
      BY Zenon DEF NoSection, Sections
    <3> HIDE DEF new
    <3>4. \A r \in Sections : r = [named |-> r.named, temporary |-> r.temporary, slots |-> r.slots,
                                   seq |-> r.seq, gen |-> r.gen, mount |-> r.mount,
                                   ready |-> r.ready]
      BY DEF Sections
    <3>5. section = new
      BY <2>1, <3>1, <3>2, <3>3, <3>4, Zenon
    <3> QED  BY <3>5, Zenon DEF new
  <2> QED  BY <2>1, <2>3, <2>5, Zenon DEF SectionInv
<1> QED  BY <1>1, Invariant, PTL
=============================================================================
