--------------------------- MODULE BootLoad_lemmas ---------------------------
(***************************************************************************)
(* The steps of a thread that has, waits for or gives back the boot lock,   *)
(* and that reads or writes the boot section, keep the inductive invariant  *)
(* of BootLoad.  BootLoad_theorems has the rest of a load, its rollback, an *)
(* unload and a setup, and the theorems.                                    *)
(***************************************************************************)
EXTENDS BootLoad, TLAPS

-----------------------------------------------------------------------------
(* The tables of effects.                                                  *)

\* Which effect of the table an effect's name is.
LEMMA EffectIndex ==
    ASSUME NEW n \in 0..14
    PROVE  /\ LOAD_EFFECTS[n + 1] = "OpenAndAcquireBootLockEvent" => n = 0
           /\ LOAD_EFFECTS[n + 1] = "OpenOrCreateBootSection" => n = 1
           /\ LOAD_EFFECTS[n + 1] = "MapSystemView" => n = 2
           /\ LOAD_EFFECTS[n + 1] = "ValidateOrInitialize" => n = 3
           /\ LOAD_EFFECTS[n + 1] = "PublishLoadGeneration" => n = 4
           /\ LOAD_EFFECTS[n + 1] = "ReleaseBootLockEvent" => n = 5
           /\ LOAD_EFFECTS[n + 1] = "AllocateDriverState" => n = 7
           /\ LOAD_EFFECTS[n + 1] \in MayFail => n # 4 /\ n # 5
<1>1. /\ LOAD_EFFECTS[1] = "OpenAndAcquireBootLockEvent"
      /\ LOAD_EFFECTS[2] = "OpenOrCreateBootSection" /\ LOAD_EFFECTS[3] = "MapSystemView"
      /\ LOAD_EFFECTS[4] = "ValidateOrInitialize" /\ LOAD_EFFECTS[5] = "PublishLoadGeneration"
      /\ LOAD_EFFECTS[6] = "ReleaseBootLockEvent" /\ LOAD_EFFECTS[7] = "RegisterEtw"
      /\ LOAD_EFFECTS[8] = "AllocateDriverState" /\ LOAD_EFFECTS[9] = "RegisterProcessNotify"
      /\ LOAD_EFFECTS[10] = "CreateProviderSecure" /\ LOAD_EFFECTS[11] = "CreateFscontrolSecure"
      /\ LOAD_EFFECTS[12] = "CreateProviderDosLink" /\ LOAD_EFFECTS[13] = "PublishProvider"
      /\ LOAD_EFFECTS[14] = "PublishFscontrol" /\ LOAD_EFFECTS[15] = "RegisterFilesystem"
  BY Zenon DEF LOAD_EFFECTS
<1>2. \/ n = 0 \/ n = 1 \/ n = 2 \/ n = 3 \/ n = 4 \/ n = 5 \/ n = 6 \/ n = 7
      \/ n = 8 \/ n = 9 \/ n = 10 \/ n = 11 \/ n = 12 \/ n = 13 \/ n = 14
  OBVIOUS
<1>3. LOAD_EFFECTS[n + 1] \in MayFail => n # 4 /\ n # 5
  BY <1>1 DEF MayFail
<1> QED  BY <1>1, <1>2, <1>3

\* The rollback's effects are those of the tables.
LEMMA UndoNames ==
    /\ {"UnmapSystemView", "MakeNewBootSectionTemporary", "CloseBootSection",
        "ReleaseBootLockEvent", "CloseBootLockEvent", "ReleaseBootObjects",
        "UnpublishFscontrol", "UnpublishProvider", "RemoveProviderDosLink",
        "DeleteFscontrol", "DeleteProvider", "UnregisterProcessNotify",
        "UnregisterEtw", "UnregisterFilesystem", "ReleaseDriverState"} \subseteq Undos
    /\ DOMAIN Returns \cap {"UnmapSystemView", "MakeNewBootSectionTemporary", "CloseBootSection",
        "ReleaseBootLockEvent", "CloseBootLockEvent", "ReleaseBootObjects"} = {}
BY Zenon DEF Undos, Returns

\* What is left of a table after its first h effects.
LEMMA TableTail ==
    ASSUME NEW s \in Seq(Undos), NEW h \in Nat, h <= Len(s)
    PROVE  LET w == SubSeq(s, h + 1, Len(s))
           IN  /\ w \in Seq(Undos) /\ Len(w) = Len(s) - h
               /\ \A i \in 1 .. Len(s) - h : w[i] = s[h + i]
<1> DEFINE w == SubSeq(s, h + 1, Len(s))
<1>1. h + 1 \in Int /\ Len(s) \in Nat /\ \A i \in h + 1 .. Len(s) : s[i] \in Undos
  OBVIOUS
<1>2. /\ w \in Seq(Undos)
      /\ Len(w) = IF h + 1 <= Len(s) THEN Len(s) - (h + 1) + 1 ELSE 0
      /\ \A i \in 1 .. Len(s) - (h + 1) + 1 : w[i] = s[h + 1 + i - 1]
  BY <1>1
<1> QED  BY <1>1, <1>2

\* What a failed load has to undo.  With five effects or fewer it still owns the
\* lock, and gives it back after the section, which it makes temporary first if
\* it created it; with more it owns neither.
LEMMA Unwinds ==
    ASSUME NEW p, p.next \in 0..14, p.created \in BOOLEAN, p.ready \in BOOLEAN,
           p.next > 5 => p.ready
    PROVE  LET s == rollback_effects(p)
           IN  /\ s \in Seq(Undos)
               /\ p.next \in 1..5 <=> \E i \in DOMAIN s : s[i] = "ReleaseBootLockEvent"
               /\ p.next >= 2 => \E i \in DOMAIN s : s[i] = "CloseBootSection"
               /\ \A i, j \in DOMAIN s : s[i] = "ReleaseBootLockEvent" =>
                     /\ s[j] = "ReleaseBootLockEvent" => i = j
                     /\ s[j] = "CloseBootSection" => j < i
               /\ \A i \in DOMAIN s : s[i] = "MakeNewBootSectionTemporary" =>
                     /\ i + 1 \in DOMAIN s /\ s[i + 1] = "CloseBootSection"
                     /\ p.next \in 2..5 /\ p.created /\ ~p.ready
               /\ \A i \in DOMAIN s : s[i] = "CloseBootSection" => p.next >= 2
<1>1. CASE p.next = 0
  <2>1. rollback_effects(p) = <<>>
    BY <1>1 DEF rollback_effects, BootUndo, lock_event_open, section_open, system_view_mapped
  <2> QED  BY <1>1, <2>1
<1>2. CASE p.next = 1
  <2>1. rollback_effects(p) = <<"ReleaseBootLockEvent", "CloseBootLockEvent">>
    BY <1>2 DEF rollback_effects, BootUndo, lock_event_open, section_open, system_view_mapped
  <2> QED  BY <1>2, <2>1, UndoNames
<1>3. CASE p.next = 2 /\ p.created /\ ~p.ready
  <2>1. rollback_effects(p) = <<"MakeNewBootSectionTemporary", "CloseBootSection",
                 "ReleaseBootLockEvent", "CloseBootLockEvent">>
    BY <1>3 DEF rollback_effects, BootUndo, lock_event_open, section_open, system_view_mapped
  <2> QED  BY <1>3, <2>1, UndoNames
<1>4. CASE p.next = 2 /\ ~(p.created /\ ~p.ready)
  <2>1. rollback_effects(p) = <<"CloseBootSection", "ReleaseBootLockEvent", "CloseBootLockEvent">>
    BY <1>4 DEF rollback_effects, BootUndo, lock_event_open, section_open, system_view_mapped
  <2> QED  BY <1>4, <2>1, UndoNames
<1>5. CASE p.next \in 3..5 /\ p.created /\ ~p.ready
  <2>1. rollback_effects(p) =
          <<"UnmapSystemView", "MakeNewBootSectionTemporary", "CloseBootSection",
            "ReleaseBootLockEvent", "CloseBootLockEvent">>
    BY <1>5 DEF rollback_effects, BootUndo, lock_event_open, section_open, system_view_mapped,
                lock_event_held
  <2> QED  BY <1>5, <2>1, UndoNames
<1>6. CASE p.next \in 3..5 /\ ~(p.created /\ ~p.ready)
  <2>1. rollback_effects(p) = <<"UnmapSystemView", "CloseBootSection",
                                "ReleaseBootLockEvent", "CloseBootLockEvent">>
    BY <1>6 DEF rollback_effects, BootUndo, lock_event_open, section_open, system_view_mapped,
                lock_event_held
  <2> QED  BY <1>6, <2>1, UndoNames
<1>7. CASE p.next = 6
  <2>1. rollback_effects(p) = <<"UnmapSystemView", "CloseBootSection", "CloseBootLockEvent">>
    BY <1>7 DEF rollback_effects, BootUndo, lock_event_open, section_open, system_view_mapped,
                lock_event_held
  <2> QED  BY <1>7, <2>1, UndoNames
<1>8. CASE p.next \in 7..14
  <2> DEFINE table == ROLLBACK_FSCONTROL_PUBLISHED
             h == 14 - p.next
  <2>1. /\ table \in Seq(Undos) /\ Len(table) = 11 /\ table[10] = "CloseBootSection"
        /\ \A i \in 1..11 : table[i] \notin {"ReleaseBootLockEvent", "MakeNewBootSectionTemporary"}
    <3>1. /\ table[1] = "UnpublishFscontrol" /\ table[2] = "UnpublishProvider"
          /\ table[3] = "RemoveProviderDosLink" /\ table[4] = "DeleteFscontrol"
          /\ table[5] = "DeleteProvider" /\ table[6] = "UnregisterProcessNotify"
          /\ table[7] = "ReleaseDriverState" /\ table[8] = "UnregisterEtw"
          /\ table[9] = "UnmapSystemView" /\ table[10] = "CloseBootSection"
          /\ table[11] = "CloseBootLockEvent"
      BY Zenon DEF ROLLBACK_FSCONTROL_PUBLISHED
    <3>2. table \in Seq(Undos) /\ Len(table) = 11
      BY UndoNames DEF ROLLBACK_FSCONTROL_PUBLISHED
    <3>3. ASSUME NEW i \in 1..11
          PROVE  table[i] \notin {"ReleaseBootLockEvent", "MakeNewBootSectionTemporary"}
      <4>1. \/ i = 1 \/ i = 2 \/ i = 3 \/ i = 4 \/ i = 5 \/ i = 6
            \/ i = 7 \/ i = 8 \/ i = 9 \/ i = 10 \/ i = 11
        OBVIOUS
      <4> QED  BY <3>1, <4>1, Zenon
    <3> QED  BY <3>1, <3>2, <3>3, Zenon
  <2>2. h \in Nat /\ h <= 7 /\ h <= Len(table) /\ h + 1 = 15 - p.next
    BY <1>8, <2>1
  <2> HIDE DEF table, h
  <2> DEFINE w == SubSeq(table, h + 1, Len(table))
  <2>3. /\ w \in Seq(Undos) /\ Len(w) = Len(table) - h
        /\ \A i \in 1 .. Len(table) - h : w[i] = table[h + i]
    <3>1. table \in Seq(Undos) /\ h \in Nat /\ h <= Len(table)
      BY <2>1, <2>2, Zenon
    <3> QED  BY <3>1, TableTail, Zenon
  <2>4. rollback_effects(p) = w
    <3>1. w = SubSeq(table, 15 - p.next, 11)
      BY <2>1, <2>2, Zenon
    <3>2. p.next > 6
      BY <1>8
    <3> QED  BY <3>1, <3>2, Zenon DEF rollback_effects, table
  <2>5. DOMAIN w = 1 .. 11 - h /\ \A i \in 1 .. 11 - h : w[i] = table[h + i] /\ h + i \in 1..11
    BY <2>1, <2>2, <2>3
  <2>6. w[10 - h] = "CloseBootSection" /\ 10 - h \in DOMAIN w
    BY <2>1, <2>2, <2>5
  <2>7. \A i \in DOMAIN w : w[i] \notin {"ReleaseBootLockEvent", "MakeNewBootSectionTemporary"}
    BY <2>1, <2>5, Zenon
  <2>8. w \in Seq(Undos) /\ rollback_effects(p) = w
    BY <2>3, <2>4, Zenon
  <2>9. p.next \notin 1..5 /\ p.next >= 2
    BY <1>8
  <2> HIDE DEF w
  <2> QED  BY <2>6, <2>7, <2>8, <2>9, Zenon
<1> QED  BY <1>1, <1>2, <1>3, <1>4, <1>5, <1>6, <1>7, <1>8
-----------------------------------------------------------------------------
(* What a step of one thread leaves alone.                                 *)

\* Nobody but t moves.
Alone(t) ==
    /\ \A u \in Threads : u # t => th'[u] = th[u]
    /\ \A d \in Drivers : d # t => /\ plan'[d] = plan[d]
                                   /\ boot'[d].at = boot[d].at /\ boot'[d].handle = boot[d].handle

\* Drivers and setups are different threads, each with a driver whose root it works on.
LEMMA ThreadFacts ==
    /\ Drivers \subseteq Threads /\ Setups \subseteq Threads
    /\ \A t \in Threads : t \in Drivers <=> t \notin Setups
    /\ \A t \in Threads : Root(t) \in Drivers
BY BootLoadAssumption, Zenon DEF Threads, Root

\* What the guard's release writes in a driver's root leaves its place and its
\* handle alone.
LEMMA RootWritten ==
    ASSUME boot \in [Drivers -> Boots], NEW t \in Threads,
           \/ boot' = [boot EXCEPT ![Root(t)].held = FALSE]
           \/ boot' = [boot EXCEPT ![Root(t)].guard = FALSE]
    PROVE  /\ boot' \in [Drivers -> Boots]
           /\ \A d \in Drivers : boot'[d].at = boot[d].at /\ boot'[d].handle = boot[d].handle
<1> DEFINE r == Root(t)
<1>1. r \in Drivers
  BY ThreadFacts, Zenon
<1> HIDE DEF r
<1>2. \/ boot' = [boot EXCEPT ![r].held = FALSE]
      \/ boot' = [boot EXCEPT ![r].guard = FALSE]
  BY Zenon DEF r
<1> DEFINE b == [boot[r] EXCEPT !.held = FALSE]
           c == [boot[r] EXCEPT !.guard = FALSE]
<1>3. boot' = [boot EXCEPT ![r] = b] \/ boot' = [boot EXCEPT ![r] = c]
  BY <1>1, <1>2, Zenon
<1>4. boot[r] \in Boots
  BY <1>1, Zenon
<1>5. b \in Boots /\ b.at = boot[r].at /\ b.handle = boot[r].handle
  BY <1>4, Zenon DEF Boots
<1>6. c \in Boots /\ c.at = boot[r].at /\ c.handle = boot[r].handle
  BY <1>4, Zenon DEF Boots
<1> HIDE DEF b, c
<1> QED  BY <1>1, <1>3, <1>5, <1>6, Zenon

\* The lock is where it was if nobody took it or gave it back.
LEMMA LockKept ==
    ASSUME LockInv, event' = event, \A t \in Threads : th'[t].holds = th[t].holds
    PROVE  LockInv'
BY Zenon DEF LockInv, LockExact

\* What is said of the other threads still holds after a step of t that leaves
\* the section alone.
LEMMA OthersKept ==
    ASSUME IndInv, NEW t \in Threads, Alone(t), section' = section, committed' = committed,
           NEW u \in Threads, u # t
    PROVE  /\ ControlInv(u)' /\ PublishInv(u)' /\ ReadInv(u)'
           /\ u \in Drivers => TodoInv(u)' /\ PlanInv(u)'
<1>1. /\ ControlInv(u) /\ PublishInv(u) /\ ReadInv(u)
      /\ u \in Drivers => TodoInv(u) /\ PlanInv(u)
  BY Zenon DEF IndInv
<1>2. /\ th'[u] = th[u]
      /\ u \in Drivers => /\ plan'[u] = plan[u]
                          /\ boot'[u].at = boot[u].at /\ boot'[u].handle = boot[u].handle
  BY Zenon DEF Alone
<1>3. ControlInv(u)'
  BY <1>1, <1>2, Zenon DEF ControlInv, Pending
<1>4. PublishInv(u)'
  BY <1>1, <1>2 DEF PublishInv, Prepared, NextImage, Settled, Header
<1>5. ReadInv(u)'
  BY <1>1, <1>2, Zenon DEF ReadInv, Header
<1>6. u \in Drivers => TodoInv(u)'
  BY <1>1, <1>2 DEF TodoInv, Pending
<1>7. u \in Drivers => PlanInv(u)'
  BY <1>1, <1>2, Zenon DEF PlanInv, Created, Pending
<1> QED  BY <1>3, <1>4, <1>5, <1>6, <1>7, Zenon

\* The section stays as it is, and so does what is said of it.
LEMMA SectionKept ==
    ASSUME IndInv, NEW t \in Threads, Alone(t), section' = section, committed' = committed,
           th[t].pc \notin InFlight, t \in Drivers /\ section.temporary => ~Discards(t)
    PROVE  SectionInv'
<1>1. SectionInv
  BY Zenon DEF IndInv
<1>2. (Header = NoImage) <=> (Header' = NoImage)
  BY Zenon DEF Header
<1>3. Blank' = Blank /\ Settled' = Settled
  BY <1>2, Zenon DEF Blank, Settled, Header
<1>4. ASSUME NEW u \in Threads, th[u].pc \in InFlight
      PROVE  th'[u].pc \in InFlight
  BY <1>4, Zenon DEF Alone
<1>5. ASSUME NEW d \in Drivers, Discards(d), section.temporary
      PROVE  Discards(d)'
  <2>1. d # t /\ d \in Threads
    BY <1>5, ThreadFacts, Zenon
  <2>2. th'[d] = th[d] /\ plan'[d] = plan[d]
    BY <2>1, Zenon DEF Alone
  <2> QED  BY <1>5, <2>2, Zenon DEF Discards, Created
<1> QED  BY <1>1, <1>3, <1>4, <1>5, Zenon DEF SectionInv

\* A step that leaves the section alone has only its own thread to answer for.
LEMMA QuietStep ==
    ASSUME IndInv, NEW t \in Threads, Alone(t), UNCHANGED <<section, committed, minted, reminted>>,
           th[t].pc \notin InFlight, t \in Drivers /\ section.temporary => ~Discards(t),
           TypeOK', LockInv', ControlInv(t)', PublishInv(t)', ReadInv(t)',
           t \in Drivers => TodoInv(t)' /\ PlanInv(t)'
    PROVE  IndInv'
<1>1. SectionInv'
  BY SectionKept, Zenon
<1>2. MintInv'
  BY Zenon DEF IndInv, MintInv, IdentitiesUnique
<1>3. \A u \in Threads : ControlInv(u)' /\ PublishInv(u)' /\ ReadInv(u)'
  BY OthersKept, Zenon
<1>4. \A d \in Drivers : TodoInv(d)' /\ PlanInv(d)'
  BY OthersKept, ThreadFacts, Zenon
<1> QED  BY <1>1, <1>2, <1>3, <1>4, Zenon DEF IndInv

-----------------------------------------------------------------------------
(* The steps, by what they do to the actor.                                *)

\* A thread that only moves on.
LEMMA GotoFacts ==
    ASSUME TypeOK, NEW t \in Threads, NEW pc \in ThreadPcs, Goto(t, pc)
    PROVE  /\ th' \in [Threads -> ThreadRecs]
           /\ th'[t].pc = pc /\ th'[t].holds = th[t].holds
           /\ th'[t].img = th[t].img /\ th'[t].first = th[t].first
           /\ \A u \in Threads : u # t => th'[u] = th[u]
           /\ \A u \in Threads : th'[u].holds = th[u].holds
BY Zenon DEF TypeOK, Goto, ThreadRecs

\* The rest of an unwind.
LEMMA TailFacts ==
    ASSUME NEW S, NEW s \in Seq(S), s # <<>>
    PROVE  /\ Tail(s) \in Seq(S) /\ 1 \in DOMAIN s /\ Head(s) = s[1]
           /\ \A i \in DOMAIN Tail(s) : i + 1 \in DOMAIN s /\ Tail(s)[i] = s[i + 1]
           /\ \A i \in DOMAIN s : i # 1 => i - 1 \in DOMAIN Tail(s) /\ Tail(s)[i - 1] = s[i]
           /\ \A i \in DOMAIN s : i \in Nat /\ i >= 1
OBVIOUS

\* A load that fails owns the lock exactly if its unwind gives it back, and the
\* section exactly if its unwind closes it.
LEMMA FailedStep ==
    ASSUME IndInv, NEW d \in Drivers, plan[d].pc = "loading",
           plan[d].next \notin {4, 5}, th[d].holds <=> plan[d].next \in 1..5,
           plan'[d] = Failed(plan[d]), th'[d].pc = "idle", th'[d].holds = th[d].holds,
           boot'[d].at = boot[d].at, boot'[d].handle = boot[d].handle,
           section.named => section'.named, committed' = committed
    PROVE  /\ ControlInv(d)' /\ TodoInv(d)' /\ PlanInv(d)' /\ PublishInv(d)' /\ ReadInv(d)'
           /\ Failed(plan[d]) \in Plans
<1> DEFINE p == plan[d]
           s == rollback_effects(p)
<1>1. p \in Plans /\ d \in Threads /\ d \notin Setups
  BY ThreadFacts, Zenon DEF IndInv, TypeOK
<1>2. ControlInv(d) /\ PlanInv(d)
  BY <1>1, Zenon DEF IndInv
<1>3. /\ p.next \in 0..14 /\ p.created \in BOOLEAN /\ p.ready \in BOOLEAN
      /\ p.next > 5 => p.ready
  BY <1>1, <1>2 DEF Plans, ControlInv, PlanInv
<1>4. /\ s \in Seq(Undos)
      /\ p.next \in 1..5 <=> \E i \in DOMAIN s : s[i] = "ReleaseBootLockEvent"
      /\ p.next >= 2 => \E i \in DOMAIN s : s[i] = "CloseBootSection"
      /\ \A i, j \in DOMAIN s : s[i] = "ReleaseBootLockEvent" =>
            /\ s[j] = "ReleaseBootLockEvent" => i = j
            /\ s[j] = "CloseBootSection" => j < i
      /\ \A i \in DOMAIN s : s[i] = "MakeNewBootSectionTemporary" =>
            /\ i + 1 \in DOMAIN s /\ s[i + 1] = "CloseBootSection"
            /\ p.next \in 2..5 /\ p.created /\ ~p.ready
      /\ \A i \in DOMAIN s : s[i] = "CloseBootSection" => p.next >= 2
  BY <1>3, Unwinds, Zenon
<1> HIDE DEF s
<1>5. /\ Failed(p) \in Plans
      /\ Failed(p).pc = "unwinding" /\ Failed(p).todo = s /\ Failed(p).next = p.next
      /\ Failed(p).created = p.created /\ Failed(p).ready = p.ready
  BY <1>1, <1>4, Zenon DEF Failed, Plans, s
<1>6. /\ plan'[d].pc = "unwinding" /\ plan'[d].todo = s /\ plan'[d].next = p.next
      /\ plan'[d].created = p.created /\ plan'[d].ready = p.ready
  BY <1>5, Zenon
<1> HIDE DEF p
<1>7. /\ Pending(d, "ReleaseBootLockEvent")' <=> p.next \in 1..5
      /\ p.next >= 2 <=> Pending(d, "CloseBootSection")'
  BY <1>4, <1>6, Zenon DEF Pending
<1>8. ControlInv(d)'
  BY <1>1, <1>6, <1>7, Zenon DEF ControlInv, Owning, Publishing, Releasing, p
<1>9. TodoInv(d)'
  <2>1. p.next \in 2..5 => p.next \in 1..5 /\ p.next >= 2
    BY <1>3
  <2>2. p.next \in 2..5 => Pending(d, "ReleaseBootLockEvent")' /\ p.next >= 2
    BY <1>7, <2>1, Zenon
  <2> QED  BY <1>4, <1>6, <2>2 DEF TodoInv
<1>10. PlanInv(d)'
  <2>1. Created(d)' <=> Created(d)
    BY <1>6, Zenon DEF Created, p
  <2>2. Pending(d, "CloseBootSection")' /\ ~Pending(d, "ReleaseBootLockEvent")' => committed # {}
    BY <1>2, <1>3, <1>7 DEF PlanInv, p
  <2>3. boot[d].handle /\ committed = {} => Pending(d, "CloseBootSection")'
    BY <1>2, <1>7 DEF PlanInv, p
  <2>4. boot[d].at = "root" => committed # {}
    BY <1>2, Zenon DEF PlanInv
  <2> QED  BY <1>2, <1>6, <2>1, <2>2, <2>3, <2>4, Zenon DEF PlanInv
<1>11. PublishInv(d)' /\ ReadInv(d)'
  BY <1>6, Zenon DEF PublishInv, Prepared, ReadInv, Publishing, Reading
<1> QED  BY <1>5, <1>8, <1>9, <1>10, <1>11, Zenon DEF p

\* What is left of an unwind after its next effect.
LEMMA UndoneStep ==
    ASSUME IndInv, NEW d \in Drivers, plan[d].pc = "unwinding", plan[d].todo # <<>>,
           plan'[d] = [plan[d] EXCEPT !.todo = Tail(@)], th'[d].pc = "idle",
           th'[d].holds <=> th[d].pc = "idle" /\ th[d].holds
                            /\ Head(plan[d].todo) # "ReleaseBootLockEvent",
           th[d].pc = "idle" => Head(plan[d].todo) # "ReleaseBootLockEvent"
    PROVE  /\ plan'[d] \in Plans /\ ControlInv(d)' /\ TodoInv(d)' /\ PublishInv(d)' /\ ReadInv(d)'
           /\ \A e \in Undos : e # Head(plan[d].todo) => (Pending(d, e)' <=> Pending(d, e))
           /\ Head(plan[d].todo) = "ReleaseBootLockEvent" => ~Pending(d, "ReleaseBootLockEvent")'
           /\ Head(plan[d].todo) = "CloseBootSection" =>
                (th[d].holds <=> Pending(d, "ReleaseBootLockEvent"))
<1> DEFINE s == plan[d].todo
           r == Tail(s)
<1>1. plan[d] \in Plans /\ d \in Threads /\ d \notin Setups
  BY ThreadFacts, Zenon DEF IndInv, TypeOK
<1>2. ControlInv(d) /\ TodoInv(d)
  BY <1>1, Zenon DEF IndInv
<1>3. /\ r \in Seq(Undos) /\ 1 \in DOMAIN s /\ Head(s) = s[1]
      /\ \A i \in DOMAIN r : i + 1 \in DOMAIN s /\ r[i] = s[i + 1]
      /\ \A i \in DOMAIN s : i # 1 => i - 1 \in DOMAIN r /\ r[i - 1] = s[i]
      /\ \A i \in DOMAIN s : i \in Nat /\ i >= 1
  <2>1. s \in Seq(Undos) /\ s # <<>>
    BY <1>1, Zenon DEF Plans
  <2> HIDE DEF s
  <2> QED  BY <2>1, TailFacts, Zenon
<1>4. /\ plan'[d] \in Plans /\ plan'[d].pc = "unwinding" /\ plan'[d].todo = r
      /\ plan'[d].created = plan[d].created /\ plan'[d].ready = plan[d].ready
      /\ plan'[d].next = plan[d].next
  BY <1>1, <1>3, Zenon DEF Plans
<1>5. \A i \in DOMAIN r : i \in Nat /\ i >= 1
  BY <1>3
<1> HIDE DEF s, r
<1>6. ASSUME NEW e \in Undos, e # Head(s)
      PROVE  Pending(d, e)' <=> Pending(d, e)
  <2>1. Pending(d, e)' => Pending(d, e)
    BY <1>3, <1>4 DEF Pending, s
  <2>2. ASSUME Pending(d, e)  PROVE Pending(d, e)'
    <3>1. PICK i \in DOMAIN s : s[i] = e
      BY <2>2, Zenon DEF Pending, s
    <3>2. i - 1 \in DOMAIN r /\ r[i - 1] = e
      BY <1>3, <1>6, <3>1, Zenon
    <3> QED  BY <1>4, <3>2, Zenon DEF Pending
  <2> QED  BY <2>1, <2>2, Zenon
<1>7. /\ \A i, j \in DOMAIN s : s[i] = "ReleaseBootLockEvent" =>
           /\ s[j] = "ReleaseBootLockEvent" => i = j
           /\ s[j] = "CloseBootSection" => j < i
      /\ \A i \in DOMAIN s : s[i] = "MakeNewBootSectionTemporary" =>
           /\ i + 1 \in DOMAIN s /\ s[i + 1] = "CloseBootSection"
           /\ Pending(d, "ReleaseBootLockEvent")
           /\ plan[d].created /\ ~plan[d].ready /\ plan[d].next >= 2
  BY <1>2, Zenon DEF TodoInv, s
<1>8. Head(s) = "ReleaseBootLockEvent" => ~Pending(d, "ReleaseBootLockEvent")'
  <2> SUFFICES ASSUME s[1] = "ReleaseBootLockEvent", NEW i \in DOMAIN r,
                      r[i] = "ReleaseBootLockEvent"
               PROVE  FALSE
    BY <1>3, <1>4, Zenon DEF Pending
  <2>1. i + 1 \in DOMAIN s /\ s[i + 1] = "ReleaseBootLockEvent" /\ i + 1 # 1
    BY <1>3, <1>5
  <2> QED  BY <1>3, <1>7, <2>1, Zenon
<1>9. th[d].pc = "idle" => (th[d].holds <=> Pending(d, "ReleaseBootLockEvent"))
  BY <1>2, Zenon DEF ControlInv
<1>10. th[d].pc # "idle" => Head(s) = "ReleaseBootLockEvent"
  BY <1>2, Zenon DEF ControlInv, s
<1>11. "ReleaseBootLockEvent" \in Undos /\ "CloseBootSection" # "ReleaseBootLockEvent"
  BY UndoNames, Zenon
<1>12. th'[d].holds <=> Pending(d, "ReleaseBootLockEvent")'
  BY <1>6, <1>8, <1>9, <1>10, <1>11, Zenon DEF s
<1>13. ControlInv(d)'
  BY <1>1, <1>4, <1>12, Zenon DEF ControlInv, Owning, Publishing
<1>14. TodoInv(d)'
  <2>1. ASSUME NEW i \in DOMAIN r, NEW j \in DOMAIN r, r[i] = "ReleaseBootLockEvent"
        PROVE  /\ r[j] = "ReleaseBootLockEvent" => i = j
               /\ r[j] = "CloseBootSection" => j < i
    <3>1. i + 1 \in DOMAIN s /\ j + 1 \in DOMAIN s /\ s[i + 1] = r[i] /\ s[j + 1] = r[j]
      BY <1>3, Zenon
    <3> QED  BY <1>5, <1>7, <2>1, <3>1
  <2>2. ASSUME NEW i \in DOMAIN r, r[i] = "MakeNewBootSectionTemporary"
        PROVE  /\ i + 1 \in DOMAIN r /\ r[i + 1] = "CloseBootSection"
               /\ Pending(d, "ReleaseBootLockEvent")'
               /\ plan[d].created /\ ~plan[d].ready /\ plan[d].next >= 2
    <3>1. i + 1 \in DOMAIN s /\ s[i + 1] = "MakeNewBootSectionTemporary"
      BY <1>3, <2>2, Zenon
    <3>2. /\ i + 2 \in DOMAIN s /\ s[i + 2] = "CloseBootSection"
          /\ Pending(d, "ReleaseBootLockEvent")
          /\ plan[d].created /\ ~plan[d].ready /\ plan[d].next >= 2
      <4>1. (i + 1) + 1 = i + 2
        BY <1>5
      <4> QED  BY <1>7, <3>1, <4>1, Zenon
    <3>3. i + 1 \in DOMAIN r /\ r[i + 1] = "CloseBootSection"
      BY <1>3, <1>5, <3>2
    <3>4. Head(s) # "ReleaseBootLockEvent"
      <4>1. i + 2 > 1
        BY <1>5
      <4> QED  BY <1>3, <1>7, <3>2, <4>1
    <3> QED  BY <1>6, <1>11, <3>2, <3>3, <3>4, Zenon
  <2> QED  BY <1>4, <2>1, <2>2, Zenon DEF TodoInv
<1>15. PublishInv(d)' /\ ReadInv(d)'
  BY <1>4, Zenon DEF PublishInv, Prepared, ReadInv, Publishing, Reading
<1>16. Head(s) = "CloseBootSection" => (th[d].holds <=> Pending(d, "ReleaseBootLockEvent"))
  BY <1>9, <1>10, <1>11, Zenon
<1> QED  BY <1>4, <1>6, <1>8, <1>13, <1>14, <1>15, <1>16, Zenon DEF s

\* One more effect has completed.
LEMMA SucceededFacts ==
    ASSUME NEW p \in Plans, p.next < 15
    PROVE  /\ Succeeded(p) \in Plans
           /\ Succeeded(p).next = p.next + 1
           /\ Succeeded(p).pc = IF p.next = 14 THEN "loaded" ELSE "loading"
           /\ Succeeded(p).created = p.created /\ Succeeded(p).ready = p.ready
           /\ Succeeded(p).todo = p.todo /\ Succeeded(p).validation = p.validation
<1>1. Len(LOAD_EFFECTS) = 15
  BY Zenon DEF LOAD_EFFECTS
<1>2. p.next + 1 \in 0..15 /\ (p.next + 1 = 15 <=> p.next = 14)
  BY DEF Plans
<1>3. Succeeded(p) = [p EXCEPT !.next = p.next + 1,
                              !.pc = IF p.next = 14 THEN "loaded" ELSE "loading"]
  BY <1>1, <1>2, Zenon DEF Succeeded
<1> QED  BY <1>2, <1>3, Zenon DEF Plans

\* Where a driver's thread can be, and what it says of the load.
LEMMA LoadPlaces ==
    ASSUME IndInv, NEW d \in Drivers
    PROVE  /\ th[d].pc \in {"enter", "wait", "finish"} =>
                plan[d].pc = "loading" /\ plan[d].next = 0
           /\ th[d].pc \in {"capture", "captured"} \cup Reading =>
                plan[d].pc = "loading" /\ plan[d].next = 3 /\ th[d].holds
           /\ th[d].pc \in InFlight => plan[d].pc = "loading" /\ plan[d].next = 4
           /\ th[d].pc \in Releasing =>
                \/ plan[d].pc = "loading" /\ plan[d].next = 5
                \/ /\ plan[d].pc = "unwinding" /\ plan[d].todo # <<>>
                   /\ Head(plan[d].todo) = "ReleaseBootLockEvent"
           /\ th[d].pc \notin {"burn", "returned"}
<1>1. plan[d] \in Plans /\ d \in Threads /\ ControlInv(d)
  BY ThreadFacts, Zenon DEF IndInv, TypeOK
<1>2. plan[d].pc = "loading" => th[d].pc \in LoadPcs(plan[d].next)
  BY <1>1, Zenon DEF ControlInv
<1>3. plan[d].next \in 0..15
  BY <1>1, Zenon DEF Plans
<1>4. /\ plan[d].pc = "unwinding" => /\ th[d].pc \in {"idle"} \cup Releasing
                                     /\ th[d].pc # "idle" =>
                                          /\ plan[d].todo # <<>>
                                          /\ Head(plan[d].todo) = "ReleaseBootLockEvent"
      /\ plan[d].pc \notin {"loading", "unwinding"} => th[d].pc = "idle"
      /\ plan[d].pc = "loading" /\ plan[d].next = 3 => th[d].holds
  BY <1>1, Zenon DEF ControlInv
<1> QED  BY <1>2, <1>3, <1>4, Zenon DEF LoadPcs, Reading, Releasing, InFlight, Publishing

\* A refusal: a load starts its unwind, a SETUP gives the lock back or returns.
LEMMA RefusedStep ==
    ASSUME IndInv, NEW t \in Threads, RefuseThread(t),
           UNCHANGED <<event, section, boot, committed, minted, reminted>>,
           th[t].pc \notin InFlight,
           t \in Drivers => /\ plan[t].pc = "loading" /\ plan[t].next \notin {4, 5}
                            /\ th[t].holds <=> plan[t].next \in 1..5
    PROVE  IndInv'
<1>1. TypeOK /\ LockInv /\ ControlInv(t) /\ th[t] \in ThreadRecs
  BY Zenon DEF IndInv, TypeOK
<1>2. CASE t \in Drivers
  <2>1. /\ plan' = [plan EXCEPT ![t] = Failed(plan[t])]
        /\ th' = [th EXCEPT ![t] = [IdleThread EXCEPT !.holds = th[t].holds]]
    BY <1>2, Zenon DEF RefuseThread
  <2>2. [IdleThread EXCEPT !.holds = th[t].holds] \in ThreadRecs
    BY <1>1, Zenon DEF IdleThread, ThreadRecs, NoImage, Images, ThreadPcs
  <2>3. /\ th' \in [Threads -> ThreadRecs] /\ th'[t].pc = "idle" /\ th'[t].holds = th[t].holds
        /\ \A u \in Threads : u # t => th'[u] = th[u]
    BY <1>1, <2>1, <2>2, Zenon DEF TypeOK, IdleThread
  <2>4. plan'[t] = Failed(plan[t]) /\ \A d \in Drivers : d # t => plan'[d] = plan[d]
    BY <1>1, <1>2, <2>1, Zenon DEF TypeOK
  <2>5. /\ ControlInv(t)' /\ TodoInv(t)' /\ PlanInv(t)' /\ PublishInv(t)' /\ ReadInv(t)'
        /\ Failed(plan[t]) \in Plans
    BY <1>2, <2>3, <2>4, FailedStep, Zenon
  <2>6. TypeOK'
    BY <1>1, <1>2, <2>1, <2>3, <2>5, Zenon DEF TypeOK
  <2>7. LockInv'
    BY <1>1, <2>3, LockKept, Zenon
  <2>8. Alone(t)
    BY <2>3, <2>4, Zenon DEF Alone
  <2>9. ~Discards(t)
    BY <1>2, Zenon DEF Discards
  <2> QED  BY <2>5, <2>6, <2>7, <2>8, <2>9, QuietStep, Zenon
<1>3. CASE t \in Setups
  <2>1. t \notin Drivers
    BY <1>3, ThreadFacts, Zenon
  <2>2. /\ th' = [th EXCEPT ![t] = IF th[t].holds THEN [th[t] EXCEPT !.pc = "release"]
                                                  ELSE Returned]
        /\ plan' = plan
    BY <2>1, Zenon DEF RefuseThread
  <2>3. Returned \in ThreadRecs /\ Returned.pc = "returned" /\ ~Returned.holds
    BY Zenon DEF Returned, IdleThread, ThreadRecs, NoImage, Images, ThreadPcs
  <2>4. [th[t] EXCEPT !.pc = "release"] \in ThreadRecs
    BY <1>1, Zenon DEF ThreadRecs, ThreadPcs, Owning
  <2>5. /\ th' \in [Threads -> ThreadRecs] /\ th'[t].holds = th[t].holds
        /\ th'[t].pc = IF th[t].holds THEN "release" ELSE "returned"
        /\ \A u \in Threads : u # t => th'[u] = th[u]
    BY <1>1, <2>2, <2>3, <2>4, Zenon DEF TypeOK, ThreadRecs
  <2>6. TypeOK'
    BY <1>1, <2>2, <2>5, Zenon DEF TypeOK
  <2>7. LockInv'
    BY <1>1, <2>5, LockKept, Zenon
  <2>8. Alone(t)
    BY <2>2, <2>5, Zenon DEF Alone
  <2>9. ControlInv(t)' /\ PublishInv(t)' /\ ReadInv(t)'
    BY <2>1, <2>5, Zenon DEF ControlInv, PublishInv, ReadInv, Prepared, Owning, Publishing, Reading
  <2> QED  BY <2>1, <2>6, <2>7, <2>8, <2>9, QuietStep, Zenon
<1> QED  BY <1>2, <1>3, Zenon DEF Threads

\* Taking the lock.
LEMMA AcquireSteps ==
    ASSUME IndInv, NEW t \in Threads,
           AcquireEnter(t) \/ AcquireWait(t) \/ AcquireTimeout(t) \/ AcquireFinish(t)
    PROVE  IndInv'
<1>1. TypeOK /\ LockInv /\ ControlInv(t) /\ th[t] \in ThreadRecs
  BY Zenon DEF IndInv, TypeOK
<1>2. t \in Drivers => t \notin Setups
  BY ThreadFacts, Zenon
<1>3. th[t].pc \in {"enter", "wait", "finish"} =>
        /\ th[t].pc \notin InFlight
        /\ t \in Drivers => plan[t].pc = "loading" /\ plan[t].next = 0 /\ ~Discards(t)
  BY LoadPlaces, Zenon DEF InFlight, Publishing, Discards
<1>4. th[t].pc \in {"enter", "wait"} => ~th[t].holds
  BY <1>1, Zenon DEF ControlInv
<1>5. CASE (AcquireEnter(t) /\ boot[Root(t)].held) \/ AcquireTimeout(t)
  <2>1. RefuseThread(t) /\ th[t].pc \in {"enter", "wait"}
    BY <1>5, Zenon DEF AcquireEnter, AcquireTimeout, At
  <2>2. UNCHANGED <<event, section, boot, committed, minted, reminted>>
    BY <1>5, Zenon DEF AcquireEnter, AcquireTimeout
  <2> QED  BY <1>3, <1>4, <2>1, <2>2, RefusedStep
<1>6. CASE AcquireEnter(t) /\ ~boot[Root(t)].held
  <2>1. /\ Goto(t, "wait") /\ th[t].pc = "enter"
        /\ UNCHANGED <<event, section, boot, plan, committed, minted, reminted>>
    BY <1>6, Zenon DEF AcquireEnter, At
  <2>2. "wait" \in ThreadPcs
    BY Zenon DEF ThreadPcs
  <2>3. /\ th' \in [Threads -> ThreadRecs]
        /\ th'[t].pc = "wait" /\ th'[t].holds = th[t].holds
        /\ \A u \in Threads : u # t => th'[u] = th[u]
        /\ \A u \in Threads : th'[u].holds = th[u].holds
    BY <1>1, <2>1, <2>2, GotoFacts, Zenon
  <2>4. TypeOK' /\ LockInv' /\ Alone(t)
    BY <1>1, <2>1, <2>3, LockKept, Zenon DEF TypeOK, Alone
  <2>5. ControlInv(t)' /\ PublishInv(t)' /\ ReadInv(t)'
    BY <1>2, <1>3, <1>4, <2>1, <2>3
       DEF ControlInv, PublishInv, ReadInv, Prepared, Owning, Publishing, Reading, LoadPcs
  <2>6. t \in Drivers => TodoInv(t)' /\ PlanInv(t)'
    <3>1. t \in Drivers => TodoInv(t) /\ PlanInv(t)
      BY Zenon DEF IndInv
    <3> QED  BY <2>1, <2>3, <3>1 DEF TodoInv, PlanInv, Created, Pending
  <2> QED  BY <1>3, <2>1, <2>4, <2>5, <2>6, QuietStep, Zenon
<1>7. CASE AcquireWait(t)
  <2>1. /\ th[t].pc = "wait" /\ event.signalled /\ event' = [event EXCEPT !.signalled = FALSE]
        /\ th' = [th EXCEPT ![t].pc = "finish", ![t].holds = TRUE]
        /\ UNCHANGED <<section, boot, plan, committed, minted, reminted>>
    BY <1>7, Zenon DEF AcquireWait, At
  <2>2. "finish" \in ThreadPcs
    BY Zenon DEF ThreadPcs, Owning
  <2>3. /\ th' \in [Threads -> ThreadRecs]
        /\ th'[t].pc = "finish" /\ th'[t].holds = TRUE
        /\ \A u \in Threads : u # t => th'[u] = th[u]
    BY <1>1, <2>1, <2>2, Zenon DEF TypeOK, ThreadRecs
  <2>4. TypeOK' /\ Alone(t)
    BY <1>1, <2>1, <2>3, Zenon DEF TypeOK, Alone
  <2>5. LockInv'
    <3>1. event.exists /\ \A u \in Threads : ~th[u].holds
      BY <1>1, <2>1, Zenon DEF LockInv, LockExact
    <3>2. event'.exists /\ ~event'.signalled
      BY <1>1, <2>1, <3>1, Zenon DEF TypeOK
    <3> QED  BY <2>3, <3>1, <3>2, Zenon DEF LockInv, LockExact
  <2>6. ControlInv(t)' /\ PublishInv(t)' /\ ReadInv(t)'
    BY <1>2, <1>3, <2>1, <2>3
       DEF ControlInv, PublishInv, ReadInv, Prepared, Owning, Publishing, Reading, LoadPcs
  <2>7. t \in Drivers => TodoInv(t)' /\ PlanInv(t)'
    <3>1. t \in Drivers => TodoInv(t) /\ PlanInv(t)
      BY Zenon DEF IndInv
    <3>2. t \in Drivers => ~Created(t)'
      BY <1>3, <2>1 DEF Created
    <3> QED  BY <1>3, <2>1, <2>3, <3>1, <3>2, Zenon DEF TodoInv, PlanInv, Pending
  <2> QED  BY <1>3, <2>1, <2>4, <2>5, <2>6, <2>7, QuietStep, Zenon
<1>8. CASE AcquireFinish(t)
  <2>1. /\ th[t].pc = "finish" /\ th[t].holds
        /\ boot' = [boot EXCEPT ![Root(t)].held = TRUE, ![Root(t)].guard = TRUE,
                                ![Root(t)].lock = TRUE]
        /\ UNCHANGED <<event, section, committed, minted, reminted>>
    BY <1>1, <1>8, Zenon DEF AcquireFinish, At, ControlInv, Owning
  <2>2. /\ boot' \in [Drivers -> Boots]
        /\ \A d \in Drivers : boot'[d].at = boot[d].at /\ boot'[d].handle = boot[d].handle
    <3>1. PICK r \in Drivers : r = Root(t)
      BY ThreadFacts, Zenon
    <3>2. boot \in [Drivers -> Boots] /\ boot[r] \in Boots
      BY <1>1, <3>1, Zenon DEF TypeOK
    <3> DEFINE b == [boot[r] EXCEPT !.held = TRUE, !.guard = TRUE, !.lock = TRUE]
    <3>3. boot' = [boot EXCEPT ![r] = b]
      BY <2>1, <3>1, <3>2, Zenon DEF Boots
    <3>4. b \in Boots /\ b.at = boot[r].at /\ b.handle = boot[r].handle
      BY <3>2, Zenon DEF Boots
    <3> HIDE DEF b
    <3> QED  BY <3>2, <3>3, <3>4, Zenon
  <2>3. CASE t \in Drivers
    <3>1. Goto(t, "idle") /\ plan' = [plan EXCEPT ![t] = Succeeded(plan[t])]
      BY <1>8, <2>3, Zenon DEF AcquireFinish
    <3>2. "idle" \in ThreadPcs
      BY Zenon DEF ThreadPcs
    <3>3. /\ th' \in [Threads -> ThreadRecs]
          /\ th'[t].pc = "idle" /\ th'[t].holds = th[t].holds
          /\ \A u \in Threads : u # t => th'[u] = th[u]
          /\ \A u \in Threads : th'[u].holds = th[u].holds
      BY <1>1, <3>1, <3>2, GotoFacts, Zenon
    <3>4. plan[t] \in Plans /\ plan[t].next = 0 /\ plan[t].pc = "loading"
      BY <1>1, <1>3, <2>1, <2>3, Zenon DEF TypeOK
    <3>5. /\ Succeeded(plan[t]) \in Plans
          /\ Succeeded(plan[t]).next = 1 /\ Succeeded(plan[t]).pc = "loading"
          /\ Succeeded(plan[t]).created = plan[t].created
          /\ Succeeded(plan[t]).ready = plan[t].ready
      BY <3>4, SucceededFacts
    <3>6. /\ plan' \in [Drivers -> Plans] /\ plan'[t].next = 1 /\ plan'[t].pc = "loading"
          /\ \A d \in Drivers : d # t => plan'[d] = plan[d]
      BY <1>1, <2>3, <3>1, <3>5, Zenon DEF TypeOK
    <3>7. TypeOK' /\ Alone(t)
      BY <1>1, <2>1, <2>2, <3>3, <3>6, Zenon DEF TypeOK, Alone
    <3>8. LockInv'
      BY <1>1, <2>1, <3>3, LockKept, Zenon
    <3>9. ControlInv(t)' /\ PublishInv(t)' /\ ReadInv(t)'
      BY <1>2, <2>1, <2>3, <3>3, <3>6
         DEF ControlInv, PublishInv, ReadInv, Prepared, Owning, Publishing, Reading, LoadPcs
    <3>10. TodoInv(t)' /\ PlanInv(t)'
      <4>1. TodoInv(t) /\ PlanInv(t)
        BY <2>3, Zenon DEF IndInv
      <4> QED  BY <2>1, <2>2, <2>3, <3>4, <3>6, <4>1 DEF TodoInv, PlanInv, Created
    <3> QED  BY <1>3, <2>1, <2>3, <3>7, <3>8, <3>9, <3>10, QuietStep, Zenon
  <2>4. CASE t \notin Drivers
    <3>1. Goto(t, "burn") /\ plan' = plan
      BY <1>8, <2>4, Zenon DEF AcquireFinish
    <3>2. "burn" \in ThreadPcs
      BY Zenon DEF ThreadPcs, Owning
    <3>3. /\ th' \in [Threads -> ThreadRecs]
          /\ th'[t].pc = "burn" /\ th'[t].holds = th[t].holds
          /\ \A u \in Threads : u # t => th'[u] = th[u]
          /\ \A u \in Threads : th'[u].holds = th[u].holds
      BY <1>1, <3>1, <3>2, GotoFacts, Zenon
    <3>4. TypeOK' /\ LockInv' /\ Alone(t)
      BY <1>1, <2>1, <2>2, <3>1, <3>3, LockKept, Zenon DEF TypeOK, Alone
    <3>5. ControlInv(t)' /\ PublishInv(t)' /\ ReadInv(t)'
      BY <2>1, <2>4, <3>3, Zenon
         DEF ControlInv, PublishInv, ReadInv, Prepared, Owning, Publishing, Reading
    <3> QED  BY <1>3, <2>1, <2>4, <3>4, <3>5, QuietStep, Zenon
  <2> QED  BY <2>3, <2>4, Zenon
<1> QED  BY <1>5, <1>6, <1>7, <1>8, Zenon

\* A step of one thread that leaves the plans and the lock alone.
LEMMA MoveStep ==
    ASSUME IndInv, NEW t \in Threads, th' \in [Threads -> ThreadRecs],
           th'[t].holds = th[t].holds, \A u \in Threads : u # t => th'[u] = th[u],
           UNCHANGED <<event, section, plan, committed, minted, reminted>>,
           boot' \in [Drivers -> Boots],
           \A d \in Drivers : boot'[d].at = boot[d].at /\ boot'[d].handle = boot[d].handle,
           th[t].pc \notin InFlight, t \in Drivers => ~Discards(t),
           ControlInv(t)', PublishInv(t)', ReadInv(t)'
    PROVE  IndInv'
<1>1. TypeOK /\ LockInv
  BY Zenon DEF IndInv
<1>2. TypeOK' /\ LockInv' /\ Alone(t)
  BY <1>1, LockKept, Zenon DEF TypeOK, Alone
<1>3. t \in Drivers => TodoInv(t) /\ PlanInv(t)
  BY Zenon DEF IndInv
<1>4. t \in Drivers => TodoInv(t)'
  BY <1>3 DEF TodoInv, Pending
<1>5. t \in Drivers => PlanInv(t)'
  BY <1>3, Zenon DEF PlanInv, Created, Pending
<1> QED  BY <1>2, <1>4, <1>5, QuietStep, Zenon

\* The same, when the thread only moves on.
LEMMA GotoStep ==
    ASSUME IndInv, NEW t \in Threads, NEW pc \in ThreadPcs, Goto(t, pc),
           UNCHANGED <<event, section, plan, committed, minted, reminted>>,
           boot' \in [Drivers -> Boots],
           \A d \in Drivers : boot'[d].at = boot[d].at /\ boot'[d].handle = boot[d].handle,
           th[t].pc \notin InFlight, t \in Drivers => ~Discards(t),
           th'[t].pc = pc /\ th'[t].holds = th[t].holds =>
               ControlInv(t)' /\ PublishInv(t)' /\ ReadInv(t)'
    PROVE  IndInv'
<1>1. TypeOK
  BY Zenon DEF IndInv
<1>2. /\ th' \in [Threads -> ThreadRecs]
      /\ th'[t].pc = pc /\ th'[t].holds = th[t].holds
      /\ \A u \in Threads : u # t => th'[u] = th[u]
  BY <1>1, GotoFacts, Zenon
<1> QED  BY <1>2, MoveStep, Zenon

\* A section whose sequence is even and not zero is settled: capture_record
\* starts from a committed image.
LEMMA CaptureSteps ==
    ASSUME IndInv, NEW t \in Threads, Capture(t)
    PROVE  IndInv'
<1>1. /\ TypeOK /\ ControlInv(t) /\ ReadInv(t) /\ SectionInv
      /\ th[t] \in ThreadRecs /\ th \in [Threads -> ThreadRecs]
  BY Zenon DEF IndInv, TypeOK
<1>2. t \in Drivers => t \notin Setups
  BY ThreadFacts, Zenon
<1>3. /\ th[t].pc \in {"capture", "captureGen", "captureMount", "captureSecond"}
      /\ UNCHANGED <<event, section, boot, committed, minted, reminted>>
  BY Zenon DEF Capture, CaptureFirst, CaptureGen, CaptureMount, CaptureSecond, At
<1>4. /\ th[t].pc \notin InFlight
      /\ t \in Drivers => /\ plan[t].pc = "loading" /\ plan[t].next = 3 /\ ~Discards(t)
                          /\ th[t].holds
  BY <1>3, LoadPlaces, Zenon DEF InFlight, Publishing, Discards, Reading
<1>5. boot' \in [Drivers -> Boots]
  BY <1>1, <1>3, Zenon DEF TypeOK
<1>6. /\ section.seq \in Nat /\ section.gen \in Nat /\ section.mount \in Nat
      /\ section.ready \in BOOLEAN
  BY <1>1, Zenon DEF TypeOK, Sections
<1>7. ASSUME Retry(t)  PROVE IndInv'
  <2>1. CASE RefuseThread(t)
    BY <1>3, <1>4, <2>1, RefusedStep
  <2>2. CASE /\ th' = [th EXCEPT ![t].pc = "capture", ![t].tries = th[t].tries + 1]
             /\ plan' = plan
    <3>1. "capture" \in ThreadPcs
      BY Zenon DEF ThreadPcs
    <3>2. /\ th' \in [Threads -> ThreadRecs] /\ th'[t].pc = "capture"
          /\ th'[t].holds = th[t].holds /\ \A u \in Threads : u # t => th'[u] = th[u]
      BY <1>1, <2>2, <3>1 DEF ThreadRecs
    <3>3. ControlInv(t)' /\ PublishInv(t)' /\ ReadInv(t)'
      BY <1>2, <1>4, <2>2, <3>2
         DEF ControlInv, PublishInv, ReadInv, Prepared, Owning, Publishing, Reading, LoadPcs
    <3> QED  BY <1>3, <1>4, <1>5, <2>2, <3>2, <3>3, MoveStep, Zenon
  <2> QED  BY <1>7, <2>1, <2>2, Zenon DEF Retry
<1>8. CASE CaptureFirst(t) /\ section.seq # 0 /\ section.seq % 2 = 0
  <2>1. /\ th' = [th EXCEPT ![t].pc = "captureGen", ![t].first = section.seq] /\ plan' = plan
    BY <1>8, Zenon DEF CaptureFirst
  <2>2. "captureGen" \in ThreadPcs
    BY Zenon DEF ThreadPcs, Reading
  <2>3. /\ th' \in [Threads -> ThreadRecs] /\ th'[t].pc = "captureGen"
        /\ th'[t].holds = th[t].holds /\ th'[t].first = section.seq
        /\ \A u \in Threads : u # t => th'[u] = th[u]
    BY <1>1, <1>6, <2>1, <2>2, Zenon DEF ThreadRecs
  <2>4. Settled
    BY <1>1, <1>8, Zenon DEF SectionInv
  <2>5. committed # {}
    BY <2>4, Zenon DEF Settled
  <2>6. ControlInv(t)' /\ PublishInv(t)'
    BY <1>2, <1>4, <2>1, <2>3
       DEF ControlInv, PublishInv, Prepared, Owning, Publishing, Reading, LoadPcs
  <2>7. ReadInv(t)'
    BY <1>3, <1>6, <1>8, <2>3, <2>5 DEF ReadInv, Reading
  <2> QED  BY <1>3, <1>4, <1>5, <2>1, <2>3, <2>6, <2>7, MoveStep, Zenon
<1>9. CASE CaptureGen(t)
  <2>1. /\ th' = [th EXCEPT ![t].pc = "captureMount",
                            ![t].img = [NoImage EXCEPT !.gen = section.gen,
                                                       !.ready = section.ready]]
        /\ plan' = plan /\ th[t].pc = "captureGen"
    BY <1>9, Zenon DEF CaptureGen, At
  <2>2. "captureMount" \in ThreadPcs
    BY Zenon DEF ThreadPcs, Reading
  <2> DEFINE i == [NoImage EXCEPT !.gen = section.gen, !.ready = section.ready]
  <2>3. i \in Images /\ i.gen = section.gen /\ i.ready = section.ready
    BY <1>6, Zenon DEF NoImage, Images
  <2> HIDE DEF i
  <2>4. /\ th' \in [Threads -> ThreadRecs] /\ th'[t].pc = "captureMount" /\ th'[t].img = i
        /\ th'[t].holds = th[t].holds /\ th'[t].first = th[t].first
        /\ \A u \in Threads : u # t => th'[u] = th[u]
    BY <1>1, <2>1, <2>2, <2>3, Zenon DEF ThreadRecs, i
  <2>5. ControlInv(t)' /\ PublishInv(t)'
    BY <1>2, <1>4, <2>1, <2>4
       DEF ControlInv, PublishInv, Prepared, Owning, Publishing, Reading, LoadPcs
  <2>6. ReadInv(t)'
    BY <1>1, <1>3, <2>1, <2>3, <2>4 DEF ReadInv, Reading
  <2> QED  BY <1>3, <1>4, <1>5, <2>1, <2>4, <2>5, <2>6, MoveStep, Zenon
<1>10. CASE CaptureMount(t)
  <2>1. /\ th' = [th EXCEPT ![t].pc = "captureSecond", ![t].img.mount = section.mount]
        /\ plan' = plan /\ th[t].pc = "captureMount"
    BY <1>10, Zenon DEF CaptureMount, At
  <2>2. "captureSecond" \in ThreadPcs
    BY Zenon DEF ThreadPcs, Reading
  <2> DEFINE i == [th[t].img EXCEPT !.mount = section.mount]
  <2>3. /\ i \in Images /\ i.gen = th[t].img.gen /\ i.ready = th[t].img.ready
        /\ i.mount = section.mount
    BY <1>1, <1>6, Zenon DEF ThreadRecs, Images
  <2> HIDE DEF i
  <2>4. th' = [th EXCEPT ![t] = [th[t] EXCEPT !.pc = "captureSecond", !.img = i]]
    BY <1>1, <2>1, Zenon DEF ThreadRecs, i
  <2>5. /\ th' \in [Threads -> ThreadRecs] /\ th'[t].pc = "captureSecond" /\ th'[t].img = i
        /\ th'[t].holds = th[t].holds /\ th'[t].first = th[t].first
        /\ \A u \in Threads : u # t => th'[u] = th[u]
    BY <1>1, <2>2, <2>3, <2>4, Zenon DEF ThreadRecs
  <2>6. ControlInv(t)' /\ PublishInv(t)'
    BY <1>2, <1>4, <2>1, <2>5
       DEF ControlInv, PublishInv, Prepared, Owning, Publishing, Reading, LoadPcs
  <2>7. ReadInv(t)'
    BY <1>1, <1>3, <2>1, <2>3, <2>5 DEF ReadInv, Reading
  <2> QED  BY <1>3, <1>4, <1>5, <2>1, <2>5, <2>6, <2>7, MoveStep, Zenon
<1>11. CASE CaptureSecond(t) /\ section.seq = th[t].first
  <2>1. /\ th' = [th EXCEPT ![t].pc = "captured", ![t].tries = 0, ![t].img.seq = th[t].first]
        /\ plan' = plan /\ th[t].pc = "captureSecond"
    BY <1>11, Zenon DEF CaptureSecond, At
  <2>2. "captured" \in ThreadPcs
    BY Zenon DEF ThreadPcs
  <2>3. /\ th[t].first # 0 /\ th[t].first % 2 = 0
        /\ th[t].img.gen = section.gen /\ th[t].img.ready = section.ready
        /\ th[t].img.mount = section.mount
    BY <1>1, <1>11, <2>1, Zenon DEF ReadInv, Reading
  <2>4. Settled
    BY <1>1, <1>11, <2>3, Zenon DEF SectionInv
  <2> DEFINE i == [th[t].img EXCEPT !.seq = th[t].first]
  <2>5. i \in Images /\ i = Header
    BY <1>1, <1>11, <2>3 DEF ThreadRecs, Images, Header
  <2> HIDE DEF i
  <2>6. th' = [th EXCEPT ![t] = [th[t] EXCEPT !.pc = "captured", !.tries = 0, !.img = i]]
    BY <1>1, <2>1, Zenon DEF ThreadRecs, i
  <2>7. /\ th' \in [Threads -> ThreadRecs] /\ th'[t].pc = "captured" /\ th'[t].img = i
        /\ th'[t].holds = th[t].holds /\ \A u \in Threads : u # t => th'[u] = th[u]
    BY <1>1, <2>2, <2>5, <2>6, Zenon DEF ThreadRecs
  <2>8. ControlInv(t)' /\ PublishInv(t)'
    BY <1>2, <1>4, <2>1, <2>7
       DEF ControlInv, PublishInv, Prepared, Owning, Publishing, Reading, LoadPcs
  <2>9. Header' = Header
    BY <1>3, Zenon DEF Header
  <2>10. ReadInv(t)'
    BY <1>3, <2>4, <2>5, <2>7, <2>9, Zenon DEF ReadInv, Reading, Settled
  <2> QED  BY <1>3, <1>4, <1>5, <2>1, <2>7, <2>8, <2>10, MoveStep, Zenon
<1>12. CASE Retry(t)
  BY <1>7, <1>12, Zenon
<1> QED
  BY <1>8, <1>9, <1>10, <1>11, <1>12, Zenon DEF Capture, CaptureFirst, CaptureSecond

-----------------------------------------------------------------------------
(* The steps that write the section, all under the lock.                   *)

\* The other threads do not own the lock: they publish nothing, and what they
\* have read of the section is of an image or will not pass for one.
LEMMA WriteOthers ==
    ASSUME IndInv, NEW t \in Threads, th[t].holds, Alone(t),
           committed \subseteq committed', section'.seq \in Nat,
           committed # {} => /\ section.seq <= section'.seq
                             /\ section'.seq % 2 = 1 \/ section.seq < section'.seq,
           \A d \in Drivers : d # t /\ boot[d].handle => section'.named,
           NEW u \in Threads, u # t
    PROVE  /\ ControlInv(u)' /\ PublishInv(u)' /\ ReadInv(u)'
           /\ u \in Drivers => TodoInv(u)' /\ PlanInv(u)'
<1>1. /\ ControlInv(u) /\ ReadInv(u) /\ th[u] \in ThreadRecs /\ section.seq \in Nat
      /\ u \in Drivers => TodoInv(u) /\ PlanInv(u) /\ plan[u] \in Plans
  BY Zenon DEF IndInv, TypeOK, Sections
<1>2. /\ th'[u] = th[u]
      /\ u \in Drivers => /\ plan'[u] = plan[u]
                          /\ boot'[u].at = boot[u].at /\ boot'[u].handle = boot[u].handle
  BY Zenon DEF Alone
<1>3. ~th[u].holds
  BY Zenon DEF IndInv, LockInv, LockExact
<1>4. ControlInv(u)'
  BY <1>1, <1>2 DEF ControlInv, Pending
<1>5. PublishInv(u)'
  <2>1. th[u].pc \notin Owning
    BY <1>1, <1>3, Zenon DEF ControlInv
  <2>2. ~Prepared(u)
    BY <1>1, <1>3, <2>1 DEF Prepared, ControlInv, Owning
  <2> QED  BY <1>2, <2>1, <2>2, Zenon DEF PublishInv, Prepared, Owning
<1>6. ReadInv(u)'
  <2>1. ASSUME th[u].pc \in Reading
        PROVE  /\ committed' # {} /\ th[u].first <= section'.seq
               /\ section'.seq # th[u].first
    <3>1. /\ committed # {} /\ th[u].first \in Nat /\ th[u].first % 2 = 0
          /\ th[u].first <= section.seq
      BY <1>1, <2>1, Zenon DEF ReadInv, ThreadRecs
    <3>2. \A a, b, c \in Nat :
            (a <= b /\ b <= c /\ a % 2 = 0 /\ (c % 2 = 1 \/ b < c)) => (a <= c /\ c # a)
      OBVIOUS
    <3>3. /\ section.seq \in Nat /\ section.seq <= section'.seq
          /\ section'.seq % 2 = 1 \/ section.seq < section'.seq
      BY <1>1, <3>1, Zenon
    <3>4. th[u].first <= section'.seq /\ section'.seq # th[u].first
      BY <3>1, <3>2, <3>3, Zenon
    <3> QED  BY <3>1, <3>4, Zenon
  <2>2. th[u].pc = "captured" => th[u].img \in committed'
    BY <1>1, Zenon DEF ReadInv
  <2> QED  BY <1>1, <1>2, <1>3, <2>1, <2>2, Zenon DEF ReadInv
<1>7. u \in Drivers => TodoInv(u)'
  BY <1>1, <1>2 DEF TodoInv, Pending
<1>8. u \in Drivers => PlanInv(u)'
  <2>1. u \in Drivers => ~Created(u)'
    BY <1>2, <1>3, Zenon DEF Created
  <2>2. committed # {} => committed' # {}
    BY Zenon
  <2> QED  BY <1>1, <1>2, <2>1, <2>2, Zenon DEF PlanInv, Pending
<1> QED  BY <1>4, <1>5, <1>6, <1>7, <1>8, Zenon

\* A write by the owner of the lock: the sequence goes forward, or is odd.
LEMMA WriteStep ==
    ASSUME IndInv, NEW t \in Threads, th[t].holds, Alone(t),
           committed \subseteq committed', section'.seq \in Nat,
           committed # {} => /\ section.seq <= section'.seq
                             /\ section'.seq % 2 = 1 \/ section.seq < section'.seq,
           \A d \in Drivers : d # t /\ boot[d].handle => section'.named,
           event' = event, th'[t].holds = th[t].holds,
           TypeOK', SectionInv', MintInv', ControlInv(t)', PublishInv(t)', ReadInv(t)',
           t \in Drivers => TodoInv(t)' /\ PlanInv(t)'
    PROVE  IndInv'
<1>1. LockInv'
  <2>1. LockInv /\ \A u \in Threads : th'[u].holds = th[u].holds
    BY Zenon DEF IndInv, Alone
  <2> QED  BY <2>1, LockKept, Zenon
<1>2. \A u \in Threads : ControlInv(u)' /\ PublishInv(u)' /\ ReadInv(u)'
  BY WriteOthers, Zenon
<1>3. \A d \in Drivers : TodoInv(d)' /\ PlanInv(d)'
  BY WriteOthers, ThreadFacts, Zenon
<1> QED  BY <1>1, <1>2, <1>3, Zenon DEF IndInv

\* Only the load that made the section temporary finds it so.
LEMMA NotTemporary ==
    ASSUME IndInv, NEW t \in Threads, th[t].holds, t \in Drivers => ~Discards(t)
    PROVE  ~section.temporary
<1> SUFFICES ASSUME section.temporary  PROVE FALSE
  BY Zenon
<1>1. PICK d \in Drivers : Discards(d)
  BY Zenon DEF IndInv, SectionInv
<1>2. d \in Threads /\ th[d].holds
  BY <1>1, ThreadFacts, Zenon DEF Discards, Created
<1>3. d = t
  BY <1>2, Zenon DEF IndInv, LockInv, LockExact
<1> QED  BY <1>1, <1>3, Zenon

\* The image to publish next is newer than every committed one.
LEMMA ImageFacts ==
    ASSUME IndInv, NEW t \in Threads, NextImage(t)
    PROVE  /\ th[t].img \in Images /\ th[t].img.seq - 1 \in Nat
           /\ committed = {} => /\ t \in Drivers
                                /\ th[t].img \in {InitializingImage, plan_new_context}
           /\ committed # {} =>
                /\ th[t].img.ready /\ th[t].img.seq % 2 = 0 /\ (th[t].img.seq - 1) % 2 = 1
                /\ \A i \in committed :
                     /\ i.seq + 1 <= th[t].img.seq - 1
                     /\ i.gen <= th[t].img.gen /\ i.mount <= th[t].img.mount
                     /\ IF t \in Drivers THEN i.gen < th[t].img.gen ELSE i.mount < th[t].img.mount
           /\ th[t].img.ready => th[t].img.seq # 0 /\ th[t].img.seq % 2 = 0
           /\ ~th[t].img.ready => th[t].img.seq = 1
<1>1. th[t].img \in Images /\ committed \subseteq Images
  BY Zenon DEF IndInv, TypeOK, ThreadRecs
<1>2. CASE committed = {}
  BY <1>1, <1>2 DEF NextImage, InitializingImage, plan_new_context
<1>3. CASE committed # {}
  <2>1. PICK base \in committed :
          /\ \A i \in committed : i.seq <= base.seq
          /\ th[t].img = IF t \in Drivers THEN plan_existing_context(base)
                                          ELSE plan_mount_burn(base)
    BY <1>3, Zenon DEF NextImage
  <2>2. /\ base \in Images /\ base.ready /\ base.seq # 0 /\ base.seq % 2 = 0
        /\ \A i \in committed : i \in Images /\ i.gen <= base.gen /\ i.mount <= base.mount
    BY <1>1, <2>1, Zenon DEF IndInv, MintInv
  <2>3. /\ th[t].img.seq = base.seq + 2 /\ th[t].img.ready
        /\ t \in Drivers => th[t].img.gen = base.gen + 1 /\ th[t].img.mount = base.mount
        /\ t \notin Drivers => th[t].img.gen = base.gen /\ th[t].img.mount = base.mount + 1
    <3>1. CASE t \in Drivers
      BY <2>1, <2>2, <3>1, Zenon DEF plan_existing_context, Images
    <3>2. CASE t \notin Drivers
      BY <2>1, <2>2, <3>2, Zenon DEF plan_mount_burn, Images
    <3> QED  BY <3>1, <3>2, Zenon
  <2>4. base.seq \in Nat /\ base.gen \in Nat /\ base.mount \in Nat
    BY <2>2, Zenon DEF Images
  <2>5. (base.seq + 2) % 2 = 0 /\ (base.seq + 2 - 1) % 2 = 1
    BY <2>2, <2>4
  <2>6. th[t].img.ready /\ th[t].img.seq % 2 = 0 /\ (th[t].img.seq - 1) % 2 = 1
    BY <2>3, <2>4, <2>5
  <2>7. ASSUME NEW i \in committed
        PROVE  /\ i.seq + 1 <= th[t].img.seq - 1
               /\ i.gen <= th[t].img.gen /\ i.mount <= th[t].img.mount
               /\ IF t \in Drivers THEN i.gen < th[t].img.gen ELSE i.mount < th[t].img.mount
    <3>1. i.seq \in Nat /\ i.gen \in Nat /\ i.mount \in Nat
      BY <2>2, Zenon DEF Images
    <3>2. i.seq <= base.seq /\ i.gen <= base.gen /\ i.mount <= base.mount
      BY <2>1, <2>2, Zenon
    <3> QED  BY <2>3, <2>4, <3>1, <3>2
  <2>8. th[t].img.seq - 1 \in Nat /\ th[t].img.seq # 0
    BY <2>3, <2>4
  <2> QED  BY <1>1, <1>3, <2>6, <2>7, <2>8, Zenon
<1> QED  BY <1>2, <1>3, Zenon

\* What a publisher knows, whatever store it is at.
LEMMA PublisherFacts ==
    ASSUME IndInv, NEW t \in Threads, th[t].pc \in InFlight
    PROVE  /\ th[t].holds /\ ~section.temporary /\ section.named
           /\ t \in Drivers => plan[t].pc = "loading" /\ plan[t].next = 4 /\ ~Discards(t)
           /\ t \in Drivers <=> t \notin Setups
           /\ committed # {} => section.slots
           /\ th[t].pc # "slots" => NextImage(t) /\ (th[t].img.ready => section.slots)
           /\ th[t].pc = "slots" => committed = {} /\ section.seq = 1 /\ t \in Drivers
<1>1. ControlInv(t) /\ PublishInv(t) /\ SectionInv
  BY Zenon DEF IndInv
<1>2. th[t].holds
  BY <1>1, Zenon DEF ControlInv, Owning, InFlight
<1>3. t \in Drivers => plan[t].pc = "loading" /\ plan[t].next = 4 /\ ~Discards(t)
  BY LoadPlaces, Zenon DEF Discards
<1>4. ~section.temporary
  BY <1>2, <1>3, NotTemporary, Zenon
<1>5. t \in Drivers <=> t \notin Setups
  BY ThreadFacts, Zenon
<1>6. th[t].pc = "slots" => t \in Drivers
  BY <1>1, <1>5, Zenon DEF ControlInv
<1> QED
  BY <1>1, <1>2, <1>3, <1>4, <1>5, <1>6, Zenon DEF PublishInv, Prepared, SectionInv, InFlight

\* A store of a publication other than the commit of a READY image.
LEMMA StoreStep ==
    ASSUME IndInv, NEW t \in Threads, th[t].pc \in InFlight,
           th' \in [Threads -> ThreadRecs], th'[t].holds = th[t].holds, th'[t].pc \in InFlight,
           \A u \in Threads : u # t => th'[u] = th[u],
           th'[t].pc = "slots" => t \in Drivers,
           section' \in Sections,
           section'.named, section'.temporary = section.temporary,
           section.slots => section'.slots,
           UNCHANGED <<event, boot, plan, committed, minted, reminted>>,
           committed # {} => section.seq <= section'.seq /\ section'.seq % 2 = 1,
           committed = {} => section'.seq \in {0, 1},
           PublishInv(t)'
    PROVE  IndInv'
<1>1. /\ th[t].holds /\ ~section.temporary /\ section.named
      /\ t \in Drivers => plan[t].pc = "loading" /\ plan[t].next = 4
      /\ t \in Drivers <=> t \notin Setups
      /\ committed # {} => section.slots
  BY PublisherFacts, Zenon
<1>2. TypeOK'
  BY Zenon DEF IndInv, TypeOK
<1>3. section'.seq \in Nat
  BY Zenon DEF Sections
<1>4. SectionInv'
  <2>1. ~(section'.seq # 0 /\ section'.seq % 2 = 0)
    BY <1>3
  <2> QED  BY <1>1, <2>1, Zenon DEF SectionInv
<1>5. MintInv'
  BY Zenon DEF IndInv, MintInv, IdentitiesUnique
<1>6. ControlInv(t)'
  BY <1>1 DEF ControlInv, LoadPcs, InFlight, Publishing, Owning
<1>7. ReadInv(t)'
  BY Zenon DEF ReadInv, InFlight, Publishing, Reading
<1>8. Alone(t)
  BY Zenon DEF Alone
<1>9. t \in Drivers => TodoInv(t) /\ PlanInv(t)
  BY Zenon DEF IndInv
<1>10. t \in Drivers => TodoInv(t)' /\ PlanInv(t)'
  BY <1>1, <1>9, Zenon DEF TodoInv, PlanInv, Created, Pending
<1> QED  BY <1>1, <1>2, <1>3, <1>4, <1>5, <1>6, <1>7, <1>8, <1>10, WriteStep, Zenon

\* publish_record up to its commit.
LEMMA StoreSteps ==
    ASSUME IndInv, NEW t \in Threads, PublishBegin(t) \/ PublishGen(t) \/ PublishMount(t)
    PROVE  IndInv'
<1>1. /\ TypeOK /\ PublishInv(t) /\ th \in [Threads -> ThreadRecs] /\ th[t] \in ThreadRecs
      /\ section \in Sections
  BY Zenon DEF IndInv, TypeOK
<1>2. /\ th[t].pc \in InFlight /\ th[t].pc # "slots"
      /\ UNCHANGED <<event, boot, plan, committed, minted, reminted>>
  BY Zenon DEF PublishBegin, PublishGen, PublishMount, At, InFlight, Publishing
<1>3. section.named /\ NextImage(t) /\ (th[t].img.ready => section.slots)
  BY <1>2, PublisherFacts, Zenon
<1>4. /\ th[t].img \in Images /\ th[t].img.seq - 1 \in Nat
      /\ committed = {} => th[t].img \in {InitializingImage, plan_new_context}
      /\ committed # {} =>
           /\ (th[t].img.seq - 1) % 2 = 1
           /\ \A i \in committed : i.seq + 1 <= th[t].img.seq - 1
  BY <1>3, ImageFacts, Zenon
<1>5. committed = {} => th[t].img.seq - 1 \in {0, 1}
  BY <1>4 DEF InitializingImage, plan_new_context
<1>6. ASSUME th'[t].img = th[t].img  PROVE NextImage(t)'
  BY <1>2, <1>3, <1>6, Zenon DEF NextImage
<1>7. CASE PublishBegin(t)
  <2>1. /\ th[t].pc = "publish" /\ section' = [section EXCEPT !.seq = th[t].img.seq - 1]
        /\ Goto(t, "publishGen")
    BY <1>7, Zenon DEF PublishBegin, At
  <2>2. "publishGen" \in ThreadPcs
    BY Zenon DEF ThreadPcs, Owning, Publishing
  <2>3. /\ th' \in [Threads -> ThreadRecs] /\ th'[t].pc = "publishGen"
        /\ th'[t].holds = th[t].holds /\ th'[t].img = th[t].img
        /\ \A u \in Threads : u # t => th'[u] = th[u]
    BY <1>1, <2>1, <2>2, GotoFacts, Zenon
  <2>4. /\ section' \in Sections
        /\ section'.seq = th[t].img.seq - 1 /\ section'.named = section.named
        /\ section'.temporary = section.temporary /\ section'.slots = section.slots
    BY <1>1, <1>4, <2>1, Zenon DEF Sections
  <2>5. committed # {} => section.seq <= th[t].img.seq - 1
    <3>1. committed # {} => Settled
      BY <1>1, <2>1, Zenon DEF PublishInv, Prepared
    <3>2. Settled => \E i \in committed : i.seq = section.seq
      BY Zenon DEF Settled, Header
    <3> QED  BY <1>1, <1>4, <3>1, <3>2 DEF Sections
  <2>6. PublishInv(t)'
    BY <1>3, <1>6, <2>3, <2>4, Zenon DEF PublishInv, Prepared, Publishing
  <2>7. th'[t].pc \in InFlight /\ th'[t].pc # "slots"
    BY <2>3 DEF InFlight, Publishing
  <2> QED  BY <1>2, <1>3, <1>4, <1>5, <2>3, <2>4, <2>5, <2>6, <2>7, StoreStep
<1>8. CASE PublishGen(t)
  <2>1. /\ th[t].pc = "publishGen" /\ Goto(t, "publishMount")
        /\ section' = [section EXCEPT !.gen = th[t].img.gen, !.ready = th[t].img.ready]
    BY <1>8, Zenon DEF PublishGen, At
  <2>2. "publishMount" \in ThreadPcs
    BY Zenon DEF ThreadPcs, Owning, Publishing
  <2>3. /\ th' \in [Threads -> ThreadRecs] /\ th'[t].pc = "publishMount"
        /\ th'[t].holds = th[t].holds /\ th'[t].img = th[t].img
        /\ \A u \in Threads : u # t => th'[u] = th[u]
    BY <1>1, <2>1, <2>2, GotoFacts, Zenon
  <2>4. section.seq = th[t].img.seq - 1
    BY <1>1, <2>1, Zenon DEF PublishInv, Publishing
  <2>5. /\ section' \in Sections
        /\ section'.seq = section.seq /\ section'.named = section.named
        /\ section'.temporary = section.temporary /\ section'.slots = section.slots
        /\ section'.gen = th[t].img.gen /\ section'.ready = th[t].img.ready
    BY <1>1, <1>4, <2>1, Zenon DEF Images, Sections
  <2>6. PublishInv(t)'
    BY <1>3, <1>6, <2>3, <2>4, <2>5, Zenon DEF PublishInv, Prepared, Publishing
  <2>7. th'[t].pc \in InFlight /\ th'[t].pc # "slots" /\ section.seq <= section'.seq
    BY <1>1, <2>3, <2>5 DEF InFlight, Publishing, Sections
  <2> QED  BY <1>2, <1>3, <1>4, <1>5, <2>3, <2>4, <2>5, <2>6, <2>7, StoreStep
<1>9. CASE PublishMount(t)
  <2>1. /\ th[t].pc = "publishMount" /\ Goto(t, "publishCommit")
        /\ section' = [section EXCEPT !.mount = th[t].img.mount]
    BY <1>9, Zenon DEF PublishMount, At
  <2>2. "publishCommit" \in ThreadPcs
    BY Zenon DEF ThreadPcs, Owning, Publishing
  <2>3. /\ th' \in [Threads -> ThreadRecs] /\ th'[t].pc = "publishCommit"
        /\ th'[t].holds = th[t].holds /\ th'[t].img = th[t].img
        /\ \A u \in Threads : u # t => th'[u] = th[u]
    BY <1>1, <2>1, <2>2, GotoFacts, Zenon
  <2>4. /\ section.seq = th[t].img.seq - 1
        /\ section.gen = th[t].img.gen /\ section.ready = th[t].img.ready
    BY <1>1, <2>1, Zenon DEF PublishInv, Publishing
  <2>5. /\ section' \in Sections
        /\ section'.seq = section.seq /\ section'.named = section.named
        /\ section'.temporary = section.temporary /\ section'.slots = section.slots
        /\ section'.gen = section.gen /\ section'.ready = section.ready
        /\ section'.mount = th[t].img.mount
    BY <1>1, <1>4, <2>1, Zenon DEF Images, Sections
  <2>6. PublishInv(t)'
    BY <1>3, <1>6, <2>3, <2>4, <2>5, Zenon DEF PublishInv, Prepared, Publishing
  <2>7. th'[t].pc \in InFlight /\ th'[t].pc # "slots" /\ section.seq <= section'.seq
    BY <1>1, <2>3, <2>5 DEF InFlight, Publishing, Sections
  <2> QED  BY <1>2, <1>3, <1>4, <1>5, <2>3, <2>4, <2>5, <2>6, <2>7, StoreStep
<1> QED  BY <1>7, <1>8, <1>9, Zenon

\* An INITIALIZING header is followed by the slots and READY.
LEMMA SlotsSteps ==
    ASSUME IndInv, NEW t \in Threads,
           InitializeFreeSlots(t) \/ (PublishCommit(t) /\ ~th[t].img.ready)
    PROVE  IndInv'
<1>1. /\ TypeOK /\ PublishInv(t) /\ th \in [Threads -> ThreadRecs] /\ th[t] \in ThreadRecs
      /\ section \in Sections
  BY Zenon DEF IndInv, TypeOK
<1>2. /\ th[t].pc \in InFlight
      /\ UNCHANGED <<event, boot, plan, committed, minted, reminted>>
  BY Zenon DEF PublishCommit, InitializeFreeSlots, At, InFlight, Publishing
<1>3. CASE InitializeFreeSlots(t)
  <2>1. /\ th[t].pc = "slots" /\ section' = [section EXCEPT !.slots = TRUE]
        /\ th' = [th EXCEPT ![t].pc = "publish", ![t].img = plan_new_context]
    BY <1>3, Zenon DEF InitializeFreeSlots, At
  <2>2. "publish" \in ThreadPcs /\ plan_new_context \in Images
    BY Zenon DEF ThreadPcs, Owning, plan_new_context, Images
  <2>3. /\ th' \in [Threads -> ThreadRecs] /\ th'[t].pc = "publish"
        /\ th'[t].holds = th[t].holds /\ th'[t].img = plan_new_context
        /\ \A u \in Threads : u # t => th'[u] = th[u]
    BY <1>1, <2>1, <2>2, Zenon DEF ThreadRecs
  <2>4. committed = {} /\ section.seq = 1 /\ t \in Drivers /\ section.named
    BY <1>2, <2>1, PublisherFacts, Zenon
  <2>5. /\ section' \in Sections /\ section'.seq = 1 /\ section'.named /\ section'.slots
        /\ section'.temporary = section.temporary
    BY <1>1, <2>1, <2>4, Zenon DEF Sections
  <2>6. PublishInv(t)'
    <3>1. NextImage(t)'
      BY <1>2, <2>3, <2>4, Zenon DEF NextImage
    <3>2. section'.seq = th'[t].img.seq - 1
      BY <2>3, <2>5 DEF plan_new_context
    <3> QED  BY <1>2, <2>3, <2>4, <2>5, <3>1, <3>2, Zenon DEF PublishInv, Publishing
  <2>7. th'[t].pc \in InFlight
    BY <2>3, Zenon DEF InFlight
  <2> QED  BY <1>2, <2>3, <2>4, <2>5, <2>6, <2>7, StoreStep, Zenon
<1>4. CASE PublishCommit(t) /\ ~th[t].img.ready
  <2>1. /\ th[t].pc = "publishCommit" /\ section' = [section EXCEPT !.seq = th[t].img.seq]
        /\ Goto(t, "slots")
    BY <1>4, Zenon DEF PublishCommit, At
  <2>2. "slots" \in ThreadPcs
    BY Zenon DEF ThreadPcs, Owning
  <2>3. /\ th' \in [Threads -> ThreadRecs] /\ th'[t].pc = "slots"
        /\ th'[t].holds = th[t].holds /\ th'[t].img = th[t].img
        /\ \A u \in Threads : u # t => th'[u] = th[u]
    BY <1>1, <2>1, <2>2, GotoFacts, Zenon
  <2>4. NextImage(t) /\ section.named
    BY <1>2, <2>1, PublisherFacts, Zenon
  <2>5. committed = {} /\ t \in Drivers /\ th[t].img.seq = 1
    BY <1>4, <2>4, ImageFacts, Zenon
  <2>6. /\ section' \in Sections /\ section'.seq = 1 /\ section'.named
        /\ section'.slots = section.slots /\ section'.temporary = section.temporary
    BY <1>1, <2>1, <2>4, <2>5 DEF Sections
  <2>7. PublishInv(t)'
    BY <1>2, <2>3, <2>5, <2>6, Zenon DEF PublishInv, Prepared, Publishing
  <2>8. th'[t].pc \in InFlight
    BY <2>3, Zenon DEF InFlight
  <2> QED  BY <1>2, <2>3, <2>5, <2>6, <2>7, <2>8, StoreStep, Zenon
<1> QED  BY <1>3, <1>4, Zenon

\* The commit of a READY image mints one identity, and a new one.
LEMMA CommitStep ==
    ASSUME IndInv, NEW t \in Threads, PublishCommit(t), th[t].img.ready
    PROVE  IndInv'
<1> DEFINE img == th[t].img
           mint == IF t \in Drivers THEN <<"load", img.gen>> ELSE <<"mount", img.mount>>
<1>1. /\ TypeOK /\ PublishInv(t) /\ SectionInv /\ MintInv
      /\ th \in [Threads -> ThreadRecs] /\ th[t] \in ThreadRecs /\ section \in Sections
      /\ plan \in [Drivers -> Plans] /\ committed \subseteq Images
      /\ t \in Drivers => TodoInv(t) /\ PlanInv(t)
  BY Zenon DEF IndInv, TypeOK
<1>2. /\ th[t].pc = "publishCommit" /\ section' = [section EXCEPT !.seq = img.seq]
      /\ committed' = committed \cup {img} /\ minted' = minted \cup {mint}
      /\ reminted' = (reminted \/ mint \in minted)
      /\ UNCHANGED <<event, boot>>
  BY Zenon DEF PublishCommit, At
<1>3. th[t].pc \in InFlight
  BY <1>2, Zenon DEF InFlight, Publishing
<1>4. /\ th[t].holds /\ ~section.temporary /\ section.named /\ section.slots /\ NextImage(t)
      /\ t \in Drivers => plan[t].pc = "loading" /\ plan[t].next = 4 /\ ~Discards(t)
      /\ t \in Drivers <=> t \notin Setups
  BY <1>2, <1>3, PublisherFacts, Zenon
<1>5. /\ img \in Images /\ img.seq # 0 /\ img.seq % 2 = 0
      /\ \A i \in committed : /\ i.seq + 1 <= img.seq - 1
                              /\ i.gen <= img.gen /\ i.mount <= img.mount
                              /\ IF t \in Drivers THEN i.gen < img.gen ELSE i.mount < img.mount
  BY <1>4, ImageFacts, Zenon
<1>6. section.seq = img.seq - 1 /\ section.gen = img.gen /\ section.ready = img.ready
      /\ section.mount = img.mount
  BY <1>1, <1>2, Zenon DEF PublishInv, Publishing
<1>7. /\ section' \in Sections /\ section'.seq = img.seq /\ section'.named /\ section'.slots
      /\ ~section'.temporary /\ section'.gen = img.gen /\ section'.ready = img.ready
      /\ section'.mount = img.mount
  BY <1>1, <1>2, <1>4, <1>5, <1>6, Zenon DEF Sections, Images
<1>8. /\ img.seq \in Nat /\ img.gen \in Nat /\ img.mount \in Nat
      /\ \A i \in committed : i.seq \in Nat /\ i.gen \in Nat /\ i.mount \in Nat
  BY <1>1, <1>5, Zenon DEF Images
<1>9. Header' = img
  BY <1>5, <1>7, Zenon DEF Header, Images
<1>10. Settled'
  <2>1. \A i \in committed' : i.seq <= section'.seq
    BY <1>2, <1>5, <1>7, <1>8
  <2>2. Header' \in committed'
    BY <1>2, <1>9, Zenon
  <2> QED  BY <1>7, <2>1, <2>2, Zenon DEF Settled
<1>11. SectionInv'
  BY <1>7, <1>10, Zenon DEF SectionInv
<1>12. mint \notin minted
  <2>1. ASSUME mint \in minted  PROVE FALSE
    <3>1. PICK i \in committed : mint[2] <= (IF mint[1] = "load" THEN i.gen ELSE i.mount)
      BY <1>1, <2>1, Zenon DEF MintInv
    <3>2. CASE t \in Drivers
      <4>1. mint[2] = img.gen /\ mint[1] = "load"
        BY <3>2, Zenon
      <4> QED  BY <1>5, <1>8, <3>1, <3>2, <4>1
    <3>3. CASE t \notin Drivers
      <4>1. mint[2] = img.mount /\ mint[1] = "mount"
        BY <3>3, Zenon
      <4> QED  BY <1>5, <1>8, <3>1, <3>3, <4>1
    <3> QED  BY <3>2, <3>3, Zenon
  <2> QED  BY <2>1, Zenon
<1>13. MintInv'
  <2>1. \A i \in committed' : i.ready /\ i.seq # 0 /\ i.seq % 2 = 0
    BY <1>1, <1>2, <1>5, Zenon DEF MintInv
  <2>2. ASSUME NEW i \in committed', NEW j \in committed', i.seq <= j.seq
        PROVE  i.gen <= j.gen /\ i.mount <= j.mount
    <3>1. CASE i \in committed /\ j \in committed
      BY <1>1, <2>2, <3>1, Zenon DEF MintInv
    <3>2. CASE j = img
      BY <1>2, <1>5, <1>8, <3>2
    <3>3. CASE i = img /\ j \in committed
      BY <1>5, <1>8, <2>2, <3>3
    <3> QED  BY <1>2, <3>1, <3>2, <3>3, Zenon
  <2>3. ASSUME NEW id \in minted'
        PROVE  \E i \in committed' : id[2] <= (IF id[1] = "load" THEN i.gen ELSE i.mount)
    <3>1. CASE id \in minted
      BY <1>1, <1>2, <3>1, Zenon DEF MintInv
    <3>2. CASE id = mint
      <4>1. img.gen <= img.gen /\ img.mount <= img.mount /\ img \in committed'
        BY <1>2, <1>8
      <4>2. id[2] = (IF id[1] = "load" THEN img.gen ELSE img.mount)
        BY <3>2, Zenon
      <4> QED  BY <4>1, <4>2, Zenon
    <3> QED  BY <1>2, <3>1, <3>2, Zenon
  <2>4. IdentitiesUnique'
    BY <1>1, <1>2, <1>12, Zenon DEF MintInv, IdentitiesUnique
  <2> QED  BY <2>1, <2>2, <2>3, <2>4, Zenon DEF MintInv
<1>14. mint \in {"load", "mount"} \X Nat
  BY <1>8, Zenon
<1>15. /\ committed \subseteq committed' /\ committed' \subseteq Images
       /\ minted' \subseteq {"load", "mount"} \X Nat /\ reminted' \in BOOLEAN
  BY <1>1, <1>2, <1>5, <1>14, Zenon DEF TypeOK
<1>16. committed' # {} /\ section.seq < section'.seq /\ section'.seq \in Nat
  BY <1>2, <1>6, <1>7, <1>8
<1> HIDE DEF img, mint
<1>20. section.seq <= section'.seq
  BY <1>1, <1>16 DEF Sections
<1>17. CASE t \in Drivers
  <2>1. /\ plan' = [plan EXCEPT ![t] = [Succeeded(plan[t]) EXCEPT !.ready = TRUE]]
        /\ Goto(t, "idle")
    BY <1>17, Zenon DEF PublishCommit
  <2>2. "idle" \in ThreadPcs
    BY Zenon DEF ThreadPcs
  <2>3. /\ th' \in [Threads -> ThreadRecs] /\ th'[t].pc = "idle"
        /\ th'[t].holds = th[t].holds /\ \A u \in Threads : u # t => th'[u] = th[u]
    BY <1>1, <2>1, <2>2, GotoFacts, Zenon
  <2>4. plan[t] \in Plans /\ plan[t].next = 4 /\ plan[t].next < 15 /\ plan[t].pc = "loading"
    BY <1>1, <1>4, <1>17
  <2>5. /\ Succeeded(plan[t]) \in Plans
        /\ Succeeded(plan[t]).next = 5 /\ Succeeded(plan[t]).pc = "loading"
    BY <2>4, SucceededFacts
  <2> DEFINE p == [Succeeded(plan[t]) EXCEPT !.ready = TRUE]
  <2>6. p \in Plans /\ p.next = 5 /\ p.pc = "loading" /\ p.ready
    BY <2>5, Zenon DEF Plans
  <2> HIDE DEF p
  <2>7. /\ plan' \in [Drivers -> Plans] /\ plan'[t].next = 5 /\ plan'[t].pc = "loading"
        /\ plan'[t].ready /\ \A d \in Drivers : d # t => plan'[d] = plan[d]
    BY <1>1, <1>17, <2>1, <2>6, Zenon DEF p
  <2>8. TypeOK' /\ Alone(t)
    BY <1>1, <1>2, <1>7, <1>15, <2>3, <2>7, Zenon DEF TypeOK, Alone
  <2>9. ControlInv(t)' /\ PublishInv(t)' /\ ReadInv(t)'
    BY <1>4, <1>17, <2>3, <2>7
       DEF ControlInv, PublishInv, ReadInv, Prepared, Owning, Publishing, Reading, LoadPcs
  <2>10. TodoInv(t)' /\ PlanInv(t)'
    BY <1>7, <1>16, <2>7 DEF TodoInv, PlanInv, Created
  <2>11. /\ committed \subseteq committed' /\ section'.seq \in Nat
         /\ committed # {} => /\ section.seq <= section'.seq
                              /\ section'.seq % 2 = 1 \/ section.seq < section'.seq
         /\ \A d \in Drivers : d # t /\ boot[d].handle => section'.named
         /\ event' = event /\ th'[t].holds = th[t].holds /\ th[t].holds
    BY <1>2, <1>4, <1>7, <1>15, <1>16, <1>20, <2>3, Zenon
  <2> QED  BY <1>11, <1>13, <1>17, <2>8, <2>9, <2>10, <2>11, WriteStep, Zenon
<1>18. CASE t \notin Drivers
  <2>1. Goto(t, "release") /\ plan' = plan
    BY <1>18, Zenon DEF PublishCommit
  <2>2. "release" \in ThreadPcs
    BY Zenon DEF ThreadPcs, Owning
  <2>3. /\ th' \in [Threads -> ThreadRecs] /\ th'[t].pc = "release"
        /\ th'[t].holds = th[t].holds /\ \A u \in Threads : u # t => th'[u] = th[u]
    BY <1>1, <2>1, <2>2, GotoFacts, Zenon
  <2>4. TypeOK' /\ Alone(t)
    BY <1>1, <1>2, <1>7, <1>15, <2>1, <2>3, Zenon DEF TypeOK, Alone
  <2>5. ControlInv(t)' /\ PublishInv(t)' /\ ReadInv(t)'
    BY <1>4, <1>18, <2>3, Zenon
       DEF ControlInv, PublishInv, ReadInv, Prepared, Owning, Publishing, Reading
  <2>6. /\ committed \subseteq committed' /\ section'.seq \in Nat
        /\ committed # {} => /\ section.seq <= section'.seq
                             /\ section'.seq % 2 = 1 \/ section.seq < section'.seq
        /\ \A d \in Drivers : d # t /\ boot[d].handle => section'.named
        /\ event' = event /\ th'[t].holds = th[t].holds /\ th[t].holds
    BY <1>2, <1>4, <1>7, <1>15, <1>16, <1>20, <2>3, Zenon
  <2> QED  BY <1>11, <1>13, <1>18, <2>4, <2>5, <2>6, WriteStep, Zenon
<1> QED  BY <1>17, <1>18, Zenon

-----------------------------------------------------------------------------
(* Giving the lock back.                                                   *)

\* KeSetEvent ends the ownership and nothing else.
LEMMA ReleaseSetStep ==
    ASSUME IndInv, NEW t \in Threads, ReleaseSet(t)
    PROVE  IndInv'
<1>1. /\ TypeOK /\ LockInv /\ ControlInv(t) /\ th[t] \in ThreadRecs
      /\ th \in [Threads -> ThreadRecs] /\ event \in [exists : BOOLEAN, signalled : BOOLEAN]
      /\ t \in Drivers => TodoInv(t) /\ PlanInv(t)
  BY Zenon DEF IndInv, TypeOK
<1>2. /\ th[t].pc = "releaseSet" /\ event' = [event EXCEPT !.signalled = TRUE]
      /\ th' = [th EXCEPT ![t].pc = "releaseDrop", ![t].holds = FALSE]
      /\ UNCHANGED <<section, boot, plan, committed, minted, reminted>>
  BY Zenon DEF ReleaseSet, At
<1>3. "releaseDrop" \in ThreadPcs
  BY Zenon DEF ThreadPcs
<1>4. /\ th' \in [Threads -> ThreadRecs] /\ th'[t].pc = "releaseDrop" /\ ~th'[t].holds
      /\ \A u \in Threads : u # t => th'[u] = th[u]
  BY <1>1, <1>2, <1>3, Zenon DEF ThreadRecs
<1>5. th[t].holds
  BY <1>1, <1>2, Zenon DEF ControlInv, Owning
<1>6. /\ event' \in [exists : BOOLEAN, signalled : BOOLEAN]
      /\ event'.signalled /\ event'.exists = event.exists
  BY <1>1, <1>2, Zenon
<1>7. event.exists /\ \A u \in Threads : ~th'[u].holds
  BY <1>1, <1>4, <1>5, Zenon DEF LockInv, LockExact
<1>8. LockInv'
  BY <1>6, <1>7, Zenon DEF LockInv, LockExact
<1>9. TypeOK' /\ Alone(t)
  BY <1>1, <1>2, <1>4, <1>6, Zenon DEF TypeOK, Alone
<1>10. /\ th[t].pc \notin InFlight
       /\ t \in Drivers => /\ ~Discards(t) /\ t \notin Setups
                           /\ \/ plan[t].pc = "loading" /\ plan[t].next = 5
                              \/ /\ plan[t].pc = "unwinding" /\ plan[t].todo # <<>>
                                 /\ Head(plan[t].todo) = "ReleaseBootLockEvent"
  BY <1>2, LoadPlaces, ThreadFacts, Zenon DEF InFlight, Publishing, Discards, Releasing
<1>11. ControlInv(t)'
  BY <1>1, <1>2, <1>4, <1>10 DEF ControlInv, Owning, Publishing, LoadPcs, Releasing
<1>12. PublishInv(t)' /\ ReadInv(t)'
  BY <1>4, Zenon DEF PublishInv, Prepared, ReadInv, Publishing, Reading
<1>13. t \in Drivers => TodoInv(t)'
  BY <1>1, <1>2 DEF TodoInv, Pending
<1>14. t \in Drivers => PlanInv(t)'
  BY <1>1, <1>2, <1>4, Zenon DEF PlanInv, Created, Pending
<1> QED  BY <1>2, <1>8, <1>9, <1>10, <1>11, <1>12, <1>13, <1>14, QuietStep, Zenon

\* A step of one driver that leaves the section and the lock alone.
LEMMA DriverStep ==
    ASSUME IndInv, NEW d \in Drivers, th' \in [Threads -> ThreadRecs],
           th'[d].holds = th[d].holds, \A u \in Threads : u # d => th'[u] = th[u],
           UNCHANGED <<event, section, committed, minted, reminted>>,
           boot' \in [Drivers -> Boots], plan' \in [Drivers -> Plans],
           \A e \in Drivers : e # d => /\ plan'[e] = plan[e]
                                       /\ boot'[e].at = boot[e].at /\ boot'[e].handle = boot[e].handle,
           th[d].pc \notin InFlight, section.temporary => ~Discards(d),
           ControlInv(d)', PublishInv(d)', ReadInv(d)', TodoInv(d)', PlanInv(d)'
    PROVE  IndInv'
<1>1. d \in Threads /\ TypeOK /\ LockInv
  BY ThreadFacts, Zenon DEF IndInv
<1>2. TypeOK' /\ LockInv' /\ Alone(d)
  BY <1>1, LockKept, Zenon DEF TypeOK, Alone
<1> QED  BY <1>1, <1>2, QuietStep, Zenon

\* The guard is dropped: a load or its rollback goes on, a setup has returned.
LEMMA ReleaseDropStep ==
    ASSUME IndInv, NEW t \in Threads, ReleaseDrop(t)
    PROVE  IndInv'
<1>1. /\ TypeOK /\ ControlInv(t) /\ th[t] \in ThreadRecs /\ th \in [Threads -> ThreadRecs]
      /\ boot \in [Drivers -> Boots] /\ plan \in [Drivers -> Plans]
      /\ t \in Drivers => TodoInv(t) /\ PlanInv(t)
  BY Zenon DEF IndInv, TypeOK
<1>2. /\ th[t].pc = "releaseDrop" /\ boot' = [boot EXCEPT ![Root(t)].held = FALSE]
      /\ th' = [th EXCEPT ![t] = IF t \in Drivers THEN IdleThread ELSE Returned]
      /\ UNCHANGED <<event, section, committed, minted, reminted>>
  BY Zenon DEF ReleaseDrop, At
<1>3. IdleThread \in ThreadRecs /\ Returned \in ThreadRecs
  BY Zenon DEF IdleThread, Returned, ThreadRecs, NoImage, Images, ThreadPcs
<1>4. /\ boot' \in [Drivers -> Boots]
      /\ \A d \in Drivers : boot'[d].at = boot[d].at /\ boot'[d].handle = boot[d].handle
  BY <1>1, <1>2, RootWritten, Zenon
<1>5. ~th[t].holds
  BY <1>1, <1>2, Zenon DEF ControlInv
<1>6. /\ th[t].pc \notin InFlight
      /\ t \in Drivers => /\ ~Discards(t) /\ t \notin Setups
                          /\ \/ plan[t].pc = "loading" /\ plan[t].next = 5
                             \/ /\ plan[t].pc = "unwinding" /\ plan[t].todo # <<>>
                                /\ Head(plan[t].todo) = "ReleaseBootLockEvent"
  BY <1>2, LoadPlaces, ThreadFacts, Zenon DEF InFlight, Publishing, Discards, Releasing
<1>7. CASE t \notin Drivers
  <2>1. th' = [th EXCEPT ![t] = Returned] /\ plan' = plan
    BY <1>2, <1>7, Zenon DEF ReleaseDrop
  <2>2. /\ th' \in [Threads -> ThreadRecs] /\ th'[t] = Returned
        /\ \A u \in Threads : u # t => th'[u] = th[u]
    BY <1>1, <1>3, <2>1, Zenon
  <2>3. th'[t].pc = "returned" /\ ~th'[t].holds
    BY <2>2, Zenon DEF Returned, IdleThread
  <2>4. ControlInv(t)' /\ PublishInv(t)' /\ ReadInv(t)'
    BY <1>7, <2>3, Zenon DEF ControlInv, PublishInv, ReadInv, Prepared, Owning, Publishing, Reading
  <2>5. th'[t].holds = th[t].holds
    BY <1>1, <1>5, <2>2, <2>3, Zenon DEF ThreadRecs
  <2> QED  BY <1>2, <1>4, <1>6, <1>7, <2>1, <2>2, <2>4, <2>5, MoveStep, Zenon
<1>8. CASE t \in Drivers
  <2>1. th' = [th EXCEPT ![t] = IdleThread]
    BY <1>2, <1>8, Zenon
  <2>2. /\ th' \in [Threads -> ThreadRecs] /\ th'[t] = IdleThread
        /\ \A u \in Threads : u # t => th'[u] = th[u]
    BY <1>1, <1>3, <1>8, <2>1, Zenon
  <2>3. /\ th'[t].pc = "idle" /\ ~th'[t].holds /\ th'[t].holds = th[t].holds
    <3>1. th'[t].pc = "idle" /\ ~th'[t].holds
      BY <2>2 DEF IdleThread
    <3> QED  BY <1>1, <1>5, <2>2, <3>1, Zenon DEF ThreadRecs
  <2>4. plan[t] \in Plans
    BY <1>1, <1>8, Zenon
  <2>5. CASE plan[t].pc = "loading"
    <3>1. plan' = [plan EXCEPT ![t] = Succeeded(plan[t])] /\ plan[t].next = 5
      BY <1>6, <1>8, <2>5, Zenon DEF ReleaseDrop, Done
    <3>2. /\ Succeeded(plan[t]) \in Plans /\ Succeeded(plan[t]).next = 6
          /\ Succeeded(plan[t]).pc = "loading" /\ Succeeded(plan[t]).ready = plan[t].ready
      BY <2>4, <2>5, <3>1, SucceededFacts
    <3>3. /\ plan' \in [Drivers -> Plans] /\ plan'[t].next = 6 /\ plan'[t].pc = "loading"
          /\ plan'[t].ready = plan[t].ready
          /\ \A d \in Drivers : d # t => plan'[d] = plan[d]
      BY <1>1, <1>8, <3>1, <3>2, Zenon
    <3>4. PublishInv(t)' /\ ReadInv(t)' /\ TodoInv(t)'
      <4>1. th'[t].pc = "idle" /\ plan'[t].pc = "loading" /\ plan'[t].next = 6
        BY <2>3, <3>3, Zenon
      <4>2. PublishInv(t)'
        BY <4>1 DEF PublishInv, Prepared, Publishing
      <4>3. ReadInv(t)'
        BY <4>1, Zenon DEF ReadInv, Reading
      <4>4. TodoInv(t)'
        BY <4>1, Zenon DEF TodoInv
      <4> QED  BY <4>2, <4>3, <4>4, Zenon
    <3>5. plan[t].ready /\ committed # {} /\ (boot[t].handle => section.named)
      BY <1>1, <1>8, <2>5, <3>1 DEF PlanInv
    <3>6. plan'[t].ready /\ committed' # {} /\ (boot'[t].handle => section'.named)
      BY <1>2, <1>4, <1>8, <3>3, <3>5, Zenon
    <3>7. PlanInv(t)'
      <4>1. /\ th'[t].pc = "idle" /\ ~th'[t].holds
            /\ plan'[t].pc = "loading" /\ plan'[t].next = 6
        BY <2>3, <3>3, Zenon
      <4> QED  BY <3>6, <4>1 DEF PlanInv, Created
    <3>8. ControlInv(t)'
      <4>1. LoadPcs(6) = {"idle"}
        BY DEF LoadPcs
      <4> QED  BY <1>6, <1>8, <2>3, <3>3, <4>1 DEF ControlInv, Owning, Publishing
    <3> QED  BY <1>2, <1>4, <1>6, <1>8, <2>2, <2>3, <3>3, <3>4, <3>7, <3>8, DriverStep, Zenon
  <2>6. CASE plan[t].pc = "unwinding"
    <3>1. /\ plan' = [plan EXCEPT ![t].todo = Tail(plan[t].todo)]
          /\ plan[t].todo # <<>> /\ Head(plan[t].todo) = "ReleaseBootLockEvent"
      BY <1>6, <1>8, <2>6, Zenon DEF ReleaseDrop, Undone
    <3>2. /\ plan'[t] = [plan[t] EXCEPT !.todo = Tail(plan[t].todo)]
          /\ \A d \in Drivers : d # t => plan'[d] = plan[d]
      BY <1>1, <1>8, <3>1, Zenon
    <3>3. /\ plan'[t] \in Plans /\ ControlInv(t)' /\ TodoInv(t)' /\ PublishInv(t)' /\ ReadInv(t)'
          /\ \A e \in Undos : e # Head(plan[t].todo) => (Pending(t, e)' <=> Pending(t, e))
      BY <1>2, <1>8, <2>3, <2>6, <3>1, <3>2, UndoneStep, Zenon
    <3>4. plan' \in [Drivers -> Plans]
      BY <1>1, <1>8, <3>1, <3>2, <3>3, Zenon
    <3>5. /\ plan[t].todo \in Seq(Undos) /\ plan'[t].pc = "unwinding"
      BY <2>4, <2>6, <3>2, Zenon DEF Plans
    <3>6. ~Pending(t, "CloseBootSection")
      <4>1. 1 \in DOMAIN plan[t].todo /\ plan[t].todo[1] = "ReleaseBootLockEvent"
            /\ \A i \in DOMAIN plan[t].todo : i \in Nat /\ i >= 1
        BY <3>1, <3>5, TailFacts, Zenon
      <4>2. TodoInv(t)
        BY <1>1, <1>8, Zenon
      <4> QED  BY <2>6, <4>1, <4>2 DEF TodoInv, Pending
    <3>7. ~Pending(t, "CloseBootSection")'
      BY <3>1, <3>3, <3>6, UndoNames, Zenon
    <3>8. PlanInv(t)
      BY <1>1, <1>8, Zenon
    <3>9. PlanInv(t)'
      BY <1>2, <1>4, <1>8, <2>3, <2>6, <3>5, <3>6, <3>7, <3>8, Zenon DEF PlanInv, Created
    <3> QED  BY <1>2, <1>4, <1>6, <1>8, <2>2, <2>3, <3>2, <3>3, <3>4, <3>9, DriverStep, Zenon
  <2> QED  BY <1>6, <1>8, <2>5, <2>6, Zenon
<1> QED  BY <1>7, <1>8, Zenon

\* release_lock_event: the guard, the event, then the cell.
LEMMA ReleaseSteps ==
    ASSUME IndInv, NEW t \in Threads, Release(t)
    PROVE  IndInv'
<1>1. CASE ReleaseTake(t)
  <2>1. /\ th[t].pc = "release" /\ boot' = [boot EXCEPT ![Root(t)].guard = FALSE]
        /\ Goto(t, "releaseSet") /\ UNCHANGED <<event, section, plan, committed, minted, reminted>>
    BY <1>1, Zenon DEF ReleaseTake, At
  <2>2. /\ ControlInv(t) /\ boot \in [Drivers -> Boots] /\ "releaseSet" \in ThreadPcs
    BY Zenon DEF IndInv, TypeOK, ThreadPcs, Owning
  <2>3. /\ boot' \in [Drivers -> Boots]
        /\ \A d \in Drivers : boot'[d].at = boot[d].at /\ boot'[d].handle = boot[d].handle
    BY <2>1, <2>2, RootWritten
  <2>4. /\ th[t].pc \notin InFlight /\ th[t].holds
        /\ t \in Drivers => /\ ~Discards(t) /\ t \notin Setups
                            /\ \/ plan[t].pc = "loading" /\ plan[t].next = 5
                               \/ /\ plan[t].pc = "unwinding" /\ plan[t].todo # <<>>
                                  /\ Head(plan[t].todo) = "ReleaseBootLockEvent"
    BY <2>1, <2>2, LoadPlaces, ThreadFacts, Zenon
       DEF InFlight, Publishing, Discards, Releasing, ControlInv, Owning
  <2>5. ASSUME th'[t].pc = "releaseSet", th'[t].holds = th[t].holds
        PROVE  ControlInv(t)' /\ PublishInv(t)' /\ ReadInv(t)'
    <3>1. ControlInv(t)'
      BY <2>1, <2>2, <2>4, <2>5 DEF ControlInv, LoadPcs, Releasing
    <3> QED  BY <2>5, <3>1 DEF PublishInv, ReadInv, Prepared, Publishing, Reading
  <2> QED  BY <2>1, <2>2, <2>3, <2>4, <2>5, GotoStep, Zenon
<1>2. CASE ReleaseSet(t)
  BY <1>2, ReleaseSetStep, Zenon
<1>3. CASE ReleaseDrop(t)
  BY <1>3, ReleaseDropStep, Zenon
<1> QED  BY <1>1, <1>2, <1>3, Zenon DEF Release

=============================================================================
