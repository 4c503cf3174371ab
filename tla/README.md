# A TLA+ development for FSRING (winfsr)

FSRING is a Windows file system whose kernel driver hands requests to a
user-mode daemon over rings in shared memory. This directory models the driver,
the shared contract and the daemon, checks the models with TLC on small
instances, and proves the main safety properties of some of them with TLAPS for
every value of their constants.

## The system and its parts

The repository has five parts: the native driver (`driver/fsring-fsd`) and the
code of it that needs no Windows headers (`driver/fsring-core`), the contract
both ends share (`fsring-abi`), the daemon's runtime (`fsring-user`) and a sample
provider that mirrors a directory (`mirrorfs`).

A request gets a slot and an identifier in the request table, travels down the
submission ring, and comes back on the completion ring quoting the identifier.
The daemon's threads enter the driver with ENTER, which resolves the session,
takes a role on a ring, drains or waits, and leaves. A session is built by SETUP
and ends when one terminal cause claims it. Its fence then closes admission,
wakes and waits for everybody inside, and releases what they used. The driver
keeps a small permanent section with the identities it has used, so that the
next load does not use them again. The provider keeps what must survive it in
durable records.

| part | source | module |
|---|---|---|
| submission ring, park and wake | `fsring-abi/src/ring.rs`, `fsring-user/src/section/*` | `SqRing`, proved |
| completion ring, ENTER(DRAIN_CQ), credits, fence rows | `ring.rs`, `fsring-fsd/src/session.rs`, `fsring-core/src/{grant,enter,adapter/enter}.rs` | `CqDrain`, proved |
| request table | `fsring-core/src/reqtab.rs` | `ReqTab`, proved |
| parked ENTER(WAIT) | `fsring-fsd/src/pending_enter.rs`, `fsring-core/src/enter.rs` | `PendingSlot`, `PendingEnter` |
| ENTER plan, overlapped call of the daemon | `adapter/enter.rs`, `session.rs`, `fsring-user/src/native.rs` | `EnterPlan`, `EnterCall`, proved |
| sessions, control files, process exit, unload | `fsring-core/src/session.rs`, `adapter/lifecycle.rs`, `fsring-fsd/src/{lifecycle,control,driver}.rs` | `SessionCore`, `SessionLife` |
| load, boot section, mount identities | `adapter/load.rs`, `bootctx.rs`, `fsring-fsd/src/boot.rs` | `BootLoad`, proved; `BootImage` |
| SETUP | `adapter/setup.rs`, `session.rs`, `section_layout.rs`, `slots.rs`, `handshake.rs` | `SetupPlan`, `SectionLayout`, `SlotGrant`, `SessionSetup` |
| terminal fence | `adapter/fence.rs`, `fsring-fsd/src/fence.rs` | `FenceRunner` |
| mount and dismount | `volume.rs`, `adapter/{volume,lifecycle}.rs`, `fsring-fsd/src/volume.rs` | `MountVolume` |
| paging writes | `pagingledger.rs` | `PagingLedger` |
| exactly-once operations | `fsring-abi/src/validate/messages.rs`, `digest.rs` | `CommitResult`, `ExactlyOnce`, `StreamDigest` |
| notifications | `validate/messages.rs`, `msgs/notify.rs` | `NotifyBody`, `NotifyContract` |
| durable records | `durable/*`, `validate/durable*.rs` | `DurableRecord`, `DurableStore` |
| daemon and mirror provider | `fsring-user/src/*`, `mirrorfs/src/*` | `MirrorData`, `MirrorNamespace`, `DirQuery` |

`PROJECT.json` lists every component with its files and what is left out of it,
maps each definition to the lines it translates, and lists the hazards with the
properties that cover them.

## Modules

**`BoundedFifo`**: the abstract channel. Items are put at one end, while there is
room, and taken at the other. Both rings are shown to implement it.

**`SqRing`**: every load, store and read-modify-write of `try_push`, `try_pop`,
`refresh_validated_head`, `should_wake` and `declare_park` is an action. Producers
carry their samples (`floor`, `observed`, `firstTail`, `firstHead`, `secondTail`)
as the code's locals do. The consumer runs the loop of `pump_once`. `reserved`,
`consumed` and `wasFull` are history.

**`CqDrain`**: the daemon's producer, threads in ENTER(DRAIN_CQ) with the
consumer role, both spin locks, the copy of the record, classification, claim,
head advance and refresh of the credit, and the rows of the fence. `read_cqe`
copies a record with one plain read, which orders neither half before the other,
so the model copies the sequence and the body in two steps, in either order, with
the daemon running between them.

**`ReqTab`**: one action per public operation of `RequestTable`, with the
affine values it hands out in `held`. `fsring-fsd` has no caller of the table
yet, so callers are free: they make any call the API's types let them make.
Application slots and control lanes share their life cycle and are one function.

**`PendingEnter`** with **`PendingSlot`**: one ring's slot. The record `slot` is
what its spin lock protects, the operators of `PendingSlot` are its state
machines, and an action is one hold of that lock or one call outside it. The
processes are ENTERs, the cancel routine, the timer with its DPC, the work item,
and the fence. `PendingReason::Unload` is left out: no production code deposits
it. A bugcheck stops the machine.

**`EnterCall`** with **`EnterPlan`**: ENTER from the daemon's overlapped call
(begin, wait, cancel, drop) through the driver's ordered effects and the rollback
of a failed one to the answer the daemon reads. Each way out of the dispatch is an
exit of its own: a request refused before the plan, a failed effect with its
rollback, and a park. The memory of an operation is owned, freed or forgotten; a
drop whose cancel or wait fails forgets it.

**`SessionLife`** with **`SessionCore`**: control files, bindings, registry slots,
the rendezvous of terminal causes, finalizer, retry worker and unload. An action
is one hold of the registry lock or one event, rundown or pool call between two
holds. A fence pass is its two waits and its verdict, and a parked one is taken
up again by the retry worker, which completes it, gives it up or parks it once
more; how the verdict comes about is `FenceRunner`.

**`FenceRunner`**: the sixteen effects in order with their prerequisites, the CQ
consumer tokens taken and given back, every native call refusing, the park of a
refused pass in timer, DPC and work item, and the fail-stop slot.

**`MountVolume`**: the mount transaction with its unwind table, the VPB lock, the
mount rendezvous and the teardown. The device's published word is loaded outside
the lock and checked again where `check_binding` does it.

**`BootLoad`** and **`BootImage`**: who publishes the boot section when, load and
unload with every failure; and the records themselves, looked at while their words
are being stored.

**`SetupPlan`**, **`SectionLayout`**, **`SlotGrant`**, **`SessionSetup`**: the
effects of one SETUP and their unwinding; the layout both ends compute; slot
tokens, credits and buffer references; and the handshake of the two ends, where
the operating system may report one view wrongly mapped.

**`PagingLedger`**: issue numbers, the terminal prefix, the evidence of failed
writes, verified VDL snapshots and the advance-only barrier, with memory pressure.

**`CommitResult`** and **`ExactlyOnce`**, **`NotifyBody`** and
**`NotifyContract`**, **`DurableRecord`** and **`DurableStore`**,
**`StreamDigest`**: in each pair the first module holds the validators, tables
and arithmetic of `fsring-abi` as operators, the second the protocol they bound.
The driver does not call them yet; the steps that carry a verdict out are marked
external and follow the design documents.

**`MirrorData`**, **`MirrorNamespace`**, **`DirQuery`**: the daemon's dispatcher
with the mirror provider: data and sizes of one file under two opens; three books
of one namespace (volume, identity registry, open tables) with native calls that
fail and other programs that change the volume; and enumeration in batches. The
daemon serves one request at a time, so a request is one action.

Memory is sequentially consistent in all modules. The code orders the accesses
that matter with Acquire/Release on head, tail and sequence, and with SeqCst
fences on both sides of the park state; `read_cqe` is the exception (see the
disagreements below).

### Modules for TLC

`MCDriver`, `MCProtocols`, `MCProvider` and `MCStorage` each put several
components that share no state beside each other: a variable `comp`, chosen
initially, says which one a behaviour is about, and the others do not move. Such
a run is the union of the components' own runs. Its properties are the
components' properties, guarded by `comp` where the component has no state
otherwise. `MCSessionLife` adds a constraint to `SessionLife`, `MCEnterCall` a
symmetry to `EnterCall`. The other runs take the component's module directly.

## Runs

| run | instance | states | what holds |
|---|---|---|---|
| `SqRing` | 2 producers, 2 cells, cursors to 3 | 515 060 | nobody is accused; cells exclusive; no lost wake; implements `BoundedFifo`; every reserved entry is consumed |
| `CqDrain` | 2 threads, 1 credit and one other record, 2 cells, 3 generations | 344 577 | credits conserved; only a torn copy accuses an honest daemon; implements `BoundedFifo`; nothing moves after the rundown; a fence that has begun completes |
| `ReqTab` | 1 slot, 1 lane, 2 generations, 2 epochs | 160 302 | no identifier reused; owners conserved; cancels hit their owner; a drain empties the table |
| `PendingEnter` | 1 WAIT, 1 poll, 1 worker frame | 160 502 | only the owner completes, once; a parked WAIT with a cause to end is answered |
| `Session` | 2 control files, 1 cell, 1 SETUP, 1 resolver, process exit | 1 179 936 | a context outlives its users; a cell never shows another generation's session; terminal and join tickets are conserved |
| `Unload` | 1 control file, unload at any time | 91 312 | the registry outlives its users; cleanup and unload end |
| `Driver` | 2 drivers, 2 SETUPs, 2 loads, 1 failure; SETUP of two rings; all requests around the limits | 591 764 | the boot lock has one exact holder; load identities unique; captured images whole; both ends agree on the layout; a failed SETUP is unwound |
| `Protocols` | 3 lost sessions; 2 lost notification sessions; 4 refusals over 2 rings; 2 MOUNTs against 2 dismounts | @PROTO@ | operations take effect exactly once; notifications are consistent; the fence keeps its roster order; a failed MOUNT leaves nothing; each protocol ends |
| `Provider` | 2 opens of a file; 2 names two levels deep, 1 outside change; directory batches | 89 376 | data and sizes are the last write's; the three books of the namespace agree; a scan lists each lasting name once; an open is granted on what its prepare answered |
| `Storage` | 2 mounts; 2 slots, header sequences to 4; 3 paging writes | 52 482 | records decode to what was encoded and misplaced ones are refused; budgets hold and receipts are never starved; torn images are refused; the ledger covers every write not proved, and its barrier is clear over proved bytes only |
| `EnterCall` | 2 overlapped ENTERs, 2 credits, 1 fault | 905 160 | an answered ENTER leaves no role, reference or lock; buffers outlive the I/O |
| `PendingSlotReuse` | as `PendingEnter` | | a counterexample, see below |

Why the bounds are enough to be interesting. Two cells and cursors to 3 wrap the
ring, fill it and reach the last cursor. Two producers race for a cell;
`MAX_RESERVE_RETRIES` is 1, so the loser of one race is Contended and its caller
submits again (the proofs take any bound). Three generations let a credit be spent,
re-issued and spent again, and then run out. Two generations and two epochs let a
slot be reused, rebound and retired; `ReqTab` has one application slot and one lane,
so what two slots do to each other rests on its proofs. Two ENTERs let one park while the other rings
the doorbell, is refused the role, or parks after it. Two control files and one
cell let a session be replaced by another of the next generation while a resolver
still carries the first one's address. Two loads let a second driver image find
the section the first one left. Three lost sessions let an operation be lost
before its effect, after it, and again while it is being resolved. Four refusals
let every row of a fence refuse and be retried. Byte limits are scaled down
together so that a record, a budget or a window can be exactly full, one short and
one over. In the namespace one file is linked at the start and three stamps can be
drawn, so that a link can be replaced, moved and made again. The two-file session
run has the process exit while no request is inside the driver; the one-file unload
run has no such constraint. Symmetry is used in `EnterCall` and `Provider`, which
check no liveness. Deadlock is
not checked where the system may stop: cursors exhausted, all calls returned, the
fence done.

### Fairness

Fairness is weak, but for two cases named below, and is about a frame that has
started. In
`SqRing` it is the consumer's loop and a push under way: a kernel thread between
its reservation and its publication is not abandoned. In `CqDrain` it is a thread
inside the driver and a fence under way. In `ReqTab` it is the holder of a token,
because a capture, a package and a receipt are carried on by straight-line code of
one caller, and the loop that drains. In `PendingEnter` it is dispatch, cancel,
DPC and worker frames, the timer, the system's work queue, and the fence once it
has claimed the session. In `SessionLife` it is every dispatch routine, finalizer
and worker, the cleanup of each handle (process exit closes it), and, strongly,
that a retry worker which is run again and again completes the fence or gives it
up: a refusal that is only for now does not come back for ever. In `FenceRunner` and `MountVolume` it is the
timer, the DPC, the worker and each frame under way; acquiring the VPB lock is
strongly fair, since a spin lock is handed on. In `ExactlyOnce` and
`NotifyContract` it is a kernel that reconnects and retries what it has not
resolved and a daemon that answers what it received; losses and faults are bounded.
Nobody is obliged to push, enter, cancel, write or fence.

### Disagreements found

`PendingSlotReuse` ends in a counterexample: a slot is still `Installing` when its
WAIT is published, because nothing moves it to `Quiescing`, so `publish_vacant`
refuses what the comment calls unreachable. The state stays while the install is
cleared. Later parks on the ring are refused, and a fence that looks at the slot
panics.

The others are stated as definitions of their module and fail when the run's
configuration checks them instead of its properties (in a union, the run of that
component).

| definition | what the code does, and what is said |
|---|---|
| `SetupPlan!FailedReleasesAll` | a failure inside effect 8 or 11 of SETUP is unwound without the resources that effect had already taken; a comment at `session.rs:1940` says they are still owned and torn down |
| `FenceRunner!FullPassDischarges` | a pass in which nothing refused leaves residual work; a test says it must discharge |
| `CqDrain!RemainingReported` | `CQ_REMAINING` is never set; the transport document sets it iff a ready record remains |
| `CqDrain!NoFalseAccusation` | `read_cqe` is one plain read; the document copies the body after the Acquire load of the sequence. An honest daemon can be accused over a torn copy; `AccusedOnlyTorn` says over nothing else |
| `CqDrain!FenceConsumesPrefix` | the native fence row consumes nothing; the document's walks each ring's stable prefix |
| `EnterCall!StatusLegal` | a second ENTER for a role is answered with a status that is not in ENTER's list |
| `ExactlyOnce!CreateSlotHeld` | in abort mode NOT_FOUND releases the slot of a COMMIT_OPEN whose prepare still exists |
| `DirQuery!SnapshotFrozen` | a repeated first request replaces the sequence already observed |
| `MirrorData!AllocationShrinks` | an allocation set below the end of file moves the end and not the valid data length |
| `MirrorData!EqualEpochEqualState` | a write that changes only the allocation answers with the old size epoch; the transport document wants equal states for equal counters |
| `SessionLife!HandoffCleared` | a fence completed by its retry worker leaves the finalizer's handoff in the cell that `reset_after_delete` releases; its comment says every observation is cleared. `UnloadEnds` excepts this case; `KernelFenceOps` does not reach it in this revision |

## Proofs

Five components are proved: `SqRing`, `CqDrain`, `ReqTab`, `BootLoad` and
`EnterCall`. In each, `X_theorems` (with `X_lemmas` for `SqRing`, `CqDrain` and
`BootLoad`) proves `Spec => []IndInv` and from it the properties that the run
checks, other than liveness. `IndInv` is defined in the component's own module.
`PROJECT.json` lists the theorems.

The assumptions are the named ones of the modules: a ring of at least two cells, at
least one retry, a cursor limit no smaller than the ring; at least one slot, one
generation and one epoch; record kinds, credits and threads that are told apart; a
driver for each SETUP; and, for ENTER, request modes of the three kinds. Producers,
threads, slots, lanes, loads and calls are arbitrary in number.

**`SqRing`.** The properties are not inductive, because a producer acts on samples
that are out of date. `IndInv` says what an old sample still guarantees: it is
below the cursor it was taken from, and a tail taken from a validated head is
within a lap of it. Every cell of the lap ahead of the head is then published with
the body of its reservation or still carries an older sequence, and a producer
between reservation and publication owns the cell of its position. Positions less
than a lap apart do not share a cell. A separate part follows the second pass of a
push that saw a full ring. `Implements` maps `reserved` beyond `head` to the
abstract queue.

**`CqDrain`.** The argument has layers, each resting on the one before: which locks
and roles a thread's control holds and what the fence has passed (`LockInv`,
`FenceInv`); the cursors and cells (`CursorInv`, `CellInv`, `BodyInv`); what the
drain in progress has read (`ReadInv`); the credit it may spend (`GrantInv`); where
each token is (`HomeInv`, `SpentInv`). `ReadInv` is stated for both orders of the
copy: what a drain accepts is the record at the head, while a torn copy may pair it
with the residue of an earlier lap. So credits are conserved and the FIFO is
implemented whatever the order, and the torn copy is the only accusation left.

**`ReqTab`.** What each slot has handed out in the current epoch is bounded by the
generation the slot shows, which makes identifiers fresh. Every issued key is tied
to an identifier that was handed out, so that a key never names a later occupant. A
bijection between affine values and waiting slots carries owner conservation.

**`BootLoad`.** `ControlInv` says where in a load, an unwind or a SETUP a thread
owns the lock; `TodoInv` that an unwind gives the lock back after the section;
`PlanInv` whose the section is before anything was committed in it. `SectionInv`
and `PublishInv` say that the words of the section are zero, the newest committed
image, or that image as far as the one publisher has stored its successor.
`ReadInv` says what words read without the lock are worth: they are of one image if
the sequence is still the first one read. `MintInv` has every identity covered by
the newest image, so the next one is new.

**`EnterCall`.** `RoleInv` says which lease a plan has at each point of the dispatch
and of its unwinding, `PhaseInv` which phases each kind of ENTER reaches,
`CreditInv` that a credit found to fit is still there and still fits when it is
claimed, taken and returned; `HoldInv` where the session reference and the
ring's lock may be held; `OwnerInv` that the ring's owner and the plan's lease
agree, and that an outstanding ENTER has its buffers. The exits that give nothing
back are harmless because of `RoleInv` and `HoldInv`.

Only model-checked: all liveness (`EveryEntryConsumed`, `FenceCompletes`,
`DrainCompletes`, `ParkedWaitAnswered`, `LifecycleEnds`, `ProtocolsEnd`, the
unwinding in `SetupUnwinds`), because the prover has no rule for fairness;
`FreeListExact` of `ReqTab` and what `StreamDigest` and the codecs compute, because
they are recursions over data; and the modules not named in this section.

## Observations from modelling

- A parked WAIT learns that the ring is ready from another ENTER only; the
  comment at `execute_enter` says so. The daemon's own wake object is the other
  way, in `SqRing`.
- A control lane in `Quarantined` makes `rebind_session` fail until a drain.
- A credit claimed by a drain that then aborts is not returned; the model keeps
  such credits in `lost`, and `CreditConservation` counts them.
- A wake that arrives while a slot is completing is refused. Only a cancel is
  put back, by the pass that found no IRP.
- `BootLockCell.held` is shared by the whole driver (`boot.rs:545`, `load.rs:552`);
  its comment speaks of the holder alone.
- A drain polls the readiness of the SQ before it drains the CQ; the transport
  document has it afterwards.
- `validate_query_op_v2` wants a length of exactly 224 bytes; the document allows
  40 to 224.
- `serve_setup` of the daemon always asks for the Windows 10 x64 profile.
- The mirror stops its daemon on four legal requests: RENAME replacing a directory
  that has registered children, RENAME into the renamed directory's own subtree,
  LINK replacing its own name, and RENAME of a directory above an open file
  that has been unlinked. FileIds reserved by an aborted prepare are not reused.
- CANCEL has no arm in `Daemon::dispatch`, and a grant once made is never retired.

## Not modelled

Native glue (bindings, exception boundary, tracing) appears as what it does to
modelled state. Typestates are checked by the compiler. The smoke tool, the test
kit and the scripts are not part of the running system. Byte offsets of the wire
structures are checked by the crate's own layout tests. Parts of `fsring-core`
that nothing in the driver calls yet (`R4EnterPlan`, `CqDrainAuthority`,
`ValidatedCompletion`, `begin_pending_install`, `FenceExecutionPlan`,
`authorize_resume`, `run_terminal_arrival`, `NativeEnterPlan::resume` and what they
reach) are left out; `PagingLedger`, the durable records and the operation digests
are modelled although they have no caller in the driver yet, because they are
complete in themselves. `SessionLife` takes the outcome of a fence as an input;
`FenceRunner` is the fence.
