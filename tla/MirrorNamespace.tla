------------------------- MODULE MirrorNamespace -------------------------
(***************************************************************************)
(* The provider daemon's namespace: the dispatcher of fsring-user with its *)
(* open lifecycle (daemon.rs, lifecycle.rs), driving the mirrorfs provider *)
(* (opens.rs, identity.rs, lib.rs), which mirrors a directory of a real    *)
(* volume.  Three books describe one namespace: the volume itself (`disk`, *)
(* outside the program), the identity registry (`reg`) that gives volume   *)
(* objects the FileIds and LinkIds the kernel uses, and the tables of      *)
(* prepared and committed opens, kept twice (the provider's `pending` and  *)
(* `opens`, the runtime's `prepares` and `rows`).                          *)
(*                                                                         *)
(* The daemon serves one request at a time, so a request is one action.    *)
(* Inside it any native call may fail; a failure before the first visible  *)
(* effect refuses the request, one after it stops the daemon for good      *)
(* (ProviderError::internal is no registered completion status).  Other    *)
(* programs may change the volume between two requests, at most MaxOutside *)
(* times; the provider's stated trust is that they do not do so inside     *)
(* one.  Sizes, attributes and security are MirrorData's subject.          *)
(***************************************************************************)
EXTENDS Integers, SequencesExt

CONSTANTS
  Names,          \* path components (already case-folded)
  Ops,            \* op ids of opens being prepared
  KernelOpens,    \* kernel open ids
  Dispositions,   \* the create dispositions requested
  Seeds,          \* the volume at mount: functions from paths to nodes
  PrepareQuota,   \* prepared opens the runtime retains
  MaxDepth,       \* longest path
  MaxFiles,       \* FileIds allocated
  MaxLinks,       \* LinkIds allocated
  MaxStamps,      \* namespace generations issued, outside changes counted in
  MaxTransactions,\* transaction ids drawn
  MaxOutside      \* changes by other programs

VARIABLES
  disk,           \* path -> [key, dir]: the backing volume
  nextKey,        \* the next native file index of the volume
  reg,            \* the identity registry
  pending,        \* op -> the provider's prepared open
  prepares,       \* op -> the runtime's prepared open
  opens,          \* kernel open id -> the provider's open record
  rows,           \* kernel open id -> the runtime's open state
  nextTx,         \* the next transaction id
  last,           \* how the last request ended
  outside         \* changes made by other programs

vars == <<disk, nextKey, reg, pending, prepares, opens, rows, nextTx, last, outside>>

Root == 1

NoKey == 0

MirrorConstants ==
  /\ \A seed \in Seeds : <<>> \in DOMAIN seed
  /\ Dispositions \subseteq {"SUPERSEDE", "OPEN", "CREATE", "OPEN_IF", "OVERWRITE", "OVERWRITE_IF"}

----------------------------------------------------------------------------
(* The volume                                                              *)

Dir(d, p) == p \in DOMAIN d /\ d[p].dir

Below(d, p) == {q \in DOMAIN d : IsStrictPrefix(p, q)}

Place(d, p, node) == (p :> node) @@ d

Erase(d, p) == [q \in DOMAIN d \ {p} |-> d[q]]

Rebase(p, from, to) == to \o SubSeq(p, Len(from) + 1, Len(p))

Moved(d, from, to) ==
  LET moving == {q \in DOMAIN d : IsPrefix(from, q)}
      landed == {Rebase(q, from, to) : q \in moving}
  IN  [q \in landed \cup ((DOMAIN d) \ moving) |->
         IF q \in landed THEN d[Rebase(q, to, from)] ELSE d[q]]

\* MoveFileEx: a directory never replaces, is never replaced, and cannot enter itself.
Movable(d, from, to, replace) ==
  \/ from = to
  \/ /\ Dir(d, Front(to))
     /\ ~IsPrefix(from, to)
     /\ to \in DOMAIN d => replace /\ ~d[to].dir /\ ~d[from].dir

----------------------------------------------------------------------------
(* The identity registry: files by FileId, links by LinkId.  `stamp`       *)
(* counts the mutations that drew namespace generations; one mutation      *)
(* draws at most four, one per file it touches, so the generation          *)
(* MutationWidth * stamp + i orders as the code's consecutive ones do.     *)

MutationWidth == 5

Inbound(r, f) == {l \in DOMAIN r.links : r.links[l].child = f}

Children(r, f) == {l \in DOMAIN r.links : r.links[l].parent = f}

Named(r, parent, name) == {l \in Children(r, parent) : r.links[l].name = name}

ByNative(r, key) == {f \in DOMAIN r.files : r.files[f].native = key}

HasPath(r, f) == f = Root \/ Cardinality(Inbound(r, f)) = 1

PathOf(r, f) == IF f = Root THEN <<>> ELSE r.links[CHOOSE l \in Inbound(r, f) : TRUE].path

ChildPath(r, parent, name) == Append(PathOf(r, parent), name)

AllocateFile(r, key) ==
  [r EXCEPT !.files = Append(@, [native |-> key, ns |-> MutationWidth * r.stamp])]

InstallLink(r, parent, child, name) ==
  [r EXCEPT !.links = @ @@ (r.nextLink :> [parent |-> parent, child |-> child, name |-> name,
                                           path |-> ChildPath(r, parent, name)]),
            !.nextLink = @ + 1]

Stamped(r, touched, place(_)) ==
  [r EXCEPT !.stamp = @ + 1,
            !.files = [f \in DOMAIN @ |->
                         IF Contains(touched, f)
                         THEN [@[f] EXCEPT !.ns = MutationWidth * (r.stamp + 1) + place(f)]
                         ELSE @[f]]]

\* normalize_namespace_stage: in the order touched, a file touched twice counting once.
Touch(r, touched) == Stamped(r, touched, LAMBDA f : SelectInSeq(touched, LAMBDA g : g = f))

\* A second name for a file whose children are registered would make their paths ambiguous.
CanInsertLink(r, child) == Inbound(r, child) = {} \/ Children(r, child) = {}

Seen(st, r, file, link) == [st |-> st, reg |-> r, file |-> file, link |-> link]

Observe(r, key, parent, name) ==
  LET known == ByNative(r, key)
      file  == IF known = {} THEN Len(r.files) + 1 ELSE CHOOSE f \in known : TRUE
      base  == IF known = {} THEN AllocateFile(r, key) ELSE r
      l     == CHOOSE x \in Named(r, parent, name) : TRUE
  IN  CASE ~HasPath(r, parent) -> Seen("corrupt", r, 0, 0)
        [] Named(r, parent, name) # {} ->
             IF r.files[r.links[l].child].native = key
             THEN Seen("ok", r, r.links[l].child, l)
             ELSE Seen("collision", r, 0, 0)
        [] Named(r, parent, name) = {} /\ HasPath(r, parent) ->
             IF CanInsertLink(r, file)
             THEN Seen("ok", InstallLink(base, parent, file, name), file, r.nextLink)
             ELSE Seen("corrupt", r, 0, 0)

CanUnlink(r, l) ==
  LET child == r.links[l].child
  IN  Cardinality(Inbound(r, child)) > 1 \/ Children(r, child) = {}

UnlinkLink(r, l) == [r EXCEPT !.links = [x \in DOMAIN @ \ {l} |-> @[x]]]

CanRenameLink(r, l, parent, name) ==
  /\ Named(r, parent, name) \subseteq {l}
  /\ ~IsStrictPrefix(r.links[l].path, ChildPath(r, parent, name))

\* The link's own path only: the paths of the links below it keep the old prefix.
RenameOneLink(r, l, parent, name) ==
  [r EXCEPT !.links[l] = [@ EXCEPT !.parent = parent, !.name = name,
                                   !.path = ChildPath(r, parent, name)]]

RenameLink(r, l, parent, name) ==
  LET from == r.links[l].path
      to   == ChildPath(r, parent, name)
      rebased(x) == IF IsPrefix(from, r.links[x].path)
                    THEN [r.links[x] EXCEPT !.path = Rebase(@, from, to)]
                    ELSE r.links[x]
  IN  [r EXCEPT !.links = [x \in DOMAIN @ |->
         IF x = l THEN [rebased(x) EXCEPT !.parent = parent, !.name = name] ELSE rebased(x)]]

----------------------------------------------------------------------------
(* Requests.  A check that fails, or a native call that fails before the   *)
(* first effect, refuses the request and changes nothing: such a request   *)
(* is no step.  `last` tells how the others ended: "ok" and "refused" are  *)
(* completions posted to the ring, "stopped" a DaemonError that ends the   *)
(* pump, "unanswerable" the DaemonError of a mutation that succeeded and   *)
(* whose result record the runtime's own validator then refused.           *)

Running == last \notin {"stopped", "unanswerable"}

Reply == last' = "ok"

\* An internal error, with the volume and the registry as they then are.
StopWith(d, r) ==
  /\ last' = "stopped"
  /\ disk' = d
  /\ reg' = r
  /\ UNCHANGED <<nextKey, pending, prepares, opens, rows, nextTx, outside>>

\* The bounds of an instance.
Within(r) ==
  Len(r.files) <= MaxFiles /\ r.nextLink <= MaxLinks + 1 /\ r.stamp + outside <= MaxStamps

Files == DOMAIN reg.files

Native(f) == reg.files[f].native

Request(parent, name, disp, dir) == [parent |-> parent, name |-> name, disp |-> disp, dir |-> dir]

Replaces(disp) == disp \in {"SUPERSEDE", "OVERWRITE", "OVERWRITE_IF"}

Without(f, x) == [k \in DOMAIN f \ {x} |-> f[k]]

\* The registered path of a file names that very object on the volume.
Validated(f, path) == path \in DOMAIN disk /\ disk[path].key = Native(f)

Displaced(f, path) == path \in DOMAIN disk /\ disk[path].key # Native(f)

ParentHolds(parent) ==
  /\ HasPath(reg, parent)
  /\ Validated(parent, PathOf(reg, parent))
  /\ Dir(disk, PathOf(reg, parent))

\* OpenLifecycle::prepare, after the provider has stored `entry` and published r.
Retain(op, req, entry, r) ==
  LET fits == op \in DOMAIN prepares \/ Cardinality(DOMAIN prepares) < PrepareQuota
  IN  /\ Within(r)
      /\ nextTx < MaxTransactions \/ op \in DOMAIN pending
      /\ IF fits
         THEN /\ Reply
              /\ prepares' = prepares @@ (op :> [request |-> req, tx |-> nextTx])
              /\ pending' = pending @@ (op :> entry)
         ELSE /\ last' = "stopped"
              /\ UNCHANGED <<prepares, pending>>
      /\ nextTx' = IF op \in DOMAIN pending THEN nextTx ELSE nextTx + 1
      /\ reg' = r
      /\ UNCHANGED <<disk, nextKey, opens, rows, outside>>

Entry(req, plan, r, file, link, target) ==
  [request |-> req, tx |-> nextTx, plan |-> plan, file |-> file, ns |-> r.files[file].ns,
   link |-> link, target |-> target, parentKey |-> Native(req.parent), parentNs |-> reg.files[req.parent].ns,
   path |-> ChildPath(reg, req.parent, req.name)]

\* PREPARE_OPEN of a stored op answers the stored result when the request is the same, byte
\* for byte, and is refused when it is not.
PrepareReplay(op) ==
  /\ op \in DOMAIN pending
  /\ Retain(op, pending[op].request, pending[op], reg)

PrepareExisting(op, parent, name, disp) ==
  LET path == ChildPath(reg, parent, name)
      req  == Request(parent, name, disp, disk[path].dir)
      seen == Observe(reg, disk[path].key, parent, name)
  IN  /\ path \in DOMAIN disk
      /\ disp # "CREATE"
      /\ disk[path].dir => ~Replaces(disp)
      /\ seen.st = "ok"
      /\ Retain(op, req, Entry(req, "existing", seen.reg, seen.file, seen.link, disk[path]), seen.reg)

PrepareProspective(op, parent, name, disp, dir) ==
  LET r   == AllocateFile(reg, NoKey)
      req == Request(parent, name, disp, dir)
  IN  /\ ChildPath(reg, parent, name) \notin DOMAIN disk
      /\ disp \notin {"OPEN", "OVERWRITE"}
      /\ Retain(op, req, Entry(req, "prospective", r, Len(r.files), 0, [key |-> NoKey, dir |-> dir]), r)

Prepare(op) ==
  /\ Running
  /\ \/ PrepareReplay(op)
     \/ /\ op \notin DOMAIN pending
        /\ \E parent \in {f \in Files : ParentHolds(f)}, name \in Names, disp \in Dispositions :
             \/ PrepareExisting(op, parent, name, disp)
             \/ \E dir \in BOOLEAN : PrepareProspective(op, parent, name, disp, dir)

----------------------------------------------------------------------------
(* COMMIT_OPEN.  The kernel echoes the transaction and the generations the *)
(* PREPARE answered; anything else ends the pump in preflight_commit.      *)

CommitPreflight(op, k) ==
  /\ op \in DOMAIN pending
  /\ prepares[op].tx = pending[op].tx
  /\ k \notin DOMAIN opens

\* revalidate_pending, and the registry half of the two preflights that follow it.
Revalidates(p) ==
  LET parent == p.request.parent
  IN  /\ Native(parent) = p.parentKey
      /\ reg.files[parent].ns = p.parentNs
      /\ Front(p.path) \in DOMAIN disk
      /\ disk[Front(p.path)] = [key |-> p.parentKey, dir |-> TRUE]
      /\ reg.files[p.file].ns = p.ns
      /\ p.plan = "existing" =>
           /\ p.link \in DOMAIN reg.links
           /\ reg.links[p.link].parent = parent
           /\ reg.links[p.link].child = p.file
           /\ reg.links[p.link].path = p.path
           /\ Native(p.file) = p.target.key
      /\ p.plan = "prospective" =>
           /\ Native(p.file) = NoKey
           /\ Named(reg, parent, p.request.name) = {}
           /\ HasPath(reg, parent)
           /\ ChildPath(reg, parent, p.request.name) = p.path

\* The open is recorded in both tables and leaves both tables of prepared opens.
Opened(op, k, p, key, r, d) ==
  LET l == IF p.plan = "existing" THEN p.link ELSE reg.nextLink
  IN  /\ Within(r)
      /\ Reply
      /\ disk' = d
      /\ reg' = r
      /\ opens' = opens @@ (k :> [handle |-> key, file |-> p.file, link |-> l, path |-> p.path,
                                  state |-> "Live"])
      /\ rows' = rows @@ (k :> "Live")
      /\ pending' = Without(pending, op)
      /\ prepares' = Without(prepares, op)
      /\ UNCHANGED <<nextTx, outside>>

\* CreatePlan::Existing: the object found by PREPARE is still the one under the name.
CommitExisting(op, k, p) ==
  /\ p.plan = "existing"
  /\ p.path \in DOMAIN disk
  /\ disk[p.path] = p.target
  /\ Opened(op, k, p, p.target.key, reg, disk)
  /\ UNCHANGED nextKey

CreatedReg(p) ==
  LET named == InstallLink(reg, p.request.parent, p.file, p.request.name)
  IN  Touch([named EXCEPT !.files[p.file].native = nextKey], <<p.file, p.request.parent>>)

Created(p) == Place(disk, p.path, [key |-> nextKey, dir |-> p.target.dir])

\* CreatePlan::Prospective: the name is free on the volume, and becomes the prepared FileId's.
CommitProspective(op, k, p) ==
  /\ p.plan = "prospective"
  /\ p.path \notin DOMAIN disk
  /\ Opened(op, k, p, nextKey, CreatedReg(p), Created(p))
  /\ nextKey' = nextKey + 1

\* The native open had an effect nobody asked for: it created what PREPARE had found, or
\* overwrote what PREPARE had not found or had found to be another object.
Surprised(p) ==
  \/ /\ p.plan = "existing"
     /\ p.path \notin DOMAIN disk
     /\ p.request.disp \in {"OPEN_IF", "OVERWRITE_IF", "SUPERSEDE"}
  \/ /\ p.plan = "existing"
     /\ p.path \in DOMAIN disk
     /\ disk[p.path] # p.target
     /\ ~disk[p.path].dir
     /\ Replaces(p.request.disp)
  \/ /\ p.plan = "prospective"
     /\ p.path \in DOMAIN disk
     /\ ~disk[p.path].dir
     /\ ~p.target.dir
     /\ Replaces(p.request.disp)

SurprisedVolume(p) == IF p.path \in DOMAIN disk THEN disk ELSE Created(p)

CommitSurprised(p) == StopWith(SurprisedVolume(p), reg)

\* A native call fails once the object exists: before or after the registry knows of it.
CommitInterrupted(p) ==
  \/ p.plan = "existing" /\ Replaces(p.request.disp) /\ StopWith(disk, reg)
  \/ /\ p.plan = "prospective"
     /\ p.path \notin DOMAIN disk
     /\ \E r \in {reg, CreatedReg(p)} : StopWith(Created(p), r)

Commit(op) ==
  /\ Running
  /\ op \in DOMAIN prepares
  /\ \E k \in KernelOpens \ DOMAIN rows :
       LET p == pending[op]
       IN  IF ~CommitPreflight(op, k) THEN StopWith(disk, reg)
           ELSE /\ Revalidates(p)
                /\ \/ CommitExisting(op, k, p)
                   \/ CommitProspective(op, k, p)
                   \/ Surprised(p) /\ CommitSurprised(p)
                   \/ CommitInterrupted(p)

\* ABORT_OPEN: both tables forget the transaction; the FileId it drew stays allocated.
Abort(op) ==
  /\ Running
  /\ op \in DOMAIN prepares
  /\ Reply
  /\ prepares' = Without(prepares, op)
  /\ pending' = Without(pending, op)
  /\ UNCHANGED <<disk, nextKey, reg, opens, rows, nextTx, outside>>

Cleanup(k) ==
  /\ Running
  /\ k \in DOMAIN rows
  /\ Reply
  /\ rows' = [rows EXCEPT ![k] = "Cleaned"]
  /\ opens' = IF k \in DOMAIN opens THEN [opens EXCEPT ![k].state = "Cleaned"] ELSE opens
  /\ UNCHANGED <<disk, nextKey, reg, pending, prepares, nextTx, outside>>

Close(k) ==
  /\ Running
  /\ k \in DOMAIN rows
  /\ rows[k] = "Cleaned"
  /\ Reply
  /\ rows' = Without(rows, k)
  /\ opens' = Without(opens, k)
  /\ UNCHANGED <<disk, nextKey, reg, pending, prepares, nextTx, outside>>

----------------------------------------------------------------------------
(* QUERY_DIR registers every entry it lists.                               *)

\* validate_open_native and validate_open_path: what ends the daemon, and what is served.
OpenBroken(k) ==
  LET o == opens[k]
  IN  ~ /\ o.handle = Native(o.file)
        /\ o.link \in DOMAIN reg.links
        /\ reg.links[o.link].child = o.file
        /\ reg.links[o.link].path = o.path
        /\ ~Displaced(o.file, o.path)

OpenSound(k) == ~OpenBroken(k) /\ Validated(opens[k].file, opens[k].path)

ObserveAll(parent, path) ==
  FoldSet(LAMBDA n, acc : IF acc.st = "ok"
                          THEN Observe(acc.reg, disk[Append(path, n)].key, parent, n)
                          ELSE acc,
          Seen("ok", reg, 0, 0),
          {n \in Names : Append(path, n) \in DOMAIN disk})

QueryDir(k) ==
  LET o == opens[k]
      all == ObserveAll(o.file, o.path)
  IN  /\ Running
      /\ k \in DOMAIN opens
      /\ o.state = "Live"
      /\ \/ OpenBroken(k) /\ StopWith(disk, reg)
         \/ /\ OpenSound(k)
            /\ Dir(disk, o.path)
            /\ IF all.st = "ok"
               THEN /\ Within(all.reg)
                    /\ Reply
                    /\ reg' = all.reg
                    /\ UNCHANGED <<disk, nextKey, pending, prepares, opens, rows, nextTx, outside>>
               ELSE StopWith(disk, reg)

----------------------------------------------------------------------------
(* MUTATE: UNLINK, LINK and RENAME.  The expected generations a request    *)
(* carries are the current ones, or it is refused.  Each stages a copy of  *)
(* the registry, changes the volume, and then swaps the copy in.           *)

(* The result record is validated, as the kernel would, before it is       *)
(* posted (build_mutation_result, validate_mutation_success_v2).           *)

LinkCount(r, d, f) == Cardinality({p \in DOMAIN d : d[p].key = r.files[f].native})

NoVictim == [file |-> 0, link |-> 0, ns |-> 0, count |-> 0]

\* The replaced half of a RENAME or LINK result: r and d as the mutation leaves them.
Victim(base, l, file, r, d) ==
  LET f == base.links[l].child
  IN  IF l = 0 THEN NoVictim
      ELSE [file |-> f, link |-> l, ns |-> r.files[f].ns,
            count |-> IF f = file THEN LinkCount(base, d, f) ELSE LinkCount(base, disk, f) - 1]

ValidVictim(v, link, file, ns, count) ==
  /\ (v.file # 0) = (v.link # 0) /\ (v.file # 0) = (v.ns # 0)
  /\ v.file = 0 => v.count = 0
  /\ v.file # 0 => v.link # link
  /\ v.file # 0 /\ v.file = file => v.ns = ns /\ v.count = count

\* A generation the result carries is past the one the request expected.
Advanced(r, f) == r.files[f].ns > reg.files[f].ns

ValidRename(l, source, target, v, r, d) ==
  LET f == reg.links[l].child
  IN  /\ \A g \in {f, source, target} : Advanced(r, g)
      /\ ValidVictim(v, l, f, r.files[f].ns, LinkCount(r, d, f))

ValidLink(f, l, target, v, r, d) ==
  /\ Advanced(r, f) /\ Advanced(r, target)
  /\ ValidVictim(v, l, f, r.files[f].ns, LinkCount(r, d, f))

ValidUnlink(l, r) == Advanced(r, reg.links[l].child) /\ Advanced(r, reg.links[l].parent)

Swap(d, r, accepted) ==
  /\ Within(r)
  /\ last' = IF accepted THEN "ok" ELSE "unanswerable"
  /\ disk' = d
  /\ reg' = r
  /\ UNCHANGED <<nextKey, pending, prepares, rows, nextTx, outside>>

Unlink(k) ==
  LET l == opens[k].link
      link == reg.links[l]
      gone == Touch(UnlinkLink(reg, l), <<link.child, link.parent>>)
  IN  /\ Running
      /\ k \in DOMAIN opens
      /\ l \in DOMAIN reg.links
      /\ \/ Displaced(link.child, link.path) /\ StopWith(disk, reg)
         \/ /\ Validated(link.child, link.path)
            /\ CanUnlink(reg, l)
            /\ Below(disk, link.path) = {}
            /\ Swap(Erase(disk, link.path), gone, ValidUnlink(l, gone))
            /\ UNCHANGED opens

\* reconcile_replacement_target: the link under the target name, observed now if unseen.
Reconcile(parent, name, path) ==
  LET indexed == Named(reg, parent, name)
      l == CHOOSE x \in indexed : TRUE
  IN  CASE indexed = {} /\ path \notin DOMAIN disk -> Seen("ok", reg, 0, 0)
        [] indexed = {} /\ path \in DOMAIN disk -> Observe(reg, disk[path].key, parent, name)
        [] indexed # {} -> IF Validated(reg.links[l].child, path)
                           THEN Seen("ok", reg, reg.links[l].child, l)
                           ELSE Seen("collision", reg, 0, 0)

\* What RENAME and LINK need of the directory they target.
Target(parent, name) ==
  LET path == ChildPath(reg, parent, name)
  IN  [path |-> path, stops |-> Displaced(parent, PathOf(reg, parent)),
       ok |-> ParentHolds(parent) /\ Len(path) <= MaxDepth]

\* CreateHardLink failed after the name it was to replace was removed.
LinkInterrupted(removed, r) == StopWith(removed, r)

\* LINK over an existing name removes that name first, so there is a point of no return:
\* past it the registry follows the volume (removal_stage) and the daemon stops.
LinkOver(k, parent, name, replaced, base) ==
  LET o == opens[k]
      path == ChildPath(reg, parent, name)
      cleared == IF replaced = 0 THEN base ELSE UnlinkLink(base, replaced)
      victim == IF replaced = 0 THEN <<>> ELSE <<base.links[replaced].child>>
      removed == Erase(disk, path)
      placed == Place(removed, path, disk[o.path])
      linked == Touch(InstallLink(cleared, parent, o.file, name), <<o.file, parent>> \o victim)
  IN  IF ~CanInsertLink(cleared, o.file) THEN StopWith(disk, reg)
      ELSE \/ /\ replaced # 0
              /\ LinkInterrupted(removed, Touch(cleared, Append(victim, parent)))
           \/ /\ o.path \in DOMAIN removed
              /\ Swap(placed, linked,
                      ValidLink(o.file, base.nextLink, parent,
                                Victim(base, replaced, o.file, linked, placed), linked, placed))
              /\ UNCHANGED opens

Link(k) ==
  /\ Running
  /\ k \in DOMAIN opens
  /\ opens[k].state = "Live"
  /\ \E parent \in {f \in Files : HasPath(reg, f)}, name \in Names, replace \in BOOLEAN :
       LET target == Target(parent, name)
           found == Reconcile(parent, name, target.path)
       IN  \/ /\ OpenBroken(k) \/ target.stops
              /\ StopWith(disk, reg)
           \/ /\ OpenSound(k)
              /\ ~disk[opens[k].path].dir
              /\ target.ok
              /\ \/ found.st = "corrupt" /\ StopWith(disk, reg)
                 \/ /\ found.st = "ok"
                    /\ found.link # 0 => replace /\ ~disk[target.path].dir
                    /\ LinkOver(k, parent, name, found.link, found.reg)

\* The opens whose path a rename of link l rewrites: a directory takes its subtree along.
Carried(l, from, dir) ==
  {k \in DOMAIN opens : IF dir THEN IsPrefix(from, opens[k].path)
                               ELSE opens[k].link = l /\ opens[k].file = reg.links[l].child}

Repath(from, to, carried) ==
  [k \in DOMAIN opens |->
     IF k \in carried THEN [opens[k] EXCEPT !.path = Rebase(@, from, to)] ELSE opens[k]]

\* The handles below a directory are closed for the move and opened again by path.
Reopens(os, carried, d) ==
  [k \in DOMAIN os |-> IF k \in carried THEN [os[k] EXCEPT !.handle = d[os[k].path].key] ELSE os[k]]

AllThere(os, carried, d) == \A k \in carried : os[k].path \in DOMAIN d

\* move_file failed: the handles come back under the old paths, or the daemon stops.
RenameFails(l, from, dir) ==
  LET carried == IF dir THEN Carried(l, from, dir) ELSE {}
  IN  \/ carried # {} /\ StopWith(disk, reg)
      \/ /\ carried # {}
         /\ AllThere(opens, carried, disk)
         /\ last' = "refused"
         /\ opens' = Reopens(opens, carried, disk)
         /\ UNCHANGED <<disk, nextKey, reg, pending, prepares, rows, nextTx, outside>>

\* move_file succeeded: registry, then open paths, then handles.
RenameLands(l, from, to, dir, d, r, accepted) ==
  LET carried == Carried(l, from, dir)
      moved == Repath(from, to, carried)
  IN  \/ StopWith(d, r)
      \/ /\ dir => AllThere(moved, carried, d)
         /\ Swap(d, r, accepted)
         /\ opens' = IF dir THEN Reopens(moved, carried, d) ELSE moved

Rename(k) ==
  /\ Running
  /\ k \in DOMAIN opens
  /\ opens[k].state = "Live"
  /\ opens[k].link \in DOMAIN reg.links
  /\ \E parent \in {f \in Files : HasPath(reg, f)}, name \in Names, replace \in BOOLEAN :
       LET l == opens[k].link
           link == reg.links[l]
           target == Target(parent, name)
           found == Reconcile(parent, name, target.path)
           replaced == IF found.link = l THEN 0 ELSE found.link
           cleared == IF replaced = 0 THEN found.reg ELSE UnlinkLink(found.reg, replaced)
           victim == IF replaced = 0 THEN <<>> ELSE <<found.reg.links[replaced].child>>
           dir == disk[link.path].dir
           staged == Touch(RenameLink(cleared, l, parent, name), <<link.child, link.parent, parent>> \o victim)
           moved == Moved(disk, link.path, target.path)
       IN  \/ /\ Displaced(link.child, link.path) \/ target.stops
              /\ StopWith(disk, reg)
           \/ /\ Validated(link.child, link.path)
              /\ target.ok
              /\ \/ found.st = "corrupt" /\ StopWith(disk, reg)
                 \/ /\ found.st = "ok"
                    /\ replaced # 0 => replace
                    /\ IF \/ replaced # 0 /\ ~CanUnlink(found.reg, replaced)
                          \/ ~CanRenameLink(cleared, l, parent, name)
                       THEN StopWith(disk, reg)
                       ELSE \/ RenameFails(l, link.path, dir)
                            \/ /\ Movable(disk, link.path, target.path, replace)
                               /\ RenameLands(l, link.path, target.path, dir, moved, staged,
                                    ValidRename(l, link.parent, parent,
                                      Victim(found.reg, replaced, link.child, staged, moved), staged, moved))

----------------------------------------------------------------------------
(* Other programs on the backing volume, between two requests.             *)

OutsideChange ==
  /\ Running
  /\ outside < MaxOutside /\ reg.stamp + outside < MaxStamps
  /\ \/ \E p \in DOMAIN disk, n \in Names, dir \in BOOLEAN :
          /\ disk[p].dir /\ Len(p) < MaxDepth /\ Append(p, n) \notin DOMAIN disk
          /\ disk' = Place(disk, Append(p, n), [key |-> nextKey, dir |-> dir])
          /\ nextKey' = nextKey + 1
     \/ \E p \in DOMAIN disk \ {<<>>} :
          /\ Below(disk, p) = {}
          /\ disk' = Erase(disk, p)
          /\ UNCHANGED nextKey
     \/ \E p \in DOMAIN disk \ {<<>>}, q \in DOMAIN disk, n \in Names :
          /\ Len(q) < MaxDepth
          /\ Append(q, n) # p
          /\ Movable(disk, p, Append(q, n), TRUE)
          /\ disk' = Moved(disk, p, Append(q, n))
          /\ UNCHANGED nextKey
  /\ outside' = outside + 1
  /\ last' = "outside"
  /\ UNCHANGED <<reg, pending, prepares, opens, rows, nextTx>>

Init ==
  /\ disk \in Seeds
  /\ nextKey = 1 + Cardinality(DOMAIN disk)
  /\ reg = [files |-> <<[native |-> disk[<<>>].key, ns |-> MutationWidth]>>, links |-> <<>>, nextLink |-> 1, stamp |-> 1]
  /\ pending = <<>>
  /\ prepares = <<>>
  /\ opens = <<>>
  /\ rows = <<>>
  /\ nextTx = 1
  /\ last = "ok"
  /\ outside = 0

Next ==
  \/ \E op \in Ops : Prepare(op) \/ Commit(op) \/ Abort(op)
  \/ \E k \in KernelOpens : Cleanup(k) \/ Close(k) \/ QueryDir(k)
  \/ \E k \in KernelOpens : Unlink(k) \/ Link(k) \/ Rename(k)
  \/ OutsideChange

Spec == Init /\ [][Next]_vars

----------------------------------------------------------------------------
(* Properties                                                              *)

\* A step: an open is granted on the object its PREPARE_OPEN found under the name, or on one
\* it has itself created under a name that was free, whatever a RENAME or LINK through another
\* open, or another program, has put there in between; and no other name changes with it.
OpensThePrepared ==
  \A k \in DOMAIN opens' \ DOMAIN opens :
    LET o == opens'[k]
    IN  /\ disk'[o.path].key = o.handle /\ reg'.files[o.file].native = o.handle
        /\ \A p \in DOMAIN disk : disk'[p] = disk[p]
        /\ \E op \in DOMAIN pending :
             /\ pending[op].file = o.file /\ pending[op].path = o.path
             /\ pending[op].target.key = IF o.path \in DOMAIN disk THEN o.handle ELSE NoKey

\* A RENAME, LINK or UNLINK that took effect is answered: the record built from the effect
\* passes validate_mutation_success_v2, whichever of its files coincide (a rename in place, a
\* name replaced by another name of the same file).  Otherwise the daemon would stop with the
\* volume changed and the kernel never told.
EffectsAreAnswered == last # "unanswerable"

\* Left alone, the volume holds under the path of every registered link exactly the link's
\* file, also after a RENAME or LINK of which one native step failed, and also in the state
\* the daemon stops in.
MirrorsBacking ==
  outside = 0 => \A l \in DOMAIN reg.links : Validated(reg.links[l].child, reg.links[l].path)

\* What IdentityRegistry::validate demands before every use, in every state any order of
\* observations, creations, renames, links and unlinks can reach: a name has one link, a
\* volume object one FileId, and a link's path is its parent's only path extended by its name.
RegistryCoherent ==
  /\ \A l \in DOMAIN reg.links :
       /\ Named(reg, reg.links[l].parent, reg.links[l].name) = {l}
       /\ HasPath(reg, reg.links[l].parent)
       /\ reg.links[l].path = ChildPath(reg, reg.links[l].parent, reg.links[l].name)
  /\ \A f, g \in Files : Native(f) = Native(g) /\ Native(f) # NoKey => f = g

\* While the daemon runs on a volume left alone, an open whose link is still registered
\* carries that link's path and holds a handle on that link's file: closing and reopening
\* every handle below a renamed directory, or a rename that fails in between, crosses none.
HandlesFollow ==
  Running /\ outside = 0 =>
    \A k \in DOMAIN opens :
      opens[k].link \in DOMAIN reg.links =>
        /\ reg.links[opens[k].link].path = opens[k].path
        /\ reg.links[opens[k].link].child = opens[k].file
        /\ opens[k].handle = Native(opens[k].file)

\* While the daemon runs, the runtime and the provider agree on every prepared open, its
\* transaction and its request, and on every committed open and its state, whatever was
\* replayed, refused or aborted on the way.
TablesAgree ==
  Running =>
    /\ DOMAIN prepares = DOMAIN pending
    /\ \A op \in DOMAIN prepares :
         prepares[op] = [request |-> pending[op].request, tx |-> pending[op].tx]
    /\ rows = [k \in DOMAIN opens |-> opens[k].state]
============================================================================
