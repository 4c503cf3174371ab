----------------------------- MODULE MCProvider -----------------------------
(***************************************************************************)
(* The sample provider mirrorfs, for TLC: the data and sizes of one file    *)
(* (MirrorData), its namespace and open tables (MirrorNamespace), and the   *)
(* directory enumeration (DirQuery).  They share no state: `comp` picks the *)
(* one a behaviour is about.                                                *)
(***************************************************************************)
EXTENDS MirrorData, TLC

CONSTANTS PrepareOps, Names, PrepareQuota, MaxDepth, MaxFiles, MaxLinks, MaxStamps,
          MaxTransactions, MaxOutside,
          MAX_RING_COUNT, MAX_COMPONENT_UTF16_CODE_UNITS, Capacities,
          LastId, LastScan, MaxChanges

VARIABLES comp,
          disk, nextKey, reg, staged, prepares, opens, rows, nextTx, lastCall, outside,
          dir, sizes, identities, snapshots, scan, answer, changes, dirOutside

-----------------------------------------------------------------------------
(* A directory holding one file, which has a second name beside it.         *)

Seeds == {(<<>> :> [key |-> 1, dir |-> TRUE]) @@ (<<"a">> :> [key |-> 2, dir |-> TRUE])
            @@ (<<"a", "b">> :> [key |-> 3, dir |-> FALSE]) @@ (<<"b">> :> [key |-> 3, dir |-> FALSE])}

Space == INSTANCE MirrorNamespace WITH
           Ops <- PrepareOps, KernelOpens <- Opens, pending <- staged, last <- lastCall

-----------------------------------------------------------------------------
(* Three names, one of them long enough for a larger record; a directory of  *)
(* one open scanned twice; grants for one, two and three records.           *)

DirNames == {<<"a">>, <<"b">>, <<"a", "high", "low", "b", "b">>}
DirSeeds == {[n \in DirNames |-> IF n = <<"b">> THEN 2 ELSE 1], [n \in {<<"a">>, <<"b">>} |-> 1]}
DirPatterns == {<<>>, <<"A">>, <<"A", "star">>}
DirGeometries ==
  {[sectors |-> 8, bytes |-> 512, free |-> 3, clusters |-> 9, available_bytes |-> a, total_bytes |-> t, total_free |-> 12288] :
     a \in {8192, 16384}, t \in {1024, 12288, 40960}}
DirDescriptors == {[needed |-> n, present |-> p] : n \in {0, 20, 65536, 65537}, p \in {20, 21}}

Scan == INSTANCE DirQuery WITH
          Opens <- {"o1"}, Names <- DirNames, Seeds <- DirSeeds, Patterns <- DirPatterns,
          Geometries <- DirGeometries, Descriptors <- DirDescriptors,
          LastGeneration <- LastScan, reg <- identities, outside <- dirOutside

ASSUME NamespaceConstants == Space!MirrorConstants

\* Every property is a safety property, and op ids and open ids are only compared.
Interchangeable == Permutations(Opens) \cup Permutations(PrepareOps)

-----------------------------------------------------------------------------

spacevars == <<disk, nextKey, reg, staged, prepares, opens, rows, nextTx, lastCall, outside>>
dirvars == <<dir, sizes, identities, snapshots, scan, answer, changes, dirOutside>>

\* The namespace and the enumeration have no state in a behaviour that is not
\* about them, and the data rests in one initial state.
Absent(v) == v = "absent"
NoSpace ==
  /\ Absent(disk) /\ Absent(nextKey) /\ Absent(reg) /\ Absent(staged) /\ Absent(prepares) /\ Absent(opens)
  /\ Absent(rows) /\ Absent(nextTx) /\ Absent(lastCall) /\ Absent(outside)
NoScan ==
  /\ Absent(dir) /\ Absent(sizes) /\ Absent(identities) /\ Absent(snapshots) /\ Absent(scan) /\ Absent(answer)
  /\ Absent(changes) /\ Absent(dirOutside)

ProviderInit ==
  /\ Init
  /\ \/ comp = "data" /\ NoSpace /\ NoScan
     \/ comp = "namespace" /\ native.file = 0 /\ Space!Init /\ NoScan
     \/ comp = "scan" /\ native.file = 0 /\ NoSpace /\ Scan!DirInit

DataSteps == comp = "data" /\ Next /\ UNCHANGED <<comp, spacevars, dirvars>>
NamespaceSteps == comp = "namespace" /\ Space!Next /\ UNCHANGED <<comp, vars, dirvars>>
ScanSteps == comp = "scan" /\ Scan!DirNext /\ UNCHANGED <<comp, vars, spacevars>>

ProviderSpec ==
  ProviderInit /\ [][DataSteps \/ NamespaceSteps \/ ScanSteps]_<<comp, vars, spacevars, dirvars>>

-----------------------------------------------------------------------------

\* One size epoch names one end of file and one valid data length, whatever the
\* other open wrote or cut off, and both ends accept every answer (lib.rs,
\* identity.rs, daemon.rs).
DataFaithful == EpochNamesSizes /\ RepliesAccepted

\* What the provider answers is what the backing file system holds: every
\* effect is answered, a name leads to the file it names, the registry and both
\* open tables agree, and a handle follows its file (opens.rs, identity.rs).
NamespaceCoherent ==
  comp = "namespace" =>
    /\ Space!EffectsAreAnswered /\ Space!MirrorsBacking /\ Space!RegistryCoherent
    /\ Space!HandlesFollow /\ Space!TablesAgree

\* An enumeration lists every matching entry once, keeps the identity of every
\* file it names, and stops only where the caller stopped it (direnum.rs).
ScansComplete ==
  comp = "scan" => Scan!ListedOnce /\ Scan!IdentitiesHold /\ Scan!StopsOnlyOnOutside

\* An open is granted on what its PREPARE_OPEN answered: the object under the
\* name, and the security descriptor the kernel checked (opens.rs, identity.rs).
OpensAsPrepared ==
  /\ [][comp = "namespace" => Space!OpensThePrepared]_spacevars
  /\ [][GrantedOnChecked]_vars
=============================================================================
