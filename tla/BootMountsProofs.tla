-------------------------- MODULE BootMountsProofs --------------------------
(***************************************************************************)
(* Theorems about which partition a sync writes to.                        *)
(***************************************************************************)
EXTENDS BootMounts, SequenceTheorems, WellFoundedInduction, TLAPS

-----------------------------------------------------------------------------
(* Lemmas about the operators.                                             *)

\* Max is the maximum of a set of indices.
LEMMA MaxIndex ==
    ASSUME NEW n \in Nat, NEW S \in SUBSET (1..n), S # {}
    PROVE  Max(S) \in S /\ \A x \in S : Max(S) >= x
<1> DEFINE R == {ss \in Nat \X Nat : ss[1] < ss[2]}
           D == {n - x : x \in S}
<1>1. IsWellFoundedOn(R, Nat)
    BY NatLessThanWellFounded DEF OpToRel
<1>2. D \subseteq Nat
    OBVIOUS
<1>3. D # {}
    OBVIOUS
<1> HIDE DEF R
<1>4. PICK d \in D : \A y \in D : <<y, d>> \notin R
    BY <1>1, <1>2, <1>3, WFMin
<1>5. PICK x \in S : d = n - x
    OBVIOUS
<1>6. ASSUME NEW y \in S
      PROVE  x >= y
    <2>1. n - y \in D /\ n - y \in Nat /\ d \in Nat
        OBVIOUS
    <2>2. ~ (n - y < d)
        BY <1>4, <2>1 DEF R
    <2> QED
        BY <1>5, <2>2
<1> QED
    BY <1>6 DEF Max

Placement == [dev : Devices \cup {NoDevice, RootFs}, dir : Points \cup {NoPoint}]

\* The latest mount that covers a path says what the path leads to.
LEMMA PlaceIsLatest ==
    ASSUME table \in Seq(Mount),
           NEW point, NEW i \in DOMAIN table,
           Covers(table[i].point, point),
           \A j \in DOMAIN table : Covers(table[j].point, point) => j <= i
    PROVE  Place(point) = [dev |-> table[i].dev,
                           dir |-> IF table[i].point = point THEN NoPoint ELSE point]
<1> DEFINE over == {j \in DOMAIN table : Covers(table[j].point, point)}
<1>1. over \in SUBSET (1..Len(table)) /\ i \in over /\ Len(table) \in Nat
    OBVIOUS
<1>2. Max(over) \in over /\ \A x \in over : Max(over) >= x
    BY <1>1, MaxIndex
<1>3. Max(over) <= i /\ Max(over) >= i /\ Max(over) \in Int
    BY <1>1, <1>2
<1>4. Max(over) = i
    BY <1>1, <1>3
<1> QED
    BY <1>1, <1>4 DEF Place

\* A path leads below the root file system unless a mount covers it.
LEMMA PlaceDevice ==
    ASSUME table \in Seq(Mount), NEW point
    PROVE  \/ /\ \A j \in DOMAIN table : ~ Covers(table[j].point, point)
              /\ Place(point) = [dev |-> RootFs, dir |-> point]
           \/ \E i \in DOMAIN table :
                  /\ Covers(table[i].point, point)
                  /\ \A j \in DOMAIN table : Covers(table[j].point, point) => j <= i
                  /\ Place(point) = [dev |-> table[i].dev,
                                     dir |-> IF table[i].point = point THEN NoPoint ELSE point]
<1> DEFINE over == {j \in DOMAIN table : Covers(table[j].point, point)}
<1>1. over \in SUBSET (1..Len(table)) /\ Len(table) \in Nat
    OBVIOUS
<1>2. CASE over = {}
    BY <1>2 DEF Place
<1>3. CASE over # {}
    <2>1. Max(over) \in over /\ \A x \in over : Max(over) >= x
        BY <1>1, <1>3, MaxIndex
    <2>2. Max(over) \in DOMAIN table /\ Covers(table[Max(over)].point, point)
        BY <2>1
    <2>3. \A j \in DOMAIN table : Covers(table[j].point, point) => j <= Max(over)
        BY <1>1, <2>1
    <2> QED
        BY <2>2, <2>3, PlaceIsLatest
<1> QED
    BY <1>2, <1>3

LEMMA PlaceType ==
    ASSUME table \in Seq(Mount), NEW point \in Points \cup {NoPoint}
    PROVE  Place(point) \in Placement
<1>1. \A i \in DOMAIN table : table[i] \in Mount
    BY ElementOfSeq
<1>2. \A i \in DOMAIN table : table[i].dev \in Devices
    BY <1>1 DEF Mount
<1> QED
    BY <1>2, PlaceDevice DEF Placement

\* A mount point of a device is in the table, and a device that is not there
\* has none.
LEMMA MountpointKnown ==
    ASSUME table \in Seq(Mount), NEW dev, NEW point \in MountpointsOf(dev)
    PROVE  \/ point = NoPoint
           \/ \E i \in DOMAIN table : table[i].dev = dev /\ table[i].point = point
<1> DEFINE of == {i \in DOMAIN table : table[i].dev = dev}
<1>1. of \in SUBSET (1..Len(table)) /\ Len(table) \in Nat
    OBVIOUS
<1>2. CASE of = {}
    BY <1>2 DEF MountpointsOf
<1>3. CASE of # {}
    <2>1. Max(of) \in of
        BY <1>1, <1>3, MaxIndex
    <2>2. point \in {table[Max(of)].point, NoPoint}
        BY <1>3 DEF MountpointsOf
    <2> QED
        BY <2>1, <2>2
<1> QED
    BY <1>2, <1>3

\* The device of an ESP or an XBOOTLDR is a partition, or none.
LEMMA PartitionTypes ==
    ASSUME machine \in Machines
    PROVE  /\ Esp \in Devices \cup {NoDevice}
           /\ Xbootldr \in Devices \cup {NoDevice}
           /\ Esp = NoDevice => Xbootldr = NoDevice
<1>1. {machine.bls, machine.gpt} \subseteq Devices \cup {NoDevice}
      /\ machine.xbootldr \in [Devices -> Devices \cup {NoDevice}]
    BY MachineAssumption
<1>2. EspByBls \in Devices \cup {NoDevice}
    BY <1>1 DEF EspByBls
<1>3. Esp \in Devices \cup {NoDevice}
    BY <1>1, <1>2 DEF Esp
<1> QED
    BY <1>1, <1>3 DEF Xbootldr

Partition == Devices \cup {NoDevice}
Point     == Points \cup {NoPoint}

\* What BootEnvironment::new and Manager::new may find.
WellFormed(e) ==
    /\ e \in [esp : Partition, xbootldr : Partition, espPoint : Point, xbootPoint : Point]
    /\ e.espPoint # NoPoint => e.esp # NoDevice
    /\ e.xbootPoint # NoPoint => e.xbootldr # NoDevice

LEMMA EnvironmentWellFormed ==
    ASSUME table \in Seq(Mount), machine \in Machines, NEW e \in Environments
    PROVE  /\ WellFormed(e)
           /\ e.espPoint # NoPoint =>
                  \E i \in DOMAIN table : table[i].dev = e.esp /\ table[i].point = e.espPoint
           /\ e.xbootPoint # NoPoint =>
                  \E i \in DOMAIN table : table[i].dev = e.xbootldr
                                          /\ table[i].point = e.xbootPoint
<1>1. PICK p \in MountpointsOf(Esp), q \in MountpointsOf(Xbootldr) :
          e = [esp |-> Esp, xbootldr |-> Xbootldr, espPoint |-> p, xbootPoint |-> q]
    BY DEF Environments
<1>2. p = NoPoint \/ \E i \in DOMAIN table : table[i].dev = Esp /\ table[i].point = p
    BY MountpointKnown
<1>3. q = NoPoint \/ \E i \in DOMAIN table : table[i].dev = Xbootldr /\ table[i].point = q
    BY MountpointKnown
<1>4. \A i \in DOMAIN table : table[i].dev \in Devices /\ table[i].point \in Points
    <2>1. \A i \in DOMAIN table : table[i] \in Mount
        BY ElementOfSeq
    <2> QED
        BY <2>1 DEF Mount
<1>5. Esp \in Partition /\ Xbootldr \in Partition
    BY PartitionTypes DEF Partition
<1>6. NoDevice \notin Devices
    BY MachineAssumption
<1>7. (p # NoPoint => p \in Points /\ Esp # NoDevice)
      /\ (q # NoPoint => q \in Points /\ Xbootldr # NoDevice)
    BY <1>2, <1>3, <1>4, <1>6
<1> QED
    BY <1>1, <1>2, <1>3, <1>5, <1>7 DEF WellFormed, Point

\* A partition has a mount point if and only if it exists.
LEMMA SelectedType ==
    ASSUME NEW e, WellFormed(e)
    PROVE  /\ Selected(e).esp \in Point /\ Selected(e).xbootldr \in Point
           /\ Selected(e).esp = NoPoint <=> e.esp = NoDevice
           /\ Selected(e).xbootldr = NoPoint <=> e.xbootldr = NoDevice
           /\ e.espPoint # NoPoint => Selected(e).esp = e.espPoint
           /\ e.xbootPoint # NoPoint => Selected(e).xbootldr = e.xbootPoint
           /\ e.espPoint = NoPoint /\ e.esp # NoDevice => Selected(e).esp = "efi"
           /\ e.xbootPoint = NoPoint /\ e.xbootldr # NoDevice => Selected(e).xbootldr = "boot"
<1>1. NoPoint \notin Points /\ {"boot", "efi", "xboot"} \subseteq Points
    BY MachineAssumption
<1> QED
    BY <1>1 DEF Selected, WellFormed, Point, Partition

\* What umount(2) leaves.
LEMMA UnmountType ==
    ASSUME table \in Seq(Mount), NEW point, UnmountFrom(point)
    PROVE  table' \in Seq(Mount)
<1>1. PICK i \in DOMAIN table :
          table' = SubSeq(table, 1, i - 1) \o SubSeq(table, i + 1, Len(table))
    BY DEF UnmountFrom
<1>2. i \in 1..Len(table) /\ Len(table) \in Nat
    OBVIOUS
<1>3. SubSeq(table, 1, i - 1) \in Seq(Mount)
    BY <1>2, SubSeqProperties
<1>4. SubSeq(table, i + 1, Len(table)) \in Seq(Mount)
    BY <1>2, SubSeqProperties
<1> QED
    BY <1>1, <1>3, <1>4, ConcatProperties

\* Nothing lies on the latest mount: it is the one that goes.
LEMMA UnmountLatest ==
    ASSUME table \in Seq(Mount), Len(table) > 0, UnmountFrom(table[Len(table)].point)
    PROVE  /\ Len(table') = Len(table) - 1
           /\ \A j \in 1..(Len(table) - 1) : table'[j] = table[j]
<1> DEFINE n == Len(table)
<1>1. n \in Nat /\ n \in DOMAIN table
    OBVIOUS
<1>2. PICK i \in DOMAIN table :
          /\ \A j \in DOMAIN table : j > i => ~ Covers(table[n].point, table[j].point)
          /\ table' = SubSeq(table, 1, i - 1) \o SubSeq(table, i + 1, n)
    BY DEF UnmountFrom
<1>3. i = n
    <2>1. ~ (n > i)
        BY <1>1, <1>2 DEF Covers
    <2> QED
        BY <1>1, <2>1
<1>4. SubSeq(table, n + 1, n) = <<>>
    BY <1>1, SubSeqEmpty
<1>5. /\ SubSeq(table, 1, n - 1) \in Seq(Mount)
      /\ Len(SubSeq(table, 1, n - 1)) = n - 1
      /\ \A j \in 1..(n - 1) : SubSeq(table, 1, n - 1)[j] = table[j]
    <2>1. 1 \in 1..(n + 1) /\ n - 1 \in (1 - 1)..n /\ n - 1 - 1 + 1 = n - 1
        BY <1>1
    <2>2. \A j \in 1..(n - 1) : 1 + j - 1 = j
        BY <1>1
    <2> HIDE DEF n
    <2>3. Len(table) = n
        BY DEF n
    <2> QED
        BY <2>1, <2>2, <2>3, SubSeqProperties
<1>6. SubSeq(table, 1, n - 1) \o <<>> = SubSeq(table, 1, n - 1)
    BY <1>5, ConcatEmptySeq
<1> QED
    BY <1>2, <1>3, <1>4, <1>5, <1>6

-----------------------------------------------------------------------------
(* The invariant.                                                          *)

Types ==
    /\ machine \in Machines
    /\ table \in Seq(Mount)
    /\ pc \in {"idle", "mountEsp", "mountXbootldr", "ready", "entries", "synced", "drop"}
    /\ WellFormed(env)
    /\ mounts = Selected(env)
    /\ tokens \in Seq(Points)
    /\ written \in [loader : Placement, conf : Placement, entries : Placement]
    /\ found \in Seq(Mount)
    /\ foreign \in BOOLEAN
    /\ stuck \in BOOLEAN

\* The mount points of the environment were in the table that was read.
Known ==
    pc # "idle" /\ env.espPoint # NoPoint => \E i \in DOMAIN found : found[i].point = env.espPoint

\* The table is the one found, and one mount for each token on top of it, the
\* latest for the token that drops first.
Held ==
    ~ foreign /\ ~ stuck =>
        /\ Len(table) = Len(found) + Len(tokens)
        /\ \A i \in 1..Len(found) : table[i] = found[i]
        /\ \A k \in 1..Len(tokens) : table[Len(table) + 1 - k].point = tokens[k]

\* Only a drop leaves a mount behind; no Manager, no tokens.
Orders ==
    /\ pc \notin {"idle", "drop"} => ~ stuck
    /\ pc = "idle" => tokens = <<>>

LoaderPlaced == pc \in {"entries", "synced"} /\ machine.image /\ ~ foreign => written.loader.dev # RootFs

MountInv == Types /\ Known /\ Held /\ Orders /\ LoaderPlaced

LEMMA MountInit ==
    ASSUME Init
    PROVE  MountInv
<1>1. WellFormed(NoEnv)
    BY DEF WellFormed, NoEnv, Partition, Point
<1>2. Selected(NoEnv) = [xbootldr |-> NoPoint, esp |-> NoPoint]
    BY DEF Selected, NoEnv
<1>3. Nothing \in [loader : Placement, conf : Placement, entries : Placement]
    BY DEF Nothing, NoPlace, Placement
<1>4. <<>> \in Seq(Mount) /\ <<>> \in Seq(Points) /\ Len(<<>>) = 0
    OBVIOUS
<1>5. Types
    BY <1>1, <1>2, <1>3, <1>4 DEF Init, Types
<1> QED
    BY <1>4, <1>5 DEF Init, MountInv, Known, Held, Orders, LoaderPlaced

LEMMA NewStep ==
    ASSUME MountInv, New
    PROVE  MountInv'
<1>1. Types
    BY DEF MountInv
<1>2. /\ WellFormed(env')
      /\ env'.espPoint # NoPoint =>
             \E i \in DOMAIN table : table[i].dev = env'.esp /\ table[i].point = env'.espPoint
    <2>1. env' \in Environments
        BY DEF New
    <2> QED
        BY <1>1, <2>1, EnvironmentWellFormed DEF Types
<1>3. Nothing \in [loader : Placement, conf : Placement, entries : Placement]
    BY DEF Nothing, NoPlace, Placement
<1>4. <<>> \in Seq(Points) /\ Len(<<>>) = 0
    OBVIOUS
<1>5. Types'
    BY <1>1, <1>2, <1>3, <1>4 DEF New, Types
<1>6. Known'
    BY <1>2 DEF New, Known
<1>7. Held'
    <2>1. Len(found') = Len(table) /\ Len(table) \in Nat /\ Len(tokens') = 0
        BY <1>1, <1>4 DEF New, Types
    <2> QED
        BY <2>1 DEF New, Held
<1> QED
    BY <1>5, <1>6, <1>7 DEF New, MountInv, Orders, LoaderPlaced

\* One partition of mount_partitions.
LEMMA MountPartitionStep ==
    ASSUME Types, Held, NEW dev \in Partition, NEW at, NEW point \in Point,
           dev # NoDevice => point # NoPoint,
           MountPartition(dev, at, point),
           UNCHANGED <<found, foreign, stuck>>
    PROVE  table' \in Seq(Mount) /\ tokens' \in Seq(Points) /\ Held'
<1>1. CASE UNCHANGED <<table, tokens>>
    BY <1>1 DEF Types, Held
<1>2. CASE /\ dev # NoDevice
           /\ table' = Append(table, [dev |-> dev, point |-> point])
           /\ tokens' = <<point>> \o tokens
    <2> DEFINE m == [dev |-> dev, point |-> point]
    <2>1. m \in Mount /\ point \in Points
        BY <1>2 DEF Mount, Partition, Point
    <2>2. /\ table' \in Seq(Mount)
          /\ Len(table') = Len(table) + 1
          /\ \A i \in 1..Len(table) : table'[i] = table[i]
          /\ table'[Len(table) + 1] = m
        BY <1>2, <2>1, AppendProperties DEF Types
    <2>3. /\ tokens' \in Seq(Points)
          /\ Len(tokens') = Len(tokens) + 1
          /\ tokens'[1] = point
          /\ \A k \in 2..Len(tokens') : tokens'[k] = tokens[k - 1]
        <3>1. <<point>> \in Seq(Points) /\ Len(<<point>>) = 1 /\ <<point>>[1] = point
            BY <2>1
        <3> QED
            BY <1>2, <3>1, ConcatProperties DEF Types
    <2>4. Len(table) \in Nat /\ Len(tokens) \in Nat /\ Len(found) \in Nat
        BY DEF Types
    <2>5. Held'
        <3> SUFFICES ASSUME ~ foreign, ~ stuck
                     PROVE  /\ Len(table') = Len(found) + Len(tokens')
                            /\ \A i \in 1..Len(found) : table'[i] = found[i]
                            /\ \A k \in 1..Len(tokens') :
                                   table'[Len(table') + 1 - k].point = tokens'[k]
            BY DEF Held
        <3>1. /\ Len(table) = Len(found) + Len(tokens)
              /\ \A i \in 1..Len(found) : table[i] = found[i]
              /\ \A k \in 1..Len(tokens) : table[Len(table) + 1 - k].point = tokens[k]
            BY DEF Held
        <3>2. \A i \in 1..Len(found) : table'[i] = found[i]
            BY <2>2, <2>4, <3>1
        <3>3. ASSUME NEW k \in 1..Len(tokens')
              PROVE  table'[Len(table') + 1 - k].point = tokens'[k]
            <4>1. CASE k = 1
                BY <2>2, <2>3, <2>4, <4>1
            <4>2. CASE k # 1
                <5>1. k - 1 \in 1..Len(tokens) /\ k \in 2..Len(tokens')
                    BY <2>3, <2>4, <4>2
                <5>2. table[Len(table) + 1 - (k - 1)].point = tokens[k - 1]
                    BY <3>1, <5>1
                <5>3. Len(table') + 1 - k = Len(table) + 1 - (k - 1)
                      /\ Len(table) + 1 - (k - 1) \in 1..Len(table)
                    BY <2>2, <2>4, <3>1, <5>1
                <5> QED
                    BY <2>2, <2>3, <5>1, <5>2, <5>3
            <4> QED
                BY <4>1, <4>2
        <3> QED
            BY <2>2, <2>3, <2>4, <3>1, <3>2, <3>3
    <2> QED
        BY <2>2, <2>3, <2>5
<1> QED
    BY <1>1, <1>2 DEF MountPartition, MountOn

\* A path below a mount does not lead to the root file system.
LEMMA MountedPlace ==
    ASSUME table \in Seq(Mount), NEW point, NEW i \in DOMAIN table, table[i].point = point
    PROVE  Place(point).dev # RootFs
<1>1. \A j \in DOMAIN table : table[j] \in Mount
    BY ElementOfSeq
<1>2. \A j \in DOMAIN table : table[j].dev # RootFs
    BY <1>1, MachineAssumption DEF Mount
<1>3. Covers(table[i].point, point)
    BY DEF Covers
<1> QED
    BY <1>2, <1>3, PlaceDevice

LEMMA MountEspStep ==
    ASSUME MountInv, MountEsp
    PROVE  MountInv'
<1>1. env.esp \in Partition /\ mounts.esp \in Point /\ (env.esp # NoDevice => mounts.esp # NoPoint)
    BY SelectedType DEF MountInv, Types, WellFormed
<1>2. table' \in Seq(Mount) /\ tokens' \in Seq(Points) /\ Held'
    BY <1>1, MountPartitionStep DEF MountEsp, MountInv
<1>3. Types'
    BY <1>2 DEF MountEsp, MountInv, Types
<1> QED
    BY <1>2, <1>3 DEF MountEsp, MountInv, Known, Orders, LoaderPlaced

LEMMA MountXbootldrStep ==
    ASSUME MountInv, MountXbootldr
    PROVE  MountInv'
<1>1. /\ env.xbootldr \in Partition /\ mounts.xbootldr \in Point
      /\ env.xbootldr # NoDevice => mounts.xbootldr # NoPoint
    BY SelectedType DEF MountInv, Types, WellFormed
<1>2. table' \in Seq(Mount) /\ tokens' \in Seq(Points) /\ Held'
    BY <1>1, MountPartitionStep DEF MountXbootldr, MountInv
<1>3. Types'
    BY <1>2 DEF MountXbootldr, MountInv, Types
<1> QED
    BY <1>2, <1>3 DEF MountXbootldr, MountInv, Known, Orders, LoaderPlaced

LEMMA SyncLoaderStep ==
    ASSUME MountInv, SyncLoader
    PROVE  MountInv'
<1>1. Types /\ Known /\ Held /\ Orders
    BY DEF MountInv
<1>2. mounts.esp \in Point /\ mounts.xbootldr \in Point
      /\ (env.espPoint # NoPoint => mounts.esp = env.espPoint)
    BY <1>1, SelectedType DEF Types
<1>3. Place(mounts.esp) \in Placement /\ Place(BootRoot) \in Placement /\ NoPlace \in Placement
    BY <1>1, <1>2, PlaceType DEF Types, BootRoot, Point, NoPlace, Placement
<1>4. Types'
    BY <1>1, <1>3 DEF SyncLoader, Types
<1>5. LoaderPlaced'
    <2> SUFFICES ASSUME machine.image, ~ foreign
                 PROVE  Place(mounts.esp).dev # RootFs
        BY <1>1 DEF SyncLoader, LoaderPlaced
    <2>1. PICK i \in DOMAIN found : found[i].point = mounts.esp
        BY <1>1, <1>2 DEF SyncLoader, Known
    <2>2. /\ Len(table) = Len(found) + Len(tokens)
          /\ \A j \in 1..Len(found) : table[j] = found[j]
        BY <1>1 DEF SyncLoader, Orders, Held
    <2>3. i \in DOMAIN table /\ table[i].point = mounts.esp
        BY <1>1, <2>1, <2>2 DEF Types
    <2> QED
        BY <1>1, <2>3, MountedPlace DEF Types
<1> QED
    BY <1>1, <1>4, <1>5 DEF SyncLoader, MountInv, Known, Held, Orders

LEMMA SyncEntriesStep ==
    ASSUME MountInv, SyncEntries
    PROVE  MountInv'
<1>1. Types
    BY DEF MountInv
<1>2. mounts.esp \in Point /\ mounts.xbootldr \in Point
    BY <1>1, SelectedType DEF Types
<1>3. Place(BootRoot) \in Placement
    BY <1>1, <1>2, PlaceType DEF Types, BootRoot, Point
<1>4. /\ written' \in [loader : Placement, conf : Placement, entries : Placement]
      /\ written'.loader = written.loader
    BY <1>1, <1>3 DEF SyncEntries, Types
<1>5. Types'
    BY <1>1, <1>4 DEF SyncEntries, Types
<1> QED
    BY <1>4, <1>5 DEF SyncEntries, MountInv, Known, Held, Orders, LoaderPlaced

LEMMA DropStep ==
    ASSUME MountInv, Drop
    PROVE  MountInv'
<1>1. Types /\ Held /\ pc = "drop"
    BY DEF MountInv, Drop
<1>2. /\ tokens # <<>> /\ tokens' = Tail(tokens)
      /\ Len(table) \in Nat /\ Len(found) \in Nat /\ Len(tokens) \in Nat
    BY <1>1 DEF Drop, Types
<1>3. /\ Len(tokens) > 0 /\ tokens' \in Seq(Points) /\ Len(tokens') = Len(tokens) - 1
      /\ \A k \in 1..Len(tokens') : tokens'[k] = tokens[k + 1]
      /\ Head(tokens) = tokens[1]
    BY <1>1, <1>2, HeadTailProperties DEF Types
<1>4. table' \in Seq(Mount)
    BY <1>1, UnmountType DEF Drop, Types
<1>5. Types'
    BY <1>1, <1>3, <1>4 DEF Drop, Types
<1>6. Held'
    <2> SUFFICES ASSUME ~ foreign', ~ stuck'
                 PROVE  /\ Len(table') = Len(found) + Len(tokens')
                        /\ \A i \in 1..Len(found) : table'[i] = found[i]
                        /\ \A k \in 1..Len(tokens') :
                               table'[Len(table') + 1 - k].point = tokens'[k]
        BY DEF Held, Drop
    <2>1. UnmountFrom(tokens[1]) /\ ~ foreign /\ ~ stuck
        BY <1>3 DEF Drop
    <2>2. /\ Len(table) = Len(found) + Len(tokens)
          /\ \A i \in 1..Len(found) : table[i] = found[i]
          /\ \A k \in 1..Len(tokens) : table[Len(table) + 1 - k].point = tokens[k]
        BY <1>1, <2>1 DEF Held
    <2>3. table[Len(table)].point = tokens[1] /\ Len(table) > 0
        <3>1. 1 \in 1..Len(tokens) /\ Len(table) + 1 - 1 = Len(table)
            BY <1>2, <1>3
        <3> QED
            BY <1>2, <1>3, <2>2, <3>1
    <2>4. /\ Len(table') = Len(table) - 1
          /\ \A j \in 1..(Len(table) - 1) : table'[j] = table[j]
        BY <1>1, <2>1, <2>3, UnmountLatest DEF Types
    <2>5. ASSUME NEW k \in 1..Len(tokens')
          PROVE  table'[Len(table') + 1 - k].point = tokens'[k]
        <3>1. k + 1 \in 1..Len(tokens) /\ tokens'[k] = tokens[k + 1]
            BY <1>2, <1>3
        <3>2. Len(table') + 1 - k = Len(table) + 1 - (k + 1)
              /\ Len(table') + 1 - k \in 1..(Len(table) - 1)
            BY <1>2, <1>3, <2>2, <2>4
        <3> QED
            BY <2>2, <2>4, <3>1, <3>2
    <2> QED
        BY <1>2, <1>3, <2>2, <2>4, <2>5
<1> QED
    BY <1>1, <1>5, <1>6 DEF Drop, MountInv, Known, Orders, LoaderPlaced

LEMMA DroppedStep ==
    ASSUME MountInv, Dropped
    PROVE  MountInv'
<1>1. WellFormed(NoEnv)
    BY DEF WellFormed, NoEnv, Partition, Point
<1>2. Selected(NoEnv) = [xbootldr |-> NoPoint, esp |-> NoPoint]
    BY DEF Selected, NoEnv
<1>3. Nothing \in [loader : Placement, conf : Placement, entries : Placement]
    BY DEF Nothing, NoPlace, Placement
<1>4. Types'
    BY <1>1, <1>2, <1>3 DEF Dropped, MountInv, Types
<1> QED
    BY <1>4 DEF Dropped, MountInv, Known, Held, Orders, LoaderPlaced

LEMMA OthersStep ==
    ASSUME MountInv, Others
    PROVE  MountInv'
<1>1. table' \in Seq(Mount)
    <2>1. ASSUME NEW l \in Layouts(machine), table' = table \o l
          PROVE  table' \in Seq(Mount)
        BY <2>1, LayoutAssumption, ConcatProperties DEF MountInv, Types
    <2> QED
        BY <2>1, UnmountType DEF Others, MountInv, Types
<1>2. Types'
    BY <1>1 DEF Others, MountInv, Types
<1> QED
    BY <1>2 DEF Others, MountInv, Known, Held, Orders, LoaderPlaced

LEMMA MountNext ==
    ASSUME MountInv, [Next]_vars
    PROVE  MountInv'
<1>1. CASE MountFails
    BY <1>1 DEF MountFails, MountInv, Types, Known, Held, Orders, LoaderPlaced
<1>2. CASE Done
    BY <1>2 DEF Done, MountInv, Types, Known, Held, Orders, LoaderPlaced
<1>3. CASE UNCHANGED vars
    BY <1>3 DEF vars, MountInv, Types, Known, Held, Orders, LoaderPlaced
<1> QED
    BY <1>1, <1>2, <1>3, NewStep, MountEspStep, MountXbootldrStep, SyncLoaderStep,
       SyncEntriesStep, DropStep, DroppedStep, OthersStep DEF Next

(***************************************************************************)
(* The invariant holds in every reachable state, whatever the machine, the *)
(* layouts that others mount, and the bound on the table (BootMounts).     *)
(***************************************************************************)
THEOREM MountInvariance == Spec => []MountInv
<1>1. Init => MountInv
    BY MountInit
<1>2. MountInv /\ [Next]_vars => MountInv'
    BY MountNext
<1> QED
    BY <1>1, <1>2, PTL DEF Spec

-----------------------------------------------------------------------------
(* What follows from it.                                                   *)

(***************************************************************************)
(* A Manager has a mount point for a partition if and only if there is     *)
(* such a partition, and every path it writes below has a place            *)
(* (Manager::new, manager.rs).                                             *)
(***************************************************************************)
THEOREM MountTypes == Spec => []TypeOK
<1>1. MountInv => TypeOK
    BY SelectedType DEF MountInv, Types, WellFormed, TypeOK, Partition, Point, Placement
<1> QED
    BY <1>1, MountInvariance, PTL

(***************************************************************************)
(* In image mode, while nobody else mounts or unmounts, the loader is      *)
(* never put on the root file system: a sync goes no further than its      *)
(* check of the ESP (Manager::sync, manager.rs).                           *)
(***************************************************************************)
THEOREM ImageSafe == Spec => []ImageKept
<1>1. MountInv => ImageKept
    BY DEF MountInv, LoaderPlaced, ImageKept
<1> QED
    BY <1>1, MountInvariance, PTL

(***************************************************************************)
(* The tokens of mount_partitions give back the mount table as it was,     *)
(* whichever of the two mounts or the syncs failed: each one drops the     *)
(* latest mount, which is its own (ScopedMount, mounts of manager.rs) --   *)
(* unless others changed the table or an unmount failed.                   *)
(***************************************************************************)
THEOREM TokensRelease == Spec => []Released
<1>1. MountInv => Released
    <2> SUFFICES ASSUME MountInv, pc = "idle", ~ foreign, ~ stuck
                 PROVE  table = found
        BY DEF Released
    <2>1. /\ Len(table) = Len(found) + Len(tokens) /\ tokens = <<>>
          /\ \A i \in 1..Len(found) : table[i] = found[i]
          /\ table \in Seq(Mount) /\ found \in Seq(Mount)
        BY DEF MountInv, Held, Orders, Types
    <2>2. Len(table) = Len(found)
        BY <2>1
    <2> QED
        BY <2>1, <2>2, SeqEqual
<1> QED
    BY <1>1, MountInvariance, PTL

-----------------------------------------------------------------------------
(* Delivery.                                                               *)

LEMMA VisiblePlace ==
    ASSUME table \in Seq(Mount), NEW dev, NEW point, Visible(table, dev, point)
    PROVE  Place(point) = RootOf(dev)
<1>1. PICK i \in DOMAIN table :
          /\ table[i] = [dev |-> dev, point |-> point]
          /\ \A j \in DOMAIN table : Covers(table[j].point, point) => j <= i
    BY DEF Visible
<1>2. Covers(table[i].point, point)
    BY <1>1 DEF Covers
<1> QED
    BY <1>1, <1>2, PlaceIsLatest DEF RootOf

LEMMA MountVisible ==
    ASSUME NEW t \in Seq(Mount), NEW dev \in Devices, NEW point \in Points
    PROVE  LET m == [dev |-> dev, point |-> point] IN
           /\ Visible(Append(t, m), dev, point)
           /\ \A d, p : Visible(t, d, p) /\ ~ Covers(point, p) => Visible(Append(t, m), d, p)
<1> DEFINE m == [dev |-> dev, point |-> point]
           u == Append(t, m)
<1>1. m \in Mount
    BY DEF Mount
<1>2. /\ Len(t) \in Nat /\ Len(u) = Len(t) + 1 /\ u \in Seq(Mount)
      /\ \A i \in 1..Len(t) : u[i] = t[i]
      /\ u[Len(t) + 1] = m
    BY <1>1, AppendProperties
<1>3. DOMAIN u = 1..(Len(t) + 1) /\ DOMAIN t = 1..Len(t)
    BY <1>2
<1> HIDE DEF u
<1>4. Visible(u, dev, point)
    <2>1. Len(t) + 1 \in DOMAIN u /\ \A j \in DOMAIN u : j <= Len(t) + 1
        BY <1>2, <1>3
    <2> QED
        BY <1>2, <2>1 DEF Visible
<1>5. ASSUME NEW d, NEW p, Visible(t, d, p), ~ Covers(point, p)
      PROVE  Visible(u, d, p)
    <2>1. PICK i \in DOMAIN t :
              /\ t[i] = [dev |-> d, point |-> p]
              /\ \A j \in DOMAIN t : Covers(t[j].point, p) => j <= i
        BY <1>5 DEF Visible
    <2>2. i \in DOMAIN u /\ u[i] = [dev |-> d, point |-> p]
        BY <1>2, <1>3, <2>1
    <2>3. ASSUME NEW j \in DOMAIN u, Covers(u[j].point, p)
          PROVE  j <= i
        <3>1. j # Len(t) + 1
            BY <1>2, <1>5, <2>3
        <3>2. j \in DOMAIN t /\ u[j] = t[j]
            BY <1>2, <1>3, <3>1
        <3> QED
            BY <2>1, <2>3, <3>2
    <2> QED
        BY <2>2, <2>3 DEF Visible
<1> QED
    BY <1>4, <1>5 DEF u

\* The partitions are where they are written to, and so is what is written.
Reached ==
    /\ pc \in {"entries", "synced"} => env.esp # NoDevice
    /\ pc = "mountEsp" /\ ~ foreign => table = found
    /\ ~ machine.image /\ ~ foreign /\ Orderly =>
           /\ pc \in {"mountXbootldr", "ready", "entries", "synced"} =>
                  /\ env.esp # NoDevice => Visible(table, env.esp, mounts.esp)
                  /\ env.xbootldr # NoDevice /\ (pc = "mountXbootldr" => env.xbootPoint # NoPoint) =>
                         Visible(table, env.xbootldr, mounts.xbootldr)
           /\ pc \in {"entries", "synced"} =>
                  /\ written.loader = RootOf(env.esp)
                  /\ written.conf = RootOf(BootPartition)
           /\ pc = "synced" => written.entries = RootOf(BootPartition)

\* On a running system, with what it finds and what it mounts.
LEMMA EspReached ==
    ASSUME MountInv, Reached, MountEsp, ~ machine.image, ~ foreign, Orderly
    PROVE  /\ env.esp # NoDevice => Visible(table', env.esp, mounts.esp)
           /\ env.xbootldr # NoDevice /\ env.xbootPoint # NoPoint =>
                  Visible(table', env.xbootldr, mounts.xbootldr)
<1>1. Types /\ table = found /\ MountPartition(env.esp, env.espPoint, mounts.esp)
    BY DEF MountInv, Reached, MountEsp
<1>2. /\ env.espPoint # NoPoint => mounts.esp = env.espPoint
      /\ env.xbootPoint # NoPoint => mounts.xbootldr = env.xbootPoint
      /\ env.espPoint = NoPoint /\ env.esp # NoDevice => mounts.esp = "efi"
      /\ env.espPoint # NoPoint => env.esp # NoDevice
    BY <1>1, SelectedType DEF Types, WellFormed
<1>3. env.xbootldr # NoDevice /\ env.xbootPoint # NoPoint =>
          Visible(table, env.xbootldr, mounts.xbootldr)
    BY <1>1, <1>2 DEF Orderly
<1>4. CASE env.esp = NoDevice \/ env.espPoint # NoPoint
    BY <1>1, <1>2, <1>3, <1>4 DEF MountPartition, Orderly
<1>5. CASE env.esp # NoDevice /\ env.espPoint = NoPoint
    <2>1. table' = Append(table, [dev |-> env.esp, point |-> "efi"])
        BY <1>1, <1>2, <1>5 DEF MountPartition, MountOn
    <2>2. env.esp \in Devices /\ "efi" \in Points
        BY <1>1, <1>5, MachineAssumption DEF Types, WellFormed, Partition
    <2>3. /\ Visible(table', env.esp, "efi")
          /\ \A d, p : Visible(table, d, p) /\ ~ Covers("efi", p) => Visible(table', d, p)
        BY <1>1, <2>1, <2>2, MountVisible DEF Types
    <2>4. env.xbootldr # NoDevice /\ env.xbootPoint # NoPoint => ~ Covers("efi", mounts.xbootldr)
        BY <1>2, <1>5 DEF Orderly
    <2> QED
        BY <1>2, <1>3, <1>5, <2>3, <2>4
<1> QED
    BY <1>4, <1>5

LEMMA XbootldrReached ==
    ASSUME MountInv, Reached, MountXbootldr, ~ machine.image, ~ foreign, Orderly
    PROVE  /\ env.esp # NoDevice => Visible(table', env.esp, mounts.esp)
           /\ env.xbootldr # NoDevice => Visible(table', env.xbootldr, mounts.xbootldr)
<1>1. /\ Types /\ MountPartition(env.xbootldr, env.xbootPoint, mounts.xbootldr)
      /\ env.esp # NoDevice => Visible(table, env.esp, mounts.esp)
      /\ env.xbootldr # NoDevice /\ env.xbootPoint # NoPoint =>
             Visible(table, env.xbootldr, mounts.xbootldr)
    BY DEF MountInv, Reached, MountXbootldr
<1>2. CASE env.xbootldr = NoDevice \/ env.xbootPoint # NoPoint
    BY <1>1, <1>2 DEF MountPartition
<1>3. CASE env.xbootldr # NoDevice /\ env.xbootPoint = NoPoint
    <2>1. mounts.xbootldr = "boot"
        BY <1>1, <1>3, SelectedType DEF Types
    <2>2. table' = Append(table, [dev |-> env.xbootldr, point |-> "boot"])
        BY <1>1, <1>3, <2>1 DEF MountPartition, MountOn
    <2>3. env.xbootldr \in Devices /\ "boot" \in Points
        BY <1>1, <1>3, MachineAssumption DEF Types, WellFormed, Partition
    <2>4. /\ Visible(table', env.xbootldr, "boot")
          /\ \A d, p : Visible(table, d, p) /\ ~ Covers("boot", p) => Visible(table', d, p)
        BY <1>1, <2>2, <2>3, MountVisible DEF Types
    <2>5. ~ Covers("boot", mounts.esp)
        BY <1>3 DEF Orderly
    <2> QED
        BY <1>1, <2>1, <2>4, <2>5
<1> QED
    BY <1>2, <1>3

\* The directories that are written to are the tops of the partitions.
LEMMA BootRootReached ==
    ASSUME Types, env.esp # NoDevice,
           Visible(table, env.esp, mounts.esp),
           env.xbootldr # NoDevice => Visible(table, env.xbootldr, mounts.xbootldr)
    PROVE  Place(mounts.esp) = RootOf(env.esp) /\ Place(BootRoot) = RootOf(BootPartition)
<1>1. mounts.xbootldr = NoPoint <=> env.xbootldr = NoDevice
    BY SelectedType DEF Types
<1> QED
    BY <1>1, VisiblePlace DEF Types, BootRoot, BootPartition

LEMMA ReachedNext ==
    ASSUME MountInv, Reached, [Next]_vars
    PROVE  Reached'
<1>1. CASE New
    BY <1>1 DEF New, Reached
<1>2. CASE MountEsp
    <2>1. Orderly' = Orderly
        BY <1>2 DEF MountEsp, Orderly
    <2> QED
        BY <1>2, <2>1, EspReached DEF MountEsp, Reached
<1>3. CASE MountXbootldr
    <2>1. Orderly' = Orderly
        BY <1>3 DEF MountXbootldr, Orderly
    <2> QED
        BY <1>3, <2>1, XbootldrReached DEF MountXbootldr, Reached
<1>4. CASE SyncLoader
    <2>1. Orderly' = Orderly /\ BootPartition' = BootPartition
        BY <1>4 DEF SyncLoader, Orderly, BootPartition
    <2>2. Types /\ env.esp # NoDevice
        BY <1>4, SelectedType DEF SyncLoader, MountInv, Types
    <2>3. ~ machine.image /\ ~ foreign /\ Orderly =>
              Place(mounts.esp) = RootOf(env.esp) /\ Place(BootRoot) = RootOf(BootPartition)
        BY <1>4, <2>2, BootRootReached DEF SyncLoader, Reached
    <2> QED
        BY <1>4, <2>1, <2>2, <2>3 DEF SyncLoader, Reached
<1>5. CASE SyncEntries
    <2>1. Orderly' = Orderly /\ BootPartition' = BootPartition
        BY <1>5 DEF SyncEntries, Orderly, BootPartition
    <2>2. /\ written'.loader = written.loader /\ written'.conf = written.conf
          /\ written'.entries = Place(BootRoot)
        BY <1>5 DEF SyncEntries, MountInv, Types
    <2>3. env.esp # NoDevice
        BY <1>5 DEF SyncEntries, Reached
    <2>4. ~ machine.image /\ ~ foreign /\ Orderly =>
              Place(mounts.esp) = RootOf(env.esp) /\ Place(BootRoot) = RootOf(BootPartition)
        BY <1>5, <2>3, BootRootReached DEF SyncEntries, Reached, MountInv
    <2> QED
        BY <1>5, <2>1, <2>2, <2>3, <2>4 DEF SyncEntries, Reached
<1>6. CASE MountFails \/ Done
    BY <1>6 DEF MountFails, Done, Reached
<1>7. CASE Drop
    BY <1>7 DEF Drop, Reached
<1>8. CASE Dropped
    BY <1>8 DEF Dropped, Reached
<1>9. CASE Others
    <2>1. (pc \in {"entries", "synced"} => env.esp # NoDevice)'
        BY <1>9 DEF Others, Reached
    <2> QED
        BY <1>9, <2>1 DEF Others, Reached
<1>10. CASE UNCHANGED vars
    <2>1. Orderly' = Orderly /\ BootPartition' = BootPartition
        BY <1>10 DEF vars, Orderly, BootPartition
    <2> QED
        BY <1>10, <2>1 DEF vars, Reached
<1> QED
    BY <1>1, <1>2, <1>3, <1>4, <1>5, <1>6, <1>7, <1>8, <1>9, <1>10 DEF Next

-----------------------------------------------------------------------------
(* What is not in order stays so.                                          *)

\* Only a mount that nothing covers makes its directory the top of its device.
LEMMA PlaceVisible ==
    ASSUME table \in Seq(Mount), NEW dev \in Devices, NEW point \in Points,
           Place(point) = RootOf(dev)
    PROVE  Visible(table, dev, point)
<1>1. dev # RootFs /\ point # NoPoint
    BY MachineAssumption
<1>2. PICK i \in DOMAIN table :
          /\ Covers(table[i].point, point)
          /\ \A j \in DOMAIN table : Covers(table[j].point, point) => j <= i
          /\ Place(point) = [dev |-> table[i].dev,
                             dir |-> IF table[i].point = point THEN NoPoint ELSE point]
    BY <1>1, PlaceDevice DEF RootOf
<1>3. table[i] \in Mount
    BY ElementOfSeq
<1>4. table[i].dev = dev /\ table[i].point = point
    BY <1>1, <1>2 DEF RootOf
<1>5. table[i] = [dev |-> dev, point |-> point]
    BY <1>3, <1>4 DEF Mount
<1> QED
    BY <1>2, <1>5 DEF Visible

\* A mount of another device makes nothing visible, and hides what it covers.
LEMMA MountHides ==
    ASSUME NEW t \in Seq(Mount), NEW dev \in Devices, NEW point \in Points, NEW d, NEW p,
           d # dev, ~ Visible(t, d, p) \/ Covers(point, p)
    PROVE  ~ Visible(Append(t, [dev |-> dev, point |-> point]), d, p)
<1> DEFINE m == [dev |-> dev, point |-> point]
           u == Append(t, m)
<1>1. m \in Mount
    BY DEF Mount
<1>2. /\ Len(t) \in Nat /\ Len(u) = Len(t) + 1 /\ u \in Seq(Mount)
      /\ \A i \in 1..Len(t) : u[i] = t[i]
      /\ u[Len(t) + 1] = m
    BY <1>1, AppendProperties
<1>3. DOMAIN u = 1..(Len(t) + 1) /\ DOMAIN t = 1..Len(t)
    BY <1>2
<1> HIDE DEF u
<1> SUFFICES ASSUME Visible(u, d, p)
             PROVE  FALSE
    BY DEF u
<1>4. PICK i \in DOMAIN u :
          /\ u[i] = [dev |-> d, point |-> p]
          /\ \A j \in DOMAIN u : Covers(u[j].point, p) => j <= i
    BY DEF Visible
<1>5. i # Len(t) + 1
    <2>1. u[i].dev = d /\ m.dev = dev
        BY <1>4
    <2> QED
        BY <1>2, <2>1
<1>6. i \in DOMAIN t /\ u[i] = t[i]
    BY <1>2, <1>3, <1>5
<1>7. CASE Covers(point, p)
    <2>1. u[Len(t) + 1].point = point /\ Len(t) + 1 \in DOMAIN u
        BY <1>2, <1>3
    <2>2. Len(t) + 1 <= i
        BY <1>4, <1>7, <2>1
    <2> QED
        BY <1>2, <1>3, <1>6, <2>2
<1>8. CASE ~ Visible(t, d, p)
    <2>1. ASSUME NEW j \in DOMAIN t, Covers(t[j].point, p)
          PROVE  j <= i
        <3>1. j \in DOMAIN u /\ u[j] = t[j]
            BY <1>2, <1>3
        <3> QED
            BY <1>4, <2>1, <3>1
    <2> QED
        BY <1>4, <1>6, <1>8, <2>1 DEF Visible
<1> QED
    BY <1>7, <1>8

\* What a Manager found hidden, or has hidden itself, is hidden when it syncs.
Astray ==
    /\ env.xbootldr # NoDevice => env.xbootldr # env.esp
    /\ ~ machine.image /\ ~ foreign =>
           /\ pc \in {"mountXbootldr", "ready", "entries", "synced"} =>
                  /\ env.espPoint # NoPoint /\ ~ Visible(found, env.esp, env.espPoint)
                         => ~ Visible(table, env.esp, env.espPoint)
                  /\ /\ env.xbootPoint # NoPoint
                     /\ \/ ~ Visible(found, env.xbootldr, env.xbootPoint)
                        \/ env.esp # NoDevice /\ env.espPoint = NoPoint
                           /\ Covers("efi", env.xbootPoint)
                     => ~ Visible(table, env.xbootldr, env.xbootPoint)
           /\ /\ pc \in {"ready", "entries", "synced"}
              /\ env.esp # NoDevice /\ env.xbootldr # NoDevice /\ env.xbootPoint = NoPoint
              /\ Covers("boot", mounts.esp)
              => ~ Visible(table, env.esp, mounts.esp)
           /\ pc \in {"entries", "synced"} =>
                  written.loader = Place(mounts.esp) /\ written.conf = Place(BootRoot)
           /\ pc = "synced" => written.entries = Place(BootRoot)

LEMMA DevicesApart ==
    ASSUME machine \in Machines, Xbootldr # NoDevice
    PROVE  Xbootldr # Esp
<1>1. Esp \in Devices /\ Xbootldr = machine.xbootldr[Esp]
    BY PartitionTypes DEF Xbootldr
<1> QED
    BY <1>1, MachineAssumption

LEMMA EspAstray ==
    ASSUME MountInv, Reached, Astray, MountEsp, ~ machine.image, ~ foreign
    PROVE  /\ env.espPoint # NoPoint /\ ~ Visible(found, env.esp, env.espPoint)
                  => ~ Visible(table', env.esp, env.espPoint)
           /\ /\ env.xbootPoint # NoPoint
              /\ \/ ~ Visible(found, env.xbootldr, env.xbootPoint)
                 \/ env.esp # NoDevice /\ env.espPoint = NoPoint /\ Covers("efi", env.xbootPoint)
              => ~ Visible(table', env.xbootldr, env.xbootPoint)
<1>1. /\ Types /\ MountPartition(env.esp, env.espPoint, mounts.esp) /\ table = found
      /\ env.xbootldr # NoDevice => env.xbootldr # env.esp
    BY DEF MountInv, Reached, Astray, MountEsp
<1>2. CASE env.esp = NoDevice \/ env.espPoint # NoPoint
    BY <1>1, <1>2 DEF MountPartition
<1>3. CASE env.esp # NoDevice /\ env.espPoint = NoPoint
    <2>1. mounts.esp = "efi"
        BY <1>1, <1>3, SelectedType DEF Types
    <2>2. table' = Append(table, [dev |-> env.esp, point |-> "efi"])
        BY <1>1, <1>3, <2>1 DEF MountPartition, MountOn
    <2>3. /\ env.esp \in Devices /\ "efi" \in Points
          /\ env.xbootPoint # NoPoint => env.xbootldr # NoDevice
        BY <1>1, <1>3, MachineAssumption DEF Types, WellFormed, Partition
    <2> QED
        BY <1>1, <1>3, <2>2, <2>3, MountHides DEF Types
<1> QED
    BY <1>2, <1>3

LEMMA XbootldrAstray ==
    ASSUME MountInv, Astray, MountXbootldr, ~ machine.image, ~ foreign
    PROVE  /\ env.espPoint # NoPoint /\ ~ Visible(table, env.esp, env.espPoint)
                  => ~ Visible(table', env.esp, env.espPoint)
           /\ env.xbootPoint # NoPoint /\ ~ Visible(table, env.xbootldr, env.xbootPoint)
                  => ~ Visible(table', env.xbootldr, env.xbootPoint)
           /\ /\ env.esp # NoDevice /\ env.xbootldr # NoDevice /\ env.xbootPoint = NoPoint
              /\ Covers("boot", mounts.esp)
              => ~ Visible(table', env.esp, mounts.esp)
<1>1. /\ Types /\ MountPartition(env.xbootldr, env.xbootPoint, mounts.xbootldr)
      /\ env.xbootldr # NoDevice => env.xbootldr # env.esp
    BY DEF MountInv, Astray, MountXbootldr
<1>2. CASE env.xbootldr = NoDevice \/ env.xbootPoint # NoPoint
    BY <1>1, <1>2 DEF MountPartition
<1>3. CASE env.xbootldr # NoDevice /\ env.xbootPoint = NoPoint
    <2>1. mounts.xbootldr = "boot"
        BY <1>1, <1>3, SelectedType DEF Types
    <2>2. table' = Append(table, [dev |-> env.xbootldr, point |-> "boot"])
        BY <1>1, <1>3, <2>1 DEF MountPartition, MountOn
    <2>3. env.xbootldr \in Devices /\ "boot" \in Points
        BY <1>1, <1>3, MachineAssumption DEF Types, WellFormed, Partition
    <2> QED
        BY <1>1, <1>3, <2>2, <2>3, MountHides DEF Types
<1> QED
    BY <1>2, <1>3

LEMMA AstrayNext ==
    ASSUME MountInv, Reached, Astray, [Next]_vars
    PROVE  Astray'
<1>1. CASE New
    <2>1. env' \in Environments /\ machine \in Machines
        BY <1>1 DEF New, MountInv, Types
    <2>2. env'.esp = Esp /\ env'.xbootldr = Xbootldr
        BY <2>1 DEF Environments
    <2> QED
        BY <1>1, <2>1, <2>2, DevicesApart DEF New, Astray
<1>2. CASE MountEsp
    <2>1. UNCHANGED <<machine, env, mounts, found, foreign>> /\ pc' = "mountXbootldr"
        BY <1>2 DEF MountEsp
    <2> QED
        BY <1>2, <2>1, EspAstray DEF Astray
<1>3. CASE MountXbootldr
    <2>1. /\ UNCHANGED <<machine, env, mounts, found, foreign>>
          /\ pc' = "ready" /\ pc = "mountXbootldr"
        BY <1>3 DEF MountXbootldr
    <2> QED
        BY <1>3, <2>1, XbootldrAstray DEF Astray
<1>4. CASE SyncLoader
    <2>1. Place(mounts.esp)' = Place(mounts.esp) /\ BootRoot' = BootRoot
          /\ Place(BootRoot)' = Place(BootRoot)
        BY <1>4 DEF SyncLoader, Place, BootRoot
    <2> QED
        BY <1>4, <2>1 DEF SyncLoader, Astray
<1>5. CASE SyncEntries
    <2>1. Place(mounts.esp)' = Place(mounts.esp) /\ Place(BootRoot)' = Place(BootRoot)
        BY <1>5 DEF SyncEntries, Place, BootRoot
    <2>2. /\ written'.loader = written.loader /\ written'.conf = written.conf
          /\ written'.entries = Place(BootRoot)
        BY <1>5 DEF SyncEntries, MountInv, Types
    <2> QED
        BY <1>5, <2>1, <2>2 DEF SyncEntries, Astray
<1>6. CASE MountFails \/ Done
    BY <1>6 DEF MountFails, Done, Astray
<1>7. CASE Drop
    BY <1>7 DEF Drop, Astray
<1>8. CASE Dropped
    BY <1>8 DEF Dropped, Astray, NoEnv
<1>9. CASE Others
    BY <1>9 DEF Others, Astray
<1>10. CASE UNCHANGED vars
    <2>1. Place(mounts.esp)' = Place(mounts.esp) /\ Place(BootRoot)' = Place(BootRoot)
        BY <1>10 DEF vars, Place, BootRoot
    <2> QED
        BY <1>10, <2>1 DEF vars, Astray
<1> QED
    BY <1>1, <1>2, <1>3, <1>4, <1>5, <1>6, <1>7, <1>8, <1>9, <1>10 DEF Next

\* A sync that is delivered was made by a Manager that found its mounts in order.
LEMMA DeliveredOrderly ==
    ASSUME MountInv, Reached, Astray, pc = "synced", ~ machine.image, ~ foreign,
           written = Intended
    PROVE  Orderly
<1>1. Types /\ env.esp # NoDevice
    BY DEF MountInv, Reached
<1>2. Place(mounts.esp) = RootOf(env.esp) /\ Place(BootRoot) = RootOf(BootPartition)
    BY DEF Astray, Intended
<1>3. /\ env.esp \in Devices /\ mounts.esp \in Points
      /\ env.xbootldr # NoDevice =>
             env.xbootldr \in Devices /\ mounts.xbootldr \in Points
      /\ env.espPoint # NoPoint => mounts.esp = env.espPoint
      /\ env.xbootPoint # NoPoint => mounts.xbootldr = env.xbootPoint
      /\ env.xbootPoint # NoPoint => env.xbootldr # NoDevice
    BY <1>1, SelectedType, MachineAssumption DEF Types, WellFormed, Partition, Point
<1>4. Visible(table, env.esp, mounts.esp)
    BY <1>1, <1>2, <1>3, PlaceVisible DEF Types
<1>5. ASSUME env.xbootldr # NoDevice
      PROVE  Visible(table, env.xbootldr, mounts.xbootldr)
    <2>1. BootRoot = mounts.xbootldr /\ BootPartition = env.xbootldr
        BY <1>3, <1>5, MachineAssumption DEF BootRoot, BootPartition
    <2> QED
        BY <1>1, <1>2, <1>3, <1>5, <2>1, PlaceVisible DEF Types
<1>6. env.espPoint # NoPoint => Visible(found, env.esp, env.espPoint)
    BY <1>3, <1>4 DEF Astray
<1>7. env.xbootPoint # NoPoint => /\ Visible(found, env.xbootldr, env.xbootPoint)
                                  /\ env.espPoint = NoPoint => ~ Covers("efi", env.xbootPoint)
    BY <1>1, <1>3, <1>5 DEF Astray
<1>8. env.xbootldr # NoDevice /\ env.xbootPoint = NoPoint => ~ Covers("boot", mounts.esp)
    BY <1>1, <1>4 DEF Astray
<1> QED
    BY <1>6, <1>7, <1>8 DEF Orderly

(***************************************************************************)
(* On a running system, while nobody else mounts or unmounts, a Manager    *)
(* puts systemd-boot at the top of the ESP, and loader.conf and the        *)
(* entries at the top of $BOOT, if and only if it finds the mounts in      *)
(* order, whatever the partitions and wherever they are mounted            *)
(* (Manager::new, mount_partitions and sync, manager.rs).                  *)
(***************************************************************************)
THEOREM OrderlyDelivered == Spec => []DeliveredIfOrderly
<1>1. Init => MountInv /\ Reached /\ Astray
    <2> SUFFICES ASSUME Init
                 PROVE  MountInv /\ Reached /\ Astray
        OBVIOUS
    <2>1. pc = "idle" /\ table = found
        BY DEF Init
    <2>2. env.xbootldr = NoDevice
        BY DEF Init, NoEnv
    <2> QED
        BY <2>1, <2>2, MountInit DEF Reached, Astray
<1>2. (MountInv /\ Reached /\ Astray) /\ [Next]_vars => (MountInv /\ Reached /\ Astray)'
    BY MountNext, ReachedNext, AstrayNext
<1>3. MountInv /\ Reached /\ Astray => DeliveredIfOrderly
    <2> SUFFICES ASSUME MountInv, Reached, Astray, pc = "synced", ~ machine.image, ~ foreign
                 PROVE  written = Intended <=> Orderly
        BY DEF DeliveredIfOrderly
    <2>1. Orderly => written = Intended
        BY DEF MountInv, Types, Reached, Intended
    <2> QED
        BY <2>1, DeliveredOrderly
<1> QED
    BY <1>1, <1>2, <1>3, PTL DEF Spec
=============================================================================
