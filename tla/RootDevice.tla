----------------------------- MODULE RootDevice -----------------------------
(***************************************************************************)
(* The arguments with which a kernel finds the root file system again:     *)
(* Probe::get_rootfs_device and BlockDevice::cmd_line of the topology      *)
(* crate.                                                                  *)
(*                                                                         *)
(* A machine is what sysfs and the superblocks say.  A probe reads the     *)
(* mount table when it is built, and the rest when it is asked; in between *)
(* others can change what is mounted on the root that is asked for.        *)
(***************************************************************************)
EXTENDS Integers, SequencesExt

CONSTANTS
    Devs,      \* block devices
    Machines,  \* [kind, slaves, gpt, tops]: the superblock of each device, the
               \* devices it is made of, in the order slaves/ is read, the GPT
               \* partitions, and the devices that are mounted as a root
    Subvols,   \* subvolumes
    NoSubvol,
    MaxMounts  \* bound: mounts on the root directory, one hiding another

VARIABLES
    machine,
    mounts,    \* mounts on the root directory, the latest last
    probe,     \* Probe::mounts, or NoProbe
    line       \* the last answer, or NoLine

vars == <<machine, mounts, probe, line>>

NoProbe == <<>>
NoLine  == [device |-> NoSubvol, args |-> <<>>, mounts |-> <<>>]
Kinds   == {"btrfs", "ext4", "luks2", "none"}

HasHolder(m, d) == \E e \in Devs : d \in ToSet(m.slaves[e])

\* Nothing rests on itself, at any depth.
Grounded(m) == \A S \in SUBSET Devs \ {{}} : \E d \in S : ToSet(m.slaves[d]) \cap S = {}

\* What others are made of holds no file system; partitions are of nothing.
ASSUME MachineAssumption ==
    \A m \in Machines :
        /\ m.kind \in [Devs -> Kinds]
        /\ m.slaves \in [Devs -> Seq(Devs)] /\ Grounded(m)
        /\ \A d \in Devs : HasHolder(m, d) => m.kind[d] \in {"luks2", "none"}
        /\ \A d \in m.gpt : m.slaves[d] = <<>>
        /\ m.tops \subseteq Devs
        /\ \A d \in m.tops : m.kind[d] # "luks2" /\ ~HasHolder(m, d)

Mounts ==
    {[dev |-> d, subvol |-> NoSubvol] : d \in machine.tops}
    \cup {[dev |-> d, subvol |-> s]
            : d \in {e \in machine.tops : machine.kind[e] = "btrfs"}, s \in Subvols}

-----------------------------------------------------------------------------
\* get_device_from_mountpoint: what stat says; of btrfs it says nothing, and
\* the first mount of the table counts.
RootDevice ==
    LET top == Last(mounts).dev
    IN  IF machine.kind[top] = "btrfs" THEN Head(probe).dev ELSE top

\* get_device_chain
Chain ==
    LET chain[d \in Devs] ==
            FlattenSeq([i \in DOMAIN machine.slaves[d] |->
                           <<machine.slaves[d][i]>> \o chain[machine.slaves[d][i]]])
    IN  chain

\* Mutant: only the devices right below are looked at.
CustodialsBelow(device) == <<device>> \o machine.slaves[device]

Custodials(device) == <<device>> \o Chain[device]

Guid(device) == device \in machine.gpt

\* Only the device that is mounted knows where, unless it is the tip.
Tip(device) ==
    [dev |-> Last(Custodials(device)), mounted |-> FALSE, aux |-> TRUE, guid |-> Guid(device)]

Children(device) ==
    LET devs == Front(Custodials(device))
    IN  [i \in DOMAIN devs |-> [dev |-> devs[i], mounted |-> devs[i] = device,
                                aux |-> devs[i] # device, guid |-> FALSE]]

\* Mutant: of two mounts on a directory, the options of the hidden one.
FirstSubvol(b) == IF b.mounted THEN Head(probe).subvol ELSE NoSubvol

\* The mounts are collected by mount point: the last one stays.
Subvol(b) == IF b.mounted THEN Last(probe).subvol ELSE NoSubvol

Argument(key, value) == [key |-> key, value |-> value]

Local(b) ==
    CASE machine.kind[b.dev] = "btrfs" ->
             <<Argument("root=UUID", b.dev)>>
             \o (IF Subvol(b) # NoSubvol THEN <<Argument("subvol", Subvol(b))>> ELSE <<>>)
      [] machine.kind[b.dev] = "luks2" -> <<Argument("rd.luks.uuid", b.dev)>>
      [] machine.kind[b.dev] = "ext4"  ->
             <<Argument(IF b.guid THEN "root=PARTUUID" ELSE "root=UUID", b.dev)>>
      [] OTHER -> IF b.aux THEN <<>> ELSE <<Argument("root=", b.dev)>>

\* cmd_line
CmdLine(device) ==
    LET children == Children(device)
    IN  Local(Tip(device)) \o FlattenSeq([i \in DOMAIN children |-> Local(children[i])])

-----------------------------------------------------------------------------
\* Mutant: an answer of an earlier probe is kept.
BuildKeepingLine ==
    /\ probe' = mounts
    /\ UNCHANGED <<machine, mounts, line>>

\* Builder::build
Build ==
    /\ probe' = mounts
    /\ line' = NoLine
    /\ UNCHANGED <<machine, mounts>>

\* get_rootfs_device and cmd_line
Query ==
    /\ probe # NoProbe
    /\ line' = [device |-> RootDevice, args |-> CmdLine(RootDevice), mounts |-> probe]
    /\ UNCHANGED <<machine, mounts, probe>>

Mount ==
    /\ Len(mounts) < MaxMounts
    /\ \E m \in Mounts : mounts' = Append(mounts, m)
    /\ UNCHANGED <<machine, probe, line>>

Unmount ==
    /\ Len(mounts) > 1
    /\ mounts' = Front(mounts)
    /\ UNCHANGED <<machine, probe, line>>

Init ==
    /\ machine \in Machines
    /\ mounts \in {<<m>> : m \in Mounts}
    /\ probe = NoProbe
    /\ line = NoLine

Next == Build \/ Query \/ Mount \/ Unmount

Spec == Init /\ [][Next]_vars

-----------------------------------------------------------------------------
(* Properties.                                                             *)

TypeOK ==
    /\ machine \in Machines
    /\ {mounts, probe} \subseteq Seq(Mounts)
    /\ line # NoLine => line.device \in Devs /\ line.mounts = probe
    /\ ToSet(line.args) \subseteq
           [key : {"root=", "root=UUID", "root=PARTUUID", "rd.luks.uuid"}, value : Devs]
           \cup [key : {"subvol"}, value : Subvols]

Values(keys) == {a.value : a \in {b \in ToSet(line.args) : b.key \in keys}}

Closed(S) == \A d \in S : ToSet(machine.slaves[d]) \subseteq S

\* The devices below, at any depth: the least set closed under slaves/.
Below(device) ==
    {d \in Devs : \A S \in SUBSET Devs :
                      Closed(S) /\ ToSet(machine.slaves[device]) \subseteq S => d \in S}

(***************************************************************************)
(* Every LUKS device that the root rests on, at any depth and on any       *)
(* branch, is named for the initrd to open, and no other is: one that is   *)
(* missing leaves a system that does not boot.                             *)
(***************************************************************************)
Unlocked ==
    line # NoLine =>
        Values({"rd.luks.uuid"}) =
            {d \in Below(line.device) : machine.kind[d] = "luks2"}

\* One root=, which names the device, and the subvolume that is mounted.
NamesRoot ==
    /\ Values({"root=", "root=UUID", "root=PARTUUID"}) = {line.device}
    /\ Values({"subvol"}) = {Last(line.mounts).subvol} \ {NoSubvol}

SameDevice(ms) == \A i, j \in DOMAIN ms : ms[i].dev = ms[j].dev

(***************************************************************************)
(* "Generate a working "root=" style boot line" (device.rs 78): the line   *)
(* names the device on which the root lies and, of a btrfs, the subvolume  *)
(* that was mounted when the probe was built, also when it hides another   *)
(* one of the same device.                                                 *)
(***************************************************************************)
RootNamed ==
    line # NoLine /\ SameDevice(line.mounts) /\ line.device = Last(line.mounts).dev => NamesRoot

(***************************************************************************)
(* The same, of a root that rests on other devices, as in the repository's *)
(* test of btrfs on LVM on LUKS.                                           *)
(***************************************************************************)
StackedRootNamed ==
    line # NoLine /\ SameDevice(line.mounts) /\ line.device = Last(line.mounts).dev
        /\ machine.slaves[line.device] # <<>> => NamesRoot
=============================================================================
