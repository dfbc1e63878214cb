----------------------------- MODULE BootMounts -----------------------------
(***************************************************************************)
(* Which partition a sync writes to: BootEnvironment::new (bootenv.rs),    *)
(* Manager::new, mount_partitions, sync and the drop of ScopedMount        *)
(* (manager.rs).                                                           *)
(*                                                                         *)
(* The mount table belongs to the machine: others (an administrator, an    *)
(* automounter) mount and unmount at any time.  A Manager reads it once,   *)
(* picks a directory for each partition, and writes below these            *)
(* directories, whatever is mounted there by then.  The caller is blsctl's *)
(* or moss's: Manager::new, mount_partitions, any number of syncs, drop.   *)
(***************************************************************************)
EXTENDS Integers, Sequences, FiniteSetsExt

CONSTANTS
    Devices,        \* partitions that can be an ESP or an XBOOTLDR
    NoDevice,
    RootFs,         \* the root file system
    Machines,       \* [firmware, image, bls, gpt, xbootldr]: the firmware, image
                    \* mode, the ESP that the boot loader names, the ESP on the
                    \* root's disk, and the XBOOTLDR on the disk of each ESP
    Points,         \* directories one can mount on
    NoPoint,
    Nested(_, _),   \* Nested(p, q): directory q lies below directory p
    Layouts(_),     \* the sequences of mounts that others make on a machine
    MaxMounts       \* bound: how many mounts the table holds at most

VARIABLES
    machine, \* what the firmware and the disks say; it never changes
    table,   \* mounts, the latest last
    pc,      \* how far the caller is
    env,     \* Manager::boot_env
    mounts,  \* Manager::mounts
    tokens,  \* mount points of the ScopedMounts, the first to drop first
    written, \* where the last sync put the loader and the entries
    found,   \* history: the table when the Manager was made
    foreign, \* history: others changed the table since
    stuck    \* history: an unmount failed since

vars == <<machine, table, pc, env, mounts, tokens, written, found, foreign, stuck>>

ASSUME MachineAssumption ==
    /\ NoDevice \notin Devices /\ RootFs \notin Devices \cup {NoDevice}
    /\ NoPoint \notin Points /\ {"boot", "efi", "xboot"} \subseteq Points
    /\ \A m \in Machines :
           /\ m.firmware \in {"uefi", "bios"} /\ m.image \in BOOLEAN
           /\ {m.bls, m.gpt} \subseteq Devices \cup {NoDevice}
           /\ m.xbootldr \in [Devices -> Devices \cup {NoDevice}]
           /\ \A d \in Devices : m.xbootldr[d] # d

Mount == [dev : Devices, point : Points]

ASSUME LayoutAssumption == \A m \in Machines : Layouts(m) \subseteq Seq(Mount)

-----------------------------------------------------------------------------
(* Mounts.                                                                 *)

Covers(p, q) == p = q \/ Nested(p, q)

\* What a path leads to: the root of a partition, or a directory of one.
Place(point) ==
    LET over == {i \in DOMAIN table : Covers(table[i].point, point)}
    IN  IF over = {}
        THEN [dev |-> RootFs, dir |-> point]
        ELSE LET m == table[Max(over)]
             IN  [dev |-> m.dev, dir |-> IF m.point = point THEN NoPoint ELSE point]

IsMounted(dev, point) == Place(point) = [dev |-> dev, dir |-> NoPoint]

\* mount(2) refuses to mount a device on itself.
MountOn(dev, point) ==
    /\ ~IsMounted(dev, point)
    /\ Len(table) < MaxMounts
    /\ table' = Append(table, [dev |-> dev, point |-> point])

\* umount(2) takes the top mount off a directory, unless another lies on it.
UnmountFrom(point) ==
    \E i \in DOMAIN table :
        /\ table[i].point = point
        /\ Place(point) = [dev |-> table[i].dev, dir |-> NoPoint]
        /\ \A j \in DOMAIN table : j > i => ~Covers(point, table[j].point)
        /\ table' = SubSeq(table, 1, i - 1) \o SubSeq(table, i + 1, Len(table))

-----------------------------------------------------------------------------
(* BootEnvironment::new.                                                   *)

\* The boot loader interface is asked on a running UEFI system only.
EspByBls == IF machine.image \/ machine.firmware = "bios" THEN NoDevice ELSE machine.bls
Esp      == IF EspByBls # NoDevice THEN EspByBls ELSE machine.gpt
Xbootldr == IF Esp = NoDevice THEN NoDevice ELSE machine.xbootldr[Esp]

\* The last mount of a device in the table; the canonical path of a mount
\* point that another mount hides may not exist.
MountpointsOf(dev) ==
    LET of == {i \in DOMAIN table : table[i].dev = dev}
    IN  IF of = {} THEN {NoPoint}
        ELSE LET point == table[Max(of)].point
             IN  IF IsMounted(dev, point) THEN {point} ELSE {point, NoPoint}

NoEnv == [esp |-> NoDevice, xbootldr |-> NoDevice, espPoint |-> NoPoint, xbootPoint |-> NoPoint]

Environments ==
    {[esp |-> Esp, xbootldr |-> Xbootldr, espPoint |-> p, xbootPoint |-> q]
        : p \in MountpointsOf(Esp), q \in MountpointsOf(Xbootldr)}

-----------------------------------------------------------------------------
(* Manager.                                                                *)

\* Mutant: $BOOT goes to boot, whether there is an XBOOTLDR or not.
SelectBoot(e) ==
    [xbootldr |-> IF e.xbootPoint # NoPoint THEN e.xbootPoint ELSE "boot",
     esp      |-> IF e.espPoint # NoPoint THEN e.espPoint ELSE "efi"]

\* The mount point a partition has, or gets.
Selected(e) ==
    LET atXbootldr == CASE e.xbootPoint # NoPoint -> e.xbootPoint
                        [] e.xbootPoint = NoPoint /\ e.xbootldr # NoDevice -> "boot"
                        [] OTHER -> NoPoint
        atEsp      == CASE e.espPoint # NoPoint -> e.espPoint
                        [] e.espPoint = NoPoint /\ e.esp # NoDevice -> "efi"
                        [] OTHER -> NoPoint
    IN  [xbootldr |-> IF atXbootldr # NoPoint /\ atEsp = atXbootldr /\ e.xbootldr = NoDevice
                      THEN "xboot" ELSE atXbootldr,
         esp      |-> atEsp]

\* Mutant: the ESP is preferred to an XBOOTLDR.
EspFirst == IF mounts.esp # NoPoint THEN mounts.esp ELSE mounts.xbootldr

\* Loader::new
BootRoot == IF mounts.xbootldr # NoPoint THEN mounts.xbootldr ELSE mounts.esp

NoPlace == [dev |-> NoDevice, dir |-> NoPoint]
Nothing == [loader |-> NoPlace, conf |-> NoPlace, entries |-> NoPlace]

\* A UEFI system without an ESP is an error, and nothing happens.
New ==
    /\ pc = "idle"
    /\ machine.firmware = "uefi" => Esp # NoDevice
    /\ pc' = "mountEsp"
    /\ env' \in Environments
    /\ mounts' = Selected(env')
    /\ tokens' = <<>>
    /\ written' = Nothing
    /\ found' = table
    /\ foreign' = FALSE
    /\ stuck' = FALSE
    /\ UNCHANGED <<machine, table>>

\* mount_partitions, for one partition: mounted already, or not there, or
\* mounted now.  In image mode nothing is.
MountPartition(dev, at, point) ==
    \/ /\ machine.image \/ dev = NoDevice \/ at # NoPoint
       /\ UNCHANGED <<table, tokens>>
    \/ /\ ~machine.image /\ dev # NoDevice /\ at = NoPoint
       /\ MountOn(dev, point)
       /\ tokens' = <<point>> \o tokens

MountEsp ==
    /\ pc = "mountEsp"
    /\ MountPartition(env.esp, env.espPoint, mounts.esp)
    /\ pc' = "mountXbootldr"
    /\ UNCHANGED <<machine, env, mounts, written, found, foreign, stuck>>

MountXbootldr ==
    /\ pc = "mountXbootldr"
    /\ MountPartition(env.xbootldr, env.xbootPoint, mounts.xbootldr)
    /\ pc' = "ready"
    /\ UNCHANGED <<machine, env, mounts, written, found, foreign, stuck>>

\* Mutant: what is mounted already stays so when the second mount fails.
MountFailsForgetting ==
    /\ pc \in {"mountEsp", "mountXbootldr"}
    /\ ~machine.image
    /\ pc' = "drop"
    /\ tokens' = <<>>
    /\ UNCHANGED <<machine, table, env, mounts, written, found, foreign, stuck>>

\* The error drops the vector of the mounts made so far.
MountFails ==
    /\ pc \in {"mountEsp", "mountXbootldr"}
    /\ ~machine.image
    /\ pc' = "drop"
    /\ UNCHANGED <<machine, table, env, mounts, tokens, written, found, foreign, stuck>>

\* Mutant: image mode writes to an ESP that is not mounted.
SyncUnmounted ==
    /\ pc \in {"ready", "synced"}
    /\ machine.firmware = "uefi"
    /\ mounts.esp # NoPoint
    /\ pc' = "entries"
    /\ written' = [loader |-> Place(mounts.esp), conf |-> Place(BootRoot), entries |-> NoPlace]
    /\ UNCHANGED <<machine, table, env, mounts, tokens, found, foreign, stuck>>

\* Manager::sync up to and with Loader::sync.
SyncLoader ==
    /\ pc \in {"ready", "synced"}
    /\ machine.firmware = "uefi"
    /\ machine.image => env.espPoint # NoPoint
    /\ mounts.esp # NoPoint
    /\ pc' = "entries"
    /\ written' = [loader |-> Place(mounts.esp), conf |-> Place(BootRoot), entries |-> NoPlace]
    /\ UNCHANGED <<machine, table, env, mounts, tokens, found, foreign, stuck>>

SyncEntries ==
    /\ pc = "entries"
    /\ pc' = "synced"
    /\ written' = [written EXCEPT !.entries = Place(BootRoot)]
    /\ UNCHANGED <<machine, table, env, mounts, tokens, found, foreign, stuck>>

\* The caller is done, or a sync fails (BIOS firmware panics, which unwinds).
Done ==
    /\ pc \in {"ready", "entries", "synced"}
    /\ pc' = "drop"
    /\ UNCHANGED <<machine, table, env, mounts, tokens, written, found, foreign, stuck>>

\* Drop of the first ScopedMount; an unmount that fails is logged.
Drop ==
    /\ pc = "drop"
    /\ tokens # <<>>
    /\ tokens' = Tail(tokens)
    /\ \/ UnmountFrom(Head(tokens)) /\ stuck' = stuck
       \/ stuck' = TRUE /\ table' = table
    /\ UNCHANGED <<machine, pc, env, mounts, written, found, foreign>>

Dropped ==
    /\ pc = "drop"
    /\ tokens = <<>>
    /\ pc' = "idle"
    /\ env' = NoEnv
    /\ mounts' = [xbootldr |-> NoPoint, esp |-> NoPoint]
    /\ written' = Nothing
    /\ UNCHANGED <<machine, table, tokens, found, foreign, stuck>>

\* Others mount on directories on which nothing is mounted.
Others ==
    /\ \/ \E l \in Layouts(machine) :
             /\ \A i \in DOMAIN l, j \in DOMAIN table : l[i].point # table[j].point
             /\ Len(table) + Len(l) <= MaxMounts
             /\ table' = table \o l
       \/ \E p \in Points : UnmountFrom(p)
    /\ foreign' = TRUE
    /\ UNCHANGED <<machine, pc, env, mounts, tokens, written, found, stuck>>

Init ==
    /\ machine \in Machines
    /\ table = <<>>
    /\ pc = "idle"
    /\ env = NoEnv
    /\ mounts = [xbootldr |-> NoPoint, esp |-> NoPoint]
    /\ tokens = <<>>
    /\ written = Nothing
    /\ found = <<>>
    /\ foreign = FALSE
    /\ stuck = FALSE

Next ==
    \/ New \/ MountEsp \/ MountXbootldr \/ MountFails \/ SyncLoader \/ SyncEntries
    \/ Done \/ Drop \/ Dropped \/ Others

Spec == Init /\ [][Next]_vars

-----------------------------------------------------------------------------
(* Properties.                                                             *)

TypeOK ==
    /\ machine \in Machines
    /\ table \in Seq(Mount)
    /\ pc \in {"idle", "mountEsp", "mountXbootldr", "ready", "entries", "synced", "drop"}
    /\ env \in [esp : Devices \cup {NoDevice}, xbootldr : Devices \cup {NoDevice},
                espPoint : Points \cup {NoPoint}, xbootPoint : Points \cup {NoPoint}]
    /\ mounts.esp = NoPoint <=> env.esp = NoDevice
    /\ mounts.xbootldr = NoPoint <=> env.xbootldr = NoDevice
    /\ tokens \in Seq(Points)
    /\ \A f \in {"loader", "conf", "entries"} :
           written[f] \in [dev : Devices \cup {NoDevice, RootFs}, dir : Points \cup {NoPoint}]

\* The partition that boot_partition() calls $BOOT.
BootPartition == IF env.xbootldr # NoDevice THEN env.xbootldr ELSE env.esp

RootOf(dev) == [dev |-> dev, dir |-> NoPoint]

Intended == [loader |-> RootOf(env.esp), conf |-> RootOf(BootPartition),
             entries |-> RootOf(BootPartition)]

(***************************************************************************)
(* A sync on a running system, after mount_partitions and while nobody     *)
(* else mounts or unmounts, puts systemd-boot at the top of the ESP and    *)
(* loader.conf and the entries at the top of $BOOT -- not below another    *)
(* partition that hides it, and not on the root file system.  "We can't    *)
(* stick xbootldr there..." (manager.rs 73), "Sync bootloader to ESP (not  *)
(* XBOOTLDR..)" (systemd_boot/mod.rs 76).                                  *)
(***************************************************************************)
Delivered == pc = "synced" /\ ~machine.image /\ ~foreign => written = Intended

\* A device is mounted on a directory, and no later mount covers it.
Visible(t, dev, point) ==
    \E i \in DOMAIN t :
        /\ t[i] = [dev |-> dev, point |-> point]
        /\ \A j \in DOMAIN t : Covers(t[j].point, point) => j <= i

\* The mounts that a Manager finds hide none of the directories where it finds
\* a partition, and the directory where it mounts one hides neither the other
\* partition's nor that partition.
Orderly ==
    /\ env.espPoint # NoPoint => Visible(found, env.esp, env.espPoint)
    /\ env.xbootPoint # NoPoint => Visible(found, env.xbootldr, env.xbootPoint)
    /\ env.xbootldr # NoDevice =>
           IF env.xbootPoint = NoPoint
           THEN ~ Covers("boot", mounts.esp)
           ELSE env.espPoint = NoPoint => ~ Covers("efi", env.xbootPoint)

(***************************************************************************)
(* Whether a sync is delivered is decided when the Manager is made: it is  *)
(* if and only if the mounts that Manager::new finds are orderly.  Neither *)
(* mount_partitions (manager.rs 117-141) nor sync looks at them again, so  *)
(* of the other layouts every one sends a file to the wrong partition, and *)
(* no error tells.                                                         *)
(***************************************************************************)
DeliveredIfOrderly ==
    pc = "synced" /\ ~machine.image /\ ~foreign => (written = Intended <=> Orderly)

(***************************************************************************)
(* In image mode nothing is mounted, and an ESP that is not mounted is an  *)
(* error (manager.rs 173): the loader never lands on the root file system. *)
(***************************************************************************)
ImageKept ==
    pc = "synced" /\ machine.image /\ ~foreign => written.loader.dev # RootFs

(***************************************************************************)
(* Once a Manager and its tokens are gone, also after a mount or a sync    *)
(* that failed, the mount table is as it was, unless others changed it or  *)
(* an unmount failed.                                                      *)
(***************************************************************************)
Released == pc = "idle" /\ ~foreign /\ ~stuck => table = found
=============================================================================
