# Verification of blsforme

blsforme keeps the boot partition of a Linux system in step with the kernels
the system ships. This directory holds TLA+ models of it, the TLC
configurations that check them on small instances, and theorems about them
that TLAPS proves.

## 1. The system

| component | source | state it keeps | operations |
|---|---|---|---|
| vfat copy | `blsforme/src/file_utils.rs` | files on the boot partition | `changed_files`, `copy_atomic_vfat` |
| asset naming | `bootloader/systemd_boot/mod.rs` 452-651, `kernel.rs` 120-148, `entry.rs` | `AssetCollisions::map`, for one call | `insert`, `conflict_index`, `installed_name`, `Entry::id` |
| entry sync | `systemd_boot/mod.rs` 131-410 | none between calls: the partition is the state | `sync_entries`: hash, `install` per entry, `cleanup_stale_entries` |
| loader sync | `systemd_boot/mod.rs` 51-129 | two copies of systemd-boot, `loader.conf` | `sync` |
| installed kernels | `systemd_boot/mod.rs` 412-449 | none | `installed_kernels`, which reads the partition back |
| manager | `manager.rs` | mount points, entries, assets, all fixed at construction | `new`, `mount_partitions`, `sync`, drop of `ScopedMount` |
| boot environment | `bootenv.rs` | firmware, ESP and XBOOTLDR devices and mount points | `new` |
| boot loader interface | `systemd_boot/interface.rs` | none | decodes EFI variables |
| kernel discovery | `kernel.rs` 112-408 | none | `blsforme_kernels`, `legacy_kernels` |
| command line | `cmdline.rs` | snippets and exclusions read at construction | `full_cmdline` |
| topology | `crates/topology` | mount table | `get_rootfs_device`, `cmd_line` |
| os-release, blsctl, configuration | `os_release.rs`, `blsctl/src/main.rs`, `lib.rs` | none | parsing; `blsctl status` |

A caller (moss, or blsctl) discovers kernels below `/usr/lib/kernel`, makes one
`Entry` per kernel and state, builds a `Manager` and calls `sync`. The manager
finds the partitions through the boot environment and the topology, and has
the loader write the systemd-boot binaries (loader sync) and then the entries
(entry sync); both write files through the vfat copy. Everything is one
process and one thread; nothing is kept in memory between two calls. What is
hard is not concurrency but interruption: a vfat partition gives no order to
writes before `syncfs` returns, any call may fail or be killed at any point, and
the next call, perhaps for other entries or under another identity of the
system, starts from whatever is there.

What makes the parts correct:

- *vfat copy*: an installed name never holds a torn file, at any instant, whatever
  was interrupted before.
- *asset naming*: two contents of one request never share an installed name; a
  content keeps its name as long as confs use it, which the code sees to for some requests
  only (run `Reindex`).
- *the machine*: wherever a power failure leaves the text of a conf just written, its files are
  whole; an entry that is on the medium is put at risk only by the rewriting of its own conf,
  and by cleanup after everything that the request keeps was written; when the interruptions
  end, calling again brings the partition to what is asked for. That some entry starts after
  every power failure is not true of this code (section 3, divergences).
- *entry sync*: what an entry installs stays until the call ends; the files of a conf are
  on the medium before the conf is written, unless an earlier program stopped between
  its last rename and the sync after it; a call that completes mirrors the request; nothing
  of another system is touched, where names are apart.
- *loader sync*: one complete copy of systemd-boot exists at any instant, unless another
  release was shipped over an interrupted call.
- *manager, boot environment*: what is written goes to the partition it is meant for,
  and what was mounted for it is unmounted.
- *kernel discovery, command line*: each kernel gets the initrds that packages ship for it,
  once and in order; a mask in `/etc/kernel/cmdline.d` hides a cmdline snippet's name wherever
  it is shipped, and the administrator's snippets come last, whatever changes between discovery
  and sync. Nothing in `/etc` reaches the initrds (section 3, divergences).
- *topology*: the line it makes leads back to the root that is mounted, and has
  every LUKS device on the way opened.

## 2. Modules

| module | models |
|---|---|
| `VfatCopy` | the file system as the program sees it (`disk`) and as a power failure may leave it (`outcomes`); `changed_files`; `copy_atomic_vfat`, one step per system call that matters |
| `AssetNames` | names of installed assets and conflict indices |
| `EntrySync` | `sync_entries`, on top of the two; failures, kills, power cuts |
| `MCEntrySync` | instances of `EntrySync` for TLC |
| `BootMenu` | abstract specification: the menu a power failure may leave, torn confs included, without files, hashes or names, and what its owner may count on (`Promised`) |
| `EntryMenu`, `MCEntryMenu` | the refinement mapping from `EntrySync` to `BootMenu`, what may put an entry at risk (`NothingLost`), what this asks of requests (`Steady`, `OneContent`), and the instances that meet it |
| `InstalledKernels` | `installed_kernels`, on the partition of `EntrySync` and with the discovery of `KernelDiscovery` |
| `LoaderPaths`, `LoaderSync` | `Loader::sync`, on top of `VfatCopy` |
| `ManagerSync`, `MCManagerSync` | `Manager::sync`: `LoaderSync`, then `EntrySync`, on one partition of limited size, called again and again; and its instances |
| `BootMounts`, `MCBootMounts` | `BootEnvironment::new`, `Manager::new`, `mount_partitions`, `sync` and the drop of `ScopedMount`, and their instances |
| `KernelDiscovery` | `blsforme_kernels`, as operators on the set of files packages ship |
| `LegacyDiscovery` | `legacy_kernels`, the same for files that say everything in their names |
| `Cmdline`, `MCCmdline` | `GlobalCmdline`, on top of both discoveries, and the instances of all three |
| `RootDevice`, `MCRootDevice` | `get_rootfs_device` and `cmd_line` of the topology crate, and their instances |
| `EntrySyncProofs`, `EntryMenuProofs` | theorems about `EntrySync` and what it leaves on the partition, and about the refinement and what entries name |
| `BootMenuProofs`, `InstalledKernelsProofs`, `ManagerSyncProofs`, `BootMountsProofs`, `CmdlineProofs`, `RootDeviceProofs` | theorems about the modules they are named for |

`disk` maps a path to what is there: `Absent`, `Torn`, the hash of an asset, or
the text of a conf (the sequence of paths it names). `outcomes` maps it to the
set of contents a power failure may leave. A write adds its content and `Torn` to
the set, a removal adds `Absent`, a rename adds what the source could hold;
`syncfs` makes every set a singleton. `Crash` ends the program, and `Recover`
settles one path at a time on one of its outcomes. A path is a record
of namespace, directory, file name and numeric suffix; the suffix is the
conflict index, which `with_extension` replaces when it builds the staging name.

`EntrySync` has an action per stage: `Begin`, `HashAsset` (one asset),
`HashDone`, `Install` (the comparison of one entry's batch), `CopyChanged` (one step of a copy),
`WriteConf`, `Scan` (all that cleanup reads), `RemoveConf`, `RemoveTree`,
`RemoveFile`, `CleanDone`, and `Stop` (any error return, or a kill).
`req`, `cur`, `pos`, `collisions`, `stale` are the locals of the call.
Two variables are history: `undeleted` (removals that failed and were logged)
and `unflushed` (a program stopped between its last rename and the `syncfs` after it,
so that a later `changed_files` finds the file identical and nothing syncs it).

`LoaderSync` has `Begin`, `CopyChanged`, `WriteLoaderConf`, `Stop`, `Crash`, `Recover`,
and its own history: `unfinished`, `abandoned`.

`ManagerSync` takes the actions of both as they are: it extends `EntrySync` and instantiates
`LoaderSync` over the same `disk` and the same copy in progress, with a program counter of its own.
`phase` is where `Manager::sync` is: `Call` starts the loader's part, `LoaderStep` goes on with
it, `SyncEntries` starts the entries' part when the loader's has succeeded (the `?` of `manager.rs` 180),
`EntryStep` goes on, `Return` ends the call. A copy into a staging file needs room (`Fits`), or
it is truncated and the call fails (`NoRoom`). What disturbs it is apart: `Change` (the OS ships
another release), `Fault` (an error, a kill, a lost removal, a power cut, or another system that fills
the partition up), `MakeRoom` and `PowerOn`.

`BootMenu` has for each conf the set of items a power failure may leave in the menu: none, torn, or a text whose files
are whole, missing or wrong. Its actions say who may change it and how: `Prepare` (files are put in place for entries
that wait for their conf), `Publish` (a conf is written), `Retire` (what is not kept goes, and only when nothing waits
any more), `Abandon`, `Cut`, `Settle`. A conf is published without a sync, and `Retire` does not wait for one:
`BootMenu` does not say that an entry is found after a power failure, only what its files are where its text is found.
`EntryMenu` maps `outcomes` of a conf and of the files it names to such a set, `req` to what is kept, and the entries
installed so far to what is published; `ImplementsMenu` is `Menu!Spec`. What puts an entry at risk is said of
`EntrySync` itself: `Bootable` are the confs that every power failure leaves with their files, and `NothingLost` names
the two steps after which one may be Bootable no more.

`BootMounts` has the machine's mount table, which `Others` changes at any time (at most `MaxChanges` times, which
`MCBootMounts` counts), and
the life of one `Manager` after another: `New`, `MountEsp`, `MountXbootldr` (or
`MountFails`), any number of `SyncLoader` and `SyncEntries`, `Done`, one `Drop` per token,
`Dropped`. A path leads to the partition mounted last on it or above it (`Place`), so that
`written` tells where a sync really put its files. `found`, `foreign`
and `stuck` are history.

`Cmdline` separates what is read when (`NewManager`, `Sync`) from the changes that packages
(`Package`) and the administrator (`Administrator`) make; `legacy` says which discovery
the machine's schema takes, and `DiscoveryPanics` is the assertion of the legacy one. The discoveries have no
actions of their own. In `RootDevice`, `Build` reads the mount table, `Query` everything else, and
`Mount` and `Unmount` change it in between; the chain of devices is a recursive
function over `slaves/`, as in the code, and the properties speak of `Below`, the least set closed under it.

## 3. What is checked

Each property says in its comment which line of the code or the documentation it
is about. Every property of a passing run has a mutant, a definition changed the
way a plausible bug would, on which the run fails.

| run | instance | result |
|---|---|---|
| `Collisions` | two states of one kernel version whose images and initrds differ; requests for none, the first, both, both in the other order; three calls | no torn asset, installed entries intact and durable, completed calls mirror the request |
| `Identities` | legacy system, then blsforme, then os-info with a former identity, older entries under their own schema; another system on the partition; a request that appends to another; three calls | intact, mirrored, the other system untouched; `installed_kernels` reports exactly what it can recognise; no entry names a file of another; every step is one of `BootMenu`; an entry on the medium is put at risk only by the rewriting of its conf and by cleanup. TLC evaluates that it meets the premises of `OthersSafe`, `Refines`, `Unmixed` and `Lossless` |
| `Reindex` | as `Collisions`, two calls | violated: reordered entries exchange files under confs already on disk |
| `DualBoot` | two systems, the ID of one a prefix of the other's; one call | violated: the other system's conf is removed |
| `Retries` | three releases, each of another loader and kernel with one initrd in common; two changes of release, two faults, any number of calls | one complete loader, unless another release is shipped over an interrupted call; a completed sync of the loader leaves both copies current, and a call that returns Ok all that it was asked for (`Complete`); the partition converges to what is asked for |
| `Full` | the same with room for three kernels and initrds, and one fault | violated: one torn staging file, and no later call ever gets to its cleanup |
| `Mounts` | UEFI and BIOS, running system and image, three devices, whatever is mounted anywhere when a Manager is made, over and below each other, and three changes by others | a sync writes to the ESP and to `$BOOT` if and only if the mounts found are `Orderly`; image mode never writes the loader to the root file system; mounts are released |
| `LegacyBoot` | the ESP at `/boot` | violated: an unmounted XBOOTLDR is mounted over it |
| `Sources` | two kernels, one version beginning the other; initrds and snippets of one name in two places; or a legacy system with two variants of a version and a file that makes discovery panic; every set of files, every `/etc`, one change | the initrds that packages ship once and in order, kernels independent, masks and order of snippets, each variant its own |
| `Prefix` | a legacy system with releases 1 and 10 of a kernel | violated: the initrd of release 10 is given to release 1 |
| `RootLine` | every layering of three devices below a root, LUKS or not; plain roots; a root hidden by another | every LUKS device is opened; a stacked root is named with its subvolume |
| `PlainRoot` | roots on nothing else | violated: the subvolume, or the whole `root=`, is lost |

The violated runs, and what they contradict, are the findings of `PROJECT.json`. Divergences that have no
run of their own, because one line of the code is all there is to them:

- `manager.rs` 169-170 says of `sync` that "any already installed kernels will be skipped, and this step is not
  responsible for *deleting* any unused kernels". `install` truncates and rewrites every conf, also an unchanged one
  whose files are on the medium (the TODO at `mod.rs` 366), and nothing syncs it; `cleanup_stale_entries`, which every
  completed `sync_entries` ends in, deletes (`Mirrored`) and waits for no sync either. A power cut in cleanup may leave
  every conf of the request torn and the older ones gone: `Publish` and `Retire` of `BootMenu` allow it, and no
  property says otherwise. What holds is `NothingLost`.
- `README.md` 8 of the repository promises "overrides/masking for initrds, cmdlines, etc.", and 69-72 lists
  `/etc/kernel/initrd.d`. No code reads that directory (`kernel.rs` 369 looks beside the kernels only): an initrd put
  there is loaded by no kernel, and a link to `/dev/null` masks none. The only override of an initrd is that one of
  `initrd.d` below `/usr/lib/kernel` takes the place of the one of its name in a kernel's directory. `InitrdsLoadable`
  speaks of what packages ship, and is no evidence for that promise.
- `manager.rs` 63 gives an XBOOTLDR that is not mounted `/boot`, whatever lies below it: an ESP at `/boot/efi` is hidden
  by it, and systemd-boot goes to a directory of the XBOOTLDR. `Mounts` visits such layouts; they are not `Orderly`, and
  `DeliveredIfOrderly` says that they send a file to the wrong place.
- `mod.rs` 76 says "Sync bootloader to ESP (not XBOOTLDR..)"; `loader.conf` goes to `boot_root`
  (`mod.rs` 113), which is the XBOOTLDR partition if there is one.
- `mod.rs` 120 makes "a default pattern that matches all entries for our namespace": those of a legacy schema
  are named by NAME (`entry.rs` 79), and those under a former identity by its ID; the pattern matches neither.
- Files directly in a namespace directory, which is where a legacy schema installs, are never listed by cleanup
  (`mod.rs` 211): they stay for good. `Mirrored` speaks of subdirectories.
- `manager.rs` 146 says "Discover installed kernels"; `installed_kernels` finds none whose image has a conflict
  suffix, none of a legacy schema and none under a former identity, and fails when there is no directory yet.
  `ReportsInstalled` says exactly what is found.
- A legacy cmdline snippet cannot be masked: its name never ends in `.cmdline`, and `load_etc_cmdline` looks
  at no other names.

Bounds. `MaxCalls` bounds the calls of a behaviour: three let one call be interrupted, another interrupted over what the
first left, and one complete. Two colliding contents are what it takes to use conflict indices, and `Identities` has
three. The number of power cuts, failures and recoveries is not bounded there. In `ManagerSync` the number of calls is
not bounded, `MaxChanges` and `MaxFaults` are two: one interruption in the second copy of the loader and one, for yet
another release, in the first are what it takes to lose both copies. `Capacity` is six in `Retries`: three images, the
initrd and two staging files are the most that two interrupted releases and a call in progress need; with five the last
call can fail as in `Full`. `MaxMounts` bounds the mount table: in `Mounts` five hold what three changes by others leave
and the two mounts of a Manager; in `RootLine` two let one root hide another. `MaxChanges` of `MCBootMounts` is three:
an ESP, an XBOOTLDR and one mount over or below them, or a mount that goes while a Manager lives. `MaxChanges` is one in
`Sources`, where every set of files is an initial state, so that one change already happens at every point between
discovery, construction and sync. Three devices below a root give two branches, one of them two levels deep, and a
device that both share. No symmetry is used.

Fairness. Only `ManagerSync` states any, and `Converges` is the only liveness property. `WF(Program)`: a caller that
has not got what it wants calls again, a call that nothing interrupts goes on (one process, one thread, no
waiting), and a machine without power gets it back. `WF(MakeRoom)`: room that another system took for a while comes
back. Nothing is assumed of `Change` and `Fault`, which are bounded instead: a machine that fails at every call, or a
removal that fails every time, converges to nothing.

## 4. What is proved

All theorems hold for every value of the constants that meets the named assumptions, which TLC evaluates on every run. A
temporal theorem is always the same three facts: the inductive invariant holds at first, every step keeps it, and it
implies the property. Every inductive invariant was checked by TLC before it was proved.

**Entry sync** (`EntrySyncProofs`), for every set of requests, other systems and initial contents:

| theorem | states | argument |
|---|---|---|
| `TypeCorrect` | `TypeOK` | part of `IInv` |
| `NeverTorn` | `AssetsNeverTorn` | `IInv` |
| `Intact` | `InstalledIntact` | `IInv` and `IntactInv` |
| `Durable` | `AssetsDurable` | those and `DurableInv` |
| `OthersSafe` | `OthersKept`, for systems with names apart (`Apart`) | `IInv` and `OthersInv` |
| `Mirrors` | `Mirrored` | `IInv` and `Accounted` |

`AssetsNeverTorn` is not inductive: that a rename moves a whole file follows from the sync before it. `IInv` adds that
`pc` agrees with the other locals (`Control`), that every asset hashed so far is among the collisions (`Collected`), and
that between the first flush and the rename the staging file holds the data of the pending pair, in memory and on the
medium (`Staged`). `Intact` needs `IntactInv`: the assets of the current batch that are no longer pending are in place
(`Copied`) and nothing cleanup collected is in use (`StaleUnused`). Its core is `NoClash`: two assets of a request with
one installed name have one content, which holds because conflict indices are injective on the hashes of a key, and
because names, directories and suffixes keep the keys apart. `Durable` adds what memory and medium have in common
(`OnMedium`): a kernel or initrd that is visible is on the medium unless its rename waits for a sync now or was left
waiting; an unchanged file is never synced again, which is why the history variable `unflushed` is in the statement.
`OthersSafe` follows from what a step does to the files of others, which is nothing but a sync (`Untouched`), and from
what cleanup has collected (`Spared`). `Mirrors` needs that while cleanup runs, every file with a name of ours is
wanted, still due to be removed (`Doomed`), or given up.

**The refinement** (`EntryMenuProofs`): `Refines` states `Spec => ImplementsMenu`: the files of a conf of the request
never become others, are whole from the writing of its text on wherever that text is found, and nothing is removed
before the running system sees every conf of the request. It does not state that a conf survives a power failure, since
the code syncs none. It holds for requests that are `Steady` and a
partition that holds none of our confs at first. `Steady` says in terms of names alone what `EntrySync` computes with a
map: a path that a request puts into a conf is given to no other content by a request that keeps the conf. It is true of
`Identities` and false of `Reindex`. The bridge is `IndexComputed`: for every request, the index that `AssetCollisions`
gives an asset is the number of contents of its key that the request has in front of it. `RefinementInv` adds to the
invariants above that a destination is given up on the medium before it is replaced (`Replaced`), so that a power
failure leaves the file one sees or none (`OneFile`), and that a conf holds only texts some request gives it
(`Origins`). There is one lemma per action of `BootMenu`: `Begin` is `Ask`, a copy is `Prepare`, `WriteConf` is
`Publish`, the removals are `Retire`, `Stop` is `Abandon`, and so on.

**The menu** (`BootMenuProofs`): `PromiseKept` proves of `BootMenu` that no step of it breaks `Promised`: from the
moment a conf is written to the end of the call, its files are whole wherever its text is found after a power failure,
and only one that an earlier program left without a sync may be missing. The conf itself may be torn. `PromiseMet`
(`EntryMenuProofs`) puts it together with `Refines`: read through the mapping, the promise is an invariant of
`EntrySync` under the premises of `Refines`.

**What entries name** (`EntryMenuProofs`): `Unmixed` states `NeverMixed` for requests in which every installed name
stands for one content (`OneContent`), on a partition that holds what such requests may have left (`Familiar`). This is
the edge of the finding `Reindex`. `Steady` is not enough: a request that drops an entry may reuse its path, be stopped
before its cleanup, and be followed by one that has the entry again. `MixInv` adds to `IInv`, `Ordered` and `Origins`
that a path holds, on the disk and on the medium, nothing but what some request gives it (`Kin`): a copy puts a pending
asset at the path that `IndexComputed` says, and every other step only removes, or keeps what was there.

**What may be lost** (`EntryMenuProofs`): `Lossless` states `NothingLost` under the premises of `Unmixed` and for
entries that name no file twice (`EachOnce`): an entry that no power failure could take away is put at risk only by the
rewriting of its own conf, its files being in place, and by cleanup, if the request does not keep it and has written
everything it keeps. `LossInv` joins `MixInv` and `IntactInv` with `Differ`: what a copy is still to replace differs
from what is there. A copy therefore never gives up the destination of a file that an entry on the medium names, which
by `MixInv` holds just what the copy would put there (`CopyKeeps`); a staging file is named by no conf; a removal is of
what cleanup collected, and `StaleUnused` keeps what is installed out of that.

**Manager sync** (`ManagerSyncProofs`), for every set of releases, requests and capacities:

- `LoaderTyped`, `LoaderIsCurrent` and `NeverTornBySync` state `LoaderTypeOK`, `LoaderCurrent` and `AssetsNeverTorn` of
  `SyncSpec`. `SyncInv` says whose the one batch of copies is (`Owner`): while entries are synchronised it is `IInv` of
  `EntrySync`, with the loader's files among the files of others, so that `OthersSafe`'s lemmas show that they are left
  alone; otherwise it is the loader's or nobody's. `Progress` is what the loader's copies have done, `LoaderOnMedium` is
  `OnMedium` for them.
- `StaysBootable` states `LoaderSurvives`, if the machine starts with a copy at the name that the firmware's own entry
  has (`InitialDisk[Systemd]`). `OneComplete`: unless a call for another version followed one that was interrupted,
  either the second copy is complete, or the first one is durably at the version of the interrupted call, so that a
  retry finds it identical and goes straight to the second. The fallback copy alone would not do: it is replaced first,
  as TLC shows on an instance that has only that.
- `CallsComplete` states `Complete`: a call that returns Ok leaves, at once, both copies of the loader, every entry of
  its request with its files on the medium, and nothing else of our names. `OfOneCall` carries all the invariants of
  `EntrySync` from the start of the entries' part to the next call; a request starts them afresh, except that the files
  already there must be on the medium (`DestOnMedium`), which the loader's copies leave so (`LoaderOffEsp`).

**Mounts** (`BootMountsProofs`), for every set of devices, machines and mount points:

- `MountTypes`, `ImageSafe` and `TokensRelease` state `TypeOK`, `ImageKept` and `Released`. `MountInv`: while nobody
  else mounts and no unmount failed, the table is the one found with one mount per token on top of it, the latest for
  the token that drops first (`Held`).
- `OrderlyDelivered` states `DeliveredIfOrderly`: while nobody else changes the mounts, a sync on a running system is
  delivered if and only if the mounts that `Manager::new` found are `Orderly`: the directory where a partition is found
  leads to it, and the directory where a partition will be mounted hides neither the other's nor its own. This is the
  exact edge of the finding `LegacyBoot`, and of the ESP at `/boot/efi` as well. `Reached` follows each mount from the
  table to the place written, for the one direction; `Astray` says, for the other, that a partition which is hidden or
  was never reached stays so to the end of the Manager. TLC checks it for the mount points of `MCBootMounts` only; the
  theorem holds for any directories and any order of mounts.

**Installed kernels** (`InstalledKernelsProofs`): `Reports` states `ReportsInstalled`. It combines `Accounted` (nothing
of ours is there but what is wanted), `IntactInv` (what is wanted is there) and `Ordered` (the collisions of a key are
the contents the request has for it), from which `NoRival` concludes that an image has no conflict index if and only if
no other content of the request goes by its name.

**Discovery and the command line** (`CmdlineProofs`), for every set of files that packages may ship, legacy or not,
every `/etc`, and any number of changes:

- `CmdlineTypes`, `Loadable` and `Independence` state `TypeOK`, `InitrdsLoadable` and `Independent`; `Vendors` and
  `EtcLast` state `VendorSnippets` and `AdministratorLast`.
- `CmdlineInv` ties what the Manager holds to the history: its snippets and masks are those of `etcThen` (`Loaded`), the
  extras of its kernels are those of `treeThen` (`Known`). `ByNameSorts` shows that files of different names can be put
  in order, and each once: the rank of a file is the number of files before it. `LineOfSync` takes a line apart by index
  (`InParts`), so that what it has of each source, how often and in which order is read off (`LineSets`).
- `Versions` states `OwnInitrds` where no version begins with another. That is the edge of the finding `Prefix`.

**The root device** (`RootDeviceProofs`), for any number of devices, stacked to any depth without a circle:

- `RootTypes`, `AllUnlocked` and `StackedNamed` state `TypeOK`, `Unlocked` and `StackedRootNamed`.
- `Working` states `RootNamed` where every root rests on other devices or is an ext4: the edge of the finding
  `PlainRoot`.
- The code walks `slaves/` recursively, and so does `Chain`. That there is a function with this definition, and what is
  in it, would be an induction over the stack of devices; it is proved by minimal counterexample instead: by `Grounded`,
  among the devices for which a claim fails there is one that rests on none of them (`ChainsAgree`, `ChainExists`), and
  for sequences the least failing length does the same (`FlattenExists`). `ChainSet` concludes that the walk lists
  `Below`, each branch and depth. `CustodialFacts`, `LocalSet` and `LineSet` follow a device from the chain through its
  block to the arguments; `RootInv` says that a line which has been answered is the one that its probe gives.

**Only model-checked.** `Converges` is a liveness property, out of the prover's reach; `CallsComplete` is its safe half:
if a call returns Ok, it has done its work. `ImplementsMenu` is proved as far as safety goes, which is all that
`BootMenu` has. The properties of the violated runs are false: `OthersSafe`, `OrderlyDelivered`, `Versions`, `Unmixed`
and `Working` say under which conditions five of them hold, and `Full` stays with TLC. `LoaderSync` is checked and
proved inside `ManagerSync`, not alone.

## 5. What is assumed, and what is left out

- Sources do not change during a call; asset names do not end in a numeric extension; the initrds of an entry have
  different names; state IDs are unique; no version is called `shared`.
- A file system operation other than a write is atomic as far as one path is concerned; renames do not tear contents;
  `syncfs` keeps its promise.
- Paths have no case: `join_insensitive` finds what is there under any case, and the next call finds the same.
- Only `ManagerSync` counts the room that is left, in kernels and initrds; elsewhere a full partition is an error at any
  write. Confs and the two loader binaries take no room.
- `ImplementsMenu`: requests keep the names that earlier ones installed (`Steady`), as those that keep older entries in
  front of newer ones do. `Reindex` shows what happens otherwise.
- `NeverMixed` and `NothingLost`: an installed name stands for one content in all requests (`OneContent`), and the
  partition holds at first what such requests left (`Familiar`). Nothing in the code sees to it; callers that keep older
  entries in front of newer ones, and drop none of a version that has conflicts, do. `NothingLost` also asks that the
  initrds of an entry have different names (`EachOnce`).
- `OthersKept`: the names of other systems are not such that cleanup takes them for its own (`Apart`). `DualBoot` shows
  what happens otherwise.
- What stands for no file, half a file and no request is no data (`SentinelAssumption`); mounts found at first are
  mounts of the machine's devices (`LayoutAssumption` of `BootMounts`); what is on the ESP under the loader's names came
  from a release of the OS (`EspAssumption`).
- The names of the files that packages ship are finitely many, and no two differ only in case (`NameAssumption`): the
  code compares names in lower case, and such two would come in the order in which the directory is read.
- Titles, logging, the creation of directories. The options line is not part of a conf in `EntrySync`; `Cmdline` has its
  snippets, as names, and `RootDevice` its root arguments.
- The caller mounts before it syncs (`BootMounts`): nothing in the code enforces it, and a sync that was not preceded by
  `mount_partitions` writes below the mount points all the same.
- One directory per kernel version, with images only there (`LayoutAssumption` of `KernelDiscovery`); of a legacy
  system, one directory.
- Devices that hold others have no file system of their own, and none rests on itself (`MachineAssumption` of
  `RootDevice`, with `Grounded`; the kernel allows no circle in `slaves/`, and the code would not end on one);
  partitions on an array or a loop device, whose disk rests on others, are left out: the chain of a partition does not
  go through its disk.
- Components with the status `not_modelled` in `PROJECT.json`, with the reason there.

## 6. What could follow

1. Devices that vanish or cannot be read between the questions of a probe (`RootDevice`).
2. `Refines` for a partition that already holds confs of ours: `BootMenu` would start from any menu that such requests
   may have left, as `Familiar` describes it.
3. The room on the partition in `EntrySync` alone, with files of different sizes.
