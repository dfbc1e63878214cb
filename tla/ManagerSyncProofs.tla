-------------------------- MODULE ManagerSyncProofs --------------------------
(***************************************************************************)
(* Theorems about Manager::sync on one partition: the loader stays         *)
(* bootable and becomes current, and no asset is ever torn, whatever the   *)
(* OS ships in turn, whatever room there is and whatever fails.            *)
(***************************************************************************)
EXTENDS ManagerSync, EntrySyncProofs

Loaders == {g.loader : g \in Goals}

Slot(i) == IF i = 1 THEN Fallback ELSE Systemd

-----------------------------------------------------------------------------
(* The instance of LoaderSync works on the file system of EntrySync.       *)

LEMMA SameFs ==
    /\ Loader!Dirty = Dirty
    /\ Loader!Settle <=> Settle
    /\ Loader!Syncfs <=> Syncfs
    /\ \A p, c : Loader!Put(p, c) <=> Put(p, c)
    /\ \A g : Loader!Unlink(g) <=> Unlink(g)
    /\ \A p, q : Loader!Rename(p, q) <=> Rename(p, q)
BY DEF Loader!Dirty, Dirty, Loader!Settle, Settle, Loader!Syncfs, Syncfs, Loader!Put, Put,
       Loader!Unlink, Unlink, Loader!Rename, Rename

LEMMA SamePaths ==
    /\ Loader!Fallback = Fallback /\ Loader!Systemd = Systemd /\ Loader!LoaderConf = LoaderConf
    /\ Loader!Binaries = Binaries /\ Loader!OnEsp = OnEsp
    /\ \A p : Loader!Staging(p) = Staging(p)
<1>1. Loader!Fallback = Fallback /\ Loader!Systemd = Systemd /\ Loader!LoaderConf = LoaderConf
    BY DEF Loader!Fallback, Fallback, Loader!Systemd, Systemd, Loader!LoaderConf, LoaderConf,
           Loader!LoaderFile, LoaderFile, Loader!NoSuffix, NoSuffix
<1>2. \A p : Loader!Staging(p) = Staging(p)
    BY DEF Loader!Staging, Staging, Loader!NoSuffix, NoSuffix, Loader!TmpWrite, TmpWrite
<1>3. Loader!Binaries = Binaries
    BY <1>1 DEF Loader!Binaries, Binaries
<1> QED
    BY <1>1, <1>2, <1>3 DEF Loader!OnEsp, OnEsp

LEMMA SameCopies ==
    /\ \A t : Loader!StartCopies(t) <=> StartCopies(t)
    /\ Loader!ResetCopies <=> ResetCopies
    /\ Loader!CopyStops <=> CopyStops
    /\ Loader!CopyWriteFails <=> CopyWriteFails
    /\ Loader!Copy <=> Copy
<1>1. /\ \A t : Loader!StartCopies(t) <=> StartCopies(t)
      /\ Loader!ResetCopies <=> ResetCopies
    BY DEF Loader!StartCopies, StartCopies, Loader!Changed, Changed, Loader!ResetCopies, ResetCopies
<1>2. \A i : Loader!IsNext(i) <=> IsNext(i)
    BY DEF Loader!IsNext, IsNext
<1>3. Loader!CopyStops <=> CopyStops
    BY <1>1 DEF Loader!CopyStops, CopyStops
<1>4. Loader!CopyWriteFails <=> CopyWriteFails
    BY <1>1, <1>2, SameFs, SamePaths DEF Loader!CopyWriteFails, CopyWriteFails
<1>5. \A i : /\ Loader!CopyWrite(i) <=> CopyWrite(i)
             /\ Loader!CopyFlush(i) <=> CopyFlush(i)
             /\ Loader!CopyRemove(i) <=> CopyRemove(i)
             /\ Loader!CopyFlushRemove(i) <=> CopyFlushRemove(i)
             /\ Loader!CopyRename(i) <=> CopyRename(i)
             /\ Loader!CopyFlushRename(i) <=> CopyFlushRename(i)
    BY SameFs, SamePaths
       DEF Loader!CopyWrite, CopyWrite, Loader!CopyFlush, CopyFlush, Loader!CopyRemove, CopyRemove,
           Loader!CopyFlushRemove, CopyFlushRemove, Loader!CopyRename, CopyRename,
           Loader!CopyFlushRename, CopyFlushRename
<1>6. Loader!Copy <=> Copy
    BY <1>2, <1>5 DEF Loader!Copy, Copy
<1> QED
    BY <1>1, <1>3, <1>4, <1>6

\* The files of the loader are apart from each other, and from the entries'.
LEMMA EspPaths ==
    /\ Fallback # Systemd /\ LoaderConf # Fallback /\ LoaderConf # Systemd
    /\ Staging(Fallback) # Staging(Systemd)
    /\ \A p \in Binaries : Staging(p) \notin Binaries \cup {LoaderConf}
    /\ OnEsp \subseteq Path /\ OnEsp \subseteq Others
    /\ OnEsp \cap Dest = {}
    /\ \A p \in OnEsp : p.dir = ""
<1>1. /\ Fallback # Systemd /\ LoaderConf # Fallback /\ LoaderConf # Systemd
      /\ Fallback.suffix = NoSuffix /\ Systemd.suffix = NoSuffix /\ LoaderConf.suffix = NoSuffix
      /\ Fallback.ns # Systemd.ns
    BY DEF Fallback, Systemd, LoaderConf, LoaderFile, NoSuffix
<1>2. /\ \A p \in Binaries : Staging(p).suffix = TmpWrite /\ Staging(p).dir = p.dir
      /\ Staging(Fallback).ns = Fallback.ns
      /\ Staging(Systemd).ns = Systemd.ns
    BY DEF Staging, Binaries, Fallback, Systemd, LoaderFile
<1>3. NoSuffix # TmpWrite
    BY DEF NoSuffix, TmpWrite
<1>4. \A p \in Binaries \cup {LoaderConf} : p.dir = "" /\ p.suffix = NoSuffix
    <2>1. Fallback.dir = "" /\ Systemd.dir = "" /\ LoaderConf.dir = ""
        BY DEF Fallback, Systemd, LoaderConf, LoaderFile
    <2> QED
        BY <1>1, <2>1 DEF Binaries
<1>5. \A p \in OnEsp : p.dir = ""
    BY <1>2, <1>4 DEF OnEsp
<1>6. OnEsp \subseteq OtherFiles
    BY EspAssumption
<1>7. OnEsp \subseteq Path /\ OnEsp \subseteq Others /\ OnEsp \cap Dest = {}
    BY <1>6, OtherPaths DEF Others
<1>8. ASSUME NEW p \in Binaries, Staging(p) \in Binaries \cup {LoaderConf}
      PROVE  FALSE
    <2>1. Staging(p).suffix = NoSuffix
        BY <1>4, <1>8
    <2> QED
        BY <1>2, <1>3, <2>1
<1> QED
    BY <1>1, <1>2, <1>5, <1>7, <1>8

\* sync_entries lists subdirectories only: it spares what is in none.
LEMMA EspApart == ApartFrom(OnEsp)
<1>1. OnEsp \cap OtherConfs = {}
    BY EspAssumption, PathAssumption DEF ConfPaths, KernelPaths
<1> QED
    BY <1>1, EspPaths DEF ApartFrom

LEMMA Versions ==
    /\ Absent \notin Loaders /\ Torn \notin Loaders /\ NoAsset \notin Loaders
    /\ Loaders \subseteq Content
    /\ \A g \in Goals : /\ g.loader \in Loaders /\ g.request \in Requests
                        /\ Loader!DefaultPattern(OsNamespace(g.request.schema)) \in Content
BY GoalAssumption, EspAssumption DEF Loaders, Content

-----------------------------------------------------------------------------
(* The invariant.                                                          *)

\* What holds of the partition, whoever writes to it.
OnPartition ==
    /\ FsType
    /\ AssetsNeverTorn
    /\ unflushed \in BOOLEAN
    /\ \A p \in OnEsp \ {LoaderConf} : outcomes[p] \subseteq Loaders \cup {Absent, Torn}

LoaderMem ==
    /\ goal \in Goals
    /\ phase \in {"idle", "loader", "entries", "done"}
    /\ loaderPc \in {"idle", "copy", "done", "down"}
    /\ shipped \in Loaders \cup {NoAsset}
    /\ namespace \in {OsNamespace(g.request.schema) : g \in Goals}
    /\ unfinished \in Loaders \cup {NoAsset}
    /\ abandoned \in BOOLEAN

\* Whose the batch of copies is.
Owner ==
    /\ phase = "entries" => IInv /\ Spared(OnEsp) /\ loaderPc = "done"
    /\ phase # "entries" =>
           IF loaderPc = "copy"
           THEN /\ phase = "loader"
                /\ shipped \in Loaders
                /\ changeset = Loader!Targets(shipped)
                /\ pending \subseteq {1, 2}
                /\ step \in Step
                /\ pending = {} => step = "write"
           ELSE changeset = <<>> /\ pending = {} /\ step = "write"

\* What the copies of the loader have done so far.
Progress ==
    loaderPc = "copy" =>
        /\ \A i \in {1, 2} \ pending : disk[Slot(i)] = shipped
        /\ \A i \in pending : IsNext(i) =>
               /\ step \in {"flush", "remove", "flushRemove", "rename"} =>
                      disk[Staging(Slot(i))] = shipped
               /\ step = "flushRename" => disk[Slot(i)] = shipped

Current ==
    loaderPc = "done" =>
        /\ shipped \in Loaders
        /\ disk[Fallback] = shipped /\ disk[Systemd] = shipped
        /\ disk[LoaderConf] = Loader!DefaultPattern(namespace)

\* As OnMedium, for the loader.
LoaderOnMedium ==
    loaderPc # "down" =>
        \A p \in Binaries : disk[p] # Absent =>
            \/ outcomes[p] = {disk[p]}
            \/ unflushed
            \/ loaderPc = "copy" /\ step = "flushRename" /\ \E i \in pending : IsNext(i) /\ Slot(i) = p

SyncInv == OnPartition /\ LoaderMem /\ Owner /\ Progress /\ Current /\ LoaderOnMedium

LEMMA SyncInvInit ==
    ASSUME SyncInit
    PROVE  SyncInv
<1>1. IInv /\ FsType /\ AssetsNeverTorn /\ unflushed \in BOOLEAN
    BY IInvInit, TypeParts DEF SyncInit, IInv, MemType
<1>2. disk = InitialDisk /\ outcomes = [p \in Path |-> {InitialDisk[p]}]
    BY DEF SyncInit, Init
<1>3. OnPartition
    BY <1>1, <1>2, EspPaths, EspAssumption DEF OnPartition, Loaders
<1>4. LoaderMem
    BY DEF SyncInit, Loader!Init, LoaderMem
<1>5. Owner /\ Progress /\ Current
    BY DEF SyncInit, Init, Loader!Init, Owner, Progress, Current
<1>6. LoaderOnMedium
    BY <1>2, EspPaths DEF LoaderOnMedium, OnEsp
<1> QED
    BY <1>3, <1>4, <1>5, <1>6 DEF SyncInv

-----------------------------------------------------------------------------
(* While entries are synchronised.                                         *)

\* A request starts afresh, whatever the memory held.
LEMMA BeginInv ==
    ASSUME FsType, AssetsNeverTorn, unflushed \in BOOLEAN, NEW r \in Requests, Begin(r)
    PROVE  IInv' /\ Spared(OnEsp)'
<1>1. TypeOK'
    <2>1. FsType'
        BY DEF Begin, FsType
    <2>2. MemType'
        BY ResetTypes DEF Begin
    <2> QED
        BY <2>1, <2>2, TypeParts
<1>2. r.entries \in Seq(Entries) /\ Len(r.entries) \in Nat
    BY RequestAssumption
<1>3. Control'
    <2>1. 1 <= Len(r.entries) => 1 \in DOMAIN r.entries[1].assets
        <3>1. SUFFICES ASSUME 1 \in DOMAIN r.entries
                       PROVE  1 \in DOMAIN r.entries[1].assets
            BY <1>2
        <3>2. r.entries[1] \in Range(r.entries)
            BY <3>1 DEF Range
        <3>3. r.entries[1].assets \in Seq(Assets) \ {<<>>}
            BY <3>2, AssetAssumption
        <3> QED
            BY <3>3
    <2> QED
        BY <1>2, <2>1 DEF Begin, ResetCopies, Control, Serving
<1>4. Collected'
    <2>1. \A k \in Keys : Distinct(collisions'[k])
        BY DEF Begin, Distinct
    <2>2. ASSUME NEW i \in DOMAIN r.entries, NEW j \in DOMAIN r.entries[i].assets,
                 Inserted(i, j)'
          PROVE  FALSE
        <3>1. i \in Nat \ {0} /\ j \in Nat \ {0}
            BY <1>2, RequestParts
        <3> QED
            BY <2>2, <3>1 DEF Begin, Inserted
    <2> QED
        BY <2>1, <2>2 DEF Begin, Collected
<1>5. Staged' /\ AssetsNeverTorn'
    BY DEF Begin, ResetCopies, Staged, AssetsNeverTorn
<1>6. Spared(OnEsp)'
    BY DEF Begin, Spared, NoStale
<1> QED
    BY <1>1, <1>3, <1>4, <1>5, <1>6 DEF IInv

\* The steps of a request, and how it fails.
Work ==
    \/ HashAsset \/ HashDone \/ Install \/ CopyChanged \/ WriteConf
    \/ Scan \/ RemoveConf \/ RemoveTree \/ RemoveFile \/ CleanDone \/ Stop

\* No step of a request forgets, without a sync, what a rename left unsynced.
LEMMA WorkUnflushed ==
    ASSUME Work
    PROVE  Syncfs \/ unflushed' = unflushed \/ unflushed' = (unflushed \/ step = "flushRename")
<1>1. CASE CopyChanged
    BY <1>1 DEF CopyChanged, Copy, CopyWrite, CopyFlush, CopyRemove, CopyFlushRemove, CopyRename,
                CopyFlushRename
<1>2. CASE Stop
    BY <1>2 DEF Stop, CopyStops, CopyWriteFails
<1>3. CASE \/ HashAsset \/ HashDone \/ Install \/ WriteConf \/ Scan
           \/ RemoveConf \/ RemoveTree \/ RemoveFile \/ CleanDone
    BY <1>3 DEF HashAsset, HashDone, Install, StartCopies, WriteConf, Scan, RemoveConf, RemoveTree,
                RemoveFile, CleanDone, vfatVars
<1> QED
    BY <1>1, <1>2, <1>3 DEF Work

\* It leaves the loader alone, or makes it durable.
LEMMA WorkOnEsp ==
    ASSUME IInv, Spared(OnEsp), Work, pc # "down"
    PROVE  \/ Syncfs
           \/ \A p \in OnEsp : disk'[p] = disk[p] /\ outcomes'[p] = outcomes[p]
<1>1. [Next]_vars
    BY DEF Work, Next
<1>2. Untouched(OnEsp)
    BY <1>1, EspPaths, StepUntouched
<1>3. disk \in [Path -> Content] /\ outcomes \in [Path -> SUBSET Content] /\ OnEsp \subseteq Path
    BY EspPaths DEF IInv, TypeOK
<1>4. CASE UNCHANGED <<disk, outcomes>>
    BY <1>4
<1>5. ASSUME NEW p \in Path \ OnEsp, NEW c, Put(p, c)
      PROVE  \A q \in OnEsp : disk'[q] = disk[q] /\ outcomes'[q] = outcomes[q]
    BY <1>3, <1>5 DEF Put
<1>6. ASSUME NEW p \in Path \ OnEsp, NEW q \in Path \ OnEsp, Rename(p, q)
      PROVE  \A r \in OnEsp : disk'[r] = disk[r] /\ outcomes'[r] = outcomes[r]
    BY <1>3, <1>6 DEF Rename
<1>7. ASSUME NEW gone, Unlink(gone), gone \cap OnEsp = {}
      PROVE  \A q \in OnEsp : disk'[q] = disk[q] /\ outcomes'[q] = outcomes[q]
    BY <1>3, <1>7 DEF Unlink
<1> QED
    BY <1>2, <1>4, <1>5, <1>6, <1>7 DEF Untouched

\* What the invariant says of the loader survives a step that leaves it alone.
LEMMA WorkStep ==
    ASSUME SyncInv, phase = "entries", Work, pc # "down",
           UNCHANGED <<loaderVars, goal>>,
           phase' = "entries" \/ (phase' = "idle" /\ Stop)
    PROVE  SyncInv'
<1>1. /\ IInv /\ Spared(OnEsp) /\ loaderPc = "done" /\ OnPartition /\ LoaderMem /\ Current
      /\ LoaderOnMedium
    BY DEF SyncInv, Owner
<1>2. [Next]_vars
    BY DEF Work, Next
<1>3. IInv' /\ Spared(OnEsp)'
    BY <1>1, <1>2, IInvStep, SparedStep, EspPaths, EspApart
<1>4. FsType' /\ AssetsNeverTorn' /\ unflushed' \in BOOLEAN
    BY <1>3, TypeParts DEF IInv, MemType
<1>5. /\ disk \in [Path -> Content] /\ outcomes \in [Path -> SUBSET Content]
      /\ \A p \in Path : disk[p] \in outcomes[p]
      /\ OnEsp \subseteq Path /\ Binaries \subseteq OnEsp
      /\ Fallback \in Binaries /\ Systemd \in Binaries /\ LoaderConf \in OnEsp
    BY <1>1, EspPaths DEF OnPartition, FsType, OnEsp, Binaries
<1>6. \A p \in OnEsp : disk'[p] = disk[p] /\ (outcomes'[p] = outcomes[p] \/ outcomes'[p] = {disk[p]})
    BY <1>1, <1>5, WorkOnEsp DEF Syncfs
<1>7. OnPartition'
    <2>1. \A p \in OnEsp \ {LoaderConf} : outcomes'[p] \subseteq Loaders \cup {Absent, Torn}
        BY <1>1, <1>5, <1>6 DEF OnPartition
    <2> QED
        BY <1>4, <2>1 DEF OnPartition
<1>8. LoaderMem'
    BY <1>1 DEF LoaderMem, loaderVars
<1>9. Owner'
    <2>1. Stop => ResetCopies
        BY DEF Stop, CopyStops, CopyWriteFails
    <2> QED
        BY <1>1, <1>3, <2>1 DEF Owner, loaderVars, ResetCopies
<1>10. Progress' /\ Current'
    BY <1>1, <1>5, <1>6 DEF Progress, Current, loaderVars, Loader!DefaultPattern
<1>11. LoaderOnMedium'
    <2>1. CASE Syncfs
        BY <1>5, <2>1 DEF Syncfs, LoaderOnMedium
    <2>2. CASE ~ Syncfs
        <3>1. \A p \in OnEsp : disk'[p] = disk[p] /\ outcomes'[p] = outcomes[p]
            BY <1>1, <2>2, WorkOnEsp
        <3>2. unflushed => unflushed'
            BY <1>1, <2>2, WorkUnflushed DEF OnPartition
        <3> QED
            BY <1>1, <1>5, <3>1, <3>2 DEF LoaderOnMedium, loaderVars
    <2> QED
        BY <2>1, <2>2
<1> QED
    BY <1>7, <1>8, <1>9, <1>10, <1>11 DEF SyncInv

-----------------------------------------------------------------------------
(* While the loader is synchronised.                                       *)

\* Slots and staging files.
LEMMA Slots ==
    /\ Slot(1) = Fallback /\ Slot(2) = Systemd
    /\ \A i \in {1, 2} : /\ Slot(i) \in Binaries /\ Slot(i) \in OnEsp \ {LoaderConf}
                         /\ Staging(Slot(i)) \in OnEsp \ {LoaderConf}
                         /\ Staging(Slot(i)) \notin Binaries
    /\ \A i, k \in {1, 2} : Slot(i) = Slot(k) => i = k
    /\ \A i, k \in {1, 2} : Staging(Slot(i)) = Staging(Slot(k)) => i = k
    /\ \A p \in Binaries : \E i \in {1, 2} : p = Slot(i)
<1>1. Slot(1) = Fallback /\ Slot(2) = Systemd
    BY DEF Slot
<1>2. \A p \in Binaries : Staging(p) \in OnEsp /\ Staging(p) \notin Binaries \cup {LoaderConf}
    BY EspPaths DEF OnEsp
<1>3. \A i \in {1, 2} : Slot(i) \in Binaries /\ Slot(i) \in OnEsp \ {LoaderConf}
    BY <1>1, EspPaths DEF Binaries, OnEsp
<1>4. \A i \in {1, 2} : Staging(Slot(i)) \in OnEsp \ {LoaderConf}
                        /\ Staging(Slot(i)) \notin Binaries
    BY <1>2, <1>3
<1>5. \A i, k \in {1, 2} : Slot(i) = Slot(k) => i = k
    BY <1>1, EspPaths
<1>6. \A i, k \in {1, 2} : Staging(Slot(i)) = Staging(Slot(k)) => i = k
    BY <1>1, EspPaths
<1>7. \A p \in Binaries : \E i \in {1, 2} : p = Slot(i)
    BY <1>1 DEF Binaries
<1> QED
    BY <1>1, <1>3, <1>4, <1>5, <1>6, <1>7

\* The copy of the loader that is in progress.
LEMMA LoaderItem ==
    ASSUME SyncInv, loaderPc = "copy", NEW i \in pending
    PROVE  /\ i \in {1, 2} /\ phase = "loader"
           /\ changeset[i].dest = Slot(i) /\ changeset[i].data = shipped
           /\ shipped \in Loaders
           /\ \A k \in pending : IsNext(i) /\ IsNext(k) => k = i
<1>1. /\ phase = "loader" /\ shipped \in Loaders /\ pending \subseteq {1, 2}
      /\ changeset = Loader!Targets(shipped)
    BY DEF SyncInv, Owner
<1>2. i \in {1, 2}
    BY <1>1
<1>3. changeset[i].dest = Slot(i) /\ changeset[i].data = shipped
    BY <1>1, <1>2, SamePaths DEF Loader!Targets, Slot
<1>4. ASSUME NEW k \in pending, IsNext(i), IsNext(k)
      PROVE  k = i
    BY <1>1, <1>4 DEF IsNext
<1> QED
    BY <1>1, <1>2, <1>3, <1>4

\* A step that changes nothing outside the ESP's files, or makes it durable.
LEMMA EspFrame ==
    ASSUME OnPartition, FsType',
           \/ Syncfs
           \/ \A p \in Path \ OnEsp : outcomes'[p] = outcomes[p]
    PROVE  AssetsNeverTorn'
<1>1. /\ Dest \subseteq Path \ OnEsp
      /\ disk \in [Path -> Content] /\ \A p \in Path : disk[p] \in outcomes[p]
    BY EspPaths, Paths DEF OnPartition, FsType
<1> QED
    BY <1>1 DEF OnPartition, AssetsNeverTorn, Syncfs

LEMMA LoaderCopyStep ==
    ASSUME SyncInv, loaderPc = "copy", Copy, UNCHANGED <<loaderVars, goal, phase>>
    PROVE  SyncInv'
<1>1. PICK i \in pending :
          /\ IsNext(i)
          /\ \/ CopyWrite(i)       \/ CopyFlush(i)  \/ CopyRemove(i)
             \/ CopyFlushRemove(i) \/ CopyRename(i) \/ CopyFlushRename(i)
    BY DEF Copy
<1> DEFINE to   == Slot(i)
           from == Staging(to)
<1>2. /\ i \in {1, 2} /\ phase = "loader"
      /\ changeset[i].dest = to /\ changeset[i].data = shipped /\ shipped \in Loaders
      /\ \A k \in pending : IsNext(k) => k = i
    BY <1>1, LoaderItem
<1>3. /\ to \in Binaries /\ to \in OnEsp \ {LoaderConf} /\ to \in Path
      /\ from \in OnEsp \ {LoaderConf} /\ from \in Path /\ from \notin Binaries /\ to # from
      /\ OnEsp \subseteq Path /\ Binaries \subseteq Path
    BY <1>2, Slots, EspPaths DEF OnEsp
<1>4. /\ \A k \in {1, 2} : Slot(k) \in Binaries /\ Slot(k) # from /\ (k # i => Slot(k) # to)
      /\ \A k \in {1, 2} : Slot(k) \in Path
    BY <1>2, <1>3, Slots
<1>5. /\ disk \in [Path -> Content] /\ outcomes \in [Path -> SUBSET Content]
      /\ \A p \in Path : disk[p] \in outcomes[p]
      /\ FsType /\ OnPartition /\ LoaderMem /\ Owner /\ Progress /\ Current /\ LoaderOnMedium
    BY DEF SyncInv, OnPartition, FsType
<1>6. shipped \in Content /\ shipped \notin {Absent, Torn}
    BY <1>2, Versions
<1>7. /\ changeset' = changeset /\ loaderPc' = "copy" /\ phase' = phase /\ goal' = goal
      /\ shipped' = shipped /\ namespace' = namespace
      /\ unfinished' = unfinished /\ abandoned' = abandoned
    BY CopyFrame DEF loaderVars
<1>8. LoaderMem' /\ Current'
    BY <1>5, <1>7 DEF LoaderMem, Current
<1> HIDE DEF to, from
<1>9. ASSUME FsType', AssetsNeverTorn', unflushed' \in BOOLEAN, step' \in Step,
             pending' \subseteq pending, pending' = {} => step' = "write",
             \A p \in OnEsp \ {LoaderConf} : outcomes'[p] \subseteq Loaders \cup {Absent, Torn},
             Progress', LoaderOnMedium'
      PROVE  SyncInv'
    <2>1. OnPartition'
        BY <1>9 DEF OnPartition
    <2>2. Owner'
        BY <1>2, <1>5, <1>7, <1>9 DEF Owner, Loader!Targets
    <2> QED
        BY <1>8, <1>9, <2>1, <2>2 DEF SyncInv
<1>10. pending' = pending => \A k \in pending : IsNext(k)' <=> IsNext(k)
    BY DEF IsNext
<1>11. unflushed \in BOOLEAN /\ pending # {} /\ \A k \in {1, 2} \ pending : disk[Slot(k)] = shipped
    BY <1>1, <1>5 DEF OnPartition, Progress
<1>12. CASE CopyWrite(i)
    <2>1. Put(from, shipped) /\ step = "write" /\ step' = "flush"
          /\ pending' = pending /\ unflushed' = unflushed
        BY <1>2, <1>12 DEF CopyWrite, from, to
    <2>2. FsType'
        BY <1>3, <1>5, <1>6, <2>1, PutType
    <2>3. /\ \A p \in Path : p # from => disk'[p] = disk[p] /\ outcomes'[p] = outcomes[p]
          /\ disk'[from] = shipped /\ outcomes'[from] = outcomes[from] \cup {shipped, Torn}
        BY <1>3, <1>5, <2>1 DEF Put
    <2>4. AssetsNeverTorn'
        BY <1>3, <1>5, <2>2, <2>3, EspFrame
    <2>5. \A p \in OnEsp \ {LoaderConf} : outcomes'[p] \subseteq Loaders \cup {Absent, Torn}
        BY <1>2, <1>3, <1>5, <2>3 DEF OnPartition
    <2>6. Progress'
        BY <1>2, <1>4, <1>7, <1>10, <1>11, <2>1, <2>3 DEF Progress, from, to
    <2>7. LoaderOnMedium'
        BY <1>3, <1>5, <1>7, <2>1, <2>3 DEF LoaderOnMedium
    <2> QED
        BY <1>9, <1>11, <2>1, <2>2, <2>4, <2>5, <2>6, <2>7 DEF Step
<1>13. CASE CopyFlush(i) \/ CopyFlushRemove(i) \/ CopyFlushRename(i)
    <2>1. Syncfs /\ step' \in {"write", "rename", "remove"}
        BY <1>13 DEF CopyFlush, CopyFlushRemove, CopyFlushRename
    <2>2. FsType' /\ unflushed' = FALSE
        BY <1>5, <2>1, SyncfsType
    <2>3. \A p \in Path : disk'[p] = disk[p] /\ outcomes'[p] = {disk[p]}
        BY <1>5, <2>1 DEF Syncfs
    <2>4. AssetsNeverTorn'
        BY <1>5, <2>1, <2>2, EspFrame
    <2>5. \A p \in OnEsp \ {LoaderConf} : outcomes'[p] \subseteq Loaders \cup {Absent, Torn}
        BY <1>3, <1>5, <2>3 DEF OnPartition
    <2>6. /\ \/ pending' = pending /\ step' # "write" /\ step # "flushRename"
             \/ pending' = pending \ {i} /\ step = "flushRename" /\ step' = "write"
          /\ step \in {"flush", "flushRemove", "flushRename"}
        BY <1>13 DEF CopyFlush, CopyFlushRemove, CopyFlushRename
    <2>7. step # "flushRename" => disk[from] = shipped
        BY <1>1, <1>5, <2>6 DEF Progress, from, to
    <2>8. step = "flushRename" => disk[to] = shipped
        BY <1>1, <1>5 DEF Progress, to
    <2>9. Progress'
        <3>1. ASSUME NEW k \in {1, 2} \ pending'
              PROVE  disk'[Slot(k)] = shipped
            BY <1>4, <1>11, <2>3, <2>6, <2>8 DEF to
        <3>2. ASSUME NEW k \in pending', IsNext(k)'
              PROVE  /\ step' \in {"flush", "remove", "flushRemove", "rename"} =>
                            disk'[Staging(Slot(k))] = shipped
                     /\ step' # "flushRename"
            BY <1>2, <1>3, <1>10, <2>1, <2>3, <2>6, <2>7, <3>2 DEF from, to
        <3> QED
            BY <1>7, <3>1, <3>2 DEF Progress
    <2>10. LoaderOnMedium'
        BY <1>3, <2>3 DEF LoaderOnMedium
    <2> QED
        BY <1>9, <1>11, <2>1, <2>2, <2>4, <2>5, <2>6, <2>9, <2>10 DEF Step
<1>14. CASE CopyRemove(i)
    <2>1. Unlink({to}) /\ step = "remove" /\ step' = "flushRemove"
          /\ pending' = pending /\ unflushed' = unflushed
        BY <1>2, <1>14 DEF CopyRemove
    <2>2. FsType'
        BY <1>5, <2>1, UnlinkType
    <2>3. /\ \A p \in Path : p # to => disk'[p] = disk[p] /\ outcomes'[p] = outcomes[p]
          /\ disk'[to] = Absent /\ outcomes'[to] = outcomes[to] \cup {Absent}
        BY <1>3, <1>5, <2>1 DEF Unlink
    <2>4. AssetsNeverTorn'
        BY <1>3, <1>5, <2>2, <2>3, EspFrame
    <2>5. \A p \in OnEsp \ {LoaderConf} : outcomes'[p] \subseteq Loaders \cup {Absent, Torn}
        BY <1>3, <1>5, <2>3 DEF OnPartition
    <2>6. disk[from] = shipped
        BY <1>1, <1>5, <2>1 DEF Progress, from, to
    <2>7. Progress'
        BY <1>1, <1>2, <1>3, <1>4, <1>7, <1>10, <1>11, <2>1, <2>3, <2>6 DEF Progress, from, to
    <2>8. LoaderOnMedium'
        BY <1>3, <1>5, <1>7, <2>1, <2>3 DEF LoaderOnMedium
    <2> QED
        BY <1>9, <1>11, <2>1, <2>2, <2>4, <2>5, <2>7, <2>8 DEF Step
<1>15. CASE CopyRename(i)
    <2>1. Rename(from, to) /\ step = "rename" /\ step' = "flushRename"
          /\ pending' = pending /\ unflushed' = unflushed
        BY <1>2, <1>15 DEF CopyRename, from
    <2>2. FsType'
        BY <1>3, <1>5, <2>1, RenameType
    <2>3. /\ \A p \in Path : p \notin {from, to} => disk'[p] = disk[p] /\ outcomes'[p] = outcomes[p]
          /\ disk'[to] = disk[from] /\ outcomes'[to] = outcomes[to] \cup outcomes[from]
          /\ outcomes'[from] = outcomes[from] \cup {Absent}
        BY <1>3, <1>5, <2>1 DEF Rename
    <2>4. AssetsNeverTorn'
        BY <1>3, <1>5, <2>2, <2>3, EspFrame
    <2>5. \A p \in OnEsp \ {LoaderConf} : outcomes'[p] \subseteq Loaders \cup {Absent, Torn}
        BY <1>3, <1>5, <2>3 DEF OnPartition
    <2>6. disk'[to] = shipped
        BY <1>1, <1>5, <2>1, <2>3 DEF Progress, from, to
    <2>7. Progress'
        BY <1>1, <1>2, <1>3, <1>4, <1>7, <1>10, <1>11, <2>1, <2>3, <2>6 DEF Progress, to
    <2>8. LoaderOnMedium'
        BY <1>1, <1>2, <1>3, <1>5, <1>7, <1>10, <2>1, <2>3 DEF LoaderOnMedium, to
    <2> QED
        BY <1>9, <1>11, <2>1, <2>2, <2>4, <2>5, <2>7, <2>8 DEF Step
<1> QED
    BY <1>1, <1>12, <1>13, <1>14, <1>15

LEMMA LoaderBeginStep ==
    ASSUME SyncInv, Call
    PROVE  SyncInv'
<1>1. /\ OnPartition /\ LoaderMem /\ Owner /\ LoaderOnMedium
      /\ disk \in [Path -> Content]
    BY DEF SyncInv, OnPartition, FsType
<1>2. /\ phase # "entries" /\ phase' = "loader" /\ goal' = goal
      /\ loaderPc \in {"idle", "done"} /\ loaderPc' = "copy"
      /\ shipped' = goal.loader /\ unfinished' = goal.loader
      /\ namespace' = OsNamespace(goal.request.schema)
      /\ abandoned' = (abandoned \/ unfinished \notin {NoAsset, goal.loader})
      /\ StartCopies(Loader!Targets(goal.loader))
    BY SameCopies DEF Call, Loader!Begin
<1>3. goal \in Goals /\ goal.loader \in Loaders
    BY <1>1, Versions DEF LoaderMem
<1>4. /\ changeset' = Loader!Targets(shipped') /\ pending' = Changed(changeset')
      /\ step' = "write" /\ UNCHANGED <<disk, outcomes, unflushed>>
    BY <1>2 DEF StartCopies
<1>5. /\ DOMAIN changeset' = {1, 2}
      /\ \A i \in {1, 2} : changeset'[i].dest = Slot(i) /\ changeset'[i].data = shipped'
    BY <1>4, SamePaths DEF Loader!Targets, Slot
<1>6. pending' \subseteq {1, 2} /\ \A i \in {1, 2} \ pending' : disk'[Slot(i)] = shipped'
    BY <1>4, <1>5 DEF Changed
<1>7. OnPartition'
    BY <1>1, <1>4 DEF OnPartition, FsType, AssetsNeverTorn
<1>8. LoaderMem'
    <2>1. namespace' \in {OsNamespace(g.request.schema) : g \in Goals}
        BY <1>2, <1>3
    <2>2. abandoned' \in BOOLEAN
        BY <1>2
    <2> QED
        BY <1>2, <1>3, <2>1, <2>2 DEF LoaderMem
<1>9. Owner'
    BY <1>2, <1>3, <1>4, <1>6 DEF Owner, Step, Loader!Targets
<1>10. Progress' /\ Current'
    BY <1>2, <1>4, <1>6 DEF Progress, Current
<1>11. LoaderOnMedium'
    BY <1>1, <1>2, <1>4 DEF LoaderOnMedium
<1> QED
    BY <1>7, <1>8, <1>9, <1>10, <1>11 DEF SyncInv

\* Writing loader.conf, and what a failed write leaves of it.
LEMMA ConfWritten ==
    ASSUME SyncInv, loaderPc = "copy", pending = {}, NEW c \in Content, Put(LoaderConf, c)
    PROVE  /\ \A p \in Path \ {LoaderConf} : disk'[p] = disk[p] /\ outcomes'[p] = outcomes[p]
           /\ disk'[LoaderConf] = c
           /\ unflushed' = unflushed => OnPartition'
           /\ \A p \in Binaries : disk[p] = shipped
<1>1. OnPartition /\ FsType /\ Progress
    BY DEF SyncInv, OnPartition
<1>2. LoaderConf \in OnEsp /\ LoaderConf \in Path
    BY EspPaths DEF OnEsp
<1>3. /\ \A p \in Path \ {LoaderConf} : disk'[p] = disk[p] /\ outcomes'[p] = outcomes[p]
      /\ disk'[LoaderConf] = c
    BY <1>1, <1>2 DEF Put, FsType
<1>4. FsType'
    BY <1>1, <1>2, PutType
<1>5. AssetsNeverTorn'
    BY <1>1, <1>2, <1>3, <1>4, EspFrame
<1>6. \A p \in OnEsp \ {LoaderConf} : outcomes'[p] \subseteq Loaders \cup {Absent, Torn}
    BY <1>1, <1>3, EspPaths DEF OnPartition
<1>7. \A p \in Binaries : disk[p] = shipped
    BY <1>1, Slots DEF Progress
<1> QED
    BY <1>1, <1>3, <1>4, <1>5, <1>6, <1>7 DEF OnPartition

LEMMA LoaderConfStep ==
    ASSUME SyncInv, Loader!WriteLoaderConf, UNCHANGED <<goal, phase>>
    PROVE  SyncInv'
<1>1. /\ OnPartition /\ LoaderMem /\ Owner /\ LoaderOnMedium
      /\ loaderPc = "copy" /\ pending = {} /\ phase = "loader"
    BY DEF SyncInv, Owner, Loader!WriteLoaderConf
<1> DEFINE text == Loader!DefaultPattern(namespace)
<1>2. /\ Put(LoaderConf, text) /\ ResetCopies
      /\ loaderPc' = "done" /\ unflushed' = unflushed
      /\ shipped' = shipped /\ namespace' = namespace
      /\ unfinished' = (IF unflushed THEN unfinished ELSE NoAsset)
      /\ abandoned' = (abandoned /\ unflushed)
    BY SameFs, SamePaths, SameCopies DEF Loader!WriteLoaderConf
<1>3. text \in Content
    BY <1>1, Versions DEF LoaderMem
<1>4. /\ \A p \in Path \ {LoaderConf} : disk'[p] = disk[p] /\ outcomes'[p] = outcomes[p]
      /\ disk'[LoaderConf] = text
      /\ OnPartition'
      /\ \A p \in Binaries : disk[p] = shipped
    <2> HIDE DEF text
    <2> QED
        BY <1>1, <1>2, <1>3, ConfWritten
<1>5. Binaries \subseteq Path \ {LoaderConf} /\ Fallback \in Binaries /\ Systemd \in Binaries
    BY EspPaths DEF Binaries, OnEsp
<1>6. LoaderMem'
    BY <1>1, <1>2 DEF LoaderMem
<1>7. Owner'
    BY <1>1, <1>2 DEF Owner, ResetCopies
<1>8. Progress' /\ Current'
    BY <1>1, <1>2, <1>4, <1>5 DEF Progress, Current, Owner, Loader!DefaultPattern
<1>9. LoaderOnMedium'
    BY <1>1, <1>2, <1>4, <1>5 DEF LoaderOnMedium
<1> QED
    BY <1>4, <1>6, <1>7, <1>8, <1>9 DEF SyncInv

\* When no copy is in progress, what matters is the partition.
LEMMA AtRestStep ==
    ASSUME OnPartition', LoaderMem', ResetCopies,
           phase' # "entries", loaderPc' \in {"idle", "down"},
           LoaderOnMedium'
    PROVE  SyncInv'
<1>1. Owner' /\ Progress' /\ Current'
    BY DEF Owner, Progress, Current, ResetCopies
<1> QED
    BY <1>1 DEF SyncInv

LEMMA LoaderStopStep ==
    ASSUME SyncInv, Loader!Stop, phase = "loader", phase' = "idle", goal' = goal
    PROVE  SyncInv'
<1>1. /\ OnPartition /\ FsType /\ LoaderMem /\ Owner /\ LoaderOnMedium /\ loaderPc = "copy"
      /\ loaderPc' = "idle" /\ shipped' = shipped /\ namespace' = namespace
      /\ unfinished' = unfinished /\ abandoned' = abandoned
    BY DEF SyncInv, OnPartition, Loader!Stop
<1>2. LoaderMem'
    BY <1>1 DEF LoaderMem
<1>3. \/ CopyStops
      \/ CopyWriteFails
      \/ pending = {} /\ Put(LoaderConf, Torn) /\ ResetCopies /\ UNCHANGED unflushed
    BY SameFs, SamePaths, SameCopies DEF Loader!Stop
<1>4. ResetCopies
    BY <1>3 DEF CopyStops, CopyWriteFails
<1>5. Binaries \subseteq Path \ {LoaderConf}
    BY EspPaths DEF OnEsp, Binaries
<1>6. CASE CopyStops
    <2>1. UNCHANGED <<disk, outcomes>> /\ unflushed' = (unflushed \/ step = "flushRename")
        BY <1>6 DEF CopyStops
    <2>2. OnPartition'
        BY <1>1, <2>1 DEF OnPartition, FsType, AssetsNeverTorn
    <2>3. LoaderOnMedium'
        BY <1>1, <2>1 DEF LoaderOnMedium
    <2> QED
        BY <1>1, <1>2, <1>4, <2>2, <2>3, AtRestStep
<1>7. CASE CopyWriteFails
    <2>1. PICK i \in pending : IsNext(i) /\ Put(Staging(changeset[i].dest), Torn)
        BY <1>7 DEF CopyWriteFails
    <2>2. unflushed' = unflushed /\ step = "write"
        BY <1>7 DEF CopyWriteFails
    <2> DEFINE from == Staging(Slot(i))
    <2>3. /\ from \in OnEsp \ {LoaderConf} /\ from \in Path /\ from \notin Binaries
          /\ Put(from, Torn)
        BY <1>1, <2>1, LoaderItem, Slots, EspPaths
    <2> HIDE DEF from
    <2>4. FsType'
        BY <1>1, <2>3, Paths, PutType
    <2>5. /\ \A p \in Path \ {from} : disk'[p] = disk[p] /\ outcomes'[p] = outcomes[p]
          /\ outcomes'[from] = outcomes[from] \cup {Torn}
        BY <1>1, <2>3 DEF Put, FsType
    <2>6. AssetsNeverTorn'
        BY <1>1, <2>3, <2>4, <2>5, EspFrame
    <2>7. \A p \in OnEsp \ {LoaderConf} : outcomes'[p] \subseteq Loaders \cup {Absent, Torn}
        BY <1>1, <2>3, <2>5, EspPaths DEF OnPartition
    <2>8. OnPartition'
        BY <1>1, <2>2, <2>4, <2>6, <2>7 DEF OnPartition
    <2>9. LoaderOnMedium'
        BY <1>1, <1>5, <2>2, <2>3, <2>5 DEF LoaderOnMedium
    <2> QED
        BY <1>1, <1>2, <1>4, <2>8, <2>9, AtRestStep
<1>8. CASE pending = {} /\ Put(LoaderConf, Torn) /\ UNCHANGED unflushed
    <2>1. /\ \A p \in Path \ {LoaderConf} : disk'[p] = disk[p] /\ outcomes'[p] = outcomes[p]
          /\ OnPartition'
        BY <1>1, <1>8, Paths, ConfWritten
    <2>2. LoaderOnMedium'
        BY <1>1, <1>5, <1>8, <2>1 DEF LoaderOnMedium
    <2> QED
        BY <1>1, <1>2, <1>4, <2>1, <2>2, AtRestStep
<1> QED
    BY <1>3, <1>6, <1>7, <1>8

LEMMA CrashStep ==
    ASSUME SyncInv, PowerCut, goal' = goal
    PROVE  SyncInv'
<1>1. /\ UNCHANGED <<disk, outcomes, shipped, namespace, unfinished, abandoned>>
      /\ unflushed' = FALSE /\ loaderPc' = "down" /\ phase' = "idle" /\ ResetCopies
    BY SameCopies DEF PowerCut, Loader!Crash
<1>2. OnPartition' /\ LoaderMem'
    BY <1>1 DEF SyncInv, OnPartition, FsType, AssetsNeverTorn, LoaderMem
<1>3. LoaderOnMedium'
    BY <1>1 DEF LoaderOnMedium
<1> QED
    BY <1>1, <1>2, <1>3, AtRestStep

\* What the medium settles on was possible, and once all is settled the
\* running system sees what is on the medium.
LEMMA SettleStep ==
    ASSUME OnPartition, Settle
    PROVE  /\ OnPartition'
           /\ \A p \in Path : outcomes'[p] \subseteq outcomes[p]
<1>1. FsType /\ FsType'
    BY SettleType DEF OnPartition
<1>2. PICK q \in Dirty : \E c \in outcomes[q] : outcomes' = [outcomes EXCEPT ![q] = {c}]
    BY DEF Settle
<1>3. \A p \in Path : outcomes'[p] \subseteq outcomes[p]
    BY <1>1, <1>2 DEF FsType, Dirty
<1>4. Dest \subseteq Path /\ OnEsp \subseteq Path
    BY EspPaths, Paths
<1>5. AssetsNeverTorn' /\ unflushed' \in BOOLEAN
    BY <1>3, <1>4 DEF OnPartition, AssetsNeverTorn, Settle
<1> QED
    BY <1>1, <1>3, <1>4, <1>5 DEF OnPartition

LEMMA PowerOnStep ==
    ASSUME SyncInv, PowerOn
    PROVE  SyncInv'
<1>1. /\ OnPartition /\ FsType /\ LoaderMem /\ Owner /\ loaderPc = "down"
      /\ UNCHANGED <<goal, phase, shipped, namespace, unfinished, abandoned>>
    BY DEF SyncInv, OnPartition, PowerOn, Loader!Recover
<1>2. phase # "entries" /\ changeset = <<>> /\ pending = {} /\ step = "write"
    BY <1>1 DEF Owner
<1>3. \/ Settle /\ loaderPc' = "down"
      \/ Dirty = {} /\ loaderPc' = "idle" /\ UNCHANGED vfatVars
    BY <1>1, SameFs DEF PowerOn, Loader!Recover, Loader!vfatVars, vfatVars
<1>4. ResetCopies
    BY <1>2, <1>3 DEF ResetCopies, Settle, vfatVars
<1>5. LoaderMem'
    BY <1>1, <1>3 DEF LoaderMem
<1>6. CASE Settle /\ loaderPc' = "down"
    <2>1. OnPartition' /\ LoaderOnMedium'
        BY <1>1, <1>6, SettleStep DEF LoaderOnMedium
    <2> QED
        BY <1>1, <1>2, <1>4, <1>5, <1>6, <2>1, AtRestStep
<1>7. CASE Dirty = {} /\ loaderPc' = "idle" /\ UNCHANGED vfatVars
    <2>1. \A p \in Path : outcomes[p] = {disk[p]}
        BY <1>1, <1>7 DEF Dirty, FsType
    <2>2. LoaderOnMedium'
        BY <1>7, <2>1, EspPaths DEF LoaderOnMedium, OnEsp, vfatVars
    <2>3. OnPartition'
        BY <1>1, <1>7 DEF OnPartition, FsType, AssetsNeverTorn, vfatVars
    <2> QED
        BY <1>1, <1>2, <1>4, <1>5, <1>7, <2>2, <2>3, AtRestStep
<1> QED
    BY <1>3, <1>6, <1>7

-----------------------------------------------------------------------------
(* The steps of the composition.                                           *)

LEMMA SyncEntriesStep ==
    ASSUME SyncInv, SyncEntries
    PROVE  SyncInv'
<1>1. /\ OnPartition /\ LoaderMem /\ Current /\ LoaderOnMedium
      /\ FsType /\ AssetsNeverTorn /\ unflushed \in BOOLEAN
    BY DEF SyncInv, OnPartition
<1>2. /\ loaderPc = "done" /\ phase' = "entries" /\ goal' = goal /\ UNCHANGED loaderVars
      /\ Begin(goal.request) /\ UNCHANGED <<disk, outcomes, unflushed>>
    BY DEF SyncEntries, Begin
<1>3. IInv' /\ Spared(OnEsp)'
    BY <1>1, <1>2, Versions, BeginInv DEF LoaderMem
<1>4. OnPartition' /\ LoaderMem'
    BY <1>1, <1>2 DEF OnPartition, FsType, AssetsNeverTorn, LoaderMem, loaderVars
<1>5. Owner'
    BY <1>2, <1>3 DEF Owner, loaderVars
<1>6. Progress' /\ Current' /\ LoaderOnMedium'
    BY <1>1, <1>2 DEF Progress, Current, LoaderOnMedium, loaderVars, Loader!DefaultPattern
<1> QED
    BY <1>4, <1>5, <1>6 DEF SyncInv

\* A step that leaves the partition and the program's memory alone.
LEMMA IdleStep ==
    ASSUME SyncInv, UNCHANGED <<vars, loaderVars>>, goal' \in Goals,
           phase' = phase \/ (phase = "entries" /\ pc = "done" /\ phase' = "done")
    PROVE  SyncInv'
<1>1. /\ UNCHANGED <<disk, outcomes, changeset, pending, step, unflushed>>
      /\ UNCHANGED <<loaderPc, shipped, namespace, unfinished, abandoned>>
      /\ OnPartition /\ LoaderMem /\ Owner /\ Progress /\ Current /\ LoaderOnMedium
    BY DEF SyncInv, vars, vfatVars, loaderVars
<1>2. OnPartition' /\ LoaderMem'
    BY <1>1 DEF OnPartition, FsType, AssetsNeverTorn, LoaderMem
<1>3. Owner'
    <2>1. CASE phase' = phase /\ phase = "entries"
        <3>1. IInv' /\ Spared(OnEsp)'
            BY <1>1, <2>1, IInvStep, SparedStep, EspPaths, EspApart DEF Owner
        <3> QED
            BY <1>1, <2>1, <3>1 DEF Owner
    <2>2. CASE phase' = phase /\ phase # "entries"
        BY <1>1, <2>2 DEF Owner, Loader!Targets
    <2>3. CASE phase = "entries" /\ pc = "done" /\ phase' = "done"
        BY <1>1, <2>3 DEF Owner, IInv, Control
    <2> QED
        BY <2>1, <2>2, <2>3
<1>4. Progress' /\ Current' /\ LoaderOnMedium'
    BY <1>1 DEF Progress, Current, LoaderOnMedium, IsNext, Loader!DefaultPattern
<1> QED
    BY <1>2, <1>3, <1>4 DEF SyncInv

LEMMA WorkRuns ==
    ASSUME Work
    PROVE  pc # "down"
BY DEF Work, HashAsset, HashDone, Install, CopyChanged, WriteConf, Scan, RemoveConf, RemoveTree,
       RemoveFile, CleanDone, Stop

LEMMA SyncInvStep ==
    ASSUME SyncInv, [SyncNext]_syncVars
    PROVE  SyncInv'
<1>1. goal \in Goals
    BY DEF SyncInv, LoaderMem
<1>2. CASE Call
    BY <1>2, LoaderBeginStep
<1>3. CASE LoaderStep
    <2>1. UNCHANGED <<goal, phase>>
        BY <1>3 DEF LoaderStep
    <2>2. CASE Loader!CopyChanged
        <3>1. loaderPc = "copy" /\ Copy /\ UNCHANGED loaderVars
            BY <2>2, SameCopies DEF Loader!CopyChanged, loaderVars
        <3> QED
            BY <2>1, <3>1, LoaderCopyStep
    <2>3. CASE Loader!WriteLoaderConf
        BY <2>1, <2>3, LoaderConfStep
    <2> QED
        BY <1>3, <2>2, <2>3 DEF LoaderStep
<1>4. CASE SyncEntries
    BY <1>4, SyncEntriesStep
<1>5. CASE EntryStep
    BY <1>5, WorkRuns, WorkStep DEF EntryStep, Work
<1>6. CASE NoRoom
    BY <1>6, WorkRuns, WorkStep DEF NoRoom, Work
<1>7. CASE Return
    BY <1>1, <1>7, IdleStep DEF Return
<1>8. CASE PowerOn
    BY <1>8, PowerOnStep
<1>9. CASE Change
    BY <1>9, IdleStep DEF Change
<1>10. CASE Fault
    <2>1. goal' = goal
        BY <1>10 DEF Fault
    <2>2. CASE Fail
        BY <2>1, <2>2, LoaderStopStep, WorkRuns, WorkStep DEF Fail, Work
    <2>3. CASE FailToRemove
        BY <2>1, <2>3, WorkRuns, WorkStep DEF FailToRemove, Work
    <2>4. CASE PowerCut
        BY <2>1, <2>4, CrashStep
    <2>5. CASE FillUp
        BY <1>1, <2>1, <2>5, IdleStep DEF FillUp
    <2> QED
        BY <1>10, <2>2, <2>3, <2>4, <2>5 DEF Fault
<1>11. CASE MakeRoom
    BY <1>1, <1>11, IdleStep DEF MakeRoom
<1>12. CASE UNCHANGED syncVars
    BY <1>1, <1>12, IdleStep DEF syncVars
<1> QED
    BY <1>2, <1>3, <1>4, <1>5, <1>6, <1>7, <1>8, <1>9, <1>10, <1>11, <1>12
       DEF SyncNext, Program

\* The invariant of the composition holds in every behaviour.
THEOREM SyncInvariance == SyncSpec => []SyncInv
<1>1. SyncInit => SyncInv
    BY SyncInvInit
<1>2. SyncInv /\ [SyncNext]_syncVars => SyncInv'
    BY SyncInvStep
<1> QED
    BY <1>1, <1>2, PTL DEF SyncSpec

(***************************************************************************)
(* Every variable of Loader::sync keeps its type, although another part of *)
(* Manager::sync writes to the same partition and uses the same            *)
(* changed_files and copy_atomic_vfat.                                     *)
(***************************************************************************)
THEOREM LoaderTyped == SyncSpec => []LoaderTypeOK
<1>1. ASSUME SyncInv
      PROVE  LoaderTypeOK
    <2>1. OnPartition /\ LoaderMem /\ Owner /\ FsType
        BY <1>1 DEF SyncInv, OnPartition
    <2>2. /\ OnEsp \subseteq DOMAIN disk /\ DOMAIN outcomes = DOMAIN disk
          /\ \A p \in OnEsp : disk[p] \in outcomes[p]
          /\ \A p \in OnEsp \ {LoaderConf} : outcomes[p] \subseteq Loaders \cup {Absent, Torn}
        BY <2>1, EspPaths DEF OnPartition, FsType
    <2>3. /\ loaderPc = "copy" => changeset = Loader!Targets(shipped)
          /\ pending \subseteq DOMAIN changeset
          /\ step \in Step
        <3>1. CASE phase = "entries"
            BY <2>1, <3>1 DEF Owner, IInv, TypeOK
        <3>2. CASE phase # "entries" /\ loaderPc = "copy"
            BY <2>1, <3>2 DEF Owner, Loader!Targets
        <3>3. CASE phase # "entries" /\ loaderPc # "copy"
            BY <2>1, <3>3 DEF Owner, Step
        <3> QED
            BY <3>1, <3>2, <3>3
    <2> QED
        BY <2>1, <2>2, <2>3, SamePaths
           DEF LoaderTypeOK, Loader!TypeOK, Loader!Step, Step, OnPartition, LoaderMem, Loaders
<1>2. SyncInv => LoaderTypeOK
    BY <1>1
<1> QED
    BY <1>2, SyncInvariance, PTL

(***************************************************************************)
(* Whenever Loader::sync has completed, and until the next call, both      *)
(* copies of systemd-boot are the version that was shipped, and durably so *)
(* unless an earlier call was stopped before its last syncfs, and          *)
(* loader.conf shows the entries of this OS: synchronising the entries     *)
(* disturbs none of it, nor does a call of it that fails.                  *)
(***************************************************************************)
THEOREM LoaderIsCurrent == SyncSpec => []LoaderCurrent
<1>1. ASSUME SyncInv, loaderPc = "done"
      PROVE  /\ \A p \in Binaries : /\ disk[p] = shipped
                                    /\ unflushed \/ outcomes[p] = {shipped}
             /\ disk[LoaderConf] = Loader!DefaultPattern(namespace)
    <2>1. Current /\ LoaderOnMedium /\ OnPartition /\ FsType
        BY <1>1 DEF SyncInv, OnPartition
    <2>2. \A p \in Binaries : disk[p] = shipped
        BY <1>1, <2>1 DEF Current, Binaries
    <2>3. shipped # Absent
        BY <1>1, <2>1, Versions DEF Current
    <2> QED
        BY <1>1, <2>1, <2>2, <2>3 DEF LoaderOnMedium, Current
<1>2. SyncInv => LoaderCurrent
    BY <1>1, SamePaths DEF LoaderCurrent, Loader!LoaderCurrent
<1> QED
    BY <1>2, SyncInvariance, PTL

-----------------------------------------------------------------------------
(* The machine stays bootable.                                             *)

(***************************************************************************)
(* Unless a call for another version followed one that was interrupted,    *)
(* either the second copy is complete, or the first one is at the version  *)
(* of the call that was interrupted, and durably so: a retry finds it      *)
(* identical and leaves it alone.                                          *)
(***************************************************************************)
OneComplete ==
    /\ loaderPc = "copy" => unfinished = shipped
    /\ ~ abandoned =>
           /\ \/ outcomes[Systemd] \subseteq Loaders
              \/ unfinished \in Loaders /\ outcomes[Fallback] = {unfinished}
           /\ loaderPc = "copy" /\ 1 \in pending => outcomes[Systemd] \subseteq Loaders
           /\ loaderPc = "copy" /\ 1 \notin pending
              /\ step \in {"remove", "flushRemove", "rename", "flushRename"} =>
                  outcomes[Fallback] = {shipped}

\* A step that is not one of the copies adds no outcome to either.
LEMMA OneCompleteFrame ==
    ASSUME OneComplete, FsType',
           UNCHANGED <<shipped, unfinished, abandoned>>, loaderPc' # "copy",
           \A p \in Binaries : outcomes'[p] \subseteq outcomes[p]
    PROVE  OneComplete'
<1>1. Fallback \in Binaries /\ Systemd \in Binaries /\ Binaries \subseteq Path
    BY EspPaths DEF Binaries, OnEsp
<1>2. outcomes'[Fallback] # {}
    BY <1>1 DEF FsType
<1> QED
    BY <1>1, <1>2 DEF OneComplete

LEMMA OneCompleteBegin ==
    ASSUME SyncInv, OneComplete, Call
    PROVE  OneComplete'
<1>1. LoaderMem /\ FsType
    BY DEF SyncInv, OnPartition
<1>2. /\ loaderPc' = "copy" /\ shipped' = goal.loader /\ unfinished' = goal.loader
      /\ abandoned' = (abandoned \/ unfinished \notin {NoAsset, goal.loader})
      /\ pending' = Changed(Loader!Targets(goal.loader)) /\ step' = "write"
      /\ outcomes' = outcomes
    BY SameCopies DEF Call, Loader!Begin, StartCopies
<1>3. goal.loader \in Loaders /\ NoAsset \notin Loaders
    BY <1>1, Versions DEF LoaderMem
<1>4. SUFFICES ASSUME ~ abandoned, unfinished \in Loaders, outcomes[Fallback] = {unfinished}
               PROVE  unfinished = goal.loader => 1 \notin pending'
    BY <1>1, <1>2, <1>3 DEF OneComplete, LoaderMem
<1>5. disk[Fallback] = unfinished
    BY <1>1, <1>4, EspPaths DEF FsType, OnEsp, Binaries
<1> QED
    BY <1>2, <1>5, SamePaths DEF Changed, Loader!Targets

LEMMA OneCompleteCopy ==
    ASSUME SyncInv, OneComplete, loaderPc = "copy", Copy, UNCHANGED loaderVars
    PROVE  OneComplete'
<1>1. PICK i \in pending :
          /\ IsNext(i)
          /\ \/ CopyWrite(i)       \/ CopyFlush(i)  \/ CopyRemove(i)
             \/ CopyFlushRemove(i) \/ CopyRename(i) \/ CopyFlushRename(i)
    BY DEF Copy
<1> DEFINE to   == Slot(i)
           from == Staging(to)
<1>2. /\ i \in {1, 2} /\ pending \subseteq {1, 2} /\ FsType /\ Progress
      /\ changeset[i].dest = to /\ shipped \in Loaders
    BY <1>1, LoaderItem DEF SyncInv, OnPartition
<1>3. /\ Fallback \in Path /\ Systemd \in Path /\ to \in Path /\ from \in Path
      /\ from \notin {Fallback, Systemd} /\ Fallback # Systemd
      /\ Slot(1) = Fallback /\ Slot(2) = Systemd
    BY <1>2, Slots, EspPaths DEF OnEsp, Binaries
<1>4. /\ loaderPc' = loaderPc /\ shipped' = shipped
      /\ unfinished' = unfinished /\ abandoned' = abandoned
    BY DEF loaderVars
<1>5. unfinished = shipped
    BY DEF OneComplete
<1> HIDE DEF to, from
<1>6. \/ Syncfs /\ (pending' = pending \/ (pending' = pending \ {i} /\ step' = "write"))
      \/ /\ pending' = pending
         /\ \/ step = "write" /\ step' = "flush" /\ \E c : Put(from, c)
            \/ step = "remove" /\ Unlink({to})
            \/ step = "rename" /\ Rename(from, to)
    BY <1>1, <1>2 DEF from, CopyWrite, CopyFlush, CopyRemove, CopyFlushRemove, CopyRename,
                      CopyFlushRename
<1>7. \A p \in Path : p \notin {to, from} =>
          outcomes'[p] = outcomes[p] \/ (Syncfs /\ outcomes'[p] = {disk[p]})
    BY <1>2, <1>3, <1>6 DEF Syncfs, Put, Unlink, Rename, FsType
<1>8. Syncfs => outcomes'[Fallback] = {disk[Fallback]} /\ outcomes'[Systemd] = {disk[Systemd]}
    BY <1>2, <1>3 DEF Syncfs, FsType
<1>9. disk[Systemd] \in outcomes[Systemd]
    BY <1>2, <1>3 DEF FsType
<1>10. CASE abandoned
    BY <1>4, <1>5, <1>10 DEF OneComplete
<1>11. CASE ~ abandoned /\ i = 1
    <2>1. outcomes[Systemd] \subseteq Loaders
        BY <1>1, <1>11 DEF OneComplete
    <2>2. outcomes'[Systemd] \subseteq Loaders
        BY <1>3, <1>7, <1>9, <1>11, <2>1 DEF to
    <2>3. 1 \notin pending' => step' = "write"
        BY <1>1, <1>6, <1>11
    <2> QED
        BY <1>4, <1>5, <2>2, <2>3 DEF OneComplete
<1>12. CASE ~ abandoned /\ i = 2
    <2>1. 1 \notin pending /\ 1 \notin pending' /\ disk[Fallback] = shipped
        BY <1>1, <1>2, <1>3, <1>6, <1>12 DEF IsNext, Progress
    <2>2. CASE Syncfs
        BY <1>2, <1>4, <1>5, <1>8, <2>1, <2>2 DEF OneComplete
    <2>3. CASE step = "write" /\ step' = "flush" /\ \E c : Put(from, c)
        <3>1. outcomes'[Fallback] = outcomes[Fallback] /\ outcomes'[Systemd] = outcomes[Systemd]
            BY <1>2, <1>3, <2>3 DEF Put, FsType
        <3> QED
            BY <1>4, <1>5, <1>12, <2>1, <2>3, <3>1 DEF OneComplete
    <2>4. CASE /\ step \in {"remove", "rename"}
               /\ Unlink({to}) \/ Rename(from, to)
        <3>1. outcomes[Fallback] = {shipped}
            BY <1>12, <2>1, <2>4 DEF OneComplete
        <3>2. outcomes'[Fallback] = {shipped}
            BY <1>2, <1>3, <1>12, <2>4, <3>1 DEF to, Unlink, Rename, FsType
        <3> QED
            BY <1>2, <1>4, <1>5, <2>1, <3>2 DEF OneComplete
    <2> QED
        BY <1>6, <2>2, <2>3, <2>4
<1> QED
    BY <1>2, <1>10, <1>11, <1>12

LEMMA OneCompleteConf ==
    ASSUME SyncInv, OneComplete, Loader!WriteLoaderConf
    PROVE  OneComplete'
<1>1. /\ OnPartition /\ FsType /\ LoaderMem /\ Owner /\ LoaderOnMedium
      /\ loaderPc = "copy" /\ pending = {} /\ loaderPc' = "done"
      /\ shipped' = shipped /\ shipped \in Loaders
      /\ unfinished' = (IF unflushed THEN unfinished ELSE NoAsset)
      /\ abandoned' = (abandoned /\ unflushed)
    BY DEF SyncInv, OnPartition, Owner, Loader!WriteLoaderConf
<1>2. Put(LoaderConf, Loader!DefaultPattern(namespace))
    BY SameFs, SamePaths DEF Loader!WriteLoaderConf
<1>3. Loader!DefaultPattern(namespace) \in Content
    BY <1>1, Versions DEF LoaderMem
<1>4. Fallback \in Path \ {LoaderConf} /\ Systemd \in Path \ {LoaderConf} /\ Systemd \in Binaries
    BY EspPaths DEF OnEsp, Binaries
<1>5. /\ outcomes'[Fallback] = outcomes[Fallback] /\ outcomes'[Systemd] = outcomes[Systemd]
      /\ disk[Systemd] = shipped
    BY <1>1, <1>2, <1>3, <1>4, ConfWritten
<1>6. ~ unflushed => outcomes[Systemd] = {shipped}
    BY <1>1, <1>4, <1>5, Versions DEF LoaderOnMedium
<1> QED
    BY <1>1, <1>5, <1>6 DEF OneComplete, OnPartition

LEMMA OneCompleteWork ==
    ASSUME SyncInv, SyncInv', OneComplete, phase = "entries", Work, UNCHANGED loaderVars
    PROVE  OneComplete'
<1>1. FsType /\ FsType' /\ IInv /\ Spared(OnEsp) /\ loaderPc' # "copy"
    BY DEF SyncInv, OnPartition, Owner, loaderVars
<1>2. Binaries \subseteq OnEsp /\ OnEsp \subseteq Path
    BY EspPaths DEF OnEsp
<1>3. \A p \in Binaries : outcomes'[p] \subseteq outcomes[p]
    BY <1>1, <1>2, WorkRuns, WorkOnEsp DEF FsType, Syncfs
<1> QED
    BY <1>1, <1>3, OneCompleteFrame DEF loaderVars

LEMMA OneCompleteStop ==
    ASSUME SyncInv, SyncInv', OneComplete, Loader!Stop
    PROVE  OneComplete'
<1>1. /\ FsType /\ FsType' /\ loaderPc = "copy" /\ loaderPc' # "copy"
      /\ UNCHANGED <<shipped, unfinished, abandoned>>
    BY DEF SyncInv, OnPartition, Loader!Stop
<1>2. \/ UNCHANGED outcomes
      \/ \E i \in pending : Put(Staging(changeset[i].dest), Torn)
      \/ Put(LoaderConf, Torn)
    BY SameFs, SamePaths, SameCopies DEF Loader!Stop, CopyStops, CopyWriteFails
<1>3. \A i \in pending : Staging(changeset[i].dest) \notin Binaries
    BY <1>1, LoaderItem, Slots
<1>4. Binaries \subseteq Path /\ LoaderConf \notin Binaries
    BY EspPaths DEF OnEsp, Binaries
<1>5. \A p \in Binaries : outcomes'[p] = outcomes[p]
    BY <1>1, <1>2, <1>3, <1>4 DEF Put, FsType
<1> QED
    BY <1>1, <1>5, OneCompleteFrame

LEMMA OneCompleteStep ==
    ASSUME SyncInv, OneComplete, [SyncNext]_syncVars
    PROVE  OneComplete'
<1>1. SyncInv'
    BY SyncInvStep
<1>2. FsType /\ FsType' /\ Binaries \subseteq Path
    BY <1>1, EspPaths DEF SyncInv, OnPartition, OnEsp
<1>3. ASSUME UNCHANGED <<vars, loaderVars>>
      PROVE  OneComplete'
    BY <1>3 DEF OneComplete, vars, vfatVars, loaderVars
<1>4. CASE Call
    BY <1>4, OneCompleteBegin
<1>5. CASE LoaderStep
    <2>1. CASE Loader!CopyChanged
        BY <2>1, SameCopies, OneCompleteCopy DEF Loader!CopyChanged, loaderVars
    <2>2. CASE Loader!WriteLoaderConf
        BY <2>2, OneCompleteConf
    <2> QED
        BY <1>5, <2>1, <2>2 DEF LoaderStep
<1>6. CASE SyncEntries
    <2>1. UNCHANGED <<loaderVars, outcomes>> /\ loaderPc = "done"
        BY <1>6 DEF SyncEntries, Begin
    <2> QED
        BY <1>2, <2>1, OneCompleteFrame DEF loaderVars
<1>7. CASE EntryStep \/ NoRoom
    BY <1>1, <1>7, OneCompleteWork DEF EntryStep, NoRoom, Work
<1>8. CASE Return \/ Change \/ MakeRoom
    BY <1>3, <1>8 DEF Return, Change, MakeRoom
<1>9. CASE PowerOn
    <2>1. /\ UNCHANGED <<shipped, unfinished, abandoned>> /\ loaderPc' # "copy"
          /\ Settle \/ UNCHANGED vfatVars
        BY <1>9, SameFs DEF PowerOn, Loader!Recover, Loader!vfatVars, vfatVars
    <2>2. \A p \in Binaries : outcomes'[p] \subseteq outcomes[p]
        BY <1>2, <2>1, SettleStep DEF SyncInv, vfatVars
    <2> QED
        BY <1>2, <2>1, <2>2, OneCompleteFrame
<1>10. CASE Fault
    <2>1. CASE Fail
        BY <1>1, <2>1, OneCompleteStop, OneCompleteWork DEF Fail, Work
    <2>2. CASE FailToRemove
        BY <1>1, <2>2, OneCompleteWork DEF FailToRemove, Work
    <2>3. CASE PowerCut
        <3>1. /\ UNCHANGED <<outcomes, shipped, unfinished, abandoned>>
              /\ loaderPc' # "copy"
            BY <2>3 DEF PowerCut, Loader!Crash
        <3> QED
            BY <1>2, <3>1, OneCompleteFrame
    <2>4. CASE FillUp
        BY <1>3, <2>4 DEF FillUp
    <2> QED
        BY <1>10, <2>1, <2>2, <2>3, <2>4 DEF Fault
<1>11. CASE UNCHANGED syncVars
    BY <1>3, <1>11 DEF syncVars
<1> QED
    BY <1>4, <1>5, <1>6, <1>7, <1>8, <1>9, <1>10, <1>11 DEF SyncNext, Program

(***************************************************************************)
(* The machine stays bootable: whenever the power fails, one of the two    *)
(* copies of systemd-boot is complete, however often Manager::sync was     *)
(* called and wherever calls were stopped, provided that no call for       *)
(* another version follows one that did not complete.  It starts with the  *)
(* copy that the firmware's own entry names; the fallback alone would not  *)
(* do, as it is the first to be replaced.                                  *)
(***************************************************************************)
THEOREM StaysBootable ==
    ASSUME InitialDisk[Systemd] \in Loaders
    PROVE  SyncSpec => []LoaderSurvives
<1>1. SyncInit => SyncInv /\ OneComplete
    <2>1. ASSUME SyncInit
          PROVE  OneComplete
        BY <2>1, EspPaths DEF SyncInit, Init, Loader!Init, OneComplete, OnEsp, Binaries
    <2> QED
        BY <2>1, SyncInvInit
<1>2. SyncInv /\ OneComplete /\ [SyncNext]_syncVars => SyncInv' /\ OneComplete'
    BY SyncInvStep, OneCompleteStep
<1>3. OneComplete => LoaderSurvives
    BY SamePaths DEF OneComplete, LoaderSurvives, Loader!LoaderSurvives, Binaries, Loaders
<1> QED
    BY <1>1, <1>2, <1>3, PTL DEF SyncSpec

(***************************************************************************)
(* No kernel or initrd is ever torn under its installed name in the whole  *)
(* of Manager::sync: the loader's copies on the same partition, a          *)
(* partition that is full and calls that follow each other change nothing  *)
(* of what sync_entries alone guarantees.                                  *)
(***************************************************************************)
THEOREM NeverTornBySync == SyncSpec => []AssetsNeverTorn
<1>1. SyncInv => AssetsNeverTorn
    BY DEF SyncInv, OnPartition
<1> QED
    BY <1>1, SyncInvariance, PTL
-----------------------------------------------------------------------------
(* What a call that returns leaves.                                        *)

\* While a call's entries are synchronised, and until the next call, the memory
\* of EntrySync is that call's.
OfOneCall ==
    /\ phase = "loader" => shipped = goal.loader
    /\ phase \in {"entries", "done"} =>
           /\ IInv /\ IntactInv /\ Accounted /\ DurableInv
           /\ loaderPc = "done"
           /\ \E g \in Goals : g.loader = shipped /\ g.request = req
    /\ phase = "done" => pc = "done"

\* As OnMedium, between two requests.
DestOnMedium ==
    phase # "entries" /\ loaderPc # "down" =>
        \A p \in Dest : disk[p] # Absent => outcomes[p] = {disk[p]} \/ unflushed

CompleteInv == OfOneCall /\ DestOnMedium

\* The loader's part leaves the kernels and initrds alone, or makes them durable.
OffEsp ==
    \/ Syncfs
    \/ /\ \A p \in Path \ OnEsp : disk'[p] = disk[p] /\ outcomes'[p] = outcomes[p]
       /\ unflushed => unflushed'

LEMMA LoaderOffEsp ==
    ASSUME SyncInv, phase = "loader",
           (Loader!CopyChanged \/ Loader!WriteLoaderConf) \/ Loader!Stop
    PROVE  OffEsp
<1>1. /\ disk \in [Path -> Content] /\ outcomes \in [Path -> SUBSET Content]
      /\ loaderPc = "copy" /\ LoaderConf \in OnEsp
    BY EspPaths DEF SyncInv, OnPartition, FsType, Loader!CopyChanged, Loader!WriteLoaderConf,
                    Loader!Stop, OnEsp
<1>2. \A i \in pending : /\ changeset[i].dest \in OnEsp
                         /\ Staging(changeset[i].dest) \in OnEsp
    BY <1>1, LoaderItem, Slots
<1>3. ASSUME NEW p \in OnEsp, NEW c, Put(p, c), unflushed' = unflushed
      PROVE  OffEsp
    BY <1>1, <1>3 DEF Put, OffEsp
<1>4. ASSUME NEW p \in OnEsp, Unlink({p}), unflushed' = unflushed
      PROVE  OffEsp
    BY <1>1, <1>4 DEF Unlink, OffEsp
<1>5. ASSUME NEW p \in OnEsp, NEW q \in OnEsp, Rename(p, q), unflushed' = unflushed
      PROVE  OffEsp
    BY <1>1, <1>5 DEF Rename, OffEsp
<1>6. CASE Copy
    <2>1. PICK i \in pending :
              \/ CopyWrite(i)       \/ CopyFlush(i)  \/ CopyRemove(i)
              \/ CopyFlushRemove(i) \/ CopyRename(i) \/ CopyFlushRename(i)
        BY <1>6 DEF Copy
    <2>2. CASE CopyWrite(i)
        BY <1>2, <1>3, <2>2 DEF CopyWrite
    <2>3. CASE CopyFlush(i) \/ CopyFlushRemove(i) \/ CopyFlushRename(i)
        BY <2>3 DEF CopyFlush, CopyFlushRemove, CopyFlushRename, OffEsp
    <2>4. CASE CopyRemove(i)
        BY <1>2, <1>4, <2>4 DEF CopyRemove
    <2>5. CASE CopyRename(i)
        BY <1>2, <1>5, <2>5 DEF CopyRename
    <2> QED
        BY <2>1, <2>2, <2>3, <2>4, <2>5
<1>7. CASE Loader!WriteLoaderConf
    BY <1>1, <1>3, <1>7, SameFs, SamePaths DEF Loader!WriteLoaderConf
<1>8. CASE Loader!Stop
    <2>1. CASE CopyStops
        BY <2>1 DEF CopyStops, OffEsp
    <2>2. CASE CopyWriteFails
        <3>1. PICK i \in pending : Put(Staging(changeset[i].dest), Torn)
            BY <2>2 DEF CopyWriteFails
        <3> QED
            BY <1>2, <1>3, <2>2, <3>1 DEF CopyWriteFails
    <2>3. CASE Put(LoaderConf, Torn) /\ UNCHANGED unflushed
        BY <1>1, <1>3, <2>3
    <2> QED
        BY <1>8, <2>1, <2>2, <2>3, SameFs, SamePaths, SameCopies DEF Loader!Stop
<1> QED
    BY <1>6, <1>7, <1>8, SameCopies DEF Loader!CopyChanged

LEMMA OffEspKeeps ==
    ASSUME SyncInv, DestOnMedium, phase = "loader", loaderPc = "copy", OffEsp
    PROVE  \A p \in Dest : disk'[p] # Absent => outcomes'[p] = {disk'[p]} \/ unflushed'
<1>1. /\ Dest \subseteq Path \ OnEsp
      /\ disk \in [Path -> Content] /\ outcomes \in [Path -> SUBSET Content]
    BY EspPaths, Paths DEF SyncInv, OnPartition, FsType
<1>2. CASE Syncfs
    BY <1>1, <1>2 DEF Syncfs
<1>3. CASE ~ Syncfs
    BY <1>1, <1>3 DEF OffEsp, DestOnMedium
<1> QED
    BY <1>2, <1>3

\* A step that touches nothing on the partition, between two requests.
LEMMA StillOnMedium ==
    ASSUME DestOnMedium, phase # "entries", UNCHANGED <<disk, outcomes, unflushed>>,
           loaderPc # "down"
    PROVE  DestOnMedium'
BY DEF DestOnMedium

LEMMA WorkOfOneCall ==
    ASSUME SyncInv, CompleteInv, phase = "entries", [Next]_vars, pc # "down", pc' # "down",
           UNCHANGED <<loaderVars, goal>>,
           \/ phase' = "entries" /\ req' = req
           \/ phase' = "done" /\ pc = "done" /\ UNCHANGED vars
           \/ phase' = "idle" /\ Stop
    PROVE  CompleteInv'
<1>1. /\ IInv /\ IntactInv /\ Accounted /\ DurableInv /\ loaderPc = "done"
      /\ \E g \in Goals : g.loader = shipped /\ g.request = req
      /\ UNCHANGED <<loaderPc, shipped>>
    BY DEF CompleteInv, OfOneCall, loaderVars
<1>2. IInv' /\ IntactInv' /\ Accounted' /\ DurableInv'
    BY <1>1, IInvStep, IntactStep, AccountedStep, DurableStep
<1>3. OfOneCall'
    BY <1>1, <1>2 DEF OfOneCall, vars
<1>4. phase' # "entries" => step' = "write"
    <2>1. CASE Stop
        BY <2>1 DEF Stop, CopyStops, CopyWriteFails, ResetCopies
    <2>2. CASE pc = "done" /\ UNCHANGED vars
        BY <1>1, <2>2 DEF vars, vfatVars, IInv, Control
    <2> QED
        BY <2>1, <2>2
<1>5. DestOnMedium'
    BY <1>2, <1>4 DEF DurableInv, OnMedium, DestOnMedium
<1> QED
    BY <1>3, <1>5 DEF CompleteInv
LEMMA CompleteInit ==
    ASSUME SyncInit
    PROVE  CompleteInv
<1>1. disk = InitialDisk /\ outcomes = [p \in Path |-> {InitialDisk[p]}] /\ phase = "idle"
    BY DEF SyncInit, Init
<1> QED
    BY <1>1, Paths DEF CompleteInv, OfOneCall, DestOnMedium

LEMMA CompleteStep ==
    ASSUME SyncInv, CompleteInv, [SyncNext]_syncVars
    PROVE  CompleteInv'
<1>1. OfOneCall /\ DestOnMedium /\ Owner /\ LoaderMem /\ OnPartition
    BY DEF CompleteInv, SyncInv
<1>2. CASE Call
    <2>1. /\ phase # "entries" /\ phase' = "loader" /\ goal' = goal /\ shipped' = goal.loader
          /\ loaderPc \in {"idle", "done"} /\ UNCHANGED <<disk, outcomes, unflushed>>
        BY <1>2, SameCopies DEF Call, Loader!Begin, StartCopies
    <2>2. DestOnMedium'
        BY <1>1, <2>1, StillOnMedium
    <2> QED
        BY <2>1, <2>2 DEF CompleteInv, OfOneCall
<1>3. CASE LoaderStep
    <2>1. /\ phase = "loader" /\ phase' = "loader" /\ goal' = goal /\ shipped' = shipped
          /\ loaderPc = "copy" /\ (Loader!CopyChanged \/ Loader!WriteLoaderConf)
        BY <1>3 DEF LoaderStep, Loader!CopyChanged, Loader!WriteLoaderConf
    <2>2. DestOnMedium'
        BY <1>1, <2>1, LoaderOffEsp, OffEspKeeps DEF DestOnMedium
    <2> QED
        BY <1>1, <2>1, <2>2 DEF CompleteInv, OfOneCall
<1>4. CASE SyncEntries
    <2>1. /\ phase = "loader" /\ phase' = "entries" /\ goal' = goal
          /\ UNCHANGED <<loaderPc, shipped>>
          /\ loaderPc = "done" /\ Begin(goal.request) /\ UNCHANGED <<disk, outcomes, unflushed>>
        BY <1>4 DEF SyncEntries, loaderVars, Begin
    <2>2. goal \in Goals /\ goal.request \in Requests
        BY <1>1, Versions DEF LoaderMem
    <2>3. IInv'
        BY <1>1, <2>1, <2>2, BeginInv DEF OnPartition
    <2>4. /\ pc' = "hash" /\ req' = goal.request
          /\ changeset' = <<>> /\ pending' = {} /\ step' = "write"
        BY <2>1 DEF Begin, ResetCopies
    <2>5. IntactInv' /\ Accounted'
        BY <2>4 DEF IntactInv, InstalledIntact, InstalledEntries, Copied, StaleUnused, Accounted
    <2>6. DurableInv'
        BY <1>1, <2>1, <2>4 DEF DurableInv, AtRest, OnMedium, DestOnMedium
    <2>7. OfOneCall'
        BY <1>1, <2>1, <2>2, <2>3, <2>4, <2>5, <2>6 DEF OfOneCall
    <2> QED
        BY <2>1, <2>7 DEF CompleteInv, DestOnMedium
<1>5. ASSUME phase = "entries", Work, UNCHANGED <<loaderVars, goal>>,
             \/ phase' = "entries" /\ ~ Stop
             \/ phase' = "idle" /\ Stop
      PROVE  CompleteInv'
    <2>1. [Next]_vars
        BY <1>5 DEF Work, Next
    <2>2. pc # "down" /\ pc' # "down" /\ (~ Stop => req' = req)
        BY <1>5 DEF Work, HashAsset, HashDone, Install, CopyChanged, WriteConf, Scan, RemoveConf,
                    RemoveTree, RemoveFile, CleanDone, Stop
    <2> QED
        BY <1>5, <2>1, <2>2, WorkOfOneCall
<1>6. CASE EntryStep
    <2>1. phase = "entries" /\ phase' = "entries" /\ UNCHANGED <<loaderVars, goal>> /\ Work
        BY <1>6 DEF EntryStep, Work
    <2>2. pc' # "idle"
        BY <1>6 DEF EntryStep, HashAsset, HashDone, Install, CopyChanged, WriteConf, Scan,
                    RemoveConf, RemoveTree, RemoveFile, CleanDone
    <2>3. ~ Stop
        BY <2>2 DEF Stop
    <2> QED
        BY <1>5, <2>1, <2>3
<1>7. CASE NoRoom
    BY <1>5, <1>7 DEF NoRoom, Work
<1>8. CASE Return
    <2>1. phase = "entries" /\ pc = "done" /\ phase' = "done" /\ UNCHANGED <<vars, loaderVars, goal>>
        BY <1>8 DEF Return
    <2>2. pc' # "down"
        BY <2>1 DEF vars
    <2> QED
        BY <2>1, <2>2, WorkOfOneCall
<1>9. CASE PowerOn
    <2>1. pc = "down" /\ loaderPc = "down" /\ UNCHANGED <<goal, phase, shipped>>
        BY <1>9 DEF PowerOn, Recover, Loader!Recover
    <2>2. phase \notin {"entries", "done"}
        BY <1>1, <2>1 DEF OfOneCall
    <2>3. DestOnMedium'
        <3>1. CASE loaderPc' = "down"
            BY <3>1 DEF DestOnMedium
        <3>2. CASE loaderPc' # "down"
            <4>1. Dirty = {} /\ UNCHANGED vfatVars
                BY <1>9, <2>1, <3>2, SameFs DEF PowerOn, Loader!Recover, Loader!vfatVars, vfatVars
            <4>2. \A p \in Dest : outcomes[p] = {disk[p]}
                BY <1>1, <4>1, Paths DEF Dirty, OnPartition, FsType
            <4> QED
                BY <4>1, <4>2 DEF DestOnMedium, vfatVars
        <3> QED
            BY <3>1, <3>2
    <2> QED
        BY <1>1, <2>1, <2>2, <2>3 DEF CompleteInv, OfOneCall
<1>10. ASSUME UNCHANGED <<vars, loaderVars, phase>>, phase = "loader" => goal' = goal
       PROVE  CompleteInv'
    <2>1. UNCHANGED <<disk, outcomes, unflushed, pc, req>> /\ UNCHANGED <<loaderPc, shipped>>
        BY <1>10 DEF vars, vfatVars, loaderVars
    <2>2. phase \in {"entries", "done"} =>
              IInv' /\ IntactInv' /\ Accounted' /\ DurableInv'
        BY <1>1, <1>10, IInvStep, IntactStep, AccountedStep, DurableStep DEF OfOneCall
    <2>3. OfOneCall'
        BY <1>1, <1>10, <2>1, <2>2 DEF OfOneCall
    <2>4. DestOnMedium'
        BY <1>1, <1>10, <2>1 DEF DestOnMedium
    <2> QED
        BY <2>3, <2>4 DEF CompleteInv
<1>11. CASE Change \/ MakeRoom \/ UNCHANGED syncVars
    BY <1>10, <1>11 DEF Change, MakeRoom, syncVars
<1>12. CASE Fault
    <2>1. goal' = goal
        BY <1>12 DEF Fault
    <2>2. CASE Fail
        <3>1. CASE phase = "loader" /\ Loader!Stop
            <4>1. loaderPc = "copy" /\ phase' = "idle"
                BY <2>2, <3>1 DEF Fail, Loader!Stop
            <4>2. DestOnMedium'
                BY <1>1, <3>1, <4>1, LoaderOffEsp, OffEspKeeps DEF DestOnMedium
            <4> QED
                BY <4>1, <4>2 DEF CompleteInv, OfOneCall
        <3>2. CASE phase = "entries" /\ Stop /\ UNCHANGED loaderVars
            BY <1>5, <2>1, <2>2, <3>2 DEF Fail, Work
        <3> QED
            BY <2>2, <3>1, <3>2 DEF Fail
    <2>3. CASE FailToRemove
        <3>1. pc' # "idle"
            BY <2>3 DEF FailToRemove, RemoveConf, RemoveTree, RemoveFile
        <3>2. ~ Stop
            BY <3>1 DEF Stop
        <3> QED
            BY <1>5, <2>1, <2>3, <3>2 DEF FailToRemove, Work
    <2>4. CASE PowerCut
        <3>1. phase' = "idle" /\ loaderPc' = "down"
            BY <2>4 DEF PowerCut, Loader!Crash
        <3> QED
            BY <3>1 DEF CompleteInv, OfOneCall, DestOnMedium
    <2>5. CASE FillUp
        BY <1>10, <2>1, <2>5 DEF FillUp
    <2> QED
        BY <1>12, <2>2, <2>3, <2>4, <2>5 DEF Fault
<1> QED
    BY <1>2, <1>3, <1>4, <1>6, <1>7, <1>8, <1>9, <1>11, <1>12 DEF SyncNext, Program

(***************************************************************************)
(* A Manager::sync that returns Ok (manager.rs 185) leaves what one caller *)
(* asked for, all of it at once: the loader in both copies, the entries    *)
(* with their files, on the medium, and nothing else of ours, for every    *)
(* sequence of releases, failures and power cuts before it, and however    *)
(* little room there was.                                                  *)
(***************************************************************************)
THEOREM CallsComplete == SyncSpec => []Complete
<1>1. SyncInit => SyncInv /\ CompleteInv
    BY SyncInvInit, CompleteInit
<1>2. SyncInv /\ CompleteInv /\ [SyncNext]_syncVars => SyncInv' /\ CompleteInv'
    BY SyncInvStep, CompleteStep
<1>3. SyncInv /\ CompleteInv => Complete
    <2> SUFFICES ASSUME SyncInv, CompleteInv, phase = "done"
                 PROVE  /\ \E g \in Goals : g.loader = shipped /\ g.request = req
                        /\ \A p \in Binaries : disk[p] = shipped
                        /\ InstalledEntries = Range(req.entries)
                        /\ InstalledIntact /\ AssetsDurable /\ Mirrored
        BY DEF Complete
    <2>1. /\ IInv /\ IntactInv /\ Accounted /\ DurableInv /\ loaderPc = "done" /\ pc = "done"
          /\ \E g \in Goals : g.loader = shipped /\ g.request = req
        BY DEF CompleteInv, OfOneCall
    <2>2. \A p \in Binaries : disk[p] = shipped
        BY <2>1 DEF SyncInv, Current, Binaries
    <2>3. InstalledEntries = Range(req.entries)
        <3>1. req \in Requests /\ cur = Len(req.entries) + 1
            BY <2>1 DEF IInv, Control, Serving
        <3>2. req.entries \in Seq(Entries) /\ Len(req.entries) \in Nat
            BY <3>1, RequestAssumption
        <3>3. 1..(cur - 1) = DOMAIN req.entries
            BY <3>1, <3>2
        <3> QED
            BY <2>1, <3>3 DEF InstalledEntries, Range
    <2>4. InstalledIntact /\ AssetsDurable
        BY <2>1, InstalledDurable DEF IntactInv
    <2>5. Mirrored
        BY <2>1 DEF Accounted, Mirrored, Doomed, NoStale
    <2> QED
        BY <2>1, <2>2, <2>3, <2>4, <2>5
<1> QED
    BY <1>1, <1>2, <1>3, PTL DEF SyncSpec
=============================================================================
