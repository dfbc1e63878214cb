--------------------------- MODULE EntrySyncProofs ---------------------------
(***************************************************************************)
(* Theorems about EntrySync, for every set of requests its assumptions     *)
(* allow, every behaviour and any number of failures and crashes.          *)
(***************************************************************************)
EXTENDS EntrySync, FiniteSetTheorems, SequenceTheorems, TLAPS

-----------------------------------------------------------------------------
(* The inductive invariant.                                                *)

Serving == pc \in {"hash", "install", "copy", "clean", "done"}

\* Where the program is bounds its counters and determines the batch.
Control ==
    /\ Serving => req \in Requests /\ cur \in 1..(Len(req.entries) + 1)
    /\ pc = "hash" /\ cur <= Len(req.entries) =>
           pos \in DOMAIN req.entries[cur].assets
    /\ pc = "copy" => cur <= Len(req.entries) /\ changeset = ChangesetOf(Entry)
    /\ pc # "copy" => changeset = <<>> /\ pending = {} /\ step = "write"
    /\ pc \in {"clean", "done"} => cur = Len(req.entries) + 1

Distinct(s) == \A i, j \in DOMAIN s : s[i] = s[j] => i = j

\* Which assets of the request have been through AssetCollisions::insert.
Inserted(i, j) == pc # "hash" \/ i < cur \/ (i = cur /\ j < pos)

Collected ==
    /\ \A k \in Keys : Distinct(collisions[k])
    /\ Serving =>
           \A i \in DOMAIN req.entries : \A j \in DOMAIN req.entries[i].assets :
               Inserted(i, j) => req.entries[i].assets[j].hash
                                     \in Hashes(collisions, KeyOf(req.entries[i].assets[j]))

\* From its write on, the staging file is whole; from its sync on, durably so.
Staged ==
    \A i \in pending : IsNext(i) =>
        /\ step \in {"flush", "remove", "flushRemove", "rename"} =>
               disk[Staging(changeset[i].dest)] = changeset[i].data
        /\ step \in {"remove", "flushRemove", "rename"} =>
               outcomes[Staging(changeset[i].dest)] = {changeset[i].data}
        /\ step = "flushRename" => disk[changeset[i].dest] = changeset[i].data

IInv == TypeOK /\ Control /\ Collected /\ Staged /\ AssetsNeverTorn

\* What a copy in progress still owes, and what it must not touch.
Copied ==
    /\ \A j \in DOMAIN changeset :
           \/ disk[changeset[j].dest] = changeset[j].data
           \/ \E i \in pending : changeset[i].dest = changeset[j].dest
    /\ \A i \in pending : \A e \in InstalledEntries : \A j \in DOMAIN e.assets :
           changeset[i].dest # TextOf(e)[j]

\* What is left to remove is in no use.
StaleUnused ==
    pc = "clean" =>
        /\ stale.confs \cap InstalledConfs = {}
        /\ stale.files \cap InstalledFiles = {}
        /\ \A d \in stale.trees : \A p \in InstalledFiles : ~In(p, d)

IntactInv == InstalledIntact /\ Copied /\ StaleUnused
-----------------------------------------------------------------------------
(* Names.                                                                  *)

\* An injective sequence is no longer than the set of its elements is large.
LEMMA DistinctBound ==
    ASSUME NEW S, IsFiniteSet(S), NEW s \in Seq(S), Distinct(s)
    PROVE  Len(s) <= Cardinality(S)
<1>1. s \in Injection(1..Len(s), S)
    BY DEF Distinct, Injection, IsInjective
<1>2. Cardinality(1..Len(s)) <= Cardinality(S)
    BY <1>1, FS_Injection
<1>3. Len(s) \in Nat
    OBVIOUS
<1>4. Cardinality(1..Len(s)) = Len(s)
    <2>1. Cardinality(1..Len(s)) = IF 1 > Len(s) THEN 0 ELSE Len(s) - 1 + 1
        BY <1>3, 1 \in Int, Len(s) \in Int, FS_Interval, Zenon
    <2> QED
        BY <1>3, <2>1
<1> QED
    BY <1>2, <1>4

LEMMA HashesFinite ==
    ASSUME NEW k
    PROVE  IsFiniteSet(HashesOf(k)) /\ Cardinality(HashesOf(k)) \in Nat
<1>1. HashesOf(k) \in SUBSET HashSet
    BY DEF HashesOf, HashSet
<1> QED
    BY <1>1, FS_Subset, FS_CardinalityType, AssetAssumption

\* What the requests are made of.
LEMMA RequestParts ==
    ASSUME NEW r \in Requests, NEW i \in DOMAIN r.entries,
           NEW j \in DOMAIN r.entries[i].assets
    PROVE  /\ r.entries \in Seq(Entries)
           /\ r.entries[i] \in Range(r.entries)
           /\ r.entries[i].assets \in Seq(Assets)
           /\ r.entries[i].assets[j] \in Range(r.entries[i].assets)
           /\ r.entries[i].assets[j] \in Assets
           /\ r.entries[i].assets[j].hash \in HashSet
           /\ KeyOf(r.entries[i].assets[j]) \in Keys
<1>1. r.entries \in Seq(Entries) /\ r.entries[i] \in Range(r.entries)
    BY RequestAssumption DEF Range
<1>2. /\ r.entries[i].assets \in Seq(Assets)
      /\ r.entries[i].assets[j] \in Range(r.entries[i].assets)
    BY <1>1, AssetAssumption DEF Range
<1>3. r.entries[i].assets[j] \in Assets
    BY <1>2
<1> QED
    BY <1>1, <1>2, <1>3 DEF HashSet, Keys

LEMMA PathInDest ==
    ASSUME NEW r \in Requests, NEW e \in Range(r.entries), NEW a \in Range(e.assets),
           NEW i \in Indices(KeyOf(a))
    PROVE  InstalledPath(EffectiveIn(r, e), a, i) \in Dest
<1>1. InstalledPath(EffectiveIn(r, e), a, i) \in DestsOf(EffectiveIn(r, e), a)
    BY DEF DestsOf
<1> QED
    BY <1>1 DEF Dest

\* position, for a hash that has been inserted.
LEMMA PositionFound ==
    ASSUME NEW c, NEW a, a.hash \in Hashes(c, KeyOf(a))
    PROVE  /\ Position(c, a) \in DOMAIN c[KeyOf(a)]
           /\ c[KeyOf(a)][Position(c, a)] = a.hash
BY DEF Position, Hashes

LEMMA ConflictIndexType ==
    ASSUME NEW c, NEW a,
           c[KeyOf(a)] \in Seq(HashesOf(KeyOf(a))),
           Distinct(c[KeyOf(a)]),
           a.hash \in Hashes(c, KeyOf(a))
    PROVE  ConflictIndex(c, a) \in Indices(KeyOf(a))
<1>1. Len(c[KeyOf(a)]) <= Cardinality(HashesOf(KeyOf(a)))
    BY HashesFinite, DistinctBound
<1>2. Position(c, a) \in 1..Len(c[KeyOf(a)])
    BY PositionFound
<1>3. Len(c[KeyOf(a)]) \in Nat /\ Cardinality(HashesOf(KeyOf(a))) \in Nat
    BY HashesFinite
<1> QED
    BY <1>1, <1>2, <1>3 DEF ConflictIndex, Indices, NoSuffix

-----------------------------------------------------------------------------
(* What install computes for an entry has the right type.                  *)

LEMMA AssetPathType ==
    ASSUME IInv, Serving, pc # "hash",
           NEW i \in DOMAIN req.entries, NEW j \in DOMAIN req.entries[i].assets
    PROVE  AssetPath(req.entries[i], req.entries[i].assets[j]) \in Dest
<1> DEFINE a == req.entries[i].assets[j]
<1>1. req \in Requests
    BY DEF IInv, Control
<1>2. /\ req.entries[i] \in Range(req.entries)
      /\ a \in Range(req.entries[i].assets)
      /\ KeyOf(a) \in Keys
    BY <1>1, RequestParts
<1>3. a.hash \in Hashes(collisions, KeyOf(a))
    BY DEF IInv, Collected, Inserted
<1>4. collisions[KeyOf(a)] \in Seq(HashesOf(KeyOf(a))) /\ Distinct(collisions[KeyOf(a)])
    BY <1>2 DEF IInv, TypeOK, Collected
<1>5. ConflictIndex(collisions, a) \in Indices(KeyOf(a))
    BY <1>3, <1>4, ConflictIndexType
<1> QED
    BY <1>1, <1>2, <1>5, PathInDest DEF AssetPath, Effective

LEMMA SeqOfFunction ==
    ASSUME NEW S, NEW n \in Nat, NEW f \in [1..n -> S]
    PROVE  f \in Seq(S)
BY SeqDef

LEMMA SeqElement ==
    ASSUME NEW S, NEW s \in Seq(S), NEW i \in DOMAIN s
    PROVE  s[i] \in S
OBVIOUS

LEMMA InstallTypes ==
    ASSUME IInv, Serving, pc # "hash", NEW i \in DOMAIN req.entries
    PROVE  /\ ChangesetOf(req.entries[i]) \in Seq([data : HashSet, dest : Dest])
           /\ TextOf(req.entries[i]) \in Text
           /\ ConfOf(req.entries[i]) \in Confs
<1> DEFINE e == req.entries[i]
<1>1. req \in Requests
    BY DEF IInv, Control
<1>2. \A j \in DOMAIN e.assets : AssetPath(e, e.assets[j]) \in Dest
    BY AssetPathType
<1>3. /\ e \in Range(req.entries)
      /\ e \in Entries
      /\ e.assets \in Seq(Assets)
      /\ \A j \in DOMAIN e.assets : e.assets[j].hash \in HashSet
    <2>1. e \in Range(req.entries)
        BY DEF Range
    <2>2. e.assets \in Seq(Assets)
        BY <1>1, <2>1, AssetAssumption
    <2> QED
        BY <1>1, <2>1, <2>2 DEF Entries, HashSet
<1>4. ChangesetOf(e) \in Seq([data : HashSet, dest : Dest])
    <2>1. DOMAIN e.assets = 1..Len(e.assets) /\ Len(e.assets) \in Nat
        BY <1>3
    <2>2. ChangesetOf(e) \in [1..Len(e.assets) -> [data : HashSet, dest : Dest]]
        BY <1>2, <1>3, <2>1 DEF ChangesetOf
    <2> QED
        BY <2>1, <2>2, SeqOfFunction, Zenon
<1>5. TextOf(e) \in Text
    BY <1>2, <1>3 DEF TextOf, Text
<1>6. ConfOf(e) \in Confs
    BY <1>1, <1>3 DEF ConfOf, Confs
<1> QED
    BY <1>4, <1>5, <1>6

\* The file operations keep the type of the file system.
FsType ==
    /\ disk \in [Path -> Content]
    /\ outcomes \in [Path -> SUBSET Content]
    /\ \A p \in Path : disk[p] \in outcomes[p]

LEMMA PutType ==
    ASSUME FsType, NEW p \in Path, NEW c \in Content, Put(p, c)
    PROVE  FsType'
<1>1. Torn \in Content
    BY DEF Content
<1> QED
    BY <1>1 DEF FsType, Put

LEMMA UnlinkType ==
    ASSUME FsType, NEW gone, Unlink(gone)
    PROVE  FsType'
<1>1. Absent \in Content
    BY DEF Content
<1> QED
    BY <1>1 DEF FsType, Unlink

LEMMA RenameType ==
    ASSUME FsType, NEW p \in Path, NEW q \in Path, p # q, Rename(p, q)
    PROVE  FsType'
<1>1. Absent \in Content
    BY DEF Content
<1> QED
    BY <1>1 DEF FsType, Rename

LEMMA SyncfsType ==
    ASSUME FsType, Syncfs
    PROVE  FsType' /\ unflushed' = FALSE
BY DEF FsType, Syncfs

LEMMA SettleType ==
    ASSUME FsType, Settle
    PROVE  FsType'
<1>1. (CHOOSE q \in Dirty : TRUE) \in Path
    BY DEF Settle, Dirty, FsType
<1> QED
    BY <1>1 DEF FsType, Settle

-----------------------------------------------------------------------------
(* Type correctness.                                                       *)

\* TypeOK without the file system.
MemType ==
    /\ changeset \in Seq([data : HashSet, dest : Dest])
    /\ pending \subseteq DOMAIN changeset
    /\ step \in Step
    /\ unflushed \in BOOLEAN
    /\ pc \in {"idle", "hash", "install", "copy", "clean", "done", "down"}
    /\ req \in Requests \cup {NoRequest}
    /\ cur \in Nat \ {0}
    /\ pos \in Nat \ {0}
    /\ collisions \in [Keys -> Seq(HashSet)]
    /\ \A k \in Keys : collisions[k] \in Seq(HashesOf(k))
    /\ stale \in [confs : SUBSET ConfPaths, trees : SUBSET Dirs, files : SUBSET KernelPaths]
    /\ undeleted \subseteq Path

LEMMA TypeParts ==
    /\ TypeOK <=> FsType /\ MemType
    /\ TypeOK' <=> FsType' /\ MemType'
BY DEF TypeOK, FsType, MemType

LEMMA Paths ==
    /\ Dest \subseteq Path /\ Temps \subseteq Path /\ Confs \subseteq Path
    /\ \A p \in Dest : Staging(p) \in Path \ Dest
    /\ Confs \cap Dest = {} /\ Confs \cap Temps = {}
    /\ HashSet \subseteq Content /\ Text \subseteq Content
    /\ Absent \in Content /\ Torn \in Content
BY PathAssumption DEF Path, ConfPaths, KernelPaths, Temps, Content

LEMMA TypeInit ==
    ASSUME Init
    PROVE  TypeOK
<1>1. FsType
    <2>1. InitialDisk \in [Path -> Content]
        BY DiskAssumption DEF Content
    <2> QED
        BY <2>1 DEF Init, FsType
<1>2. MemType
    <2>1. <<>> \in Seq([data : HashSet, dest : Dest])
        OBVIOUS
    <2>2. \A k \in Keys : <<>> \in Seq(HashSet) /\ <<>> \in Seq(HashesOf(k))
        OBVIOUS
    <2>3. unflushed \in BOOLEAN
        BY DEF Init
    <2>4. stale \in [confs : SUBSET ConfPaths, trees : SUBSET Dirs,
                      files : SUBSET KernelPaths]
        BY DEF Init, NoStale
    <2>5. /\ pc \in {"idle", "hash", "install", "copy", "clean", "done", "down"}
          /\ step \in Step
        BY DEF Init, Step
    <2> QED
        BY <2>1, <2>2, <2>3, <2>4, <2>5 DEF Init, MemType
<1> QED
    BY <1>1, <1>2, TypeParts

\* A reset of the program's memory, at the start of a request or at a stop.
LEMMA ResetTypes ==
    ASSUME ResetCopies, cur' = 1, pos' = 1, collisions' = [k \in Keys |-> <<>>],
           stale' = NoStale, undeleted' = {},
           unflushed' \in BOOLEAN,
           pc' \in {"idle", "hash", "down"},
           req' \in Requests \cup {NoRequest}
    PROVE  MemType'
BY DEF ResetCopies, MemType, Step, NoStale

LEMMA HashTypes ==
    ASSUME IInv, HashAsset
    PROVE  TypeOK'
<1> DEFINE a == Entry.assets[pos]
<1>1. /\ req \in Requests
      /\ cur \in DOMAIN req.entries
      /\ pos \in DOMAIN req.entries[cur].assets
    <2>1. req \in Requests
        BY DEF IInv, Control, HashAsset, Serving
    <2> QED
        BY <2>1, RequestAssumption DEF IInv, TypeOK, Control, HashAsset
<1>2. a \in Assets /\ KeyOf(a) \in Keys /\ a.hash \in HashSet
    BY <1>1, RequestParts DEF Entry
<1>3. a.hash \in HashesOf(KeyOf(a))
    BY <1>2 DEF HashesOf
<1>4. /\ collisions' \in [Keys -> Seq(HashSet)]
      /\ \A k \in Keys : collisions'[k] \in Seq(HashesOf(k))
    <2>1. collisions' = Insert(collisions, a)
        BY DEF HashAsset
    <2>2. CASE a.hash \in Hashes(collisions, KeyOf(a))
        BY <2>1, <2>2 DEF Insert, IInv, TypeOK
    <2>3. CASE a.hash \notin Hashes(collisions, KeyOf(a))
        <3>1. collisions' = [collisions EXCEPT ![KeyOf(a)] = Append(@, a.hash)]
            BY <2>1, <2>3 DEF Insert
        <3>2. /\ Append(collisions[KeyOf(a)], a.hash) \in Seq(HashSet)
              /\ Append(collisions[KeyOf(a)], a.hash) \in Seq(HashesOf(KeyOf(a)))
            BY <1>2, <1>3 DEF IInv, TypeOK
        <3> QED
            BY <1>2, <3>1, <3>2 DEF IInv, TypeOK
    <2> QED
        BY <2>2, <2>3
<1>5. cur' \in Nat \ {0} /\ pos' \in Nat \ {0}
    BY DEF HashAsset, IInv, TypeOK
<1> QED
    BY <1>4, <1>5 DEF HashAsset, IInv, TypeOK, vfatVars

LEMMA CopyTypes ==
    ASSUME TypeOK, pc = "copy", Copy, UNCHANGED <<pc, req, cur, pos, collisions, stale, undeleted>>
    PROVE  TypeOK'
<1>1. PICK i \in pending :
          \/ CopyWrite(i)       \/ CopyFlush(i)  \/ CopyRemove(i)
          \/ CopyFlushRemove(i) \/ CopyRename(i) \/ CopyFlushRename(i)
    BY DEF Copy
<1>2. FsType /\ MemType
    BY TypeParts
<1>3. changeset[i].dest \in Dest /\ changeset[i].data \in HashSet
    <2>1. i \in DOMAIN changeset /\ changeset \in Seq([data : HashSet, dest : Dest])
        BY <1>2 DEF MemType
    <2>2. changeset[i] \in [data : HashSet, dest : Dest]
        BY <2>1, SeqElement, Zenon
    <2> QED
        BY <2>2
<1>4. changeset[i].dest \in Path /\ Staging(changeset[i].dest) \in Path
      /\ changeset[i].data \in Content /\ changeset[i].dest # Staging(changeset[i].dest)
    BY <1>3, Paths
<1>5. CASE CopyWrite(i)
    BY <1>2, <1>4, <1>5, PutType, TypeParts DEF CopyWrite, MemType, Step
<1>6. CASE CopyFlush(i)
    BY <1>2, <1>6, SyncfsType, TypeParts DEF CopyFlush, MemType, Step
<1>7. CASE CopyRemove(i)
    BY <1>2, <1>7, UnlinkType, TypeParts DEF CopyRemove, MemType, Step
<1>8. CASE CopyFlushRemove(i)
    BY <1>2, <1>8, SyncfsType, TypeParts DEF CopyFlushRemove, MemType, Step
<1>9. CASE CopyRename(i)
    BY <1>2, <1>4, <1>9, RenameType, TypeParts DEF CopyRename, MemType, Step
<1>10. CASE CopyFlushRename(i)
    BY <1>2, <1>10, SyncfsType, TypeParts DEF CopyFlushRename, MemType, Step
<1> QED
    BY <1>1, <1>5, <1>6, <1>7, <1>8, <1>9, <1>10

LEMMA ScanTypes ==
    ASSUME IInv, Scan
    PROVE  TypeOK'
<1>1. LoaderFiles \subseteq ConfPaths /\ ObsoleteKernels \subseteq Dirs
      /\ ObsoleteFiles \subseteq KernelPaths
    BY DEF LoaderFiles, ObsoleteKernels, KernelDirs, ObsoleteFiles, FilesBelow
<1>2. stale' \in [confs : SUBSET ConfPaths, trees : SUBSET Dirs, files : SUBSET KernelPaths]
    BY <1>1 DEF Scan
<1> QED
    BY <1>2 DEF Scan, IInv, TypeOK, vfatVars

LEMMA RemoveTypes ==
    ASSUME TypeOK, RemoveConf \/ RemoveTree \/ RemoveFile
    PROVE  TypeOK'
<1>1. FsType /\ MemType
    BY TypeParts
<1>2. ConfPaths \subseteq Path /\ KernelPaths \subseteq Path
    BY DEF Path
<1>3. CASE RemoveConf
    <2>1. PICK p \in stale.confs :
              /\ stale' = [stale EXCEPT !.confs = @ \ {p}]
              /\ \/ Unlink({p}) /\ undeleted' = undeleted
                 \/ undeleted' = undeleted \cup {p} /\ UNCHANGED <<disk, outcomes>>
        BY <1>3 DEF RemoveConf
    <2>2. FsType'
        BY <1>1, <2>1, UnlinkType DEF FsType
    <2>3. MemType'
        BY <1>1, <1>2, <1>3, <2>1 DEF RemoveConf, MemType
    <2> QED
        BY <2>2, <2>3, TypeParts
<1>4. CASE RemoveTree
    <2>0. PICK d \in stale.trees : \E gone \in SUBSET FilesBelow(d) :
              /\ stale' = [stale EXCEPT !.trees = @ \ {d}]
              /\ Unlink(gone)
              /\ undeleted' = undeleted \cup (FilesBelow(d) \ gone)
        BY <1>4 DEF RemoveTree
    <2>1. PICK gone \in SUBSET FilesBelow(d) :
              /\ stale' = [stale EXCEPT !.trees = @ \ {d}]
              /\ Unlink(gone)
              /\ undeleted' = undeleted \cup (FilesBelow(d) \ gone)
        BY <2>0
    <2>2. FsType'
        BY <1>1, <2>1, UnlinkType
    <2>3. FilesBelow(d) \subseteq Path
        BY <1>2 DEF FilesBelow
    <2>4. MemType'
        BY <1>1, <1>4, <2>1, <2>3 DEF RemoveTree, MemType
    <2> QED
        BY <2>2, <2>4, TypeParts
<1>5. CASE RemoveFile
    <2>1. PICK p \in stale.files :
              /\ stale' = [stale EXCEPT !.files = @ \ {p}]
              /\ \/ Unlink({p}) /\ undeleted' = undeleted
                 \/ undeleted' = undeleted \cup {p} /\ UNCHANGED <<disk, outcomes>>
        BY <1>5 DEF RemoveFile
    <2>2. FsType'
        BY <1>1, <2>1, UnlinkType DEF FsType
    <2>3. MemType'
        BY <1>1, <1>2, <1>5, <2>1 DEF RemoveFile, MemType
    <2> QED
        BY <2>2, <2>3, TypeParts
<1> QED
    BY <1>3, <1>4, <1>5

LEMMA StopTypes ==
    ASSUME IInv, Stop
    PROVE  TypeOK'
<1>1. FsType /\ MemType
    BY TypeParts DEF IInv
<1>2. MemType'
    <2>1. ResetCopies
        BY DEF Stop, CopyStops, CopyWriteFails
    <2>2. unflushed' \in BOOLEAN
        <3>1. unflushed \in BOOLEAN
            BY <1>1 DEF MemType
        <3>2. unflushed' = unflushed \/ unflushed' = (unflushed \/ step = "flushRename")
            BY DEF Stop, CopyStops, CopyWriteFails
        <3> QED
            BY <3>1, <3>2
    <2> QED
        BY <2>1, <2>2, ResetTypes DEF Stop, Forget
<1>3. FsType'
    <2>1. CASE CopyStops
        BY <1>1, <2>1 DEF CopyStops, FsType
    <2>2. CASE CopyWriteFails
        <3>1. PICK i \in pending : Put(Staging(changeset[i].dest), Torn)
            BY <2>2 DEF CopyWriteFails
        <3>2. i \in DOMAIN changeset /\ changeset \in Seq([data : HashSet, dest : Dest])
            BY <1>1 DEF MemType
        <3>3. changeset[i] \in [data : HashSet, dest : Dest]
            BY <3>2, SeqElement, Zenon
        <3>4. Staging(changeset[i].dest) \in Path
            BY <3>3, Paths
        <3> QED
            BY <1>1, <3>1, <3>4, Paths, PutType
    <2>3. CASE pc = "copy" /\ Put(ConfOf(Entry), Torn)
        <3>1. cur \in DOMAIN req.entries
            BY <2>3, RequestAssumption DEF IInv, Control, Serving, TypeOK
        <3>2. ConfOf(Entry) \in Path
            BY <2>3, <3>1, InstallTypes, Paths DEF Serving, Entry
        <3> QED
            BY <1>1, <2>3, <3>2, Paths, PutType
    <2> QED
        BY <2>1, <2>2, <2>3 DEF Stop
<1> QED
    BY <1>2, <1>3, TypeParts

LEMMA TypeStep ==
    ASSUME IInv, [Next]_vars
    PROVE  TypeOK'
<1>1. FsType /\ MemType /\ TypeOK
    BY TypeParts DEF IInv
<1>2. ASSUME NEW r \in Requests, Begin(r)
      PROVE  TypeOK'
    <2>1. MemType'
        BY <1>1, <1>2, ResetTypes DEF Begin, MemType
    <2>2. FsType'
        BY <1>1, <1>2 DEF Begin, FsType
    <2> QED
        BY <2>1, <2>2, TypeParts
<1>3. CASE HashAsset
    BY <1>3, HashTypes
<1>4. CASE HashDone
    BY <1>1, <1>4 DEF HashDone, TypeOK, vfatVars
<1>5. CASE Install
    <2>1. cur \in DOMAIN req.entries
        BY <1>1, <1>5, RequestAssumption DEF IInv, Install, Control, Serving, TypeOK
    <2>2. ChangesetOf(Entry) \in Seq([data : HashSet, dest : Dest])
        BY <1>5, <2>1, InstallTypes DEF Install, Serving, Entry
    <2>3. changeset' = ChangesetOf(Entry) /\ pending' \subseteq DOMAIN changeset'
          /\ step' \in Step
        BY <1>5 DEF Install, StartCopies, Changed, Step
    <2> QED
        BY <1>1, <1>5, <2>2, <2>3 DEF Install, StartCopies, TypeOK
<1>6. CASE CopyChanged
    BY <1>1, <1>6, CopyTypes DEF CopyChanged
<1>7. CASE WriteConf
    <2>1. cur \in DOMAIN req.entries
        BY <1>1, <1>7, RequestAssumption DEF IInv, WriteConf, Control, Serving, TypeOK
    <2>2. ConfOf(Entry) \in Path /\ TextOf(Entry) \in Content
        BY <1>7, <2>1, InstallTypes, Paths DEF WriteConf, Serving, Entry
    <2>3. FsType'
        BY <1>1, <1>7, <2>2, PutType DEF WriteConf
    <2>4. MemType'
        BY <1>1, <1>7 DEF WriteConf, ResetCopies, MemType, Step
    <2> QED
        BY <2>3, <2>4, TypeParts
<1>8. CASE Scan
    BY <1>8, ScanTypes
<1>9. CASE RemoveConf \/ RemoveTree \/ RemoveFile
    BY <1>1, <1>9, RemoveTypes
<1>10. CASE CleanDone
    BY <1>1, <1>10 DEF CleanDone, TypeOK, vfatVars
<1>11. CASE Stop
    BY <1>11, StopTypes
<1>12. CASE Crash
    <2>1. MemType'
        BY <1>1, <1>12, ResetTypes DEF Crash, Forget
    <2>2. FsType'
        BY <1>1, <1>12 DEF Crash, FsType
    <2> QED
        BY <2>1, <2>2, TypeParts
<1>13. CASE Recover
    <2>1. FsType'
        BY <1>1, <1>13, SettleType DEF Recover, FsType, vfatVars
    <2>2. MemType'
        BY <1>1, <1>13 DEF Recover, Settle, MemType, vfatVars
    <2> QED
        BY <2>1, <2>2, TypeParts
<1>14. CASE UNCHANGED vars
    BY <1>1, <1>14 DEF vars, vfatVars, TypeOK
<1> QED
    BY <1>2, <1>3, <1>4, <1>5, <1>6, <1>7, <1>8, <1>9, <1>10, <1>11, <1>12, <1>13, <1>14
       DEF Next

-----------------------------------------------------------------------------
(* Control.                                                                *)

\* The batch of an entry depends on the request and the collisions alone.
LEMMA SameNames ==
    ASSUME UNCHANGED <<req, collisions>>
    PROVE  /\ \A e : ChangesetOf(e)' = ChangesetOf(e)
           /\ \A e : TextOf(e)' = TextOf(e)
           /\ \A e : ConfOf(e)' = ConfOf(e)
           /\ InstalledConfs' = InstalledConfs
           /\ InstalledFiles' = InstalledFiles
<1>1. \A e, a : AssetPath(e, a)' = AssetPath(e, a)
    BY DEF AssetPath, Effective, EffectiveIn, ConflictIndex, Position
<1>2. /\ \A e : ChangesetOf(e)' = ChangesetOf(e)
      /\ \A e : TextOf(e)' = TextOf(e)
      /\ \A e : ConfOf(e)' = ConfOf(e)
    BY <1>1 DEF ChangesetOf, TextOf, ConfOf
<1> QED
    BY <1>2 DEF InstalledConfs, InstalledFiles

LEMMA CopyFrame ==
    ASSUME Copy
    PROVE  changeset' = changeset
BY DEF Copy, CopyWrite, CopyFlush, CopyRemove, CopyFlushRemove, CopyRename, CopyFlushRename

LEMMA ControlStep ==
    ASSUME IInv, [Next]_vars
    PROVE  Control'
<1>1. TypeOK /\ Control
    BY DEF IInv
<1>2. ASSUME NEW r \in Requests, Begin(r)
      PROVE  Control'
    <2>1. r.entries \in Seq(Entries)
        BY RequestAssumption
    <2>2. 1 <= Len(r.entries) => 1 \in DOMAIN r.entries[1].assets
        <3>1. SUFFICES ASSUME 1 \in DOMAIN r.entries
                       PROVE  1 \in DOMAIN r.entries[1].assets
            BY <2>1
        <3>2. r.entries[1] \in Range(r.entries)
            BY <3>1 DEF Range
        <3>3. r.entries[1].assets \in Seq(Assets) \ {<<>>}
            BY <3>2, AssetAssumption
        <3> QED
            BY <3>3
    <2>3. Len(r.entries) \in Nat
        BY <2>1
    <2> QED
        BY <1>2, <2>2, <2>3 DEF Begin, ResetCopies, Control, Serving
<1>3. CASE HashAsset
    <2>1. req \in Requests /\ req.entries \in Seq(Entries) /\ cur \in DOMAIN req.entries
        BY <1>1, <1>3, RequestAssumption DEF HashAsset, TypeOK, Control, Serving
    <2>2. \A i \in DOMAIN req.entries : 1 \in DOMAIN req.entries[i].assets
        <3>1. SUFFICES ASSUME NEW i \in DOMAIN req.entries
                       PROVE  1 \in DOMAIN req.entries[i].assets
            OBVIOUS
        <3>2. req.entries[i] \in Range(req.entries)
            BY DEF Range
        <3>3. req.entries[i].assets \in Seq(Assets) \ {<<>>}
            BY <2>1, <3>2, AssetAssumption
        <3> QED
            BY <3>3
    <2>3. Entry.assets \in Seq(Assets) /\ pos \in DOMAIN Entry.assets
        <3>1. Entry \in Range(req.entries)
            BY <2>1 DEF Entry, Range
        <3> QED
            BY <1>1, <1>3, <2>1, <3>1, AssetAssumption DEF HashAsset, Control, Entry
    <2>4. /\ pc' = pc /\ req' = req /\ changeset' = changeset
          /\ pending' = pending /\ step' = step /\ pc = "hash"
        BY <1>3 DEF HashAsset, vfatVars
    <2>5. CASE pos < Len(Entry.assets)
        <3>1. pos' = pos + 1 /\ cur' = cur
            BY <1>3, <2>5 DEF HashAsset
        <3> QED
            BY <1>1, <2>1, <2>3, <2>4, <2>5, <3>1 DEF Control, Serving, Entry
    <2>6. CASE ~(pos < Len(Entry.assets))
        <3>1. pos' = 1 /\ cur' = cur + 1
            BY <1>3, <2>6 DEF HashAsset
        <3>2. cur + 1 <= Len(req.entries) => cur + 1 \in DOMAIN req.entries
            BY <2>1
        <3> QED
            BY <1>1, <2>1, <2>2, <2>4, <3>1, <3>2 DEF Control, Serving
    <2> QED
        BY <2>5, <2>6
<1>4. CASE HashDone
    <2>1. Len(req.entries) \in Nat
        BY <1>1, <1>4, RequestAssumption DEF HashDone, Control, Serving
    <2> QED
        BY <1>1, <1>4, <2>1 DEF HashDone, Control, Serving, vfatVars
<1>5. CASE Install
    <2>1. changeset' = ChangesetOf(Entry)'
        BY <1>5, SameNames DEF Install, StartCopies, Entry
    <2> QED
        BY <1>1, <1>5, <2>1 DEF Install, StartCopies, Control, Serving
<1>6. CASE CopyChanged
    <2>1. ChangesetOf(Entry)' = ChangesetOf(Entry)
        BY <1>6, SameNames DEF CopyChanged, Entry
    <2> QED
        BY <1>1, <1>6, <2>1, CopyFrame DEF CopyChanged, Control, Serving
<1>7. CASE WriteConf
    <2>1. Len(req.entries) \in Nat
        BY <1>1, <1>7, RequestAssumption DEF WriteConf, Control, Serving
    <2> QED
        BY <1>1, <1>7, <2>1 DEF WriteConf, ResetCopies, Control, Serving
<1>8. CASE Scan
    <2>1. Len(req.entries) \in Nat
        BY <1>1, <1>8, RequestAssumption DEF Scan, Control, Serving
    <2> QED
        BY <1>1, <1>8, <2>1 DEF Scan, vfatVars, Control, Serving, TypeOK
<1>9. CASE RemoveConf \/ RemoveTree \/ RemoveFile
    BY <1>1, <1>9 DEF RemoveConf, RemoveTree, RemoveFile, Control, Serving
<1>10. CASE CleanDone
    BY <1>1, <1>10 DEF CleanDone, vfatVars, Control, Serving
<1>11. CASE Stop
    <2>1. ResetCopies
        BY <1>11 DEF Stop, CopyStops, CopyWriteFails
    <2> QED
        BY <1>11, <2>1 DEF Stop, ResetCopies, Control, Serving
<1>12. CASE Crash
    BY <1>12 DEF Crash, ResetCopies, Control, Serving
<1>13. CASE Recover
    <2>1. pc' \in {"down", "idle"} /\ changeset' = changeset
          /\ pending' = pending /\ step' = step /\ pc = "down"
        BY <1>13 DEF Recover, Settle, vfatVars
    <2> QED
        BY <1>1, <2>1 DEF Control, Serving
<1>14. CASE UNCHANGED vars
    <2>1. ChangesetOf(Entry)' = ChangesetOf(Entry)
        BY <1>14, SameNames DEF vars, Entry
    <2> QED
        BY <1>1, <1>14, <2>1 DEF vars, vfatVars, Control, Serving
<1> QED
    BY <1>2, <1>3, <1>4, <1>5, <1>6, <1>7, <1>8, <1>9, <1>10, <1>11, <1>12, <1>13, <1>14
       DEF Next

-----------------------------------------------------------------------------
(* Collisions.                                                             *)

LEMMA InsertHashes ==
    ASSUME NEW c \in [Keys -> Seq(HashSet)], NEW a, KeyOf(a) \in Keys, a.hash \in HashSet,
           \A k \in Keys : Distinct(c[k])
    PROVE  /\ a.hash \in Hashes(Insert(c, a), KeyOf(a))
           /\ \A k \in Keys : Hashes(c, k) \subseteq Hashes(Insert(c, a), k)
           /\ \A k \in Keys : Distinct(Insert(c, a)[k])
<1> DEFINE K == KeyOf(a)
           h == a.hash
           s == c[K]
<1>1. CASE h \in Hashes(c, K)
    BY <1>1 DEF Insert
<1>2. CASE h \notin Hashes(c, K)
    <2>1. Insert(c, a) = [c EXCEPT ![K] = Append(s, h)]
        BY <1>2 DEF Insert
    <2>2. s \in Seq(HashSet)
        OBVIOUS
    <2> HIDE DEF s, h, K
    <2>3. /\ DOMAIN Append(s, h) = 1..(Len(s) + 1)
          /\ DOMAIN s = 1..Len(s) /\ Len(s) \in Nat
          /\ Append(s, h)[Len(s) + 1] = h
          /\ \A i \in DOMAIN s : Append(s, h)[i] = s[i]
        BY <2>2
    <2>4. \A k \in Keys : Insert(c, a)[k] = IF k = K THEN Append(s, h) ELSE c[k]
        BY <2>1 DEF s
    <2>5. K \in Keys /\ c[K] = s
        BY DEF K, s
    <2>6. h \in Hashes(Insert(c, a), K)
        <3>1. Insert(c, a)[K] = Append(s, h)
            BY <2>4, <2>5
        <3>2. Len(s) + 1 \in DOMAIN Append(s, h)
            BY <2>3
        <3> QED
            BY <2>3, <3>1, <3>2, Zenon DEF Hashes
    <2>7. \A k \in Keys : Hashes(c, k) \subseteq Hashes(Insert(c, a), k)
        <3>1. SUFFICES ASSUME NEW k \in Keys, NEW i \in DOMAIN c[k]
                       PROVE  c[k][i] \in Hashes(Insert(c, a), k)
            BY DEF Hashes
        <3>2. CASE k = K
            <4>1. i \in DOMAIN Append(s, h) /\ Append(s, h)[i] = c[k][i]
                BY <2>3, <2>5, <3>2
            <4>2. Insert(c, a)[k] = Append(s, h)
                BY <2>4, <3>2
            <4> QED
                BY <4>1, <4>2, Zenon DEF Hashes
        <3>3. CASE k # K
            <4>1. Insert(c, a)[k] = c[k]
                BY <2>4, <3>3
            <4> QED
                BY <4>1, Zenon DEF Hashes
        <3> QED
            BY <3>2, <3>3
    <2>8. \A i \in DOMAIN s : s[i] # h
        BY <1>2, <2>5 DEF Hashes
    <2>9. Distinct(Append(s, h))
        <3>1. Distinct(s)
            BY <2>5
        <3> QED
            BY <2>3, <2>8, <3>1 DEF Distinct
    <2>10. \A k \in Keys : Distinct(Insert(c, a)[k])
        BY <2>4, <2>9
    <2> QED
        BY <2>6, <2>7, <2>10 DEF h, K
<1> QED
    BY <1>1, <1>2

LEMMA CollectedStep ==
    ASSUME IInv, [Next]_vars
    PROVE  Collected'
<1>1. TypeOK /\ Control /\ Collected
    BY DEF IInv
<1>2. ASSUME collisions' = [k \in Keys |-> <<>>],
             pc' \in {"idle", "down"} \/ (pc' = "hash" /\ cur' = 1 /\ pos' = 1)
      PROVE  Collected'
    <2>1. \A k \in Keys : Distinct(collisions'[k])
        BY <1>2 DEF Distinct
    <2>2. ASSUME Serving', NEW i \in DOMAIN req'.entries,
                 NEW j \in DOMAIN req'.entries[i].assets, Inserted(i, j)'
          PROVE  FALSE
        <3>1. req' \in Requests
            BY <2>2, ControlStep DEF Control
        <3>2. i \in Nat \ {0}
            BY <2>2, <3>1, RequestAssumption
        <3>3. j \in Nat \ {0}
            BY <2>2, <3>1, RequestParts
        <3> QED
            BY <1>2, <2>2, <3>2, <3>3 DEF Inserted, Serving
    <2> QED
        BY <2>1, <2>2 DEF Collected
<1>3. ASSUME UNCHANGED <<req, collisions>>, Serving' => Serving,
             Serving => \A i \in DOMAIN req.entries :
                 \A j \in DOMAIN req.entries[i].assets : Inserted(i, j)' => Inserted(i, j)
      PROVE  Collected'
    BY <1>1, <1>3 DEF Collected, Hashes
<1>4. ASSUME NEW r \in Requests, Begin(r)
      PROVE  Collected'
    BY <1>2, <1>4 DEF Begin
<1>5. CASE HashAsset
    <2>1. req \in Requests /\ req.entries \in Seq(Entries) /\ cur \in DOMAIN req.entries
          /\ pos \in DOMAIN req.entries[cur].assets
        BY <1>1, <1>5, RequestAssumption DEF HashAsset, TypeOK, Control, Serving
    <2> DEFINE a == Entry.assets[pos]
    <2>2. KeyOf(a) \in Keys /\ a.hash \in HashSet
        BY <2>1, RequestParts DEF Entry
    <2>3. collisions' = Insert(collisions, a) /\ req' = req /\ pc' = "hash" /\ pc = "hash"
        BY <1>5 DEF HashAsset
    <2>4. /\ a.hash \in Hashes(collisions', KeyOf(a))
          /\ \A k \in Keys : Hashes(collisions, k) \subseteq Hashes(collisions', k)
          /\ \A k \in Keys : Distinct(collisions'[k])
        <3>1. collisions \in [Keys -> Seq(HashSet)] /\ \A k \in Keys : Distinct(collisions[k])
            BY <1>1 DEF TypeOK, Collected
        <3> QED
            BY <2>2, <2>3, <3>1, InsertHashes
    <2>5. ASSUME NEW i \in DOMAIN req.entries, NEW j \in DOMAIN req.entries[i].assets,
                 Inserted(i, j)'
          PROVE  Inserted(i, j) \/ (i = cur /\ j = pos)
        <3>1. i \in Nat /\ j \in Nat /\ cur \in Nat /\ pos \in Nat
              /\ (i = cur => j <= Len(Entry.assets))
            <4>1. req.entries[i].assets \in Seq(Assets)
                BY <2>1, RequestParts
            <4> QED
                BY <1>1, <2>1, <4>1 DEF TypeOK, Entry
        <3>2. i < cur' \/ (i = cur' /\ j < pos')
            BY <2>3, <2>5 DEF Inserted
        <3>3. CASE pos < Len(Entry.assets)
            BY <1>5, <3>1, <3>2, <3>3 DEF HashAsset, Inserted
        <3>4. CASE ~(pos < Len(Entry.assets))
            <4>1. cur' = cur + 1 /\ pos' = 1
                BY <1>5, <3>4 DEF HashAsset
            <4>2. Len(Entry.assets) \in Nat
                BY <2>1, RequestParts DEF Entry
            <4>3. j # 0
                BY <2>1, RequestParts
            <4> QED
                BY <3>1, <3>2, <3>4, <4>1, <4>2, <4>3 DEF Inserted
        <3> QED
            BY <3>3, <3>4
    <2>6. \A i \in DOMAIN req.entries : \A j \in DOMAIN req.entries[i].assets :
              KeyOf(req.entries[i].assets[j]) \in Keys
        BY <2>1, RequestParts
    <2>7. Serving
        BY <2>3 DEF Serving
    <2> QED
        BY <1>1, <2>3, <2>4, <2>5, <2>6, <2>7 DEF Collected, Entry
<1>6. CASE HashDone
    <2>1. ASSUME NEW i \in DOMAIN req.entries, NEW j \in DOMAIN req.entries[i].assets
          PROVE  Inserted(i, j)
        <3>1. req.entries \in Seq(Entries)
            BY <1>1, <1>6, RequestAssumption DEF HashDone, Control, Serving
        <3> QED
            BY <1>1, <1>6, <3>1 DEF HashDone, Inserted, TypeOK
    <2> QED
        BY <1>3, <1>6, <2>1 DEF HashDone, Serving
<1>7. CASE Install \/ CopyChanged \/ WriteConf \/ Scan \/ CleanDone
           \/ RemoveConf \/ RemoveTree \/ RemoveFile
    <2>1. UNCHANGED <<req, collisions>> /\ Serving /\ pc # "hash"
        BY <1>7 DEF Install, CopyChanged, WriteConf, Scan, CleanDone,
                    RemoveConf, RemoveTree, RemoveFile, Serving
    <2> QED
        BY <1>3, <2>1 DEF Inserted
<1>8. CASE Stop \/ Crash
    BY <1>2, <1>8 DEF Stop, Crash, Forget
<1>9. CASE Recover
    BY <1>3, <1>9 DEF Recover, Serving, Settle, vfatVars
<1>10. CASE UNCHANGED vars
    BY <1>3, <1>10 DEF vars, Serving, Inserted
<1> QED
    BY <1>4, <1>5, <1>6, <1>7, <1>8, <1>9, <1>10 DEF Next

-----------------------------------------------------------------------------
(* Staging files and torn assets.                                          *)

\* The copy in progress is the one of the least pending index.
LEMMA NextUnique ==
    ASSUME TypeOK, NEW i \in pending, IsNext(i), NEW k \in pending, IsNext(k)
    PROVE  i = k
<1>1. i \in Nat /\ k \in Nat
    BY DEF TypeOK
<1> QED
    BY <1>1 DEF IsNext

LEMMA PendingItem ==
    ASSUME TypeOK, NEW i \in pending
    PROVE  /\ changeset[i].dest \in Dest /\ changeset[i].data \in HashSet
           /\ changeset[i].dest \in Path
           /\ Staging(changeset[i].dest) \in Path \ Dest
<1>1. i \in DOMAIN changeset /\ changeset \in Seq([data : HashSet, dest : Dest])
    BY DEF TypeOK
<1>2. changeset[i] \in [data : HashSet, dest : Dest]
    BY <1>1, SeqElement, Zenon
<1> QED
    BY <1>2, Paths

LEMMA StagedStep ==
    ASSUME IInv, [Next]_vars
    PROVE  Staged'
<1>1. TypeOK /\ Control /\ Staged
    BY DEF IInv
<1>2. CASE CopyChanged
    <2>1. PICK i \in pending :
              /\ IsNext(i)
              /\ \/ CopyWrite(i)       \/ CopyFlush(i)  \/ CopyRemove(i)
                 \/ CopyFlushRemove(i) \/ CopyRename(i) \/ CopyFlushRename(i)
        BY <1>2 DEF CopyChanged, Copy
    <2> DEFINE to   == changeset[i].dest
               from == Staging(to)
               data == changeset[i].data
    <2>2. to \in Path /\ from \in Path /\ to # from /\ changeset' = changeset
        BY <1>1, <1>2, PendingItem, CopyFrame DEF CopyChanged
    <2>3. disk \in [Path -> Content] /\ outcomes \in [Path -> SUBSET Content]
        BY <1>1 DEF TypeOK
    <2>4. SUFFICES ASSUME pending' = pending
                   PROVE  /\ step' \in {"flush", "remove", "flushRemove", "rename"} =>
                                 disk'[from] = data
                          /\ step' \in {"remove", "flushRemove", "rename"} =>
                                 outcomes'[from] = {data}
                          /\ step' = "flushRename" => disk'[to] = data
        <3>1. CASE CopyFlushRename(i)
            BY <3>1 DEF CopyFlushRename, Staged
        <3>2. CASE ~CopyFlushRename(i)
            <4>1. pending' = pending
                BY <2>1, <3>2 DEF CopyWrite, CopyFlush, CopyRemove, CopyFlushRemove, CopyRename
            <4>2. \A k \in pending : IsNext(k) => k = i
                BY <1>1, <2>1, NextUnique
            <4>3. \A k \in pending' : IsNext(k)' => k = i
                BY <4>1, <4>2 DEF IsNext
            <4> QED
                BY <2>2, <2>4, <4>1, <4>3 DEF Staged
        <3> QED
            BY <3>1, <3>2
    <2>5. /\ step \in {"flush", "remove", "flushRemove", "rename"} => disk[from] = data
          /\ step \in {"remove", "flushRemove", "rename"} => outcomes[from] = {data}
        BY <1>1, <2>1 DEF Staged
    <2>6. CASE CopyWrite(i)
        BY <2>2, <2>3, <2>6 DEF CopyWrite, Put
    <2>7. CASE CopyFlush(i)
        BY <2>2, <2>3, <2>5, <2>7 DEF CopyFlush, Syncfs
    <2>8. CASE CopyRemove(i)
        BY <2>2, <2>3, <2>5, <2>8 DEF CopyRemove, Unlink
    <2>9. CASE CopyFlushRemove(i)
        BY <2>2, <2>3, <2>5, <2>9 DEF CopyFlushRemove, Syncfs
    <2>10. CASE CopyRename(i)
        BY <2>2, <2>3, <2>5, <2>10 DEF CopyRename, Rename
    <2>11. CASE CopyFlushRename(i)
        BY <2>11 DEF CopyFlushRename
    <2> QED
        BY <2>1, <2>6, <2>7, <2>8, <2>9, <2>10, <2>11
<1>3. CASE Install
    BY <1>3 DEF Install, StartCopies, Staged
<1>4. CASE UNCHANGED vars
    BY <1>1, <1>4 DEF vars, vfatVars, Staged, IsNext
<1>5. CASE ~CopyChanged /\ ~Install /\ Next
    <2>1. pending' = {}
        <3>1. CASE \E r \in Requests : Begin(r)
            BY <3>1 DEF Begin, ResetCopies
        <3>2. CASE WriteConf \/ Stop \/ Crash
            BY <3>2 DEF WriteConf, Stop, Crash, CopyStops, CopyWriteFails, ResetCopies
        <3>3. CASE HashAsset \/ HashDone \/ Scan \/ RemoveConf \/ RemoveTree
                   \/ RemoveFile \/ CleanDone \/ Recover
            BY <1>1, <3>3 DEF HashAsset, HashDone, Scan, RemoveConf, RemoveTree, RemoveFile,
                              CleanDone, Recover, Settle, vfatVars, Control
        <3> QED
            BY <1>5, <3>1, <3>2, <3>3 DEF Next
    <2> QED
        BY <2>1 DEF Staged
<1> QED
    BY <1>2, <1>3, <1>4, <1>5

LEMMA NeverTornStep ==
    ASSUME IInv, [Next]_vars
    PROVE  AssetsNeverTorn'
<1>1. TypeOK /\ Control /\ Staged /\ AssetsNeverTorn
    BY DEF IInv
<1>2. /\ disk \in [Path -> Content] /\ outcomes \in [Path -> SUBSET Content]
      /\ Dest \subseteq Path /\ Torn \notin HashSet /\ Torn # Absent
      /\ \A p \in Path : disk[p] \in outcomes[p]
    BY <1>1, Paths, AssetAssumption, ContentAssumption DEF TypeOK
<1>3. ASSUME Syncfs
      PROVE  AssetsNeverTorn'
    BY <1>1, <1>2, <1>3 DEF Syncfs, AssetsNeverTorn
<1>4. ASSUME NEW gone, Unlink(gone)
      PROVE  AssetsNeverTorn'
    BY <1>1, <1>2, <1>4 DEF Unlink, AssetsNeverTorn
<1>5. ASSUME NEW p \in Path \ Dest, NEW c, Put(p, c)
      PROVE  AssetsNeverTorn'
    BY <1>1, <1>2, <1>5 DEF Put, AssetsNeverTorn
<1>6. ASSUME UNCHANGED outcomes
      PROVE  AssetsNeverTorn'
    BY <1>1, <1>6 DEF AssetsNeverTorn
<1>7. CASE CopyChanged
    <2>1. PICK i \in pending :
              /\ IsNext(i)
              /\ \/ CopyWrite(i)       \/ CopyFlush(i)  \/ CopyRemove(i)
                 \/ CopyFlushRemove(i) \/ CopyRename(i) \/ CopyFlushRename(i)
        BY <1>7 DEF CopyChanged, Copy
    <2>2. CASE CopyWrite(i)
        BY <1>1, <1>5, <2>2, PendingItem DEF CopyWrite
    <2>3. CASE CopyFlush(i) \/ CopyFlushRemove(i) \/ CopyFlushRename(i)
        BY <1>3, <2>3 DEF CopyFlush, CopyFlushRemove, CopyFlushRename
    <2>4. CASE CopyRemove(i)
        BY <1>4, <2>4 DEF CopyRemove
    <2>5. CASE CopyRename(i)
        <3>1. outcomes[Staging(changeset[i].dest)] = {changeset[i].data}
            BY <1>1, <2>1, <2>5 DEF CopyRename, Staged
        <3>2. changeset[i].data # Torn
            BY <1>1, <1>2, PendingItem
        <3> QED
            BY <1>1, <1>2, <2>5, <3>1, <3>2, PendingItem DEF CopyRename, Rename, AssetsNeverTorn
    <2> QED
        BY <2>1, <2>2, <2>3, <2>4, <2>5
<1>8. CASE WriteConf \/ Stop
    <2>1. ASSUME pc = "copy"
          PROVE  ConfOf(Entry) \in Path \ Dest
        <3>1. cur \in DOMAIN req.entries
            BY <1>1, <2>1, RequestAssumption DEF Control, Serving, TypeOK
        <3> QED
            BY <2>1, <3>1, InstallTypes, Paths DEF Serving, Entry
    <2>2. CASE WriteConf
        BY <1>5, <2>1, <2>2 DEF WriteConf
    <2>3. CASE Stop
        BY <1>1, <1>5, <1>6, <2>1, <2>3, PendingItem DEF Stop, CopyStops, CopyWriteFails
    <2> QED
        BY <1>8, <2>2, <2>3
<1>9. CASE RemoveConf \/ RemoveTree \/ RemoveFile
    BY <1>4, <1>6, <1>9 DEF RemoveConf, RemoveTree, RemoveFile
<1>10. CASE Recover
    <2>1. CASE Settle
        <3>1. PICK p, c : /\ p \in Path /\ c \in outcomes[p]
                          /\ outcomes' = [outcomes EXCEPT ![p] = {c}]
            BY <1>2, <2>1 DEF Settle, Dirty
        <3> QED
            BY <1>1, <1>2, <3>1 DEF AssetsNeverTorn
    <2>2. CASE ~Settle
        BY <1>6, <1>10, <2>2 DEF Recover, vfatVars
    <2> QED
        BY <2>1, <2>2
<1>11. CASE \/ \E r \in Requests : Begin(r)
            \/ HashAsset \/ HashDone \/ Install \/ Scan \/ CleanDone \/ Crash
            \/ UNCHANGED vars
    BY <1>6, <1>11 DEF Begin, HashAsset, HashDone, Install, StartCopies, Scan, CleanDone,
                       Crash, vars, vfatVars
<1> QED
    BY <1>7, <1>8, <1>9, <1>10, <1>11 DEF Next

-----------------------------------------------------------------------------
(***************************************************************************)
(* The invariant holds initially and is preserved by every step.           *)
(***************************************************************************)
LEMMA IInvInit ==
    ASSUME Init
    PROVE  IInv
<1>1. Control
    BY DEF Init, Control, Serving
<1>2. Collected
    BY DEF Init, Collected, Serving, Distinct
<1>3. Staged
    BY DEF Init, Staged
<1>4. AssetsNeverTorn
    BY DiskAssumption, Paths DEF Init, AssetsNeverTorn
<1> QED
    BY <1>1, <1>2, <1>3, <1>4, TypeInit DEF IInv

LEMMA IInvStep ==
    ASSUME IInv, [Next]_vars
    PROVE  IInv'
BY TypeStep, ControlStep, CollectedStep, StagedStep, NeverTornStep DEF IInv

THEOREM Invariance == Spec => []IInv
<1>1. Init => IInv
    BY IInvInit
<1>2. IInv /\ [Next]_vars => IInv'
    BY IInvStep
<1> QED
    BY <1>1, <1>2, PTL DEF Spec

(***************************************************************************)
(* Every variable keeps its type; in particular no path that install       *)
(* computes lies outside the directories and names of the request.         *)
(***************************************************************************)
THEOREM TypeCorrect == Spec => []TypeOK
<1>1. IInv => TypeOK
    BY DEF IInv
<1> QED
    BY <1>1, Invariance, PTL

(***************************************************************************)
(* copy_atomic_vfat does what its comment promises: whatever is            *)
(* interrupted, and however often, no power failure can leave a torn       *)
(* kernel or initrd under its installed name.                              *)
(***************************************************************************)
THEOREM NeverTorn == Spec => []AssetsNeverTorn
<1>1. IInv => AssetsNeverTorn
    BY DEF IInv
<1> QED
    BY <1>1, Invariance, PTL

-----------------------------------------------------------------------------
(***************************************************************************)
(* What is installed stays intact.                                         *)
(***************************************************************************)

\* What an entry of the request and one of its assets are known to satisfy.
LEMMA EntryFacts ==
    ASSUME IInv, Serving, NEW i \in DOMAIN req.entries,
           NEW j \in DOMAIN req.entries[i].assets
    PROVE  /\ req \in Requests
           /\ req.entries[i] \in Range(req.entries)
           /\ req.entries[i].assets[j] \in Range(req.entries[i].assets)
           /\ KeyOf(req.entries[i].assets[j]) \in Keys
           /\ req.entries[i].assets[j].version = req.entries[i].version
           /\ req.entries[i].version \notin {"", "shared"}
           /\ Effective(req.entries[i]).kind # "legacy" =>
                  (req.entries[i].assets[j].kind = "image"
                      <=> req.entries[i].assets[j].file = "vmlinuz")
<1>1. req \in Requests
    BY DEF IInv, Control
<1>2. /\ req.entries[i] \in Range(req.entries)
      /\ req.entries[i].assets[j] \in Range(req.entries[i].assets)
      /\ KeyOf(req.entries[i].assets[j]) \in Keys
    BY <1>1, RequestParts
<1>3. /\ req.entries[i].assets[j].version = req.entries[i].version
      /\ req.entries[i].version \notin {"", "shared"}
    BY <1>1, <1>2, AssetAssumption
<1> QED
    BY <1>1, <1>2, <1>3, RequestAssumption DEF Effective

\* Two assets of one key and one conflict index have one content.
LEMMA SameIndexSameHash ==
    ASSUME NEW c, NEW a, NEW b, KeyOf(a) = KeyOf(b),
           NEW S, c[KeyOf(a)] \in Seq(S),
           a.hash \in Hashes(c, KeyOf(a)), b.hash \in Hashes(c, KeyOf(b)),
           ConflictIndex(c, a) = ConflictIndex(c, b)
    PROVE  a.hash = b.hash
<1> DEFINE s == c[KeyOf(a)]
<1>1. /\ Position(c, a) \in DOMAIN s /\ s[Position(c, a)] = a.hash
      /\ Position(c, b) \in DOMAIN s /\ s[Position(c, b)] = b.hash
    BY PositionFound, Zenon
<1>2. DOMAIN s = 1..Len(s) /\ Len(s) \in Nat
    OBVIOUS
<1>3. Position(c, a) = Position(c, b)
    <2>1. CASE Len(s) > 1
        <3>1. Position(c, a) - 1 = Position(c, b) - 1
            BY <2>1 DEF ConflictIndex
        <3> QED
            BY <1>1, <1>2, <3>1
    <2>2. CASE ~(Len(s) > 1)
        BY <1>1, <1>2, <2>2
    <2> QED
        BY <2>1, <2>2
<1> QED
    BY <1>1, <1>3

(***************************************************************************)
(* Installed names are injective on contents: where two assets of a        *)
(* request are installed at one path, they are the same bytes.             *)
(***************************************************************************)
LEMMA NoClash ==
    ASSUME IInv, Serving, pc # "hash",
           NEW i \in DOMAIN req.entries, NEW j \in DOMAIN req.entries[i].assets,
           NEW k \in DOMAIN req.entries, NEW l \in DOMAIN req.entries[k].assets,
           AssetPath(req.entries[i], req.entries[i].assets[j])
               = AssetPath(req.entries[k], req.entries[k].assets[l])
    PROVE  req.entries[i].assets[j].hash = req.entries[k].assets[l].hash
<1> DEFINE e == req.entries[i]
           f == req.entries[k]
           a == e.assets[j]
           b == f.assets[l]
<1>1. InstalledPath(Effective(e), a, ConflictIndex(collisions, a))
          = InstalledPath(Effective(f), b, ConflictIndex(collisions, b))
    BY DEF AssetPath
<1>2. /\ req \in Requests /\ e \in Range(req.entries) /\ f \in Range(req.entries)
      /\ a \in Range(e.assets) /\ b \in Range(f.assets)
      /\ a.version \notin {"", "shared"} /\ b.version \notin {"", "shared"}
      /\ Effective(e).kind # "legacy" => (a.kind = "image" <=> a.file = "vmlinuz")
      /\ Effective(f).kind # "legacy" => (b.kind = "image" <=> b.file = "vmlinuz")
    BY EntryFacts
<1>3. CASE Effective(e).kind = "legacy" /\ Effective(f).kind = "legacy"
    <2>1. /\ EffectiveIn(req, e).kind = "legacy" /\ EffectiveIn(req, f).kind = "legacy"
          /\ InstalledPath(EffectiveIn(req, e), a, NoSuffix)
                 = InstalledPath(EffectiveIn(req, f), b, NoSuffix)
        BY <1>1, <1>3 DEF InstalledPath, Effective
    <2>2. \A x, y \in Range(req.entries) : \A u \in Range(x.assets), v \in Range(y.assets) :
              /\ EffectiveIn(req, x).kind = "legacy"
              /\ EffectiveIn(req, y).kind = "legacy"
              /\ InstalledPath(EffectiveIn(req, x), u, NoSuffix)
                     = InstalledPath(EffectiveIn(req, y), v, NoSuffix)
              => u.hash = v.hash
        BY <1>2, RequestAssumption
    <2> HIDE DEF e, f, a, b
    <2>3. a.hash = b.hash
        BY <1>2, <2>1, <2>2
    <2> QED
        BY <2>3 DEF e, f, a, b
<1>4. CASE ~(Effective(e).kind = "legacy" <=> Effective(f).kind = "legacy")
    BY <1>1, <1>2, <1>4 DEF InstalledPath
<1>5. CASE Effective(e).kind # "legacy" /\ Effective(f).kind # "legacy"
    <2>1. KeyOf(a) = KeyOf(b) /\ ConflictIndex(collisions, a) = ConflictIndex(collisions, b)
        BY <1>1, <1>2, <1>5 DEF InstalledPath, KeyOf
    <2>2. a.hash \in Hashes(collisions, KeyOf(a)) /\ b.hash \in Hashes(collisions, KeyOf(b))
        BY DEF IInv, Collected, Inserted
    <2>3. collisions[KeyOf(a)] \in Seq(HashSet)
        BY EntryFacts DEF IInv, TypeOK
    <2> QED
        BY <2>1, <2>2, <2>3, SameIndexSameHash
<1> QED
    BY <1>3, <1>4, <1>5

\* The entries installed so far, by their index.
LEMMA InstalledIndex ==
    ASSUME IInv, NEW e \in InstalledEntries
    PROVE  /\ Serving /\ pc \in {"install", "copy", "clean", "done"}
           /\ \E i \in DOMAIN req.entries : i < cur /\ e = req.entries[i]
           /\ e \in Range(req.entries)
           /\ ConfOf(e) \in Confs
           /\ \A j \in DOMAIN e.assets : TextOf(e)[j] \in Dest
<1>1. pc \in {"install", "copy", "clean", "done"} /\ Serving
    BY DEF InstalledEntries, Serving
<1>2. PICK i \in 1..(cur - 1) : e = req.entries[i]
    BY DEF InstalledEntries
<1>3. req.entries \in Seq(Entries) /\ cur \in 1..(Len(req.entries) + 1)
    BY <1>1, RequestAssumption DEF IInv, Control
<1>4. i \in DOMAIN req.entries /\ i < cur
    BY <1>2, <1>3
<1>5. ConfOf(e) \in Confs /\ TextOf(e) \in Text
    BY <1>1, <1>2, <1>4, InstallTypes
<1>6. \A j \in DOMAIN e.assets : TextOf(e)[j] \in Dest
    BY <1>1, <1>2, <1>4, AssetPathType DEF TextOf
<1>7. e \in Range(req.entries)
    BY <1>2, <1>4 DEF Range
<1> QED
    BY <1>1, <1>2, <1>4, <1>5, <1>6, <1>7

\* Files that no step of a kind touches keep what is installed intact.
LEMMA IntactFrame ==
    ASSUME IInv, InstalledIntact, UNCHANGED <<req, collisions>>,
           InstalledEntries' \subseteq InstalledEntries,
           \A e \in InstalledEntries :
               /\ disk'[ConfOf(e)] = disk[ConfOf(e)]
               /\ \A j \in DOMAIN e.assets : disk'[TextOf(e)[j]] = disk[TextOf(e)[j]]
    PROVE  InstalledIntact'
BY SameNames DEF InstalledIntact

LEMMA CopyIntact ==
    ASSUME IInv, InstalledIntact, Copied, CopyChanged
    PROVE  InstalledIntact' /\ Copied'
<1>1. TypeOK /\ Control /\ Staged
    BY DEF IInv
<1>2. PICK i \in pending :
          /\ IsNext(i)
          /\ \/ CopyWrite(i)       \/ CopyFlush(i)  \/ CopyRemove(i)
             \/ CopyFlushRemove(i) \/ CopyRename(i) \/ CopyFlushRename(i)
    BY DEF CopyChanged, Copy
<1> DEFINE to   == changeset[i].dest
           from == Staging(to)
<1>3. to \in Dest /\ to \in Path /\ from \in Temps /\ from \in Path \ Dest
    BY <1>1, PendingItem DEF Temps
<1>4. \A p \in Path : p # to /\ p # from => disk'[p] = disk[p]
    <2>1. disk \in [Path -> Content]
        BY <1>1 DEF TypeOK
    <2> HIDE DEF to, from
    <2>2. CASE CopyWrite(i)
        BY <1>3, <2>1, <2>2 DEF CopyWrite, Put, to, from
    <2>3. CASE CopyFlush(i) \/ CopyFlushRemove(i) \/ CopyFlushRename(i)
        BY <2>3 DEF CopyFlush, CopyFlushRemove, CopyFlushRename, Syncfs
    <2>4. CASE CopyRemove(i)
        BY <1>3, <2>1, <2>4 DEF CopyRemove, Unlink, to, from
    <2>5. CASE CopyRename(i)
        BY <1>3, <2>1, <2>5 DEF CopyRename, Rename, to, from
    <2> QED
        BY <1>2, <2>2, <2>3, <2>4, <2>5
<1>5. UNCHANGED <<req, collisions, cur, pc, changeset>> /\ pc = "copy"
    BY CopyFrame DEF CopyChanged
<1>6. InstalledEntries' = InstalledEntries
    BY <1>5 DEF InstalledEntries
<1>7. InstalledIntact'
    <2>1. ASSUME NEW e \in InstalledEntries
          PROVE  /\ disk'[ConfOf(e)] = disk[ConfOf(e)]
                 /\ \A j \in DOMAIN e.assets : disk'[TextOf(e)[j]] = disk[TextOf(e)[j]]
        <3>1. ConfOf(e) \in Confs /\ \A j \in DOMAIN e.assets : TextOf(e)[j] \in Dest
            BY InstalledIndex
        <3>2. \A j \in DOMAIN e.assets : TextOf(e)[j] # to
            BY DEF Copied
        <3> QED
            BY <1>3, <1>4, <3>1, <3>2, Paths
    <2> QED
        BY <1>5, <1>6, <2>1, IntactFrame
<1>8. ASSUME NEW j \in DOMAIN changeset
      PROVE  \/ disk'[changeset[j].dest] = changeset[j].data
             \/ \E k \in pending' : changeset[k].dest = changeset[j].dest
    <2>1. changeset[j].dest \in Dest /\ changeset[j].dest \in Path
        <3>1. changeset \in Seq([data : HashSet, dest : Dest])
            BY <1>1 DEF TypeOK
        <3>2. changeset[j] \in [data : HashSet, dest : Dest]
            BY <3>1, SeqElement, Zenon
        <3> QED
            BY <3>2, Paths
    <2>2. pending' = IF CopyFlushRename(i) THEN pending \ {i} ELSE pending
        BY <1>2 DEF CopyWrite, CopyFlush, CopyRemove, CopyFlushRemove, CopyRename, CopyFlushRename
    <2>3. CASE changeset[j].dest # to
        BY <1>3, <1>4, <2>1, <2>2, <2>3 DEF Copied
    <2>4. CASE changeset[j].dest = to /\ ~CopyFlushRename(i)
        BY <2>2, <2>4
    <2>5. CASE changeset[j].dest = to /\ CopyFlushRename(i)
        <3>1. disk'[to] = changeset[i].data
            BY <1>1, <1>2, <2>5 DEF CopyFlushRename, Syncfs, Staged
        <3>2. changeset = ChangesetOf(Entry) /\ cur \in DOMAIN req.entries
              /\ Serving /\ pc # "hash"
            BY <1>1, <1>5, RequestAssumption DEF Control, Serving, TypeOK
        <3>3. /\ i \in DOMAIN Entry.assets /\ j \in DOMAIN Entry.assets
              /\ changeset[i].data = Entry.assets[i].hash
              /\ changeset[j].data = Entry.assets[j].hash
              /\ changeset[i].dest = AssetPath(Entry, Entry.assets[i])
              /\ changeset[j].dest = AssetPath(Entry, Entry.assets[j])
            BY <1>1, <3>2 DEF ChangesetOf, TypeOK
        <3>4. Entry.assets[i].hash = Entry.assets[j].hash
            BY <2>5, <3>2, <3>3, NoClash DEF Entry
        <3> QED
            BY <2>5, <3>1, <3>3, <3>4
    <2> QED
        BY <2>3, <2>4, <2>5
<1>9. pending' \subseteq pending
    BY <1>2 DEF CopyWrite, CopyFlush, CopyRemove, CopyFlushRemove, CopyRename, CopyFlushRename
<1>10. Copied'
    BY <1>5, <1>6, <1>8, <1>9, SameNames DEF Copied
<1> QED
    BY <1>7, <1>10

LEMMA InstallIntact ==
    ASSUME IInv, InstalledIntact, Install
    PROVE  InstalledIntact' /\ Copied'
<1>1. TypeOK /\ Control
    BY DEF IInv
<1>2. /\ UNCHANGED <<req, collisions, cur, disk>> /\ pc = "install" /\ pc' = "copy"
      /\ changeset' = ChangesetOf(Entry) /\ pending' = Changed(changeset')
    BY DEF Install, StartCopies
<1>3. InstalledEntries' = InstalledEntries
    BY <1>2 DEF InstalledEntries
<1>4. InstalledIntact'
    BY <1>2, <1>3, IntactFrame
<1>5. cur \in DOMAIN req.entries /\ Serving /\ pc # "hash"
    BY <1>1, <1>2, RequestAssumption DEF Install, Control, Serving, TypeOK
<1>6. ASSUME NEW i \in pending', NEW e \in InstalledEntries, NEW j \in DOMAIN e.assets,
             changeset'[i].dest = TextOf(e)[j]
      PROVE  FALSE
    <2>1. PICK k \in DOMAIN req.entries : e = req.entries[k]
        BY InstalledIndex
    <2>2. /\ i \in DOMAIN Entry.assets
          /\ changeset'[i].data = Entry.assets[i].hash
          /\ changeset'[i].dest = AssetPath(Entry, Entry.assets[i])
          /\ disk[changeset'[i].dest] # changeset'[i].data
        BY <1>2, <1>6 DEF Changed, ChangesetOf
    <2>3. TextOf(e)[j] = AssetPath(e, e.assets[j])
        BY DEF TextOf
    <2>4. Entry.assets[i].hash = e.assets[j].hash
        BY <1>5, <1>6, <2>1, <2>2, <2>3, NoClash DEF Entry
    <2>5. disk[TextOf(e)[j]] = e.assets[j].hash
        BY DEF InstalledIntact
    <2> QED
        BY <1>6, <2>2, <2>4, <2>5
<1>7. ASSUME NEW j \in DOMAIN changeset', ~(j \in pending')
      PROVE  disk'[changeset'[j].dest] = changeset'[j].data
    BY <1>2, <1>7 DEF Changed
<1>8. Copied'
    BY <1>2, <1>3, <1>6, <1>7, SameNames DEF Copied
<1> QED
    BY <1>4, <1>8

LEMMA WriteConfIntact ==
    ASSUME IInv, InstalledIntact, Copied, WriteConf
    PROVE  InstalledIntact'
<1>1. TypeOK /\ Control
    BY DEF IInv
<1>2. /\ UNCHANGED <<req, collisions>> /\ cur' = cur + 1 /\ pc = "copy" /\ pc' = "install"
      /\ pending = {} /\ disk' = [disk EXCEPT ![ConfOf(Entry)] = TextOf(Entry)]
    BY DEF WriteConf, Put
<1>3. /\ cur \in DOMAIN req.entries /\ Serving /\ pc # "hash" /\ cur \in Nat
      /\ req \in Requests /\ changeset = ChangesetOf(Entry)
    BY <1>1, <1>2, RequestAssumption DEF Control, Serving, TypeOK
<1>4. disk \in [Path -> Content] /\ ConfOf(Entry) \in Confs /\ ConfOf(Entry) \in Path
    BY <1>1, <1>3, InstallTypes, Paths DEF TypeOK, Entry
<1>5. \A p \in Path : p # ConfOf(Entry) => disk'[p] = disk[p]
    BY <1>2, <1>4
<1>6. InstalledEntries' = InstalledEntries \cup {Entry}
    <2>1. 1..(cur' - 1) = 1..(cur - 1) \cup {cur}
        <3>1. cur \in Nat \ {0} /\ cur' - 1 = cur
            BY <1>1, <1>2, <1>3 DEF TypeOK
        <3> QED
            BY <3>1
    <2>2. InstalledEntries' = {req.entries[i] : i \in 1..(cur' - 1)}
        BY <1>2 DEF InstalledEntries
    <2>3. InstalledEntries = {req.entries[i] : i \in 1..(cur - 1)}
        BY <1>2 DEF InstalledEntries
    <2> QED
        BY <2>1, <2>2, <2>3 DEF Entry
<1>7. ASSUME NEW e \in InstalledEntries
      PROVE  /\ disk'[ConfOf(e)] = TextOf(e)
             /\ \A j \in DOMAIN e.assets : disk'[TextOf(e)[j]] = e.assets[j].hash
    <2>1. PICK k \in DOMAIN req.entries : k < cur /\ e = req.entries[k]
        BY InstalledIndex
    <2>2. ConfOf(e) # ConfOf(Entry)
        <3>1. k # cur
            BY <1>3, <2>1
        <3> QED
            BY <1>3, <2>1, <3>1, RequestAssumption DEF ConfOf, Entry
    <2>3. /\ ConfOf(e) \in Path
          /\ \A j \in DOMAIN e.assets : TextOf(e)[j] \in Path /\ TextOf(e)[j] # ConfOf(Entry)
        BY <1>4, InstalledIndex, Paths
    <2> QED
        BY <1>5, <2>2, <2>3 DEF InstalledIntact
<1>8. /\ disk'[ConfOf(Entry)] = TextOf(Entry)
      /\ \A j \in DOMAIN Entry.assets : disk'[TextOf(Entry)[j]] = Entry.assets[j].hash
    <2>1. ASSUME NEW j \in DOMAIN Entry.assets
          PROVE  disk'[TextOf(Entry)[j]] = Entry.assets[j].hash
        <3>1. j \in DOMAIN changeset /\ changeset[j].data = Entry.assets[j].hash
              /\ changeset[j].dest = TextOf(Entry)[j]
            BY <1>3 DEF ChangesetOf, TextOf
        <3>2. disk[TextOf(Entry)[j]] = Entry.assets[j].hash
            BY <1>2, <3>1 DEF Copied
        <3>3. TextOf(Entry)[j] \in Dest
            BY <1>3, AssetPathType DEF TextOf, Entry
        <3> QED
            BY <1>4, <1>5, <3>2, <3>3, Paths
    <2> QED
        BY <1>2, <1>4, <2>1
<1> QED
    BY <1>2, <1>6, <1>7, <1>8, SameNames DEF InstalledIntact

\* The path of an installed asset in a directory that install filled.
LEMMA InstalledDir ==
    ASSUME IInv, Serving, pc # "hash",
           NEW i \in DOMAIN req.entries, NEW j \in DOMAIN req.entries[i].assets,
           NEW d, In(AssetPath(req.entries[i], req.entries[i].assets[j]), d), d.dir # ""
    PROVE  /\ Effective(req.entries[i]).kind # "legacy"
           /\ d.ns = Effective(req.entries[i]).id
           /\ d.dir = "shared" \/ d.dir = req.entries[i].version
<1>1. /\ req.entries[i].assets[j].version = req.entries[i].version
    BY EntryFacts
<1> QED
    BY <1>1 DEF AssetPath, InstalledPath, In, OsNamespace

LEMMA ScanIntact ==
    ASSUME IInv, Scan
    PROVE  StaleUnused'
<1>1. TypeOK /\ Control
    BY DEF IInv
<1>2. /\ UNCHANGED <<req, collisions>> /\ pc = "install" /\ req \in Requests
      /\ stale' = [confs |-> LoaderFiles \ InstalledConfs,
                   trees |-> ObsoleteKernels,
                   files |-> ObsoleteFiles]
    BY <1>1 DEF Scan, Control, Serving
<1>3. stale'.confs \cap InstalledConfs = {} /\ stale'.files \cap InstalledFiles = {}
    <2>1. /\ stale'.confs = LoaderFiles \ InstalledConfs
          /\ stale'.files = ObsoleteFiles
        BY <1>2
    <2>2. ObsoleteFiles \cap InstalledFiles = {}
        BY DEF ObsoleteFiles
    <2> QED
        BY <2>1, <2>2
<1>4. ASSUME NEW d \in ObsoleteKernels, NEW p \in InstalledFiles, In(p, d)
      PROVE  FALSE
    <2>1. PICK e \in Range(req.entries) : p \in Range(TextOf(e))
        BY <1>4 DEF InstalledFiles
    <2>2. PICK i \in DOMAIN req.entries : e = req.entries[i]
        BY DEF Range
    <2>3. PICK j \in DOMAIN e.assets : p = AssetPath(e, e.assets[j])
        BY <2>1 DEF Range, TextOf
    <2>4. /\ d.dir # "" /\ d.ns \in Namespaces(req.schema) /\ d \in Dirs
          /\ ~(d.dir = "shared" /\ req.schema.kind # "legacy")
          /\ d \notin InstalledDirs
        BY <1>4 DEF ObsoleteKernels, KernelDirs
    <2>5. Serving /\ pc # "hash"
        BY <1>2 DEF Serving
    <2>6. /\ Effective(e).kind # "legacy"
          /\ d.ns = Effective(e).id
          /\ d.dir = "shared" \/ d.dir = e.version
        BY <1>4, <2>2, <2>3, <2>4, <2>5, InstalledDir
    <2>7. CASE d.dir = "shared"
        <3>1. req.schema.kind = "legacy" /\ d.ns = req.schema.ns
            BY <2>4, <2>7 DEF Namespaces, OsNamespace
        <3> QED
            BY <1>2, <2>6, <3>1, RequestAssumption DEF Effective
    <2>8. CASE d.dir = e.version
        <3>1. e.assets \in Seq(Assets) /\ 1 \in DOMAIN e.assets /\ e.assets[1].kind = "image"
              /\ e.assets[1].version = e.version
            <4>1. /\ e.assets \in Seq(Assets) \ {<<>>}
                  /\ \A l \in DOMAIN e.assets :
                         /\ e.assets[l].kind = "image" <=> l = 1
                         /\ e.assets[l].version = e.version
                BY <1>2, AssetAssumption
            <4>2. 1 \in DOMAIN e.assets
                BY <4>1
            <4> QED
                BY <4>1, <4>2
        <3>2. TextOf(e)[1] = AssetPath(e, e.assets[1])
            BY <3>1 DEF TextOf
        <3>3. TextOf(e)[1].ns = d.ns /\ TextOf(e)[1].dir = d.dir
            BY <2>6, <2>8, <3>1, <3>2 DEF AssetPath, InstalledPath, OsNamespace
        <3>4. d = [ns |-> TextOf(e)[1].ns, dir |-> TextOf(e)[1].dir]
            <4>1. PICK q \in KernelPaths : d = [ns |-> q.ns, dir |-> q.dir]
                BY <2>4 DEF Dirs
            <4>2. d.ns = q.ns /\ d.dir = q.dir
                BY <4>1
            <4> QED
                BY <3>3, <4>1, <4>2
        <3> QED
            BY <2>4, <3>4 DEF InstalledDirs
    <2> QED
        BY <2>6, <2>7, <2>8
<1> QED
    BY <1>2, <1>3, <1>4, SameNames DEF StaleUnused, In

LEMMA RemoveIntact ==
    ASSUME IInv, InstalledIntact, StaleUnused, RemoveConf \/ RemoveTree \/ RemoveFile
    PROVE  InstalledIntact' /\ StaleUnused'
<1>1. TypeOK
    BY DEF IInv
<1>2. UNCHANGED <<req, collisions, cur, pc>> /\ pc = "clean"
    BY DEF RemoveConf, RemoveTree, RemoveFile
<1>3. InstalledEntries' = InstalledEntries
    BY <1>2 DEF InstalledEntries
<1>4. ASSUME NEW e \in InstalledEntries
      PROVE  /\ ConfOf(e) \in InstalledConfs /\ ConfOf(e) \in Path /\ ConfOf(e) \notin KernelPaths
             /\ \A j \in DOMAIN e.assets :
                    /\ TextOf(e)[j] \in InstalledFiles
                    /\ TextOf(e)[j] \in Path
                    /\ TextOf(e)[j] \notin ConfPaths
    <2>1. /\ e \in Range(req.entries) /\ ConfOf(e) \in Confs
          /\ \A j \in DOMAIN e.assets : TextOf(e)[j] \in Dest
        BY InstalledIndex
    <2>2. \A j \in DOMAIN e.assets : TextOf(e)[j] \in Range(TextOf(e))
        BY DEF TextOf, Range
    <2>3. Confs \subseteq ConfPaths /\ Dest \subseteq KernelPaths
        BY DEF ConfPaths, KernelPaths
    <2> QED
        BY <2>1, <2>2, <2>3, Paths, PathAssumption DEF InstalledConfs, InstalledFiles
<1>5. ASSUME NEW gone, disk' = disk \/ Unlink(gone),
             gone \cap InstalledConfs = {} \/ gone \subseteq KernelPaths,
             gone \cap InstalledFiles = {} \/ gone \subseteq ConfPaths
      PROVE  InstalledIntact'
    <2>1. ASSUME NEW e \in InstalledEntries
          PROVE  /\ disk'[ConfOf(e)] = disk[ConfOf(e)]
                 /\ \A j \in DOMAIN e.assets : disk'[TextOf(e)[j]] = disk[TextOf(e)[j]]
        <3>1. disk \in [Path -> Content]
            BY <1>1 DEF TypeOK
        <3>2. \A p \in Path : p \notin gone => disk'[p] = disk[p]
            BY <1>5, <3>1 DEF Unlink
        <3> QED
            BY <1>4, <1>5, <3>2
    <2> QED
        BY <1>2, <1>3, <2>1, IntactFrame
<1>6. stale \in [confs : SUBSET ConfPaths, trees : SUBSET Dirs, files : SUBSET KernelPaths]
    BY <1>1 DEF TypeOK
<1>7. CASE RemoveConf
    <2>1. PICK p \in stale.confs :
              /\ stale' = [stale EXCEPT !.confs = @ \ {p}]
              /\ disk' = disk \/ Unlink({p})
        BY <1>7 DEF RemoveConf
    <2>2. InstalledIntact'
        BY <1>2, <1>5, <1>6, <2>1 DEF StaleUnused
    <2>3. StaleUnused'
        BY <1>2, <1>6, <2>1, SameNames DEF StaleUnused, In
    <2> QED
        BY <2>2, <2>3
<1>8. CASE RemoveTree
    <2>1. PICK d \in stale.trees : \E gone \in SUBSET FilesBelow(d) :
              /\ stale' = [stale EXCEPT !.trees = @ \ {d}]
              /\ Unlink(gone)
        BY <1>8 DEF RemoveTree
    <2>2. PICK gone \in SUBSET FilesBelow(d) : Unlink(gone)
        BY <2>1
    <2>3. gone \subseteq KernelPaths /\ gone \cap InstalledFiles = {}
        BY <1>2, <2>1 DEF FilesBelow, StaleUnused
    <2>4. InstalledIntact'
        BY <1>5, <2>2, <2>3
    <2>5. StaleUnused'
        BY <1>2, <1>6, <2>1, SameNames DEF StaleUnused, In
    <2> QED
        BY <2>4, <2>5
<1>9. CASE RemoveFile
    <2>1. PICK p \in stale.files :
              /\ stale' = [stale EXCEPT !.files = @ \ {p}]
              /\ disk' = disk \/ Unlink({p})
        BY <1>9 DEF RemoveFile
    <2>2. InstalledIntact'
        BY <1>2, <1>5, <1>6, <2>1 DEF StaleUnused
    <2>3. StaleUnused'
        BY <1>2, <1>6, <2>1, SameNames DEF StaleUnused, In
    <2> QED
        BY <2>2, <2>3
<1> QED
    BY <1>7, <1>8, <1>9

LEMMA IntactInit ==
    ASSUME Init
    PROVE  IntactInv
BY DEF Init, IntactInv, InstalledIntact, InstalledEntries, Copied, StaleUnused

LEMMA IntactStep ==
    ASSUME IInv, IInv', IntactInv, [Next]_vars
    PROVE  IntactInv'
<1>1. InstalledIntact /\ Copied /\ StaleUnused /\ TypeOK /\ Control
    BY DEF IInv, IntactInv
<1>2. ASSUME changeset' = <<>>, pending' = {}
      PROVE  Copied'
    BY <1>2 DEF Copied
<1>3. ASSUME pc' \notin {"install", "copy", "clean", "done"} \/ (pc' = "install" /\ cur' = 1)
      PROVE  InstalledIntact' /\ StaleUnused'
    BY <1>3 DEF InstalledIntact, InstalledEntries, StaleUnused
<1>4. pc' # "copy" => Copied'
    BY <1>2 DEF IInv, Control
<1>5. pc' # "clean" => StaleUnused'
    BY DEF StaleUnused
<1>6. CASE (\E r \in Requests : Begin(r)) \/ HashAsset \/ HashDone \/ Stop \/ Crash \/ Recover
    <2>1. pc' \notin {"install", "copy", "clean", "done"} \/ (pc' = "install" /\ cur' = 1)
        BY <1>6 DEF Begin, HashAsset, HashDone, Stop, Crash, Recover, Settle
    <2> QED
        BY <1>3, <1>4, <2>1 DEF IntactInv
<1>7. CASE Install
    BY <1>1, <1>5, <1>7, InstallIntact DEF IntactInv, Install
<1>8. CASE CopyChanged
    BY <1>1, <1>5, <1>8, CopyIntact DEF IntactInv, CopyChanged
<1>9. CASE WriteConf
    BY <1>1, <1>4, <1>5, <1>9, WriteConfIntact DEF IntactInv, WriteConf
<1>10. CASE Scan
    <2>1. InstalledIntact'
        BY <1>1, <1>10, IntactFrame DEF Scan, vfatVars, InstalledEntries
    <2> QED
        BY <1>4, <1>10, <2>1, ScanIntact DEF IntactInv, Scan
<1>11. CASE RemoveConf \/ RemoveTree \/ RemoveFile
    <2>1. pc' = "clean"
        BY <1>11 DEF RemoveConf, RemoveTree, RemoveFile
    <2> QED
        BY <1>1, <1>4, <1>11, <2>1, RemoveIntact DEF IntactInv
<1>12. CASE CleanDone
    <2>1. InstalledIntact'
        BY <1>1, <1>12, IntactFrame DEF CleanDone, vfatVars, InstalledEntries
    <2> QED
        BY <1>4, <1>5, <1>12, <2>1 DEF IntactInv, CleanDone
<1>13. CASE UNCHANGED vars
    <2>1. InstalledIntact'
        BY <1>1, <1>13, IntactFrame DEF vars, vfatVars, InstalledEntries
    <2>2. InstalledEntries' = InstalledEntries
        BY <1>13 DEF vars, InstalledEntries
    <2>3. Copied'
        BY <1>1, <1>13, <2>2, SameNames DEF vars, vfatVars, Copied
    <2>4. StaleUnused'
        BY <1>1, <1>13, SameNames DEF vars, StaleUnused, In
    <2> QED
        BY <2>1, <2>3, <2>4 DEF IntactInv
<1> QED
    BY <1>6, <1>7, <1>8, <1>9, <1>10, <1>11, <1>12, <1>13 DEF Next

(***************************************************************************)
(* Once install has written an entry, its conf, kernel and initrds stay as *)
(* written through the rest of the call: through the copies of every later *)
(* entry, whatever assets and names they share, and through the cleanup.   *)
(***************************************************************************)
THEOREM Intact == Spec => []InstalledIntact
<1>1. Init => IInv /\ IntactInv
    BY IInvInit, IntactInit
<1>2. IInv /\ IntactInv /\ [Next]_vars => IInv' /\ IntactInv'
    BY IInvStep, IntactStep
<1>3. IntactInv => InstalledIntact
    BY DEF IntactInv
<1> QED
    BY <1>1, <1>2, <1>3, PTL DEF Spec

-----------------------------------------------------------------------------
(***************************************************************************)
(* What EntrySync leaves on the boot partition: what it installed reaches  *)
(* the medium, what it should not touch is untouched, and what it no       *)
(* longer wants is gone.                                                   *)
(***************************************************************************)

(* Durability.                                                             *)

\* Between two copies nothing is half done.
AtRest == pending = {} => step = "write"

\* A kernel or an initrd that the running system sees is on the medium,
\* unless its rename still waits, or has been left waiting, for a sync.
OnMedium ==
    pc # "down" =>
        \A p \in Dest : disk[p] # Absent =>
            \/ outcomes[p] = {disk[p]}
            \/ unflushed
            \/ step = "flushRename" /\ \E i \in pending : IsNext(i) /\ changeset[i].dest = p

DurableInv == AtRest /\ OnMedium

LEMMA DurableInit ==
    ASSUME Init
    PROVE  DurableInv
BY Paths DEF Init, DurableInv, AtRest, OnMedium

LEMMA CopyDurable ==
    ASSUME IInv, DurableInv, CopyChanged
    PROVE  DurableInv'
<1>1. TypeOK /\ disk \in [Path -> Content] /\ outcomes \in [Path -> SUBSET Content]
      /\ Dest \subseteq Path
    BY Paths DEF IInv, TypeOK
<1>2. PICK i \in pending :
          /\ IsNext(i)
          /\ \/ CopyWrite(i)       \/ CopyFlush(i)  \/ CopyRemove(i)
             \/ CopyFlushRemove(i) \/ CopyRename(i) \/ CopyFlushRename(i)
    BY DEF CopyChanged, Copy
<1> DEFINE to   == changeset[i].dest
           from == Staging(to)
<1>3. to \in Path /\ from \in Path \ Dest
    BY <1>1, PendingItem
<1>4. changeset' = changeset /\ pc' = pc /\ pc = "copy"
    BY CopyFrame DEF CopyChanged
<1>5. AtRest'
    BY <1>2 DEF CopyWrite, CopyFlush, CopyRemove, CopyFlushRemove, CopyRename,
                CopyFlushRename, AtRest
<1>6. ASSUME Syncfs
      PROVE  OnMedium'
    BY <1>1, <1>6 DEF Syncfs, OnMedium
<1> HIDE DEF to, from
<1>7. CASE CopyWrite(i)
    <2>1. \A p \in Dest : disk'[p] = disk[p] /\ outcomes'[p] = outcomes[p]
        BY <1>1, <1>3, <1>7 DEF CopyWrite, Put, from, to
    <2> QED
        BY <1>4, <1>5, <1>7, <2>1 DEF CopyWrite, DurableInv, OnMedium
<1>8. CASE CopyFlush(i) \/ CopyFlushRemove(i) \/ CopyFlushRename(i)
    BY <1>5, <1>6, <1>8 DEF CopyFlush, CopyFlushRemove, CopyFlushRename, DurableInv
<1>9. CASE CopyRemove(i)
    <2>1. /\ \A p \in Dest : p # to => disk'[p] = disk[p] /\ outcomes'[p] = outcomes[p]
          /\ disk'[to] = Absent
        BY <1>1, <1>3, <1>9 DEF CopyRemove, Unlink, to
    <2> QED
        BY <1>4, <1>5, <1>9, <2>1 DEF CopyRemove, DurableInv, OnMedium
<1>10. CASE CopyRename(i)
    <2>1. \A p \in Dest : p # to => disk'[p] = disk[p] /\ outcomes'[p] = outcomes[p]
        BY <1>1, <1>3, <1>10 DEF CopyRename, Rename, from, to
    <2>2. i \in pending' /\ IsNext(i)' /\ changeset'[i].dest = to /\ step' = "flushRename"
        BY <1>2, <1>4, <1>10 DEF CopyRename, IsNext, to
    <2>3. step # "flushRename" /\ unflushed' = unflushed
        BY <1>10 DEF CopyRename
    <2> QED
        BY <1>4, <1>5, <2>1, <2>2, <2>3 DEF DurableInv, OnMedium
<1> QED
    BY <1>2, <1>5, <1>7, <1>8, <1>9, <1>10 DEF DurableInv

LEMMA StopDurable ==
    ASSUME IInv, DurableInv, Stop
    PROVE  DurableInv'
<1>1. TypeOK /\ Control /\ disk \in [Path -> Content] /\ outcomes \in [Path -> SUBSET Content]
      /\ Dest \subseteq Path
    BY Paths DEF IInv, TypeOK
<1>2. pc # "down" /\ pc' = "idle" /\ ResetCopies
    BY DEF Stop, CopyStops, CopyWriteFails
<1>3. AtRest'
    BY <1>2 DEF ResetCopies, AtRest
<1>4. CASE CopyStops
    BY <1>2, <1>3, <1>4 DEF CopyStops, DurableInv, OnMedium
<1>5. ASSUME NEW p \in Path \ Dest, Put(p, Torn), step = "write", UNCHANGED unflushed
      PROVE  OnMedium'
    <2>1. \A q \in Dest : disk'[q] = disk[q] /\ outcomes'[q] = outcomes[q]
        BY <1>1, <1>5 DEF Put
    <2> QED
        BY <1>2, <1>5, <2>1 DEF DurableInv, OnMedium
<1>6. CASE CopyWriteFails
    BY <1>1, <1>3, <1>5, <1>6, PendingItem DEF CopyWriteFails, DurableInv
<1>7. CASE pc = "copy" /\ pending = {} /\ Put(ConfOf(Entry), Torn) /\ UNCHANGED unflushed
    <2>1. cur \in DOMAIN req.entries
        BY <1>1, <1>7, RequestAssumption DEF Control, Serving, TypeOK
    <2>2. ConfOf(Entry) \in Path \ Dest
        BY <1>7, <2>1, InstallTypes, Paths DEF Serving, Entry
    <2> QED
        BY <1>3, <1>5, <1>7, <2>2 DEF DurableInv, AtRest
<1> QED
    BY <1>3, <1>4, <1>6, <1>7 DEF Stop, DurableInv

LEMMA DurableStep ==
    ASSUME IInv, DurableInv, [Next]_vars
    PROVE  DurableInv'
<1>1. TypeOK /\ Control /\ disk \in [Path -> Content] /\ outcomes \in [Path -> SUBSET Content]
      /\ Dest \subseteq Path
    BY Paths DEF IInv, TypeOK
<1>2. ASSUME UNCHANGED <<disk, outcomes, unflushed>>, step = "write", step' = "write",
             pc # "down"
      PROVE  DurableInv'
    BY <1>2 DEF DurableInv, AtRest, OnMedium
<1>3. CASE \/ \E r \in Requests : Begin(r)
           \/ HashAsset \/ HashDone \/ Install \/ Scan \/ CleanDone
    <2>1. UNCHANGED <<disk, outcomes, unflushed>> /\ step' = "write" /\ pc # "down"
          /\ pc # "copy"
        BY <1>1, <1>3 DEF Begin, ResetCopies, HashAsset, HashDone, Install, StartCopies,
                          Scan, CleanDone, vfatVars, Control
    <2> QED
        BY <1>1, <1>2, <2>1 DEF Control
<1>4. CASE CopyChanged
    BY <1>4, CopyDurable
<1>5. CASE WriteConf
    <2>1. cur \in DOMAIN req.entries
        BY <1>1, <1>5, RequestAssumption DEF WriteConf, Control, Serving, TypeOK
    <2>2. ConfOf(Entry) \in Path \ Dest
        BY <1>5, <2>1, InstallTypes, Paths DEF WriteConf, Serving, Entry
    <2>3. \A q \in Dest : disk'[q] = disk[q] /\ outcomes'[q] = outcomes[q]
        BY <1>1, <1>5, <2>2 DEF WriteConf, Put
    <2> QED
        BY <1>5, <2>3 DEF WriteConf, ResetCopies, DurableInv, AtRest, OnMedium
<1>6. CASE RemoveConf \/ RemoveTree \/ RemoveFile
    <2>1. /\ UNCHANGED <<changeset, pending, step, unflushed, pc>>
          /\ UNCHANGED <<disk, outcomes>> \/ \E gone : Unlink(gone)
        BY <1>6 DEF RemoveConf, RemoveTree, RemoveFile
    <2>2. \A p \in Dest : disk'[p] # Absent => disk'[p] = disk[p] /\ outcomes'[p] = outcomes[p]
        BY <1>1, <2>1 DEF Unlink
    <2> QED
        BY <2>1, <2>2 DEF DurableInv, AtRest, OnMedium, IsNext
<1>7. CASE Stop
    BY <1>7, StopDurable
<1>8. CASE Crash
    BY <1>8 DEF Crash, ResetCopies, DurableInv, AtRest, OnMedium
<1>9. CASE Recover
    <2>1. CASE Settle /\ pc' = pc
        BY <1>9, <2>1 DEF Recover, Settle, DurableInv, AtRest, OnMedium
    <2>2. CASE Dirty = {} /\ UNCHANGED vfatVars
        BY <1>1, <2>2 DEF Dirty, vfatVars, DurableInv, AtRest, OnMedium
    <2> QED
        BY <1>9, <2>1, <2>2 DEF Recover
<1>10. CASE UNCHANGED vars
    BY <1>10 DEF vars, vfatVars, DurableInv, AtRest, OnMedium, IsNext
<1> QED
    BY <1>3, <1>4, <1>5, <1>6, <1>7, <1>8, <1>9, <1>10 DEF Next

\* What is intact on the disk is on the medium.
LEMMA InstalledDurable ==
    ASSUME IInv, IntactInv, DurableInv
    PROVE  AssetsDurable
<1> SUFFICES ASSUME IInv, IntactInv, DurableInv,
                    NEW e \in InstalledEntries, NEW j \in DOMAIN e.assets, ~unflushed
             PROVE  outcomes[TextOf(e)[j]] = {e.assets[j].hash}
    BY DEF AssetsDurable
<1>1. PICK i \in DOMAIN req.entries : e = req.entries[i]
    BY InstalledIndex
<1>2. pc # "down" /\ Serving /\ TextOf(e)[j] \in Dest
    BY InstalledIndex
<1>3. e.assets[j].hash # Absent
    <2>1. req \in Requests
        BY <1>2 DEF IInv, Control
    <2>2. e.assets[j].hash \in HashSet
        BY <1>1, <2>1, RequestParts
    <2> QED
        BY <2>2, AssetAssumption
<1>4. disk[TextOf(e)[j]] = e.assets[j].hash
    BY DEF IntactInv, InstalledIntact
<1>5. \A k \in pending : changeset[k].dest # TextOf(e)[j]
    BY DEF IntactInv, Copied
<1> QED
    BY <1>2, <1>3, <1>4, <1>5 DEF DurableInv, OnMedium

(***************************************************************************)
(* What an installed entry needs is on the medium.  The two invariants     *)
(* meet here: what is installed is intact on the disk, what is on the disk *)
(* is on the medium, and the one file a copy in progress may have left     *)
(* unsynced is no installed entry's.                                       *)
(***************************************************************************)
THEOREM Durable == Spec => []AssetsDurable
<1>1. Init => IInv /\ IntactInv /\ DurableInv
    BY IInvInit, IntactInit, DurableInit
<1>2. IInv /\ IntactInv /\ DurableInv /\ [Next]_vars => IInv' /\ IntactInv' /\ DurableInv'
    BY IInvStep, IntactStep, DurableStep
<1>3. IInv /\ IntactInv /\ DurableInv => AssetsDurable
    BY InstalledDurable
<1> QED
    BY <1>1, <1>2, <1>3, PTL DEF Spec

-----------------------------------------------------------------------------
(* Other systems.                                                          *)

Others == OtherConfs \cup OtherFiles

\* Nothing of theirs is due to be removed.
Spared(kept) ==
    /\ stale.confs \cap kept = {}
    /\ stale.files \cap kept = {}
    /\ \A d \in stale.trees : \A p \in kept \cap OtherFiles : ~In(p, d)

OthersInv == OthersKept /\ Spared(Others)

LEMMA OtherPaths ==
    /\ Others \subseteq Path /\ Others \cap Dest = {} /\ Others \cap Temps = {}
    /\ Others \cap Confs = {} /\ OtherConfs \cap KernelPaths = {}
    /\ OtherFiles \cap ConfPaths = {}
BY PathAssumption DEF Others, Path, ConfPaths, KernelPaths

LEMMA OthersInit ==
    ASSUME Init
    PROVE  OthersInv
<1>1. OthersKept
    BY OtherPaths DEF Init, OthersKept, Others
<1>2. Spared(Others)
    BY DEF Init, Spared, NoStale
<1> QED
    BY <1>1, <1>2 DEF OthersInv

\* What a step does to the file system, as far as some files are concerned.
Untouched(kept) ==
    \/ UNCHANGED <<disk, outcomes>>
    \/ Syncfs
    \/ \E p \in Path \ kept : \E c : Put(p, c)
    \/ \E p, q \in Path \ kept : Rename(p, q)
    \/ \E gone : Unlink(gone) /\ gone \cap kept = {}

LEMMA UntouchedKeeps ==
    ASSUME IInv, OthersKept, Untouched(Others) \/ Settle
    PROVE  OthersKept'
<1>1. /\ disk \in [Path -> Content] /\ outcomes \in [Path -> SUBSET Content]
      /\ \A p \in Path : disk[p] \in outcomes[p]
      /\ Others \subseteq Path
      /\ \A p \in Others : outcomes[p] = {InitialDisk[p]} /\ disk[p] = InitialDisk[p]
    <2>1. disk \in [Path -> Content] /\ outcomes \in [Path -> SUBSET Content]
          /\ \A p \in Path : disk[p] \in outcomes[p]
        BY DEF IInv, TypeOK
    <2>2. \A p \in Others : outcomes[p] = {InitialDisk[p]}
        BY DEF OthersKept, Others
    <2> QED
        BY <2>1, <2>2, OtherPaths
<1>2. SUFFICES \A p \in Others : outcomes'[p] = {InitialDisk[p]}
    BY DEF OthersKept, Others
<1>3. CASE UNCHANGED outcomes
    BY <1>1, <1>3
<1>4. CASE Syncfs
    BY <1>1, <1>4 DEF Syncfs
<1>5. CASE Settle
    <2>1. PICK q \in Dirty : \E c : outcomes' = [outcomes EXCEPT ![q] = {c}]
        BY <1>5 DEF Settle
    <2>2. \A p \in Others : p \notin Dirty
        BY <1>1 DEF Dirty
    <2> QED
        BY <1>1, <2>1, <2>2
<1>6. ASSUME NEW p \in Path \ Others, NEW c, Put(p, c)
      PROVE  \A q \in Others : outcomes'[q] = {InitialDisk[q]}
    BY <1>1, <1>6 DEF Put
<1>7. ASSUME NEW p \in Path \ Others, NEW q \in Path \ Others, Rename(p, q)
      PROVE  \A r \in Others : outcomes'[r] = {InitialDisk[r]}
    BY <1>1, <1>7 DEF Rename
<1>8. ASSUME NEW gone, Unlink(gone), gone \cap Others = {}
      PROVE  \A q \in Others : outcomes'[q] = {InitialDisk[q]}
    BY <1>1, <1>8 DEF Unlink
<1> QED
    BY <1>3, <1>4, <1>5, <1>6, <1>7, <1>8 DEF Untouched

LEMMA StepUntouched ==
    ASSUME NEW kept \in SUBSET Others, IInv, Spared(kept), [Next]_vars
    PROVE  Untouched(kept) \/ (pc = "down" /\ Settle)
<1>1. TypeOK /\ Control
    BY DEF IInv
<1>2. Dest \cup Temps \cup Confs \subseteq Path \ kept
    BY Paths, OtherPaths
<1>3. ASSUME NEW i \in pending
      PROVE  changeset[i].dest \in Dest /\ Staging(changeset[i].dest) \in Temps
    BY <1>1, PendingItem DEF Temps
<1>4. CASE CopyChanged
    <2>1. PICK i \in pending :
              \/ CopyWrite(i)       \/ CopyFlush(i)  \/ CopyRemove(i)
              \/ CopyFlushRemove(i) \/ CopyRename(i) \/ CopyFlushRename(i)
        BY <1>4 DEF CopyChanged, Copy
    <2> DEFINE to == changeset[i].dest
               from == Staging(to)
    <2>2. to \in Path \ kept /\ from \in Path \ kept
        BY <1>2, <1>3
    <2>3. CASE CopyWrite(i)
        BY <2>2, <2>3 DEF CopyWrite, Untouched
    <2>4. CASE CopyFlush(i) \/ CopyFlushRemove(i) \/ CopyFlushRename(i)
        BY <2>4 DEF CopyFlush, CopyFlushRemove, CopyFlushRename, Untouched
    <2>5. CASE CopyRemove(i)
        <3>1. Unlink({to}) /\ {to} \cap kept = {}
            BY <2>2, <2>5 DEF CopyRemove
        <3> QED
            BY <3>1 DEF Untouched
    <2>6. CASE CopyRename(i)
        BY <2>2, <2>6 DEF CopyRename, Untouched
    <2> QED
        BY <2>1, <2>3, <2>4, <2>5, <2>6
<1>5. CASE WriteConf \/ Stop
    <2>1. ASSUME pc = "copy"
          PROVE  ConfOf(Entry) \in Path \ kept
        <3>1. cur \in DOMAIN req.entries
            BY <1>1, <2>1, RequestAssumption DEF Control, Serving, TypeOK
        <3> QED
            BY <1>2, <2>1, <3>1, InstallTypes DEF Serving, Entry
    <2>2. CASE WriteConf
        BY <2>1, <2>2 DEF WriteConf, Untouched
    <2>3. CASE Stop /\ UNCHANGED <<disk, outcomes>>
        BY <2>3 DEF Untouched
    <2>4. CASE CopyWriteFails
        <3>1. PICK i \in pending : Put(Staging(changeset[i].dest), Torn)
            BY <2>4 DEF CopyWriteFails
        <3>2. Staging(changeset[i].dest) \in Path \ kept
            BY <1>2, <1>3
        <3> QED
            BY <3>1, <3>2 DEF Untouched
    <2>5. CASE pc = "copy" /\ Put(ConfOf(Entry), Torn)
        BY <2>1, <2>5 DEF Untouched
    <2> QED
        BY <1>5, <2>2, <2>3, <2>4, <2>5 DEF Stop, CopyStops
<1>6. stale \in [confs : SUBSET ConfPaths, trees : SUBSET Dirs, files : SUBSET KernelPaths]
    BY <1>1 DEF TypeOK
<1>7. CASE RemoveConf
    <2>1. PICK p \in stale.confs : Unlink({p}) \/ UNCHANGED <<disk, outcomes>>
        BY <1>7 DEF RemoveConf
    <2>2. {p} \cap kept = {}
        BY <1>6, OtherPaths DEF Spared, Others
    <2> QED
        BY <2>1, <2>2 DEF Untouched
<1>8. CASE RemoveTree
    <2>1. PICK d \in stale.trees : \E gone \in SUBSET FilesBelow(d) : Unlink(gone)
        BY <1>8 DEF RemoveTree
    <2>2. FilesBelow(d) \cap kept = {}
        BY OtherPaths DEF Spared, Others, FilesBelow, ConfPaths
    <2> QED
        BY <2>1, <2>2 DEF Untouched
<1>9. CASE RemoveFile
    <2>1. PICK p \in stale.files : Unlink({p}) \/ UNCHANGED <<disk, outcomes>>
        BY <1>9 DEF RemoveFile
    <2>2. {p} \cap kept = {}
        BY <1>6, OtherPaths DEF Spared, Others
    <2> QED
        BY <2>1, <2>2 DEF Untouched
<1>10. CASE Recover
    BY <1>10 DEF Recover, vfatVars, Untouched
<1>11. CASE \/ \E r \in Requests : Begin(r)
            \/ HashAsset \/ HashDone \/ Install \/ Scan \/ CleanDone \/ Crash
            \/ UNCHANGED vars
    BY <1>11 DEF Begin, HashAsset, HashDone, Install, StartCopies, Scan, CleanDone,
                 Crash, vars, vfatVars, Untouched
<1> QED
    BY <1>4, <1>5, <1>7, <1>8, <1>9, <1>10, <1>11 DEF Next

LEMMA SparedStep ==
    ASSUME NEW kept \in SUBSET Others, ApartFrom(kept), IInv, Spared(kept), [Next]_vars
    PROVE  Spared(kept)'
<1>1. TypeOK /\ Control
    BY DEF IInv
<1>2. stale \in [confs : SUBSET ConfPaths, trees : SUBSET Dirs, files : SUBSET KernelPaths]
    BY <1>1 DEF TypeOK
<1>3. CASE Scan
    <2>1. /\ stale' = [confs |-> LoaderFiles \ InstalledConfs,
                       trees |-> ObsoleteKernels,
                       files |-> ObsoleteFiles]
          /\ req \in Requests
        BY <1>1, <1>3 DEF Scan, Control, Serving
    <2>2. LoaderFiles \cap kept = {}
        <3>1. LoaderFiles \cap kept \subseteq OtherConfs
            BY OtherPaths DEF LoaderFiles, Others
        <3> QED
            BY <2>1, <3>1 DEF LoaderFiles, ApartFrom
    <2>3. ASSUME NEW d \in KernelDirs, NEW p \in kept \cap OtherFiles, In(p, d)
          PROVE  FALSE
        BY <2>1, <2>3 DEF KernelDirs, In, ApartFrom
    <2>4. ObsoleteFiles \cap kept = {}
        <3>1. ObsoleteFiles \cap kept \subseteq OtherFiles
            BY OtherPaths DEF ObsoleteFiles, FilesBelow, Others
        <3> QED
            BY <2>3, <3>1 DEF ObsoleteFiles, FilesBelow
    <2>5. \A d \in ObsoleteKernels : \A p \in kept \cap OtherFiles : ~In(p, d)
        BY <2>3 DEF ObsoleteKernels
    <2>6. stale'.confs \cap kept = {} /\ stale'.files \cap kept = {}
        BY <2>1, <2>2, <2>4
    <2>7. stale'.trees = ObsoleteKernels
        BY <2>1
    <2> QED
        BY <2>5, <2>6, <2>7 DEF Spared, In
<1>4. CASE RemoveConf
    <2>1. PICK p : stale' = [stale EXCEPT !.confs = @ \ {p}]
        BY <1>4 DEF RemoveConf
    <2> QED
        BY <1>2, <2>1 DEF Spared, In
<1>5. CASE RemoveTree
    <2>1. PICK d : stale' = [stale EXCEPT !.trees = @ \ {d}]
        BY <1>5 DEF RemoveTree
    <2> QED
        BY <1>2, <2>1 DEF Spared, In
<1>6. CASE RemoveFile
    <2>1. PICK p : stale' = [stale EXCEPT !.files = @ \ {p}]
        BY <1>6 DEF RemoveFile
    <2> QED
        BY <1>2, <2>1 DEF Spared, In
<1>7. CASE (\E r \in Requests : Begin(r)) \/ Stop \/ Crash
    BY <1>7 DEF Begin, Stop, Crash, Forget, Spared, NoStale
<1>8. CASE \/ HashAsset \/ HashDone \/ Install \/ CopyChanged \/ WriteConf \/ CleanDone
           \/ Recover \/ UNCHANGED vars
    BY <1>8 DEF HashAsset, HashDone, Install, CopyChanged, WriteConf, CleanDone,
                Recover, vars, Spared, In
<1> QED
    BY <1>3, <1>4, <1>5, <1>6, <1>7, <1>8 DEF Next

(***************************************************************************)
(* Whatever a request installs or removes, and wherever it is interrupted, *)
(* the files of another system are at no risk, if its names are apart.     *)
(***************************************************************************)
THEOREM OthersSafe ==
    ASSUME Apart
    PROVE  Spec => []OthersKept
<1>1. Init => IInv /\ OthersInv
    BY IInvInit, OthersInit
<1>2. IInv /\ OthersInv /\ [Next]_vars => IInv' /\ OthersInv'
    BY IInvStep, StepUntouched, UntouchedKeeps, SparedStep DEF OthersInv, Apart, Others
<1>3. OthersInv => OthersKept
    BY DEF OthersInv
<1> QED
    BY <1>1, <1>2, <1>3, PTL DEF Spec

-----------------------------------------------------------------------------
(* Mirroring.                                                              *)

\* While cleanup runs, every file with a name of ours is wanted, is due to be
\* removed, or was given up.
Doomed(p) == p \in stale.files \/ \E d \in stale.trees : In(p, d)

Accounted ==
    pc \in {"clean", "done"} =>
        /\ \A p \in ConfPaths :
               OursConf(p) /\ disk[p] # Absent
                   => p \in InstalledConfs \cup undeleted \cup stale.confs
        /\ \A p \in KernelPaths :
               OursFile(p) /\ disk[p] # Absent
                   => p \in InstalledFiles \cup undeleted \/ Doomed(p)
        /\ pc = "done" => stale = NoStale

LEMMA ScanAccounts ==
    ASSUME IInv, Scan
    PROVE  Accounted'
<1>1. /\ UNCHANGED <<req, collisions, disk, undeleted>> /\ pc' = "clean"
      /\ stale' = [confs |-> LoaderFiles \ InstalledConfs,
                   trees |-> ObsoleteKernels,
                   files |-> ObsoleteFiles]
    BY DEF Scan, vfatVars
<1>2. /\ stale'.confs = LoaderFiles \ InstalledConfs
      /\ stale'.trees = ObsoleteKernels
      /\ stale'.files = ObsoleteFiles
    BY <1>1
<1>3. InstalledConfs' = InstalledConfs /\ InstalledFiles' = InstalledFiles
    BY <1>1, SameNames
<1>4. ASSUME NEW p \in ConfPaths, OursConf(p), disk[p] # Absent
      PROVE  p \in InstalledConfs \/ p \in stale'.confs
    BY <1>2, <1>4 DEF OursConf, LoaderFiles
<1>5. ASSUME NEW p \in KernelPaths, OursFile(p), disk[p] # Absent, p \notin InstalledFiles
      PROVE  p \in stale'.files \/ \E d \in stale'.trees : In(p, d)
    <2> DEFINE d == [ns |-> p.ns, dir |-> p.dir]
    <2>1. In(p, d) /\ p \in FilesBelow(d)
        BY <1>5 DEF In, FilesBelow
    <2>2. d \in KernelDirs
        BY <1>5, <2>1 DEF KernelDirs, OursFile, Dirs
    <2>3. CASE d \in ObsoleteKernels
        BY <1>2, <2>1, <2>3
    <2>4. CASE d \notin ObsoleteKernels
        BY <1>2, <1>5, <2>1, <2>2, <2>4 DEF ObsoleteFiles
    <2> QED
        BY <2>3, <2>4
<1>6. \A p : (OursConf(p)' <=> OursConf(p)) /\ (OursFile(p)' <=> OursFile(p))
    BY <1>1 DEF OursConf, OursFile
<1> QED
    BY <1>1, <1>3, <1>4, <1>5, <1>6 DEF Accounted, Doomed, In

LEMMA RemoveAccounts ==
    ASSUME IInv, Accounted, RemoveConf \/ RemoveTree \/ RemoveFile
    PROVE  Accounted'
<1>1. /\ pc = "clean" /\ pc' = "clean" /\ UNCHANGED <<req, collisions>>
    BY DEF RemoveConf, RemoveTree, RemoveFile
<1>2. InstalledConfs' = InstalledConfs /\ InstalledFiles' = InstalledFiles
    BY <1>1, SameNames
<1>3. /\ stale \in [confs : SUBSET ConfPaths, trees : SUBSET Dirs, files : SUBSET KernelPaths]
      /\ disk \in [Path -> Content]
      /\ ConfPaths \subseteq Path /\ KernelPaths \subseteq Path
    BY DEF IInv, TypeOK, Path
<1>4. \A p : (OursConf(p)' <=> OursConf(p)) /\ (OursFile(p)' <=> OursFile(p))
    BY <1>1 DEF OursConf, OursFile
<1>5. ASSUME \A p \in Path : disk'[p] # Absent => disk[p] # Absent,
             undeleted \subseteq undeleted',
             \A p \in ConfPaths : p \in stale.confs /\ disk'[p] # Absent
                 => p \in stale'.confs \cup undeleted',
             \A p \in KernelPaths : Doomed(p) /\ disk'[p] # Absent
                 => Doomed(p)' \/ p \in undeleted'
      PROVE  Accounted'
    BY <1>1, <1>2, <1>3, <1>4, <1>5 DEF Accounted
<1>6. ASSUME NEW gone, Unlink(gone)
      PROVE  /\ \A p \in Path : disk'[p] # Absent => disk[p] # Absent
             /\ \A p \in gone \cap Path : disk'[p] = Absent
    BY <1>3, <1>6 DEF Unlink
<1>7. CASE RemoveConf
    <2>1. PICK p \in stale.confs :
              /\ stale' = [stale EXCEPT !.confs = @ \ {p}]
              /\ \/ Unlink({p}) /\ undeleted' = undeleted
                 \/ undeleted' = undeleted \cup {p} /\ UNCHANGED <<disk, outcomes>>
        BY <1>7 DEF RemoveConf
    <2>2. /\ stale'.confs = stale.confs \ {p}
          /\ stale'.trees = stale.trees /\ stale'.files = stale.files
        BY <1>3, <2>1
    <2>3. \A q : Doomed(q)' <=> Doomed(q)
        BY <2>2 DEF Doomed, In
    <2>4. \A q \in Path : disk'[q] # Absent => disk[q] # Absent
        BY <1>6, <2>1
    <2>5. p \in undeleted' \/ disk'[p] = Absent
        BY <1>3, <1>6, <2>1
    <2> QED
        BY <1>5, <2>1, <2>2, <2>3, <2>4, <2>5
<1>8. CASE RemoveTree
    <2>1. PICK d \in stale.trees : \E gone \in SUBSET FilesBelow(d) :
              /\ stale' = [stale EXCEPT !.trees = @ \ {d}]
              /\ Unlink(gone)
              /\ undeleted' = undeleted \cup (FilesBelow(d) \ gone)
        BY <1>8 DEF RemoveTree
    <2>2. PICK gone \in SUBSET FilesBelow(d) :
              /\ Unlink(gone)
              /\ undeleted' = undeleted \cup (FilesBelow(d) \ gone)
        BY <2>1
    <2>3. /\ stale'.confs = stale.confs /\ stale'.files = stale.files
          /\ stale'.trees = stale.trees \ {d}
        BY <1>3, <2>1
    <2>4. ASSUME NEW p \in KernelPaths, Doomed(p), disk'[p] # Absent
          PROVE  Doomed(p)' \/ p \in undeleted'
        <3>1. CASE In(p, d)
            <4>1. disk[p] # Absent /\ p \notin gone
                BY <1>3, <1>6, <2>2, <2>4
            <4> QED
                BY <2>2, <3>1, <4>1 DEF FilesBelow
        <3>2. CASE ~In(p, d)
            BY <2>3, <2>4, <3>2 DEF Doomed, In
        <3> QED
            BY <3>1, <3>2
    <2> QED
        BY <1>5, <1>6, <2>2, <2>3, <2>4
<1>9. CASE RemoveFile
    <2>1. PICK p \in stale.files :
              /\ stale' = [stale EXCEPT !.files = @ \ {p}]
              /\ \/ Unlink({p}) /\ undeleted' = undeleted
                 \/ undeleted' = undeleted \cup {p} /\ UNCHANGED <<disk, outcomes>>
        BY <1>9 DEF RemoveFile
    <2>2. /\ stale'.confs = stale.confs
          /\ stale'.trees = stale.trees /\ stale'.files = stale.files \ {p}
        BY <1>3, <2>1
    <2>3. \A q \in Path : disk'[q] # Absent => disk[q] # Absent
        BY <1>6, <2>1
    <2>4. p \in undeleted' \/ disk'[p] = Absent
        BY <1>3, <1>6, <2>1
    <2>5. \A q : Doomed(q) => Doomed(q)' \/ q = p
        BY <2>2 DEF Doomed, In
    <2> QED
        BY <1>5, <2>1, <2>2, <2>3, <2>4, <2>5
<1> QED
    BY <1>7, <1>8, <1>9

LEMMA AccountedStep ==
    ASSUME IInv, Accounted, [Next]_vars
    PROVE  Accounted'
<1>1. ASSUME pc' \notin {"clean", "done"}
      PROVE  Accounted'
    BY <1>1 DEF Accounted
<1>2. CASE Scan
    BY <1>2, ScanAccounts
<1>3. CASE RemoveConf \/ RemoveTree \/ RemoveFile
    BY <1>3, RemoveAccounts
<1>4. ASSUME UNCHANGED <<req, collisions, disk, undeleted, stale>>,
             pc \in {"clean", "done"} \/ pc' \notin {"clean", "done"},
             pc' = "done" => stale = NoStale
      PROVE  Accounted'
    <2>1. InstalledConfs' = InstalledConfs /\ InstalledFiles' = InstalledFiles
        BY <1>4, SameNames
    <2>2. \A p : (OursConf(p)' <=> OursConf(p)) /\ (OursFile(p)' <=> OursFile(p))
        BY <1>4 DEF OursConf, OursFile
    <2> QED
        BY <1>4, <2>1, <2>2 DEF Accounted, Doomed, In
<1>5. CASE CleanDone
    BY <1>4, <1>5 DEF CleanDone, vfatVars
<1>6. CASE \/ \E r \in Requests : Begin(r)
           \/ HashAsset \/ HashDone \/ Install \/ CopyChanged \/ WriteConf
           \/ Stop \/ Crash \/ Recover
    BY <1>1, <1>6 DEF Begin, HashAsset, HashDone, Install, CopyChanged, WriteConf,
                      Stop, Crash, Recover, Settle
<1>7. CASE UNCHANGED vars
    BY <1>4, <1>7 DEF vars, vfatVars, Accounted
<1> QED
    BY <1>2, <1>3, <1>5, <1>6, <1>7 DEF Next

(***************************************************************************)
(* A call that completes has removed everything with a name of its own     *)
(* that it did not install, or knows what it could not remove: also what   *)
(* earlier calls left when they failed, were killed or lost power.         *)
(***************************************************************************)
THEOREM Mirrors == Spec => []Mirrored
<1>1. Init => IInv /\ Accounted
    BY IInvInit DEF Init, Accounted
<1>2. IInv /\ Accounted /\ [Next]_vars => IInv' /\ Accounted'
    BY IInvStep, AccountedStep
<1>3. Accounted => Mirrored
    BY DEF Accounted, Mirrored, Doomed, NoStale
<1> QED
    BY <1>1, <1>2, <1>3, PTL DEF Spec
=============================================================================
