----------------------- MODULE InstalledKernelsProofs -----------------------
(***************************************************************************)
(* What installed_kernels reads back is what sync_entries wrote.           *)
(***************************************************************************)
EXTENDS InstalledKernels, EntryMenuProofs

ReportInv == IInv /\ IntactInv /\ Accounted /\ Ordered

\* An image without a conflict index, in a directory of this system.
Image(p) ==
    /\ p.ns = OsNamespace(req.schema) /\ p.dir # ""
    /\ p.file = "vmlinuz" /\ p.suffix = NoSuffix

LEMMA InstalledImages ==
    ASSUME req.schema.kind # "legacy"
    PROVE  Installed = {p.dir : p \in {q \in KernelPaths : disk[q] # Absent /\ Image(q)}}
<1>1. \A p : NameEnding(Named(p).name) = "vmlinuz" <=> p.file = "vmlinuz" /\ p.suffix = NoSuffix
    BY DEF NameEnding, Named
<1>2. Discovery!Images = {f \in {Named(p) : p \in Seen} : NameEnding(f.name) = "vmlinuz"}
    BY DEF Discovery!Images
<1>3. \A p : Named(p).dir = p.dir
    BY DEF Named
<1>4. Installed = {f.dir : f \in Discovery!Images}
    BY DEF Installed
<1>5. \A d : d \in {f.dir : f \in Discovery!Images}
               <=> \E p \in Seen : d = p.dir /\ p.file = "vmlinuz" /\ p.suffix = NoSuffix
    BY <1>1, <1>2, <1>3
<1>6. \A d : (\E p \in Seen : d = p.dir /\ p.file = "vmlinuz" /\ p.suffix = NoSuffix)
               <=> d \in {p.dir : p \in {q \in KernelPaths : disk[q] # Absent /\ Image(q)}}
    BY DEF Seen, Image
<1> QED
    BY <1>4, <1>5, <1>6

\* A key has no conflict index if and only if all its assets are of one content.
LEMMA NoRival ==
    ASSUME IInv, Ordered, Serving, pc # "hash",
           NEW i \in DOMAIN req.entries, NEW j \in DOMAIN req.entries[i].assets
    PROVE  ConflictIndex(collisions, req.entries[i].assets[j]) = NoSuffix
               <=> Unrivalled(req.entries[i].assets[j])
<1> DEFINE a == req.entries[i].assets[j]
           K == KeyOf(a)
           s == collisions[K]
<1>1. req \in Requests /\ K \in Keys
    BY EntryFacts
<1>2. s \in Seq(HashSet) /\ Distinct(s)
    BY <1>1 DEF IInv, TypeOK, Collected
<1>3. Len(s) \in Nat /\ DOMAIN s = 1..Len(s)
    BY <1>2
<1>4. a.hash \in Hashes(collisions, K)
    BY DEF IInv, Collected, Inserted
<1>5. Position(collisions, a) \in DOMAIN s /\ s[Position(collisions, a)] = a.hash
    BY <1>4, PositionFound, Zenon
<1>6. ConflictIndex(collisions, a) = NoSuffix <=> Len(s) <= 1
    <2>1. Position(collisions, a) \in 1..Len(s)
        BY <1>3, <1>5
    <2>2. ConflictIndex(collisions, a)
              = IF Len(s) > 1 THEN Position(collisions, a) - 1 ELSE NoSuffix
        BY DEF ConflictIndex
    <2> HIDE DEF s, a
    <2> QED
        BY <1>3, <2>1, <2>2 DEF NoSuffix
<1>7. ASSUME Len(s) <= 1
      PROVE  Unrivalled(a)
    <2> SUFFICES ASSUME NEW e \in Range(req.entries), NEW b \in Range(e.assets), KeyOf(b) = K
                 PROVE  b.hash = a.hash
        BY DEF Unrivalled
    <2>1. PICK m \in DOMAIN req.entries : e = req.entries[m]
        BY DEF Range
    <2>2. PICK n \in DOMAIN req.entries[m].assets : b = req.entries[m].assets[n]
        BY <2>1 DEF Range
    <2>3. b.hash \in Hashes(collisions, K)
        BY <2>1, <2>2 DEF IInv, Collected, Inserted
    <2>4. PICK q \in DOMAIN s : s[q] = b.hash
        BY <2>3 DEF Hashes
    <2> HIDE DEF s, a
    <2> QED
        BY <1>3, <1>5, <1>7, <2>4
<1>8. ASSUME Unrivalled(a), Len(s) > 1
      PROVE  FALSE
    <2>1. 1 \in DOMAIN s /\ 2 \in DOMAIN s
        BY <1>3, <1>8
    <2>2. \A q \in DOMAIN s : s[q] = a.hash
        <3> SUFFICES ASSUME NEW q \in DOMAIN s
                     PROVE  s[q] = a.hash
            OBVIOUS
        <3>1. PICK m \in DOMAIN req.entries : \E n \in DOMAIN req.entries[m].assets :
                  IsAt(req, m, n, K, s[q])
            BY <1>1 DEF Ordered
        <3>2. PICK n \in DOMAIN req.entries[m].assets : IsAt(req, m, n, K, s[q])
            BY <3>1
        <3>3. /\ req.entries[m] \in Range(req.entries)
              /\ req.entries[m].assets[n] \in Range(req.entries[m].assets)
            BY <1>1, RequestParts
        <3> QED
            BY <1>8, <3>2, <3>3 DEF Unrivalled, IsAt
    <2> QED
        BY <1>2, <2>1, <2>2 DEF Distinct
<1> QED
    BY <1>3, <1>6, <1>7, <1>8

\* Where the image of an entry is.
LEMMA ImageOf ==
    ASSUME IInv, Serving, pc # "hash",
           NEW i \in DOMAIN req.entries, NEW j \in DOMAIN req.entries[i].assets
    PROVE  LET e == req.entries[i]
               p == AssetPath(e, e.assets[j])
           IN  /\ 1 \in DOMAIN e.assets
               /\ Image(p) => e \in Own /\ p.dir = e.version /\ j = 1
                              /\ ConflictIndex(collisions, e.assets[j]) = NoSuffix
               /\ e \in Own /\ j = 1 /\ ConflictIndex(collisions, e.assets[j]) = NoSuffix
                     => Image(p) /\ p.dir = e.version
<1> DEFINE e == req.entries[i]
           a == e.assets[j]
           p == AssetPath(e, a)
<1>1. /\ req \in Requests /\ e \in Range(req.entries)
      /\ a.version = e.version /\ e.version \notin {"", "shared"}
      /\ Effective(e).kind # "legacy" => (a.kind = "image" <=> a.file = "vmlinuz")
    BY EntryFacts
<1>2. e.assets \in Seq(Assets) \ {<<>>} /\ (a.kind = "image" <=> j = 1)
    <2> HIDE DEF e
    <2>1. e.assets \in Seq(Assets) \ {<<>>}
        BY <1>1, AssetAssumption
    <2>2. \A n \in DOMAIN e.assets : e.assets[n].kind = "image" <=> n = 1
        <3>1. \A r \in Requests : \A x \in Range(r.entries) : \A n \in DOMAIN x.assets :
                  x.assets[n].kind = "image" <=> n = 1
            BY AssetAssumption
        <3> QED
            BY <1>1, <3>1
    <2> QED
        BY <2>1, <2>2 DEF e
<1>3. 1 \in DOMAIN e.assets
    BY <1>2
<1>4. p = InstalledPath(Effective(e), a, ConflictIndex(collisions, a))
    BY DEF AssetPath
<1>5. ASSUME Image(p)
      PROVE  e \in Own /\ p.dir = e.version /\ j = 1 /\ ConflictIndex(collisions, a) = NoSuffix
    <2> HIDE DEF e, a, p
    <2> QED
        BY <1>1, <1>2, <1>4, <1>5 DEF Image, InstalledPath, Own
<1>6. ASSUME e \in Own, j = 1, ConflictIndex(collisions, a) = NoSuffix
      PROVE  Image(p) /\ p.dir = e.version
    <2> HIDE DEF e, a, p
    <2> QED
        BY <1>1, <1>2, <1>4, <1>6 DEF Image, InstalledPath, Own
<1> QED
    BY <1>3, <1>5, <1>6

(***************************************************************************)
(* After a call that could remove what it wanted to, installed_kernels     *)
(* reports the versions of the request's own entries, and no others, but   *)
(* for those whose image has a conflict index: whatever earlier calls left *)
(* and however the images are called.                                      *)
(***************************************************************************)
THEOREM Reports == Spec => []ReportsInstalled
<1>1. Init => ReportInv
    BY IInvInit, IntactInit DEF Init, ReportInv, Accounted, Ordered, Serving
<1>2. ReportInv /\ [Next]_vars => ReportInv'
    BY IInvStep, IntactStep, AccountedStep, OrderedStep DEF ReportInv
<1>3. ASSUME ReportInv, pc = "done", undeleted = {}, req.schema.kind # "legacy"
      PROVE  Installed = {e.version : e \in {x \in Own : Unrivalled(x.assets[1])}}
    <2> DEFINE Images == {q \in KernelPaths : disk[q] # Absent /\ Image(q)}
    <2>1. IInv /\ Ordered /\ Serving /\ Installed = {p.dir : p \in Images}
        BY <1>3, InstalledImages DEF ReportInv, Serving
    <2>2. req \in Requests /\ cur = Len(req.entries) + 1 /\ req.entries \in Seq(Entries)
        BY <1>3, <2>1, RequestAssumption DEF IInv, Control
    <2>3. ASSUME NEW p \in Images
          PROVE  \E e \in Own : Unrivalled(e.assets[1]) /\ p.dir = e.version
        <3>1. p \in InstalledFiles
            <4>1. OursFile(p)
                BY <1>3 DEF OursFile, Image, Namespaces, OsNamespace
            <4> QED
                BY <1>3, <4>1 DEF ReportInv, Accounted, Doomed, NoStale
        <3>2. PICK e \in Range(req.entries) : p \in Range(TextOf(e))
            BY <3>1 DEF InstalledFiles
        <3>3. PICK i \in DOMAIN req.entries : e = req.entries[i]
            BY <3>2 DEF Range
        <3>4. PICK j \in DOMAIN e.assets : p = AssetPath(e, e.assets[j])
            BY <3>2 DEF Range, TextOf
        <3>5. /\ e \in Own /\ p.dir = e.version /\ j = 1
              /\ ConflictIndex(collisions, e.assets[j]) = NoSuffix
            BY <1>3, <2>1, <3>3, <3>4, ImageOf
        <3> QED
            BY <1>3, <2>1, <3>3, <3>4, <3>5, NoRival
    <2>4. ASSUME NEW e \in Own, Unrivalled(e.assets[1])
          PROVE  \E p \in Images : p.dir = e.version
        <3>1. PICK i \in DOMAIN req.entries : e = req.entries[i]
            BY DEF Own, Range
        <3>2. 1 \in DOMAIN e.assets
            <4>1. e \in Range(req.entries)
                BY DEF Own
            <4>2. e.assets \in Seq(Assets) \ {<<>>}
                BY <2>2, <4>1, AssetAssumption
            <4> QED
                BY <4>2
        <3> DEFINE p == AssetPath(e, e.assets[1])
        <3>3. ConflictIndex(collisions, e.assets[1]) = NoSuffix
            BY <1>3, <2>1, <2>4, <3>1, <3>2, NoRival
        <3>4. Image(p) /\ p.dir = e.version
            BY <1>3, <2>1, <3>1, <3>2, <3>3, ImageOf, Zenon
        <3>5. p \in Dest
            BY <1>3, <2>1, <3>1, <3>2, AssetPathType
        <3>6. e \in InstalledEntries
            BY <1>3, <2>2, <3>1 DEF InstalledEntries
        <3>7. disk[p] = e.assets[1].hash
            BY <1>3, <3>2, <3>6 DEF ReportInv, IntactInv, InstalledIntact, TextOf
        <3>8. e.assets[1].hash \in HashSet
            BY <2>2, <3>1, <3>2, RequestParts
        <3>9. p \in Images
            <4>1. disk[p] # Absent
                BY <3>7, <3>8, AssetAssumption
            <4> HIDE DEF p
            <4> QED
                BY <3>4, <3>5, <4>1 DEF KernelPaths
        <3> QED
            BY <3>4, <3>9
    <2> HIDE DEF Images
    <2>5. \A v : v \in {p.dir : p \in Images}
                     <=> v \in {e.version : e \in {x \in Own : Unrivalled(x.assets[1])}}
        BY <2>3, <2>4
    <2> QED
        BY <2>1, <2>5
<1>4. ReportInv => ReportsInstalled
    BY <1>3 DEF ReportsInstalled
<1> QED
    BY <1>1, <1>2, <1>4, PTL DEF Spec
=============================================================================
