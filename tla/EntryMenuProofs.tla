-------------------------- MODULE EntryMenuProofs ---------------------------
(***************************************************************************)
(* EntrySync implements BootMenu, for requests that keep installed names   *)
(* (Steady): every step of it is a step of BootMenu or changes nothing of  *)
(* what the menu shows after a power failure.  Then, for requests in which *)
(* every path stands for one content (OneContent): what entries name, and  *)
(* what may put an entry at risk.                                          *)
(***************************************************************************)
EXTENDS EntryMenu, EntrySyncProofs

-----------------------------------------------------------------------------
(* What AssetCollisions comes to.                                          *)

\* The contents of a key are listed in the order in which they are met.
Ordered ==
    Serving => \A k \in Keys :
        /\ \A p \in DOMAIN collisions[k] :
               \E i \in DOMAIN req.entries : \E j \in DOMAIN req.entries[i].assets :
                   Inserted(i, j) /\ IsAt(req, i, j, k, collisions[k][p])
        /\ \A p, q \in DOMAIN collisions[k] :
               p < q => Before(req, k, collisions[k][p], collisions[k][q])

LEMMA OrderedHash ==
    ASSUME IInv, Ordered, HashAsset
    PROVE  Ordered'
<1>1. /\ pc = "hash" /\ pc' = "hash" /\ req' = req /\ Serving /\ Serving'
      /\ cur <= Len(req.entries) /\ collisions' = Insert(collisions, Entry.assets[pos])
      /\ IF pos < Len(Entry.assets) THEN pos' = pos + 1 /\ cur' = cur
                                    ELSE pos' = 1 /\ cur' = cur + 1
    BY DEF HashAsset, Serving
<1>2. /\ req \in Requests /\ cur \in DOMAIN req.entries /\ cur \in Nat
      /\ pos \in DOMAIN req.entries[cur].assets
      /\ collisions \in [Keys -> Seq(HashSet)]
    <2>1. req \in Requests /\ cur \in 1..(Len(req.entries) + 1)
        BY <1>1 DEF IInv, Control
    <2>2. req.entries \in Seq(Entries)
        BY <2>1, RequestAssumption
    <2> QED
        BY <1>1, <2>1, <2>2 DEF IInv, Control, TypeOK
<1> DEFINE a == req.entries[cur].assets[pos]
           K == KeyOf(a)
           s == collisions[K]
<1>3. \A i \in DOMAIN req.entries : \A j \in DOMAIN req.entries[i].assets :
          i \in Nat /\ j \in Nat /\ Len(req.entries[i].assets) \in Nat
          /\ j <= Len(req.entries[i].assets)
    BY <1>2, RequestParts
<1>4. \A i \in DOMAIN req.entries : \A j \in DOMAIN req.entries[i].assets :
          Inserted(i, j)' <=> Inserted(i, j) \/ (i = cur /\ j = pos)
    BY <1>1, <1>2, <1>3 DEF Inserted, Entry
<1>5. \A i \in DOMAIN req.entries : \A j \in DOMAIN req.entries[i].assets :
          Inserted(i, j) <=> (i < cur \/ (i = cur /\ j < pos))
    BY <1>1 DEF Inserted
<1>6. K \in Keys /\ a.hash \in HashSet
    BY <1>2, RequestParts
<1>7. ASSUME NEW k \in Keys, collisions'[k] = collisions[k]
      PROVE  /\ \A p \in DOMAIN collisions'[k] :
                    \E i \in DOMAIN req'.entries : \E j \in DOMAIN req'.entries[i].assets :
                        Inserted(i, j)' /\ IsAt(req', i, j, k, collisions'[k][p])
             /\ \A p, q \in DOMAIN collisions'[k] :
                    p < q => Before(req', k, collisions'[k][p], collisions'[k][q])
    BY <1>1, <1>4, <1>7 DEF Ordered
<1>8. CASE a.hash \in Hashes(collisions, K)
    <2>1. collisions' = collisions
        BY <1>1, <1>8 DEF Insert, Entry
    <2> QED
        BY <1>1, <1>7, <2>1 DEF Ordered, IsAt
<1>9. CASE a.hash \notin Hashes(collisions, K)
    <2>1. collisions' = [collisions EXCEPT ![K] = Append(s, a.hash)]
        BY <1>1, <1>9 DEF Insert, Entry
    <2>2. s \in Seq(HashSet)
        BY <1>2, <1>6
    <2>3. /\ DOMAIN Append(s, a.hash) = DOMAIN s \cup {Len(s) + 1}
          /\ Append(s, a.hash)[Len(s) + 1] = a.hash
          /\ \A p \in DOMAIN s : Append(s, a.hash)[p] = s[p] /\ p \in Nat /\ p <= Len(s)
          /\ Len(s) \in Nat
        <3> HIDE DEF s, a
        <3> QED
            BY <2>2
    <2>4. \A p \in DOMAIN s : \E i \in DOMAIN req.entries :
              \E j \in DOMAIN req.entries[i].assets :
                  Inserted(i, j) /\ IsAt(req, i, j, K, s[p])
        BY <1>1, <1>6 DEF Ordered
    <2>5. IsAt(req, cur, pos, K, a.hash)
        BY DEF IsAt
    \* The new content was not met before.
    <2>6. ASSUME NEW m \in DOMAIN req.entries, NEW n \in DOMAIN req.entries[m].assets,
                 IsAt(req, m, n, K, a.hash)
          PROVE  ~ Inserted(m, n)
        BY <1>1, <1>9, <2>6 DEF IInv, Collected, IsAt
    <2>7. ASSUME NEW p \in DOMAIN s
          PROVE  Before(req, K, s[p], a.hash)
        <3>1. PICK i \in DOMAIN req.entries : \E j \in DOMAIN req.entries[i].assets :
                  Inserted(i, j) /\ IsAt(req, i, j, K, s[p])
            BY <2>4
        <3>2. PICK j \in DOMAIN req.entries[i].assets :
                  Inserted(i, j) /\ IsAt(req, i, j, K, s[p])
            BY <3>1
        <3>3. ASSUME NEW m \in DOMAIN req.entries, NEW n \in DOMAIN req.entries[m].assets,
                     IsAt(req, m, n, K, a.hash)
              PROVE  i < m \/ (i = m /\ j < n)
            <4>1. ~ Inserted(m, n)
                BY <2>6, <3>3
            <4> QED
                BY <1>2, <1>3, <1>5, <3>2, <4>1
        <3> HIDE DEF s, a, K
        <3> QED
            BY <3>2, <3>3 DEF Before
    <2>8. \A p, q \in DOMAIN s : p < q => Before(req, K, s[p], s[q])
        BY <1>1, <1>6 DEF Ordered
    <2>9. collisions'[K] = Append(s, a.hash) /\ \A k \in Keys : k # K => collisions'[k] = collisions[k]
        BY <1>2, <1>6, <2>1
    <2>10. \A p \in DOMAIN collisions'[K] :
               \E i \in DOMAIN req.entries : \E j \in DOMAIN req.entries[i].assets :
                   Inserted(i, j)' /\ IsAt(req, i, j, K, collisions'[K][p])
        <3> HIDE DEF s, a, K
        <3> QED
            BY <1>2, <1>4, <2>3, <2>4, <2>5, <2>9
    <2>11. \A p, q \in DOMAIN collisions'[K] :
               p < q => Before(req, K, collisions'[K][p], collisions'[K][q])
        <3> HIDE DEF s, a, K
        <3> QED
            BY <2>3, <2>7, <2>8, <2>9
    <2>12. ASSUME NEW k \in Keys
           PROVE  /\ \A p \in DOMAIN collisions'[k] :
                         \E i \in DOMAIN req'.entries : \E j \in DOMAIN req'.entries[i].assets :
                             Inserted(i, j)' /\ IsAt(req', i, j, k, collisions'[k][p])
                  /\ \A p, q \in DOMAIN collisions'[k] :
                         p < q => Before(req', k, collisions'[k][p], collisions'[k][q])
        <3>1. CASE k = K
            <4> HIDE DEF K
            <4> QED
                BY <1>1, <2>10, <2>11, <3>1
        <3>2. CASE k # K
            BY <1>7, <2>9, <3>2
        <3> QED
            BY <3>1, <3>2
    <2> QED
        BY <2>12 DEF Ordered
<1> QED
    BY <1>8, <1>9

LEMMA OrderedStep ==
    ASSUME IInv, Ordered, [Next]_vars
    PROVE  Ordered'
<1>1. ASSUME UNCHANGED <<req, collisions>>, pc' \in {"install", "copy", "clean", "done"}, Serving
      PROVE  Ordered'
    BY <1>1 DEF Ordered, Inserted, Serving
<1>2. ASSUME pc' \in {"idle", "down"} \/ collisions' = [k \in Keys |-> <<>>]
      PROVE  Ordered'
    BY <1>2 DEF Ordered, Serving
<1>3. CASE HashAsset
    BY <1>3, OrderedHash
<1>4. CASE HashDone \/ Install \/ CopyChanged \/ WriteConf \/ Scan \/ RemoveConf \/ RemoveTree
           \/ RemoveFile \/ CleanDone
    BY <1>1, <1>4 DEF HashDone, Install, CopyChanged, WriteConf, Scan, RemoveConf, RemoveTree,
                      RemoveFile, CleanDone, Serving
<1>5. CASE (\E r \in Requests : Begin(r)) \/ Stop \/ Crash \/ Recover
    BY <1>2, <1>5 DEF Begin, Stop, Crash, Recover
<1>6. CASE UNCHANGED vars
    BY <1>6 DEF vars, Ordered, Serving, Inserted
<1> QED
    BY <1>3, <1>4, <1>5, <1>6 DEF Next

\* The first n elements of an injective sequence are n.
LEMMA Counted ==
    ASSUME NEW S, NEW s \in Seq(S), Distinct(s), NEW n \in Nat, n <= Len(s)
    PROVE  Cardinality({s[q] : q \in 1..n}) = n
<1> DEFINE T == {s[q] : q \in 1..n}
           f == [q \in 1..n |-> s[q]]
<1>1. \A q \in 1..n : q \in DOMAIN s
    OBVIOUS
<1>2. f \in Bijection(1..n, T)
    BY <1>1 DEF Distinct, Bijection, Injection, Surjection, IsInjective
<1>3. ExistsBijection(1..n, T)
    BY <1>2 DEF ExistsBijection
<1> HIDE DEF T
<1>4. Cardinality(T) = n
    BY <1>3, FS_CountingElements
<1> QED
    BY <1>4 DEF T

\* Two contents are not each in front of the other.
LEMMA BeforeOrders ==
    ASSUME NEW r \in Requests, NEW k, NEW h, NEW g, Before(r, k, h, g)
    PROVE  ~ Before(r, k, g, h)
<1>1. SUFFICES ASSUME Before(r, k, g, h)
               PROVE  FALSE
    OBVIOUS
<1>2. PICK i \in DOMAIN r.entries : \E j \in DOMAIN r.entries[i].assets :
          /\ IsAt(r, i, j, k, h)
          /\ \A m \in DOMAIN r.entries : \A n \in DOMAIN r.entries[m].assets :
                 IsAt(r, m, n, k, g) => i < m \/ (i = m /\ j < n)
    BY DEF Before
<1>3. PICK j \in DOMAIN r.entries[i].assets :
          /\ IsAt(r, i, j, k, h)
          /\ \A m \in DOMAIN r.entries : \A n \in DOMAIN r.entries[m].assets :
                 IsAt(r, m, n, k, g) => i < m \/ (i = m /\ j < n)
    BY <1>2
<1>4. PICK m \in DOMAIN r.entries : \E n \in DOMAIN r.entries[m].assets :
          IsAt(r, m, n, k, g) /\ (IsAt(r, i, j, k, h) => m < i \/ (m = i /\ n < j))
    BY <1>1 DEF Before
<1>5. PICK n \in DOMAIN r.entries[m].assets :
          IsAt(r, m, n, k, g) /\ (IsAt(r, i, j, k, h) => m < i \/ (m = i /\ n < j))
    BY <1>4
<1>6. i < m \/ (i = m /\ j < n)
    BY <1>3, <1>5
<1>7. m < i \/ (m = i /\ n < j)
    BY <1>3, <1>5
<1>8. i \in Nat /\ m \in Nat /\ j \in Nat /\ n \in Nat
    BY RequestParts
<1> QED
    BY <1>6, <1>7, <1>8

(***************************************************************************)
(* What AssetCollisions computes, whatever the request: the conflict index *)
(* of an asset is the number of contents of its key that the request has   *)
(* in front of it, if there is more than one.                              *)
(***************************************************************************)
LEMMA IndexComputed ==
    ASSUME IInv, Ordered, Serving, pc # "hash",
           NEW i \in DOMAIN req.entries, NEW j \in DOMAIN req.entries[i].assets
    PROVE  ConflictIndex(collisions, req.entries[i].assets[j])
               = IndexIn(req, req.entries[i].assets[j])
<1> DEFINE a == req.entries[i].assets[j]
           K == KeyOf(a)
           s == collisions[K]
           p == Position(collisions, a)
<1>1. req \in Requests
    BY DEF IInv, Control
<1>2. K \in Keys
    BY <1>1, RequestParts
<1>3. s \in Seq(HashSet) /\ Distinct(s)
    BY <1>2 DEF IInv, TypeOK, Collected
<1>4. a.hash \in Hashes(collisions, K)
    BY DEF IInv, Collected, Inserted
<1>5. p \in DOMAIN s /\ s[p] = a.hash
    BY <1>4, PositionFound, Zenon
<1>6. DOMAIN s = 1..Len(s) /\ Len(s) \in Nat
    BY <1>3
<1>7. /\ \A q \in DOMAIN s : \E m \in DOMAIN req.entries :
             \E n \in DOMAIN req.entries[m].assets : IsAt(req, m, n, K, s[q])
      /\ \A q, t \in DOMAIN s : q < t => Before(req, K, s[q], s[t])
    BY <1>2 DEF Ordered
<1>8. \A m \in DOMAIN req.entries : \A n \in DOMAIN req.entries[m].assets :
          KeyOf(req.entries[m].assets[n]) = K =>
              req.entries[m].assets[n].hash \in Hashes(collisions, K)
    BY DEF IInv, Collected, Inserted
<1>9. HashesIn(req, K) = {s[q] : q \in 1..Len(s)}
    <2>1. ASSUME NEW h \in HashesIn(req, K)
          PROVE  \E q \in 1..Len(s) : h = s[q]
        <3>1. h \in Hashes(collisions, K)
            BY <1>8, <2>1 DEF HashesIn, IsAt
        <3> QED
            BY <1>6, <3>1 DEF Hashes
    <2>2. ASSUME NEW q \in 1..Len(s)
          PROVE  s[q] \in HashesIn(req, K)
        <3>1. q \in DOMAIN s /\ s[q] \in HashSet
            BY <1>3, <1>6
        <3>2. \E m \in DOMAIN req.entries : \E n \in DOMAIN req.entries[m].assets :
                  IsAt(req, m, n, K, s[q])
            BY <1>7, <3>1
        <3> HIDE DEF s, K, a
        <3> QED
            BY <3>1, <3>2 DEF HashesIn
    <2> HIDE DEF s, K, a
    <2> QED
        BY <2>1, <2>2
<1>10. {h \in HashesIn(req, K) : Before(req, K, h, a.hash)} = {s[q] : q \in 1..(p - 1)}
    <2>1. ASSUME NEW q \in DOMAIN s
          PROVE  Before(req, K, s[q], a.hash) <=> q < p
        <3>1. CASE q < p
            <4> HIDE DEF s, K, a, p
            <4> QED
                BY <1>5, <1>7, <3>1
        <3>2. CASE q = p
            <4>1. Before(req, K, s[q], a.hash) => ~ Before(req, K, s[q], a.hash)
                <5> HIDE DEF s, K, a, p
                <5> QED
                    BY <1>1, <1>5, <3>2, BeforeOrders
            <4>2. ~ (q < p)
                <5> HIDE DEF s, K, a, p
                <5> QED
                    BY <1>5, <1>6, <3>2
            <4> QED
                BY <4>1, <4>2
        <3>3. CASE p < q
            <4> HIDE DEF s, K, a, p
            <4>1. Before(req, K, a.hash, s[q])
                BY <1>5, <1>7, <3>3
            <4>2. ~ Before(req, K, s[q], a.hash)
                BY <1>1, <4>1, BeforeOrders
            <4>3. ~ (q < p)
                BY <1>5, <1>6, <3>3
            <4> QED
                BY <4>2, <4>3
        <3> HIDE DEF s, K, a, p
        <3> QED
            BY <1>5, <1>6, <3>1, <3>2, <3>3
    <2> HIDE DEF s, K, a, p
    <2> QED
        BY <1>5, <1>6, <1>9, <2>1
<1> HIDE DEF s, p
<1>11. /\ Cardinality(HashesIn(req, K)) = Len(s)
       /\ Cardinality({h \in HashesIn(req, K) : Before(req, K, h, a.hash)}) = p - 1
    <2>1. p - 1 \in Nat /\ p - 1 <= Len(s)
        BY <1>5, <1>6
    <2> HIDE DEF K, a
    <2>2. Cardinality({s[q] : q \in 1..Len(s)}) = Len(s)
        BY <1>3, <1>6, Counted
    <2>3. Cardinality({s[q] : q \in 1..(p - 1)}) = p - 1
        BY <1>3, <2>1, Counted
    <2> QED
        BY <1>9, <1>10, <2>2, <2>3
<1>12. ConflictIndex(collisions, a) = IF Len(s) > 1 THEN p - 1 ELSE NoSuffix
    BY DEF ConflictIndex, s, p
<1> QED
    BY <1>11, <1>12 DEF IndexIn

LEMMA TextComputed ==
    ASSUME IInv, Ordered, Serving, pc # "hash", NEW i \in DOMAIN req.entries
    PROVE  TextOf(req.entries[i]) = TextIn(req, req.entries[i])
BY IndexComputed DEF TextOf, TextIn, AssetPath, Effective
-----------------------------------------------------------------------------
(* What else holds of the confs and of the files they name.                *)

Idle == pc \in {"idle", "down"} => req = NoRequest

\* A destination is given up, and that reaches the medium, before the staging
\* file replaces it.
Replaced ==
    \A i \in pending : IsNext(i) =>
        /\ step = "flushRemove" => disk[changeset[i].dest] = Absent
        /\ step = "rename" => disk[changeset[i].dest] = Absent
                              /\ outcomes[changeset[i].dest] = {Absent}

\* So a power failure leaves the file that the running system sees, or none.
OneFile ==
    pc # "down" =>
        \A p \in Dest : disk[p] # Absent => outcomes[p] \subseteq {disk[p], Absent}

Origins == \A c \in Confs : outcomes[c] \subseteq {Absent, Torn} \cup TextsFor(c)

MenuInv == Idle /\ Replaced /\ OneFile /\ Origins /\ Ordered

LEMMA MenuInit ==
    ASSUME Init, \A c \in Confs : InitialDisk[c] = Absent
    PROVE  MenuInv
<1>1. Idle /\ Replaced /\ Ordered
    BY DEF Init, Idle, Replaced, Ordered, Serving
<1>2. OneFile /\ Origins
    BY Paths DEF Init, OneFile, Origins
<1> QED
    BY <1>1, <1>2 DEF MenuInv

LEMMA IdleStep ==
    ASSUME Idle, [Next]_vars
    PROVE  Idle'
BY DEF Idle, Next, vars, Begin, HashAsset, HashDone, Install, CopyChanged, WriteConf, Scan,
       RemoveConf, RemoveTree, RemoveFile, CleanDone, Stop, Crash, Recover, Forget

LEMMA CopyReplaces ==
    ASSUME IInv, Replaced, OneFile, CopyChanged
    PROVE  Replaced' /\ OneFile'
<1>1. TypeOK /\ disk \in [Path -> Content] /\ outcomes \in [Path -> SUBSET Content]
      /\ Dest \subseteq Path
    BY Paths DEF IInv, TypeOK
<1>2. PICK i \in pending :
          /\ IsNext(i)
          /\ \/ CopyWrite(i)       \/ CopyFlush(i)  \/ CopyRemove(i)
             \/ CopyFlushRemove(i) \/ CopyRename(i) \/ CopyFlushRename(i)
    BY DEF CopyChanged, Copy
<1> DEFINE to   == changeset[i].dest
           from == Staging(to)
<1>3. to \in Dest /\ to \in Path /\ from \in Path \ Dest /\ changeset[i].data \in HashSet
    BY <1>1, PendingItem
<1>4. changeset' = changeset /\ pc' = pc /\ pc = "copy"
    BY CopyFrame DEF CopyChanged
<1>5. ASSUME pending' = pending
      PROVE  \A k \in pending' : IsNext(k)' => k = i
    BY <1>1, <1>2, <1>5, NextUnique DEF IsNext
<1>6. ASSUME Syncfs
      PROVE  OneFile'
    BY <1>1, <1>6 DEF Syncfs, OneFile
<1> HIDE DEF to, from
<1>7. CASE CopyWrite(i)
    <2>1. \A p \in Dest : disk'[p] = disk[p] /\ outcomes'[p] = outcomes[p]
        BY <1>1, <1>3, <1>7 DEF CopyWrite, Put, from, to
    <2> QED
        BY <1>4, <1>7, <2>1 DEF CopyWrite, Replaced, OneFile
<1>8. CASE CopyFlush(i)
    <2>1. /\ step' = "rename" => disk'[to] = Absent /\ outcomes'[to] = {Absent}
          /\ step' # "flushRemove" /\ pending' = pending
        BY <1>1, <1>3, <1>8 DEF CopyFlush, Syncfs, to
    <2> QED
        BY <1>4, <1>5, <1>6, <1>8, <2>1 DEF CopyFlush, Replaced, to
<1>9. CASE CopyRemove(i)
    <2>1. /\ \A p \in Dest : p # to => disk'[p] = disk[p] /\ outcomes'[p] = outcomes[p]
          /\ disk'[to] = Absent
        BY <1>1, <1>3, <1>9 DEF CopyRemove, Unlink, to
    <2>2. pending' = pending /\ step' = "flushRemove"
        BY <1>9 DEF CopyRemove
    <2>3. Replaced'
        BY <1>4, <1>5, <2>1, <2>2 DEF Replaced, to
    <2> QED
        BY <1>4, <2>1, <2>3 DEF OneFile
<1>10. CASE CopyFlushRemove(i)
    <2>1. step = "flushRemove" /\ disk[to] = Absent
        BY <1>2, <1>10 DEF CopyFlushRemove, Replaced, to
    <2>2. disk'[to] = Absent /\ outcomes'[to] = {Absent} /\ pending' = pending
          /\ step' = "rename"
        BY <1>1, <1>3, <1>10, <2>1 DEF CopyFlushRemove, Syncfs
    <2> QED
        BY <1>4, <1>5, <1>6, <1>10, <2>2 DEF CopyFlushRemove, Replaced, to
<1>11. CASE CopyRename(i)
    <2>1. \A p \in Dest : p # to => disk'[p] = disk[p] /\ outcomes'[p] = outcomes[p]
        BY <1>1, <1>3, <1>11 DEF CopyRename, Rename, from, to
    <2>2. disk'[to] = disk[from] /\ outcomes'[to] = outcomes[to] \cup outcomes[from]
        BY <1>1, <1>3, <1>11 DEF CopyRename, Rename, from, to
    <2>3. outcomes[to] = {Absent}
        BY <1>2, <1>11 DEF CopyRename, Replaced, to
    <2>4. disk[from] = changeset[i].data /\ outcomes[from] = {changeset[i].data}
        BY <1>2, <1>11 DEF CopyRename, IInv, Staged, from, to
    <2>5. OneFile'
        BY <1>4, <2>1, <2>2, <2>3, <2>4 DEF OneFile
    <2>6. step' = "flushRename"
        BY <1>11 DEF CopyRename
    <2> QED
        BY <2>5, <2>6 DEF Replaced
<1>12. CASE CopyFlushRename(i)
    BY <1>6, <1>12 DEF CopyFlushRename, Replaced
<1> QED
    BY <1>2, <1>7, <1>8, <1>9, <1>10, <1>11, <1>12

LEMMA ReplacedStep ==
    ASSUME IInv, IInv', Replaced, OneFile, [Next]_vars
    PROVE  Replaced' /\ OneFile'
<1>1. TypeOK /\ Control /\ Control' /\ disk \in [Path -> Content]
      /\ outcomes \in [Path -> SUBSET Content] /\ Dest \subseteq Path
    BY Paths DEF IInv, TypeOK
<1>2. CASE CopyChanged
    BY <1>2, CopyReplaces
<1>3. CASE ~ CopyChanged /\ ~ UNCHANGED vars
    <2>1. step' = "write" \/ pending' = {}
        BY <1>1, <1>3 DEF Next, Begin, ResetCopies, HashAsset, HashDone, Install, StartCopies,
                     WriteConf, Scan, RemoveConf, RemoveTree, RemoveFile, CleanDone, Stop,
                     CopyStops, CopyWriteFails, Crash, Recover, Settle, vfatVars, Control
    <2>2. Replaced'
        BY <2>1 DEF Replaced
    <2> SUFFICES OneFile'
        BY <2>2
    <2>3. ASSUME pc # "down", \A p \in Dest : disk'[p] # Absent =>
                                  disk'[p] = disk[p] /\ outcomes'[p] = outcomes[p]
          PROVE  OneFile'
        BY <2>3 DEF OneFile
    <2>4. ASSUME NEW p \in Path \ Dest, NEW c, Put(p, c), pc # "down"
          PROVE  OneFile'
        <3>1. \A q \in Dest : disk'[q] = disk[q] /\ outcomes'[q] = outcomes[q]
            BY <1>1, <2>4 DEF Put
        <3> QED
            BY <2>3, <2>4, <3>1
    <2>5. ASSUME pc = "copy"
          PROVE  ConfOf(Entry) \in Path \ Dest
        <3>1. cur \in DOMAIN req.entries
            BY <1>1, <2>5, RequestAssumption DEF Control, Serving, TypeOK
        <3> QED
            BY <2>5, <3>1, InstallTypes, Paths DEF Serving, Entry
    <2>6. CASE \/ \E r \in Requests : Begin(r)
               \/ HashAsset \/ HashDone \/ Install \/ Scan \/ CleanDone
        BY <2>3, <2>6 DEF Begin, HashAsset, HashDone, Install, StartCopies, Scan, CleanDone,
                          vfatVars
    <2>7. CASE WriteConf
        BY <2>4, <2>5, <2>7 DEF WriteConf
    <2>8. CASE RemoveConf \/ RemoveTree \/ RemoveFile
        <3>1. pc # "down" /\ (UNCHANGED <<disk, outcomes>> \/ \E gone : Unlink(gone))
            BY <2>8 DEF RemoveConf, RemoveTree, RemoveFile
        <3>2. \A p \in Dest : disk'[p] # Absent =>
                  disk'[p] = disk[p] /\ outcomes'[p] = outcomes[p]
            BY <1>1, <3>1 DEF Unlink
        <3> QED
            BY <2>3, <3>1, <3>2
    <2>9. CASE Stop
        <3>1. CASE CopyStops
            BY <2>3, <2>9, <3>1 DEF Stop, CopyStops
        <3>2. CASE CopyWriteFails
            <4>1. PICK i \in pending : Put(Staging(changeset[i].dest), Torn)
                BY <3>2 DEF CopyWriteFails
            <4>2. Staging(changeset[i].dest) \in Path \ Dest
                BY <1>1, PendingItem
            <4> QED
                BY <2>4, <2>9, <4>1, <4>2 DEF Stop
        <3>3. CASE pc = "copy" /\ Put(ConfOf(Entry), Torn)
            BY <2>4, <2>5, <3>3
        <3> QED
            BY <2>9, <3>1, <3>2, <3>3 DEF Stop
    <2>10. CASE Crash
        BY <2>10 DEF Crash, OneFile
    <2>11. CASE Recover
        <3>1. CASE Settle /\ pc' = pc
            BY <2>11, <3>1 DEF Recover, OneFile
        <3>2. CASE Dirty = {} /\ UNCHANGED vfatVars
            BY <1>1, <3>2 DEF Dirty, vfatVars, OneFile
        <3> QED
            BY <2>11, <3>1, <3>2 DEF Recover
    <2> QED
        BY <1>3, <2>6, <2>7, <2>8, <2>9, <2>10, <2>11 DEF Next
<1>4. CASE UNCHANGED vars
    BY <1>4 DEF vars, vfatVars, Replaced, OneFile, IsNext
<1> QED
    BY <1>2, <1>3, <1>4

LEMMA CopyConfs ==
    ASSUME IInv, CopyChanged
    PROVE  /\ \A c \in Confs : outcomes'[c] \subseteq outcomes[c]
           /\ \/ \A p \in Dest : outcomes'[p] \subseteq outcomes[p]
              \/ \E i \in pending :
                     /\ \A p \in Dest : p # changeset[i].dest => outcomes'[p] = outcomes[p]
                     /\ \/ outcomes'[changeset[i].dest]
                               = outcomes[changeset[i].dest] \cup {Absent}
                        \/ outcomes'[changeset[i].dest]
                               = outcomes[changeset[i].dest] \cup {changeset[i].data}
<1>1. /\ TypeOK /\ disk \in [Path -> Content] /\ outcomes \in [Path -> SUBSET Content]
      /\ \A p \in Path : disk[p] \in outcomes[p]
      /\ Dest \subseteq Path /\ Confs \subseteq Path
    BY Paths DEF IInv, TypeOK
<1>2. PICK i \in pending :
          /\ IsNext(i)
          /\ \/ CopyWrite(i)       \/ CopyFlush(i)  \/ CopyRemove(i)
             \/ CopyFlushRemove(i) \/ CopyRename(i) \/ CopyFlushRename(i)
    BY DEF CopyChanged, Copy
<1> DEFINE to   == changeset[i].dest
           from == Staging(to)
<1>3. to \in Dest /\ to \in Path /\ from \in Path \ Dest /\ from \in Temps
    BY <1>1, PendingItem DEF Temps
<1>4. to \notin Confs /\ from \notin Confs
    BY <1>3, Paths
<1> HIDE DEF to, from
<1>5. CASE CopyWrite(i)
    <2>1. \A p \in Path : p # from => outcomes'[p] = outcomes[p]
        BY <1>1, <1>3, <1>5 DEF CopyWrite, Put, from, to
    <2> QED
        BY <1>1, <1>3, <1>4, <2>1
<1>6. CASE CopyFlush(i) \/ CopyFlushRemove(i) \/ CopyFlushRename(i)
    <2>1. \A p \in Path : outcomes'[p] \subseteq outcomes[p]
        BY <1>1, <1>6 DEF CopyFlush, CopyFlushRemove, CopyFlushRename, Syncfs
    <2> QED
        BY <1>1, <2>1
<1>7. CASE CopyRemove(i)
    <2>1. /\ \A p \in Path : p # to => outcomes'[p] = outcomes[p]
          /\ outcomes'[to] = outcomes[to] \cup {Absent}
        BY <1>1, <1>3, <1>7 DEF CopyRemove, Unlink, to
    <2> QED
        BY <1>1, <1>4, <2>1 DEF to
<1>8. CASE CopyRename(i)
    <2>1. /\ \A p \in Path : p # to /\ p # from => outcomes'[p] = outcomes[p]
          /\ outcomes'[to] = outcomes[to] \cup outcomes[from]
        BY <1>1, <1>3, <1>8 DEF CopyRename, Rename, from, to
    <2>2. outcomes[from] = {changeset[i].data}
        BY <1>2, <1>8 DEF CopyRename, IInv, Staged, from, to
    <2> QED
        BY <1>1, <1>3, <1>4, <2>1, <2>2 DEF to
<1> QED
    BY <1>2, <1>5, <1>6, <1>7, <1>8

\* The entry whose turn it is, and what is written for it.
LEMMA Current ==
    ASSUME IInv, Ordered, pc = "copy"
    PROVE  /\ Serving /\ req \in Requests
           /\ cur \in DOMAIN req.entries /\ cur \in Nat
           /\ Entry \in Range(req.entries)
           /\ ConfOf(Entry) \in Confs /\ ConfOf(Entry) \in Path
           /\ TextOf(Entry) \in TextsFor(ConfOf(Entry))
           /\ TextOf(Entry) = TextIn(req, Entry)
           /\ changeset = ChangesetOf(Entry)
<1>1. Serving /\ req \in Requests /\ changeset = ChangesetOf(Entry)
    BY DEF IInv, Control, Serving
<1>2. cur \in DOMAIN req.entries /\ cur \in Nat
    BY <1>1, RequestAssumption DEF IInv, Control, TypeOK
<1>3. Entry \in Range(req.entries)
    BY <1>2 DEF Entry, Range
<1>4. ConfOf(Entry) \in Confs /\ TextOf(Entry) \in Text
    BY <1>1, <1>2, InstallTypes DEF Entry
<1>5. TextOf(Entry) = TextIn(req, Entry)
    BY <1>1, <1>2, TextComputed DEF Entry
<1>6. TextOf(Entry) \in TextsFor(ConfOf(Entry))
    BY <1>1, <1>3, <1>4, <1>5 DEF TextsFor, ConfOf
<1> QED
    BY <1>1, <1>2, <1>3, <1>4, <1>5, <1>6, Paths

LEMMA SettleShrinks ==
    ASSUME TypeOK, Settle
    PROVE  \A p \in Path : outcomes'[p] \subseteq outcomes[p]
<1>1. outcomes \in [Path -> SUBSET Content]
    BY DEF TypeOK
<1>2. PICK q : \E c \in outcomes[q] : outcomes' = [outcomes EXCEPT ![q] = {c}]
    BY DEF Settle
<1> QED
    BY <1>1, <1>2

LEMMA OriginsStep ==
    ASSUME IInv, Ordered, Origins, [Next]_vars
    PROVE  Origins'
<1>1. /\ TypeOK /\ Control /\ disk \in [Path -> Content] /\ outcomes \in [Path -> SUBSET Content]
      /\ \A p \in Path : disk[p] \in outcomes[p]
      /\ Confs \subseteq Path
    BY Paths DEF IInv, TypeOK
<1>2. ASSUME \A c \in Confs : outcomes'[c] \subseteq outcomes[c] \cup {Absent}
                                                 \cup {Torn} \cup TextsFor(c)
      PROVE  Origins'
    BY <1>2 DEF Origins, TextsFor
<1>3. ASSUME NEW p \in Path, NEW t, Put(p, t), p \in Confs => t \in {Torn} \cup TextsFor(p)
      PROVE  Origins'
    <2>1. \A c \in Path : outcomes'[c] = IF c = p THEN outcomes[c] \cup {t, Torn} ELSE outcomes[c]
        BY <1>1, <1>3 DEF Put
    <2> QED
        BY <1>1, <1>2, <1>3, <2>1
<1>4. CASE CopyChanged
    BY <1>2, <1>4, CopyConfs
<1>5. CASE WriteConf
    BY <1>3, <1>5, Current DEF WriteConf
<1>6. CASE RemoveConf \/ RemoveTree \/ RemoveFile
    <2>1. UNCHANGED outcomes \/ \E gone : Unlink(gone)
        BY <1>6 DEF RemoveConf, RemoveTree, RemoveFile
    <2> QED
        BY <1>1, <1>2, <2>1 DEF Unlink
<1>7. CASE Stop
    <2>1. CASE CopyStops
        BY <1>2, <2>1 DEF CopyStops
    <2>2. CASE CopyWriteFails
        <3>1. PICK i \in pending : Put(Staging(changeset[i].dest), Torn)
            BY <2>2 DEF CopyWriteFails
        <3>2. Staging(changeset[i].dest) \in Path
            BY <1>1, PendingItem
        <3> QED
            BY <1>3, <3>1, <3>2
    <2>3. CASE pc = "copy" /\ Put(ConfOf(Entry), Torn)
        BY <1>3, <2>3, Current
    <2> QED
        BY <1>7, <2>1, <2>2, <2>3 DEF Stop
<1>8. CASE Recover
    <2>1. CASE Settle
        BY <1>1, <1>2, <2>1, SettleShrinks
    <2>2. CASE UNCHANGED vfatVars
        BY <1>2, <2>2 DEF vfatVars
    <2> QED
        BY <1>8, <2>1, <2>2 DEF Recover
<1>9. CASE \/ \E r \in Requests : Begin(r)
           \/ HashAsset \/ HashDone \/ Install \/ Scan \/ CleanDone \/ Crash \/ UNCHANGED vars
    BY <1>2, <1>9 DEF Begin, HashAsset, HashDone, Install, StartCopies, Scan, CleanDone,
                      Crash, vars, vfatVars
<1> QED
    BY <1>4, <1>5, <1>6, <1>7, <1>8, <1>9 DEF Next

LEMMA MenuStep ==
    ASSUME IInv, IInv', MenuInv, [Next]_vars
    PROVE  MenuInv'
BY IdleStep, ReplacedStep, OriginsStep, OrderedStep DEF MenuInv

-----------------------------------------------------------------------------
(* Confs and texts, for requests that keep installed names.                *)

Hash(c, j) == EntryNamed[c].assets[j].hash

LEMMA NamedFacts ==
    ASSUME NEW r \in Requests, NEW e \in Range(r.entries)
    PROVE  /\ ConfIn(r, e) \in Confs
           /\ \E s \in Requests : /\ EntryNamed[ConfIn(r, e)] \in Range(s.entries)
                                  /\ ConfIn(s, EntryNamed[ConfIn(r, e)]) = ConfIn(r, e)
<1> DEFINE c == ConfIn(r, e)
<1>1. c \in Confs
    BY DEF Confs
<1>2. e \in Entries
    BY DEF Entries
<1>3. EntryNamed[c] = CHOOSE f \in Entries :
                          \E s \in Requests : f \in Range(s.entries) /\ ConfIn(s, f) = c
    BY <1>1 DEF EntryNamed
<1>4. \E f \in Entries : \E s \in Requests : f \in Range(s.entries) /\ ConfIn(s, f) = c
    BY <1>2
<1> HIDE DEF c
<1>5. \E s \in Requests : EntryNamed[c] \in Range(s.entries) /\ ConfIn(s, EntryNamed[c]) = c
    BY <1>3, <1>4
<1> QED
    BY <1>1, <1>5 DEF c

LEMMA SteadyHash ==
    ASSUME Steady, NEW r \in Requests, NEW e \in Range(r.entries)
    PROVE  /\ DOMAIN EntryNamed[ConfIn(r, e)].assets = DOMAIN e.assets
           /\ \A j \in DOMAIN e.assets : Hash(ConfIn(r, e), j) = e.assets[j].hash
<1>1. PICK s \in Requests : /\ EntryNamed[ConfIn(r, e)] \in Range(s.entries)
                            /\ ConfIn(s, EntryNamed[ConfIn(r, e)]) = ConfIn(r, e)
    BY NamedFacts
<1>2. /\ DOMAIN e.assets = DOMAIN EntryNamed[ConfIn(r, e)].assets
      /\ \A j \in DOMAIN e.assets :
             e.assets[j].hash = EntryNamed[ConfIn(r, e)].assets[j].hash
    BY <1>1 DEF Steady
<1> QED
    BY <1>2 DEF Hash

LEMMA TextFacts ==
    ASSUME Steady, NEW c \in Confs, NEW t \in TextsFor(c)
    PROVE  /\ t # Absent /\ t # Torn
           /\ DOMAIN t = DOMAIN EntryNamed[c].assets
           /\ \A j \in DOMAIN t : t[j] \in Dest /\ Hash(c, j) \in HashSet
           /\ \A s \in Requests : \A f, g \in Range(s.entries) :
                  ConfIn(s, f) = c =>
                      \A j \in DOMAIN t, i \in DOMAIN g.assets :
                          t[j] = TextIn(s, g)[i] => Hash(c, j) = g.assets[i].hash
<1>1. PICK r \in Requests : \E e \in Range(r.entries) :
               t \in Text /\ ConfIn(r, e) = c /\ t = TextIn(r, e)
    BY DEF TextsFor
<1>2. PICK e \in Range(r.entries) : t \in Text /\ ConfIn(r, e) = c /\ t = TextIn(r, e)
    BY <1>1
<1>3. /\ DOMAIN EntryNamed[c].assets = DOMAIN e.assets
      /\ \A j \in DOMAIN e.assets : Hash(c, j) = e.assets[j].hash
    BY <1>2, SteadyHash
<1>4. DOMAIN t = DOMAIN e.assets
    BY <1>2 DEF TextIn
<1>5. \A j \in DOMAIN t : t[j] \in Dest
    BY <1>2 DEF Text
<1>6. \A j \in DOMAIN e.assets : e.assets[j].hash \in HashSet
    <2>1. PICK i \in DOMAIN r.entries : e = r.entries[i]
        BY RequestAssumption DEF Range
    <2> QED
        BY <2>1, RequestParts
<1>7. \A s \in Requests : \A f, g \in Range(s.entries) :
          ConfIn(s, f) = c =>
              \A j \in DOMAIN t, i \in DOMAIN g.assets :
                  t[j] = TextIn(s, g)[i] => e.assets[j].hash = g.assets[i].hash
    <2> HIDE DEF ConfIn
    <2> QED
        BY <1>2, <1>4 DEF Steady
<1> QED
    BY <1>2, <1>3, <1>4, <1>5, <1>6, <1>7, SentinelAssumption

-----------------------------------------------------------------------------
(* The menu.                                                               *)

LEMMA ItemsApart ==
    ASSUME NEW f, NEW t
    PROVE  <<f, t>> # <<"none">> /\ <<f, t>> # <<"torn">> /\ <<"none">> # <<"torn">>
OBVIOUS

LEMMA InMenu ==
    ASSUME NEW c, NEW x
    PROVE  /\ x \in MenuOf(c) <=>
                 \/ x = <<"none">> /\ Absent \in outcomes[c]
                 \/ x = <<"torn">> /\ Torn \in outcomes[c]
                 \/ \E t \in outcomes[c] \ {Absent, Torn} :
                        \E f \in FilesOf(EntryNamed[c], t) : x = <<f, t>>
           /\ x \in MenuOf(c)' <=>
                 \/ x = <<"none">> /\ Absent \in outcomes'[c]
                 \/ x = <<"torn">> /\ Torn \in outcomes'[c]
                 \/ \E t \in outcomes'[c] \ {Absent, Torn} :
                        \E f \in FilesOf(EntryNamed[c], t)' : x = <<f, t>>
<1>1. x \in MenuOf(c) <=>
          \/ x = <<"none">> /\ Absent \in outcomes[c]
          \/ x = <<"torn">> /\ Torn \in outcomes[c]
          \/ \E t \in outcomes[c] \ {Absent, Torn} :
                 \E f \in FilesOf(EntryNamed[c], t) : x = <<f, t>>
    BY DEF MenuOf, ItemsOf
<1>2. x \in MenuOf(c)' <=>
          \/ x = <<"none">> /\ Absent \in outcomes'[c]
          \/ x = <<"torn">> /\ Torn \in outcomes'[c]
          \/ \E t \in outcomes'[c] \ {Absent, Torn} :
                 \E f \in FilesOf(EntryNamed[c], t)' : x = <<f, t>>
    BY DEF MenuOf, ItemsOf
<1> QED
    BY <1>1, <1>2

LEMMA FileStates ==
    ASSUME NEW c, NEW t, NEW f
    PROVE  /\ f \in FilesOf(EntryNamed[c], t) <=>
                 \/ f = "whole" /\ \A j \in DOMAIN t : Hash(c, j) \in outcomes[t[j]]
                 \/ f = "missing" /\ \E j \in DOMAIN t : Absent \in outcomes[t[j]]
                 \/ f = "wrong" /\ \E j \in DOMAIN t :
                                       ~ (outcomes[t[j]] \subseteq {Hash(c, j), Absent})
           /\ f \in FilesOf(EntryNamed[c], t)' <=>
                 \/ f = "whole" /\ \A j \in DOMAIN t : Hash(c, j) \in outcomes'[t[j]]
                 \/ f = "missing" /\ \E j \in DOMAIN t : Absent \in outcomes'[t[j]]
                 \/ f = "wrong" /\ \E j \in DOMAIN t :
                                       ~ (outcomes'[t[j]] \subseteq {Hash(c, j), Absent})
BY DEF FilesOf, Hash, EntryNamed

\* A text always has some state of its files.
LEMMA SomeState ==
    ASSUME NEW c, NEW t
    PROVE  /\ (\A j \in DOMAIN t : outcomes[t[j]] # {})
                  => \E f \in FilesOf(EntryNamed[c], t) : TRUE
           /\ (\A j \in DOMAIN t : outcomes'[t[j]] # {})
                  => \E f \in FilesOf(EntryNamed[c], t)' : TRUE
<1>1. ASSUME \A j \in DOMAIN t : outcomes[t[j]] # {}
      PROVE  \E f \in FilesOf(EntryNamed[c], t) : TRUE
    <2>1. CASE \A j \in DOMAIN t : Hash(c, j) \in outcomes[t[j]]
        <3>1. "whole" \in FilesOf(EntryNamed[c], t)
            BY <2>1, FileStates
        <3> QED
            BY <3>1
    <2>2. CASE \E j \in DOMAIN t : Hash(c, j) \notin outcomes[t[j]]
        <3>1. PICK j \in DOMAIN t : Hash(c, j) \notin outcomes[t[j]]
            BY <2>2
        <3>2. Absent \in outcomes[t[j]] \/ ~ (outcomes[t[j]] \subseteq {Hash(c, j), Absent})
            BY <3>1, <1>1
        <3>3. "missing" \in FilesOf(EntryNamed[c], t) \/ "wrong" \in FilesOf(EntryNamed[c], t)
            BY <3>2, FileStates
        <3> QED
            BY <3>3
    <2> QED
        BY <2>1, <2>2
<1>2. ASSUME \A j \in DOMAIN t : outcomes'[t[j]] # {}
      PROVE  \E f \in FilesOf(EntryNamed[c], t)' : TRUE
    <2>1. CASE \A j \in DOMAIN t : Hash(c, j) \in outcomes'[t[j]]
        <3>1. "whole" \in FilesOf(EntryNamed[c], t)'
            BY <2>1, FileStates
        <3> QED
            BY <3>1
    <2>2. CASE \E j \in DOMAIN t : Hash(c, j) \notin outcomes'[t[j]]
        <3>1. PICK j \in DOMAIN t : Hash(c, j) \notin outcomes'[t[j]]
            BY <2>2
        <3>2. Absent \in outcomes'[t[j]] \/ ~ (outcomes'[t[j]] \subseteq {Hash(c, j), Absent})
            BY <3>1, <1>2
        <3>3. "missing" \in FilesOf(EntryNamed[c], t)' \/ "wrong" \in FilesOf(EntryNamed[c], t)'
            BY <3>2, FileStates
        <3> QED
            BY <3>3
    <2> QED
        BY <2>1, <2>2
<1> QED
    BY <1>1, <1>2

LEMMA InVariants ==
    ASSUME IInv, Steady, Origins, NEW c \in Confs, NEW t \in outcomes[c] \ {Absent, Torn},
           NEW S, NEW f \in S
    PROVE  <<f, t>> \in Menu!Variants(c, S)
<1>1. t \in TextsFor(c)
    BY DEF Origins
<1>2. PICK g \in FilesOf(EntryNamed[c], t) : TRUE
    <2>1. \A j \in DOMAIN t : outcomes[t[j]] # {}
        BY <1>1, TextFacts, Paths DEF IInv, TypeOK
    <2> QED
        BY <2>1, SomeState
<1>3. <<g, t>> \in MenuOf(c)
    BY <1>2, InMenu
<1>4. menuBar[c] = MenuOf(c)
    BY DEF menuBar
<1>5. <<g, t>> \in menuBar[c] \ {<<"none">>, <<"torn">>} /\ <<g, t>>[2] = t
    BY <1>3, <1>4, ItemsApart
<1> HIDE DEF menuBar
<1> QED
    BY <1>5 DEF Menu!Variants, Menu!None, Menu!Garbled

\* Where nothing new is possible, the menu shows nothing new.
LEMMA MenuShrinks ==
    ASSUME Steady, Origins, \A p \in Confs \cup Dest : outcomes'[p] \subseteq outcomes[p],
           NEW c \in Confs
    PROVE  MenuOf(c)' \subseteq MenuOf(c)
<1> SUFFICES ASSUME NEW x \in MenuOf(c)'
             PROVE  x \in MenuOf(c)
    OBVIOUS
<1>1. ASSUME NEW t \in outcomes'[c] \ {Absent, Torn}, NEW f \in FilesOf(EntryNamed[c], t)'
      PROVE  t \in outcomes[c] \ {Absent, Torn} /\ f \in FilesOf(EntryNamed[c], t)
    <2>1. t \in outcomes[c] \ {Absent, Torn}
        BY <1>1
    <2>2. \A j \in DOMAIN t : outcomes'[t[j]] \subseteq outcomes[t[j]]
        BY <2>1, TextFacts DEF Origins
    <2> QED
        BY <1>1, <2>1, <2>2, FileStates
<1> QED
    BY <1>1, InMenu

\* What a step may add to the menu, if it adds nothing to a conf.
LEMMA NewItem ==
    ASSUME \A c \in Confs : outcomes'[c] \subseteq outcomes[c],
           NEW c \in Confs, NEW x \in MenuOf(c)' \ MenuOf(c)
    PROVE  \E t \in outcomes[c] \ {Absent, Torn} :
               \E f \in FilesOf(EntryNamed[c], t)' \ FilesOf(EntryNamed[c], t) : x = <<f, t>>
BY InMenu

-----------------------------------------------------------------------------
(* What is kept and what is installed.                                     *)

LEMMA SameEntry ==
    ASSUME IInv, Serving, NEW i \in DOMAIN req.entries, NEW k \in DOMAIN req.entries,
           ConfOf(req.entries[i]) = ConfOf(req.entries[k])
    PROVE  i = k
BY RequestAssumption DEF IInv, Control, ConfOf

BarOf(S) == [c \in {ConfOf(e) : e \in S} |-> TextOf(CHOOSE e \in S : ConfOf(e) = c)]

LEMMA BarFacts ==
    ASSUME IInv, Serving, NEW S \in SUBSET Range(req.entries)
    PROVE  /\ DOMAIN BarOf(S) = {ConfOf(e) : e \in S}
           /\ \A e \in S : BarOf(S)[ConfOf(e)] = TextOf(e)
<1>1. ASSUME NEW e \in S, NEW f \in S, ConfOf(e) = ConfOf(f)
      PROVE  e = f
    <2>1. PICK i \in DOMAIN req.entries : e = req.entries[i]
        BY DEF Range
    <2>2. PICK k \in DOMAIN req.entries : f = req.entries[k]
        BY DEF Range
    <2> QED
        BY <1>1, <2>1, <2>2, SameEntry
<1>2. ASSUME NEW e \in S
      PROVE  (CHOOSE f \in S : ConfOf(f) = ConfOf(e)) = e
    <2>1. \E f \in S : ConfOf(f) = ConfOf(e)
        OBVIOUS
    <2> DEFINE g == CHOOSE f \in S : ConfOf(f) = ConfOf(e)
    <2>2. g \in S /\ ConfOf(g) = ConfOf(e)
        BY <2>1, Zenon
    <2> HIDE DEF g
    <2>3. g = e
        BY <1>1, <2>2
    <2> QED
        BY <2>3 DEF g
<1> QED
    BY <1>2 DEF BarOf

LEMMA CurrentBar ==
    ASSUME IInv
    PROVE  /\ DOMAIN currentBar = {ConfOf(e) : e \in InstalledEntries}
           /\ \A e \in InstalledEntries : currentBar[ConfOf(e)] = TextOf(e)
<1>1. CASE InstalledEntries = {}
    BY <1>1 DEF currentBar
<1>2. CASE InstalledEntries # {}
    <2>1. Serving /\ InstalledEntries \in SUBSET Range(req.entries)
        BY <1>2, InstalledIndex
    <2>2. currentBar = BarOf(InstalledEntries)
        BY DEF currentBar, BarOf
    <2> QED
        BY <2>1, <2>2, BarFacts
<1> QED
    BY <1>1, <1>2

LEMMA EmptyBar ==
    /\ InstalledEntries = {} => currentBar = [c \in {} |-> {}]
    /\ InstalledEntries' = {} => currentBar' = [c \in {} |-> {}]
BY DEF currentBar

LEMMA SameBars ==
    ASSUME UNCHANGED req, UNCHANGED collisions \/ InstalledEntries = {},
           InstalledEntries' = InstalledEntries
    PROVE  UNCHANGED <<servingBar, keptBar, currentBar>>
<1>1. UNCHANGED servingBar
    BY DEF servingBar
<1>2. InstalledConfs' = InstalledConfs
    BY DEF InstalledConfs, ConfOf
<1>3. UNCHANGED keptBar
    BY <1>2 DEF keptBar
<1>4. CASE InstalledEntries = {}
    BY <1>1, <1>3, <1>4, EmptyBar
<1>5. CASE UNCHANGED collisions
    <2>1. UNCHANGED currentBar
        BY <1>5 DEF currentBar, ConfOf, TextOf, AssetPath, Effective
    <2> QED
        BY <1>1, <1>3, <2>1
<1> QED
    BY <1>4, <1>5

LEMMA Kept ==
    ASSUME IInv, Serving
    PROVE  /\ servingBar = TRUE /\ keptBar = InstalledConfs
           /\ keptBar = {ConfOf(req.entries[i]) : i \in DOMAIN req.entries}
<1>1. req \in Requests
    BY DEF IInv, Control
<1>2. req # NoRequest
    BY <1>1, SentinelAssumption
<1>3. Range(req.entries) = {req.entries[i] : i \in DOMAIN req.entries}
    BY DEF Range
<1> QED
    BY <1>2, <1>3 DEF servingBar, keptBar, InstalledConfs

LEMMA WaitingCopy ==
    ASSUME IInv, Ordered, pc = "copy"
    PROVE  ConfOf(Entry) \in Menu!Waiting
<1>1. ConfOf(Entry) \in keptBar
    BY Current, Kept DEF Entry
<1>2. ASSUME NEW e \in InstalledEntries
      PROVE  ConfOf(e) # ConfOf(Entry)
    <2>1. PICK i \in DOMAIN req.entries : i < cur /\ e = req.entries[i]
        BY InstalledIndex
    <2>2. i # cur
        BY <2>1, Current
    <2> QED
        BY <2>1, <2>2, Current, SameEntry DEF Entry
<1>3. ConfOf(Entry) \notin DOMAIN currentBar
    BY <1>2, CurrentBar
<1> QED
    BY <1>1, <1>3 DEF Menu!Waiting

LEMMA NoneWaiting ==
    ASSUME IInv, pc \in {"clean", "done"}
    PROVE  Menu!Waiting = {}
<1>1. Serving /\ req \in Requests /\ cur = Len(req.entries) + 1
    BY DEF IInv, Control, Serving
<1>2. req.entries \in Seq(Entries)
    BY <1>1, RequestAssumption
<1>3. \A i \in DOMAIN req.entries : req.entries[i] \in InstalledEntries
    BY <1>1, <1>2 DEF InstalledEntries
<1>4. keptBar \subseteq DOMAIN currentBar
    BY <1>1, <1>3, Kept, CurrentBar
<1> QED
    BY <1>4 DEF Menu!Waiting

-----------------------------------------------------------------------------
(* Every step is a step of the menu, or none.                              *)

LEMMA SameMenu ==
    ASSUME UNCHANGED outcomes
    PROVE  UNCHANGED menuBar
BY DEF menuBar, MenuOf, ItemsOf, FilesOf

LEMMA QuietStep ==
    ASSUME \/ HashAsset \/ HashDone \/ Install \/ Scan \/ CleanDone \/ UNCHANGED vars
           \/ Recover /\ ~ Settle
    PROVE  UNCHANGED Menu!menuVars
<1>1. UNCHANGED <<req, outcomes, unflushed>>
    BY DEF HashAsset, HashDone, Install, StartCopies, Scan, CleanDone, vars, Recover, vfatVars
<1>2. /\ UNCHANGED collisions \/ InstalledEntries = {}
      /\ InstalledEntries' = InstalledEntries
    <2>1. CASE HashAsset
        BY <2>1 DEF HashAsset, InstalledEntries
    <2>2. CASE HashDone
        <3>1. InstalledEntries' = {req'.entries[i] : i \in 1..(cur' - 1)} /\ cur' = 1
            BY <2>2 DEF HashDone, InstalledEntries
        <3>2. InstalledEntries' = {}
            BY <3>1
        <3> QED
            BY <2>2, <3>2 DEF HashDone, InstalledEntries
    <2>3. CASE Install \/ Scan \/ CleanDone \/ UNCHANGED vars \/ Recover
        BY <2>3 DEF Install, Scan, CleanDone, vars, Recover, InstalledEntries
    <2> QED
        BY <2>1, <2>2, <2>3
<1>3. UNCHANGED <<servingBar, keptBar, currentBar>>
    BY <1>1, <1>2, SameBars
<1>4. UNCHANGED menuBar
    BY <1>1, SameMenu
<1> QED
    BY <1>1, <1>3, <1>4 DEF Menu!menuVars

LEMMA AskStep ==
    ASSUME IInv', NEW r \in Requests, Begin(r)
    PROVE  Menu!Ask
<1>1. req' = r /\ pc' = "hash" /\ UNCHANGED <<outcomes, unflushed>>
    BY DEF Begin
<1>2. servingBar' = TRUE
    BY <1>1, SentinelAssumption DEF servingBar
<1>3. keptBar' \subseteq Confs
    <2>1. \A e \in Range(r.entries) : ConfIn(r, e) \in Confs
        BY NamedFacts
    <2>2. InstalledConfs' = {ConfIn(r, e) : e \in Range(r.entries)}
        BY <1>1 DEF InstalledConfs, ConfOf
    <2> QED
        BY <2>1, <2>2 DEF keptBar
<1>4. currentBar' = [c \in {} |-> {}]
    BY <1>1, EmptyBar DEF InstalledEntries
<1>5. UNCHANGED menuBar
    BY <1>1, SameMenu
<1> QED
    BY <1>1, <1>2, <1>3, <1>4, <1>5 DEF Menu!Ask

LEMMA CutStep ==
    ASSUME Crash
    PROVE  Menu!Cut
<1>1. req' = NoRequest /\ pc' = "down" /\ UNCHANGED outcomes /\ unflushed' = FALSE
    BY DEF Crash, Forget
<1>2. servingBar' = FALSE /\ keptBar' = {}
    BY <1>1 DEF servingBar, keptBar
<1>3. currentBar' = [c \in {} |-> {}]
    BY <1>1, EmptyBar DEF InstalledEntries
<1>4. UNCHANGED menuBar
    BY <1>1, SameMenu
<1> QED
    BY <1>1, <1>2, <1>3, <1>4 DEF Menu!Cut

LEMMA MenuIs ==
    /\ DOMAIN menuBar = Confs /\ DOMAIN menuBar' = Confs
    /\ \A c \in Confs : menuBar[c] = MenuOf(c) /\ menuBar'[c] = MenuOf(c)'
BY DEF menuBar

LEMMA SettleStep ==
    ASSUME IInv, IInv', Steady, MenuInv, MenuInv', Recover, Settle
    PROVE  Menu!Settle
<1>1. pc = "down" /\ req = NoRequest /\ UNCHANGED <<req, collisions, cur, unflushed>>
    BY DEF Recover, Settle, MenuInv, Idle
<1>2. InstalledEntries = {} /\ InstalledEntries' = {}
    BY <1>1 DEF Recover, Settle, InstalledEntries
<1>3. UNCHANGED <<servingBar, keptBar, currentBar>> /\ ~ servingBar
    BY <1>1, <1>2, SameBars DEF servingBar
<1>4. \A p \in Path : outcomes'[p] \subseteq outcomes[p] /\ outcomes'[p] # {}
    BY SettleShrinks DEF IInv, TypeOK
<1>5. ASSUME NEW c \in Confs
      PROVE  MenuOf(c)' # {} /\ MenuOf(c)' \subseteq MenuOf(c)
    <2>1. MenuOf(c)' \subseteq MenuOf(c)
        BY <1>4, MenuShrinks, Paths DEF MenuInv
    <2>2. PICK t \in outcomes'[c] : TRUE
        BY <1>4, Paths
    <2>3. CASE t \in {Absent, Torn}
        <3>1. <<"none">> \in MenuOf(c)' \/ <<"torn">> \in MenuOf(c)'
            BY <2>2, <2>3, InMenu
        <3> QED
            BY <2>1, <3>1
    <2>4. CASE t \notin {Absent, Torn}
        <3>1. t \in TextsFor(c)
            BY <2>2, <2>4 DEF MenuInv, Origins, TextsFor
        <3>2. \A j \in DOMAIN t : outcomes'[t[j]] # {}
            BY <1>4, <3>1, TextFacts, Paths
        <3>3. PICK f \in FilesOf(EntryNamed[c], t)' : TRUE
            BY <3>2, SomeState
        <3>4. <<f, t>> \in MenuOf(c)'
            BY <2>2, <2>4, <3>3, InMenu
        <3> QED
            BY <2>1, <3>4
    <2> QED
        BY <2>1, <2>3, <2>4
<1> QED
    BY <1>1, <1>3, <1>5, MenuIs DEF Menu!Settle

\* The files of a text are only affected by what happens to its paths.
LEMMA SameFiles ==
    ASSUME NEW c, NEW t, NEW f, \A j \in DOMAIN t : outcomes'[t[j]] = outcomes[t[j]]
    PROVE  f \in FilesOf(EntryNamed[c], t)' <=> f \in FilesOf(EntryNamed[c], t)
<1>1. (\A j \in DOMAIN t : Hash(c, j) \in outcomes'[t[j]])
          <=> \A j \in DOMAIN t : Hash(c, j) \in outcomes[t[j]]
    OBVIOUS
<1>2. (\E j \in DOMAIN t : Absent \in outcomes'[t[j]])
          <=> \E j \in DOMAIN t : Absent \in outcomes[t[j]]
    OBVIOUS
<1>3. (\E j \in DOMAIN t : ~ (outcomes'[t[j]] \subseteq {Hash(c, j), Absent}))
          <=> \E j \in DOMAIN t : ~ (outcomes[t[j]] \subseteq {Hash(c, j), Absent})
    OBVIOUS
<1> QED
    BY <1>1, <1>2, <1>3, FileStates

\* How the menu will show the files of a text.
LEMMA StatesNext ==
    ASSUME NEW c \in Confs, NEW t, t # Absent, t # Torn, NEW f
    PROVE  f \in Menu!StatesOf(menuBar'[c], t)
               <=> t \in outcomes'[c] /\ f \in FilesOf(EntryNamed[c], t)'
<1>1. menuBar'[c] = MenuOf(c)'
    BY MenuIs
<1>2. ASSUME NEW v \in MenuOf(c)', v # <<"none">>, v # <<"torn">>, v[2] = t, v[1] = f
      PROVE  t \in outcomes'[c] /\ f \in FilesOf(EntryNamed[c], t)'
    <2>1. PICK u \in outcomes'[c] \ {Absent, Torn} :
              \E g \in FilesOf(EntryNamed[c], u)' : v = <<g, u>>
        BY <1>2, InMenu
    <2>2. PICK g \in FilesOf(EntryNamed[c], u)' : v = <<g, u>>
        BY <2>1
    <2>3. u = t /\ g = f
        BY <1>2, <2>2
    <2> QED
        BY <2>1, <2>2, <2>3
<1>3. ASSUME t \in outcomes'[c], f \in FilesOf(EntryNamed[c], t)'
      PROVE  \E v \in MenuOf(c)' : /\ v # <<"none">> /\ v # <<"torn">>
                                   /\ v[2] = t /\ v[1] = f
    <2>1. <<f, t>> \in MenuOf(c)'
        BY <1>3, InMenu
    <2>2. <<f, t>>[1] = f /\ <<f, t>>[2] = t
        OBVIOUS
    <2> QED
        BY <2>1, <2>2, ItemsApart
<1>4. Menu!StatesOf(menuBar'[c], t) =
          {v[1] : v \in {w \in MenuOf(c)' \ {<<"none">>, <<"torn">>} : w[2] = t}}
    BY <1>1 DEF Menu!StatesOf, Menu!None, Menu!Garbled
<1> QED
    BY <1>2, <1>3, <1>4

\* A sync leaves the files of what is installed whole.
LEMMA SyncedWhole ==
    ASSUME Steady, IInv, IntactInv, Syncfs, NEW c \in DOMAIN currentBar
    PROVE  Menu!StatesOf(menuBar'[c], currentBar[c]) \subseteq {"whole"}
<1>1. PICK e \in InstalledEntries : c = ConfOf(e)
    BY CurrentBar
<1>2. PICK t : t = currentBar[c]
    OBVIOUS
<1>3. PICK i \in DOMAIN req.entries : e = req.entries[i]
    BY InstalledIndex
<1>4. Serving /\ pc # "hash" /\ req \in Requests /\ e \in Range(req.entries)
    BY InstalledIndex DEF IInv, Control
<1>5. /\ t = TextOf(e) /\ c \in Confs /\ t \in Text
      /\ DOMAIN t = DOMAIN e.assets
      /\ \A j \in DOMAIN t : t[j] \in Dest /\ Hash(c, j) = e.assets[j].hash
                             /\ Hash(c, j) # Absent
    <2>1. t = TextOf(e) /\ c \in Confs /\ t \in Text
        BY <1>1, <1>2, <1>3, <1>4, CurrentBar, InstallTypes
    <2>2. DOMAIN t = DOMAIN e.assets /\ \A j \in DOMAIN t : t[j] \in Dest
        BY <2>1, InstalledIndex DEF TextOf
    <2>3. \A j \in DOMAIN t : Hash(c, j) = e.assets[j].hash
        <3>1. c = ConfIn(req, e)
            BY <1>1 DEF ConfOf
        <3> QED
            BY <1>4, <2>2, <3>1, SteadyHash
    <2>4. \A j \in DOMAIN t : e.assets[j].hash # Absent
        <3>1. \A j \in DOMAIN req.entries[i].assets :
                  req.entries[i].assets[j].hash \in HashSet
            BY <1>4, RequestParts
        <3> QED
            BY <1>3, <2>2, <3>1, AssetAssumption
    <2> QED
        BY <2>1, <2>2, <2>3, <2>4
<1>6. \A j \in DOMAIN t : outcomes'[t[j]] = {Hash(c, j)}
    <2>1. \A j \in DOMAIN t : disk[t[j]] = Hash(c, j)
        BY <1>5 DEF IntactInv, InstalledIntact
    <2>2. \A p \in Path : outcomes'[p] = {disk[p]}
        BY DEF IInv, TypeOK, Syncfs
    <2>3. \A j \in DOMAIN t : t[j] \in Path
        BY <1>5, Paths
    <2> QED
        BY <2>1, <2>2, <2>3
<1>7. ASSUME NEW f \in Menu!StatesOf(menuBar'[c], t)
      PROVE  f = "whole"
    <2>1. f \in FilesOf(EntryNamed[c], t)'
        BY <1>5, <1>7, StatesNext, SentinelAssumption
    <2>2. ~ \E j \in DOMAIN t : Absent \in outcomes'[t[j]]
        BY <1>5, <1>6
    <2>3. ~ \E j \in DOMAIN t : ~ (outcomes'[t[j]] \subseteq {Hash(c, j), Absent})
        BY <1>6
    <2> QED
        BY <2>1, <2>2, <2>3, FileStates
<1> QED
    BY <1>2, <1>7

LEMMA PrepareStep ==
    ASSUME Steady, IInv, IntactInv, MenuInv, CopyChanged
    PROVE  Menu!Prepare
<1>1. pc = "copy" /\ UNCHANGED <<pc, req, cur, pos, collisions>>
    BY DEF CopyChanged
<1>2. UNCHANGED <<servingBar, keptBar, currentBar>>
    BY <1>1, SameBars DEF InstalledEntries
<1>3. unflushed' \in {unflushed, FALSE}
    BY DEF CopyChanged, Copy, CopyWrite, CopyFlush, CopyRemove, CopyFlushRemove, CopyRename,
           CopyFlushRename, Syncfs
<1>4. Menu!Waiting # {}
    BY <1>1, WaitingCopy DEF MenuInv
<1>5. ASSUME NEW c \in Confs, NEW x \in MenuOf(c)' \ MenuOf(c)
      PROVE  x \in {v \in Menu!Variants(c, IF c \in keptBar THEN {"whole", "missing"}
                                           ELSE {"whole", "missing", "wrong"}) :
                        c \in DOMAIN currentBar => v[2] # currentBar[c] \/ v[1] = "whole"}
    <2>1. \A d \in Confs : outcomes'[d] \subseteq outcomes[d]
        BY CopyConfs
    <2>2. ~ \A p \in Dest : outcomes'[p] \subseteq outcomes[p]
        BY <1>5, <2>1, MenuShrinks DEF MenuInv
    <2>3. PICK i \in pending :
              /\ \A p \in Dest : p # changeset[i].dest => outcomes'[p] = outcomes[p]
              /\ \/ outcomes'[changeset[i].dest] = outcomes[changeset[i].dest] \cup {Absent}
                 \/ outcomes'[changeset[i].dest]
                        = outcomes[changeset[i].dest] \cup {changeset[i].data}
        BY <2>2, CopyConfs
    <2> DEFINE to == changeset[i].dest
    <2>4. PICK t \in outcomes[c] \ {Absent, Torn} :
              \E f \in FilesOf(EntryNamed[c], t)' \ FilesOf(EntryNamed[c], t) : x = <<f, t>>
        BY <1>5, <2>1, NewItem
    <2>5. PICK f \in FilesOf(EntryNamed[c], t)' \ FilesOf(EntryNamed[c], t) : x = <<f, t>>
        BY <2>4
    <2>6. t \in TextsFor(c) /\ \A j \in DOMAIN t : t[j] \in Dest
        BY TextFacts DEF MenuInv, Origins
    <2>7. \E j \in DOMAIN t : t[j] = to
        BY <2>3, <2>6, SameFiles
    <2>8. c \in DOMAIN currentBar => t # currentBar[c]
        <3>1. SUFFICES ASSUME NEW e \in InstalledEntries, c = ConfOf(e), t = TextOf(e)
                       PROVE  FALSE
            BY CurrentBar
        <3>2. DOMAIN t = DOMAIN e.assets
            BY <3>1 DEF TextOf
        <3> QED
            BY <2>7, <3>1, <3>2 DEF IntactInv, Copied
    <2>9. f \in {"whole", "missing", "wrong"}
        BY <2>5, FileStates
    <2>10. ASSUME c \in keptBar, f = "wrong"
           PROVE  FALSE
        <3>1. PICK j \in DOMAIN t : ~ (outcomes'[t[j]] \subseteq {Hash(c, j), Absent})
            BY <2>5, <2>10, FileStates
        <3>2. outcomes[t[j]] \subseteq {Hash(c, j), Absent}
            BY <2>5, <2>10, FileStates
        <3>3. t[j] = to
            BY <2>3, <2>6, <3>1, <3>2
        <3>4. changeset[i].data # Hash(c, j)
            BY <2>3, <3>1, <3>2, <3>3
        <3>5. /\ i \in DOMAIN Entry.assets /\ to = TextIn(req, Entry)[i]
              /\ changeset[i].data = Entry.assets[i].hash
            <4>1. changeset = ChangesetOf(Entry) /\ TextOf(Entry) = TextIn(req, Entry)
                BY <1>1, Current DEF MenuInv
            <4>2. i \in DOMAIN changeset
                BY DEF IInv, TypeOK
            <4> QED
                BY <4>1, <4>2 DEF ChangesetOf, TextOf
        <3>6. PICK g \in Range(req.entries) : c = ConfIn(req, g)
            BY <1>1, <2>10, Kept, Current DEF MenuInv, InstalledConfs, ConfOf
        <3>7. req \in Requests /\ Entry \in Range(req.entries)
            BY <1>1, Current DEF MenuInv
        <3>8. Hash(c, j) = Entry.assets[i].hash
            <4> HIDE DEF to
            <4> QED
                BY <2>6, <3>3, <3>5, <3>6, <3>7, TextFacts
        <3> QED
            BY <3>4, <3>5, <3>8
    <2>11. f \in IF c \in keptBar THEN {"whole", "missing"} ELSE {"whole", "missing", "wrong"}
        BY <2>9, <2>10
    <2>12. x \in Menu!Variants(c, IF c \in keptBar THEN {"whole", "missing"}
                                  ELSE {"whole", "missing", "wrong"})
        BY <2>5, <2>11, InVariants DEF MenuInv
    <2> QED
        BY <2>5, <2>8, <2>12
<1>6. ASSUME unflushed' # unflushed, NEW c \in DOMAIN currentBar
      PROVE  Menu!StatesOf(menuBar'[c], currentBar[c]) \subseteq {"whole"}
    <2>1. Syncfs
        BY <1>6 DEF CopyChanged, Copy, CopyWrite, CopyFlush, CopyRemove, CopyFlushRemove,
                    CopyRename, CopyFlushRename
    <2> QED
        BY <1>6, <2>1, SyncedWhole
<1> QED
    BY <1>2, <1>3, <1>4, <1>5, <1>6, MenuIs DEF Menu!Prepare

LEMMA SameItems ==
    ASSUME Steady, Origins, NEW c \in Confs, \A p \in Dest : outcomes'[p] = outcomes[p],
           NEW t \in outcomes[c] \ {Absent, Torn}, NEW f
    PROVE  f \in FilesOf(EntryNamed[c], t)' <=> f \in FilesOf(EntryNamed[c], t)
<1>1. t \in TextsFor(c)
    BY DEF Origins
<1>2. \A j \in DOMAIN t : t[j] \in Dest
    BY <1>1, TextFacts
<1> QED
    BY <1>2, SameFiles

LEMMA SameItem ==
    ASSUME Steady, Origins, NEW c \in Confs, outcomes'[c] = outcomes[c],
           \A p \in Dest : outcomes'[p] = outcomes[p]
    PROVE  MenuOf(c)' = MenuOf(c)
<1>1. ASSUME NEW x
      PROVE  x \in MenuOf(c)' <=> x \in MenuOf(c)
    BY InMenu, SameItems
<1> QED
    BY <1>1

\* What a conf written in place does to the menu.
LEMMA PutConf ==
    ASSUME Steady, IInv, Origins, NEW c \in Confs, NEW v, Put(c, v)
    PROVE  /\ \A d \in Confs \ {c} : MenuOf(d)' = MenuOf(d)
           /\ v = Torn => MenuOf(c)' = MenuOf(c) \cup {<<"torn">>}
           /\ v \in TextsFor(c) =>
                  MenuOf(c)' = MenuOf(c) \cup {<<"torn">>}
                                   \cup {<<f, v>> : f \in FilesOf(EntryNamed[c], v)}
<1>1. outcomes \in [Path -> SUBSET Content] /\ c \in Path
    BY Paths DEF IInv, TypeOK
<1>2. /\ outcomes'[c] = outcomes[c] \cup {v, Torn}
      /\ \A p \in Path \ {c} : outcomes'[p] = outcomes[p]
    BY <1>1 DEF Put
<1>3. \A p \in Dest : outcomes'[p] = outcomes[p]
    BY <1>2, Paths
<1>4. \A d \in Confs \ {c} : MenuOf(d)' = MenuOf(d)
    BY <1>2, <1>3, SameItem, Paths
<1>5. \A t \in outcomes[c] \ {Absent, Torn} : \A f :
          f \in FilesOf(EntryNamed[c], t)' <=> f \in FilesOf(EntryNamed[c], t)
    BY <1>3, SameItems
<1>6. ASSUME v = Torn
      PROVE  MenuOf(c)' = MenuOf(c) \cup {<<"torn">>}
    <2>1. ASSUME NEW x
          PROVE  x \in MenuOf(c)' <=> x \in MenuOf(c) \/ x = <<"torn">>
        BY <1>2, <1>5, <1>6, InMenu, ContentAssumption
    <2> QED
        BY <2>1
<1>7. ASSUME v \in TextsFor(c)
      PROVE  MenuOf(c)' = MenuOf(c) \cup {<<"torn">>}
                              \cup {<<f, v>> : f \in FilesOf(EntryNamed[c], v)}
    <2>1. v # Absent /\ v # Torn /\ \A j \in DOMAIN v : v[j] \in Dest
        BY <1>7, TextFacts
    <2>2. \A f : f \in FilesOf(EntryNamed[c], v)' <=> f \in FilesOf(EntryNamed[c], v)
        BY <1>3, <2>1, SameFiles
    <2>3. ASSUME NEW x
          PROVE  x \in MenuOf(c)' <=>
                     \/ x \in MenuOf(c) \/ x = <<"torn">>
                     \/ \E f \in FilesOf(EntryNamed[c], v) : x = <<f, v>>
        <3>1. CASE x = <<"torn">> \/ x = <<"none">>
            BY <1>2, <2>1, <3>1, InMenu, ItemsApart, ContentAssumption
        <3>2. CASE x # <<"torn">> /\ x # <<"none">>
            <4>1. x \in MenuOf(c)' <=>
                      \E t \in outcomes'[c] \ {Absent, Torn} :
                          \E f \in FilesOf(EntryNamed[c], t)' : x = <<f, t>>
                BY <3>2, InMenu
            <4>2. x \in MenuOf(c) <=>
                      \E t \in outcomes[c] \ {Absent, Torn} :
                          \E f \in FilesOf(EntryNamed[c], t) : x = <<f, t>>
                BY <3>2, InMenu
            <4>3. outcomes'[c] \ {Absent, Torn} = (outcomes[c] \ {Absent, Torn}) \cup {v}
                BY <1>2, <2>1
            <4> QED
                BY <1>5, <2>2, <3>2, <4>1, <4>2, <4>3
        <3> QED
            BY <3>1, <3>2
    <2> QED
        BY <2>3
<1> QED
    BY <1>4, <1>6, <1>7

\* The files of the entry being installed are there when its conf is written;
\* all that may be missing is what an earlier program did not sync.
LEMMA ReadyToPublish ==
    ASSUME Steady, IInv, IntactInv, DurableInv, MenuInv, pc = "copy", pending = {}
    PROVE  \E more \in SUBSET {"missing"} :
               /\ more # {} => unflushed
               /\ FilesOf(EntryNamed[ConfOf(Entry)], TextOf(Entry)) = {"whole"} \cup more
<1> DEFINE c == ConfOf(Entry)
           t == TextOf(Entry)
           more == IF \E j \in DOMAIN t : Absent \in outcomes[t[j]] THEN {"missing"} ELSE {}
<1>1. /\ DOMAIN t = DOMAIN Entry.assets
      /\ \A j \in DOMAIN t : t[j] \in Dest /\ Hash(c, j) \in HashSet
                             /\ Hash(c, j) = Entry.assets[j].hash
    <2>1. req \in Requests /\ Entry \in Range(req.entries) /\ c \in Confs /\ t \in TextsFor(c)
        BY Current DEF MenuInv
    <2>2. \A j \in DOMAIN Entry.assets : Hash(c, j) = Entry.assets[j].hash
        BY <2>1, SteadyHash DEF ConfOf
    <2>3. DOMAIN t = DOMAIN Entry.assets
        BY DEF TextOf
    <2> HIDE DEF c, t
    <2> QED
        BY <2>1, <2>2, <2>3, TextFacts
<1>2. ASSUME NEW j \in DOMAIN t
      PROVE  disk[t[j]] = Hash(c, j)
    <2>1. changeset = ChangesetOf(Entry)
        BY Current DEF MenuInv
    <2>2. j \in DOMAIN changeset /\ changeset[j].dest = t[j] /\ changeset[j].data = Hash(c, j)
        BY <1>1, <2>1 DEF ChangesetOf, TextOf
    <2> HIDE DEF c, t
    <2> QED
        BY <2>2 DEF IntactInv, Copied
<1> HIDE DEF c, t
<1>3. ASSUME NEW j \in DOMAIN t
      PROVE  /\ Hash(c, j) \in outcomes[t[j]]
             /\ outcomes[t[j]] \subseteq {Hash(c, j), Absent}
             /\ Absent \in outcomes[t[j]] => unflushed
    <2>1. t[j] \in Dest /\ t[j] \in Path /\ disk[t[j]] = Hash(c, j) /\ Hash(c, j) # Absent
        BY <1>1, <1>2, AssetAssumption, Paths
    <2>2. disk[t[j]] \in outcomes[t[j]]
        BY <2>1 DEF IInv, TypeOK
    <2>3. outcomes[t[j]] \subseteq {disk[t[j]], Absent}
        BY <2>1 DEF MenuInv, OneFile
    <2>4. outcomes[t[j]] = {disk[t[j]]} \/ unflushed
        BY <2>1 DEF DurableInv, AtRest, OnMedium
    <2> QED
        BY <2>1, <2>2, <2>3, <2>4
<1>4. ASSUME NEW f
      PROVE  f \in FilesOf(EntryNamed[c], t) <=> f \in {"whole"} \cup more
    BY <1>3, FileStates
<1>5. FilesOf(EntryNamed[c], t) = {"whole"} \cup more
    BY <1>4
<1>6. more \in SUBSET {"missing"} /\ (more # {} => unflushed)
    BY <1>3
<1> QED
    BY <1>5, <1>6 DEF c, t

LEMMA PublishStep ==
    ASSUME Steady, IInv, IntactInv, DurableInv, MenuInv, WriteConf
    PROVE  \E c \in Confs : Menu!Publish(c)
<1>0. PICK c, t : c = ConfOf(Entry) /\ t = TextOf(Entry)
    OBVIOUS
<1>1. /\ pc = "copy" /\ pending = {} /\ pc' = "install" /\ cur' = cur + 1
      /\ UNCHANGED <<req, collisions, unflushed>> /\ Put(c, t)
    BY <1>0 DEF WriteConf
<1>2. /\ Serving /\ c \in Confs /\ t \in TextsFor(c) /\ cur \in Nat /\ cur \in DOMAIN req.entries
      /\ Entry \in Range(req.entries) /\ c \in Menu!Waiting
    BY <1>0, <1>1, Current, WaitingCopy DEF MenuInv
<1>3. UNCHANGED <<servingBar, keptBar>>
    BY <1>1 DEF servingBar, keptBar, InstalledConfs, ConfOf
<1>4. InstalledEntries' = InstalledEntries \cup {Entry}
    <2>1. InstalledEntries = {req.entries[i] : i \in 1..(cur - 1)}
        BY <1>1 DEF InstalledEntries
    <2>2. InstalledEntries' = {req.entries[i] : i \in 1..cur}
        BY <1>1, <1>2 DEF InstalledEntries
    <2>3. 1..cur = 1..(cur - 1) \cup {cur}
        <3>1. cur >= 1
            BY <1>2 DEF IInv, TypeOK
        <3> QED
            BY <1>2, <3>1
    <2> QED
        BY <2>1, <2>2, <2>3 DEF Entry
<1>5. /\ DOMAIN currentBar' = DOMAIN currentBar \cup {c}
      /\ \A d \in DOMAIN currentBar : currentBar'[d] = currentBar[d]
      /\ currentBar'[c] = t
    <2>1. currentBar' = BarOf(InstalledEntries')
        BY <1>1 DEF currentBar, BarOf, ConfOf, TextOf, AssetPath, Effective
    <2>2. InstalledEntries \cup {Entry} \in SUBSET Range(req.entries)
        BY <1>2, InstalledIndex
    <2>3. /\ DOMAIN currentBar' = {ConfOf(e) : e \in InstalledEntries \cup {Entry}}
          /\ \A e \in InstalledEntries \cup {Entry} : currentBar'[ConfOf(e)] = TextOf(e)
        BY <1>2, <1>4, <2>1, <2>2, BarFacts
    <2> QED
        BY <1>0, <2>3, CurrentBar
<1>6. PICK more \in SUBSET {"missing"} :
          (more # {} => unflushed) /\ FilesOf(EntryNamed[c], t) = {"whole"} \cup more
    BY <1>0, <1>1, ReadyToPublish
<1>7. /\ \A d \in Confs \ {c} : MenuOf(d)' = MenuOf(d)
      /\ MenuOf(c)' = MenuOf(c) \cup {<<"torn">>} \cup {<<f, t>> : f \in FilesOf(EntryNamed[c], t)}
    BY <1>1, <1>2, PutConf DEF MenuInv
<1>8. menuBar' = [menuBar EXCEPT ![c] =
                     @ \cup {<<"torn">>} \cup {<<f, currentBar'[c]>> : f \in {"whole"} \cup more}]
    <2> DEFINE new == {<<"torn">>} \cup {<<f, t>> : f \in {"whole"} \cup more}
    <2>1. MenuOf(c)' = MenuOf(c) \cup new
        BY <1>6, <1>7
    <2> HIDE DEF new
    <2>2. menuBar' = [menuBar EXCEPT ![c] = @ \cup new]
        BY <1>2, <1>7, <2>1 DEF menuBar
    <2> QED
        BY <1>5, <2>2 DEF new
<1>9. Menu!StatesOf(menuBar'[c], currentBar'[c]) = {"whole"} \cup more
    <2>1. /\ t # Absent /\ t # Torn
          /\ \A j \in DOMAIN t : t[j] \in Dest
        BY <1>2, TextFacts
    <2>2. t \in outcomes'[c] /\ \A j \in DOMAIN t : outcomes'[t[j]] = outcomes[t[j]]
        BY <1>1, <1>2, <2>1, Paths DEF Put, IInv, TypeOK
    <2>3. \A f : f \in Menu!StatesOf(menuBar'[c], t) <=> f \in {"whole"} \cup more
        BY <1>2, <1>6, <2>1, <2>2, StatesNext, SameFiles
    <2> QED
        BY <1>5, <2>3
<1>10. Menu!Publish(c)
    BY <1>1, <1>2, <1>3, <1>5, <1>6, <1>8, <1>9 DEF Menu!Publish, Menu!Garbled
<1> QED
    BY <1>2, <1>10

\* Cleanup only ever adds that something is gone, and of nothing in use.
LEMMA RemovesUnused ==
    ASSUME IInv, IntactInv, RemoveConf \/ RemoveTree \/ RemoveFile
    PROVE  /\ pc = "clean" /\ UNCHANGED <<unflushed, pc, req, cur, collisions>>
           /\ \/ UNCHANGED outcomes
              \/ \E gone : /\ Unlink(gone)
                           /\ gone \cap InstalledConfs = {} /\ gone \cap InstalledFiles = {}
                           /\ gone \cap Confs = {} \/ gone \cap Dest = {}
<1>1. /\ pc = "clean" /\ UNCHANGED <<unflushed, pc, req, cur, collisions>>
      /\ StaleUnused
      /\ stale \in [confs : SUBSET ConfPaths, trees : SUBSET Dirs, files : SUBSET KernelPaths]
    BY DEF RemoveConf, RemoveTree, RemoveFile, IntactInv, IInv, TypeOK
<1>2. /\ Confs \subseteq ConfPaths /\ Dest \subseteq KernelPaths
      /\ ConfPaths \cap KernelPaths = {}
    BY PathAssumption DEF ConfPaths, KernelPaths
<1>3. InstalledConfs \subseteq Confs /\ InstalledFiles \subseteq Dest
    <2>1. Serving /\ pc # "hash" /\ req \in Requests
        BY <1>1 DEF IInv, Control, Serving
    <2>2. ASSUME NEW e \in Range(req.entries)
          PROVE  ConfOf(e) \in Confs /\ Range(TextOf(e)) \subseteq Dest
        <3>1. PICK i \in DOMAIN req.entries : e = req.entries[i]
            BY DEF Range
        <3>2. ConfOf(e) \in Confs /\ TextOf(e) \in Text
            BY <2>1, <3>1, InstallTypes
        <3> QED
            BY <3>2 DEF Text, Range
    <2> QED
        BY <2>2 DEF InstalledConfs, InstalledFiles
<1>4. CASE RemoveConf
    <2>1. PICK p \in stale.confs : Unlink({p}) \/ UNCHANGED outcomes
        BY <1>4 DEF RemoveConf
    <2>2. /\ {p} \cap InstalledConfs = {} /\ {p} \cap InstalledFiles = {}
          /\ {p} \cap Dest = {}
        BY <1>1, <1>2, <1>3 DEF StaleUnused
    <2> QED
        BY <1>1, <2>1, <2>2
<1>5. CASE RemoveTree
    <2>1. PICK d \in stale.trees : \E gone \in SUBSET FilesBelow(d) : Unlink(gone)
        BY <1>5 DEF RemoveTree
    <2>2. PICK gone \in SUBSET FilesBelow(d) : Unlink(gone)
        BY <2>1
    <2>3. gone \subseteq KernelPaths /\ \A p \in gone : In(p, d)
        BY DEF FilesBelow
    <2>4. gone \cap InstalledConfs = {} /\ gone \cap InstalledFiles = {} /\ gone \cap Confs = {}
        BY <1>1, <1>2, <1>3, <2>3 DEF StaleUnused
    <2> QED
        BY <1>1, <2>2, <2>4
<1>6. CASE RemoveFile
    <2>1. PICK p \in stale.files : Unlink({p}) \/ UNCHANGED outcomes
        BY <1>6 DEF RemoveFile
    <2>2. /\ {p} \cap InstalledConfs = {} /\ {p} \cap InstalledFiles = {}
          /\ {p} \cap Confs = {}
        BY <1>1, <1>2, <1>3 DEF StaleUnused
    <2> QED
        BY <1>1, <2>1, <2>2
<1> QED
    BY <1>4, <1>5, <1>6

LEMMA RetireStep ==
    ASSUME Steady, IInv, IntactInv, MenuInv, RemoveConf \/ RemoveTree \/ RemoveFile
    PROVE  [Menu!Retire]_(Menu!menuVars)
<1>1. pc = "clean" /\ UNCHANGED <<unflushed, pc, req, cur, collisions>>
    BY RemovesUnused
<1>2. UNCHANGED <<servingBar, keptBar, currentBar>>
    BY <1>1, SameBars DEF InstalledEntries
<1>3. CASE UNCHANGED outcomes
    BY <1>1, <1>2, <1>3, SameMenu DEF Menu!menuVars
<1>4. CASE ~ UNCHANGED outcomes
    <2>1. PICK gone : /\ Unlink(gone)
                      /\ gone \cap InstalledConfs = {} /\ gone \cap InstalledFiles = {}
        BY <1>4, RemovesUnused
    <2>2. outcomes \in [Path -> SUBSET Content]
        BY DEF IInv, TypeOK
    <2>3. \A p \in Path : outcomes'[p] = IF p \in gone THEN outcomes[p] \cup {Absent}
                                                       ELSE outcomes[p]
        BY <2>1, <2>2 DEF Unlink
    <2>4. Serving /\ servingBar /\ keptBar = InstalledConfs /\ Menu!Waiting = {}
        BY <1>1, Kept, NoneWaiting DEF Serving
    <2>5. ASSUME NEW c \in Confs, NEW x \in MenuOf(c)' \ MenuOf(c)
          PROVE  x \in {v \in Menu!Variants(c, {"missing"}) :
                            c \in keptBar => v[2] # currentBar[c]}
                       \cup (IF c \in keptBar THEN {} ELSE {<<"none">>})
        <3>1. c \in Path
            BY Paths
        <3>2. CASE x = <<"none">> \/ x = <<"torn">>
            <4>1. x = <<"none">> /\ c \in gone
                BY <2>3, <2>5, <3>1, <3>2, InMenu, ItemsApart, ContentAssumption
            <4> QED
                BY <2>1, <2>4, <4>1
        <3>3. CASE x # <<"none">> /\ x # <<"torn">>
            <4>1. PICK t \in outcomes'[c] \ {Absent, Torn} :
                      \E f \in FilesOf(EntryNamed[c], t)' : x = <<f, t>>
                BY <2>5, <3>3, InMenu
            <4>2. PICK f \in FilesOf(EntryNamed[c], t)' : x = <<f, t>>
                BY <4>1
            <4>3. t \in outcomes[c] \ {Absent, Torn}
                BY <2>3, <3>1
            <4>4. f \notin FilesOf(EntryNamed[c], t)
                BY <2>5, <4>2, <4>3, InMenu
            <4>5. /\ t \in TextsFor(c)
                  /\ \A j \in DOMAIN t : t[j] \in Path /\ Hash(c, j) # Absent
                <5>1. t \in TextsFor(c)
                    BY <4>3 DEF MenuInv, Origins
                <5>2. \A j \in DOMAIN t : t[j] \in Dest /\ Hash(c, j) \in HashSet
                    BY <5>1, TextFacts
                <5> QED
                    BY <5>1, <5>2, Paths, AssetAssumption
            <4>6. \A j \in DOMAIN t : outcomes'[t[j]] = outcomes[t[j]]
                                      \/ outcomes'[t[j]] = outcomes[t[j]] \cup {Absent}
                <5>1. ASSUME NEW p \in Path
                      PROVE  \/ outcomes'[p] = outcomes[p]
                             \/ outcomes'[p] = outcomes[p] \cup {Absent}
                    BY <2>3
                <5> QED
                    BY <4>5, <5>1
            <4>7. f # "whole"
                <5>1. SUFFICES ASSUME f = "whole"
                               PROVE  FALSE
                    OBVIOUS
                <5>2. \A j \in DOMAIN t : Hash(c, j) \in outcomes'[t[j]]
                    BY <4>2, <5>1, FileStates
                <5>3. \A j \in DOMAIN t : Hash(c, j) \in outcomes[t[j]]
                    BY <4>5, <4>6, <5>2
                <5> QED
                    BY <4>4, <5>1, <5>3, FileStates
            <4>8. f # "wrong"
                <5>1. SUFFICES ASSUME f = "wrong"
                               PROVE  FALSE
                    OBVIOUS
                <5>2. PICK j \in DOMAIN t : ~ (outcomes'[t[j]] \subseteq {Hash(c, j), Absent})
                    <6>1. "wrong" \in FilesOf(EntryNamed[c], t)'
                        BY <4>2, <5>1
                    <6> QED
                        BY <6>1, FileStates
                <5>3. ~ (outcomes[t[j]] \subseteq {Hash(c, j), Absent})
                    <6>1. PICK y \in outcomes'[t[j]] : y # Hash(c, j) /\ y # Absent
                        BY <5>2
                    <6>2. y \in outcomes[t[j]]
                        BY <4>6, <6>1
                    <6> QED
                        BY <6>1, <6>2
                <5> QED
                    BY <4>4, <5>1, <5>3, FileStates
            <4>9. f = "missing"
                BY <4>2, <4>7, <4>8, FileStates
            <4>10. ASSUME c \in keptBar
                   PROVE  t # currentBar[c]
                <5>1. PICK e \in InstalledEntries : c = ConfOf(e)
                    BY <2>4, <4>10, CurrentBar DEF Menu!Waiting
                <5>2. currentBar[c] = TextOf(e) /\ e \in Range(req.entries)
                    BY <5>1, CurrentBar, InstalledIndex
                <5>3. ASSUME t = TextOf(e)
                      PROVE  FALSE
                    <6>1. \A j \in DOMAIN t : t[j] \in InstalledFiles
                        BY <5>2, <5>3 DEF InstalledFiles, Range
                    <6>2. \A j \in DOMAIN t : outcomes'[t[j]] = outcomes[t[j]]
                        BY <2>1, <2>3, <4>5, <6>1
                    <6> QED
                        BY <4>2, <4>4, <6>2, SameFiles
                <5> QED
                    BY <5>2, <5>3
            <4>11. x \in Menu!Variants(c, {"missing"})
                BY <4>2, <4>3, <4>9, InVariants DEF MenuInv
            <4> QED
                BY <4>2, <4>10, <4>11
        <3> QED
            BY <3>2, <3>3
    <2> QED
        BY <1>1, <1>2, <2>4, <2>5, MenuIs DEF Menu!Retire, Menu!None
<1> QED
    BY <1>3, <1>4

LEMMA AbandonStep ==
    ASSUME Steady, IInv, IInv', DurableInv, MenuInv, Stop
    PROVE  Menu!Abandon
<1>1. Serving /\ pc # "done" /\ req' = NoRequest /\ pc' = "idle" /\ unflushed' \in BOOLEAN
    BY DEF Stop, Forget, IInv, TypeOK, Control, Serving
<1>2. servingBar = TRUE /\ servingBar' = FALSE /\ keptBar' = {}
    BY <1>1, Kept DEF servingBar, keptBar
<1>3. currentBar' = [c \in {} |-> {}]
    BY <1>1, EmptyBar DEF InstalledEntries
<1>4. ASSUME UNCHANGED outcomes \/ \E p \in Path \ Confs : p \notin Dest /\ Put(p, Torn)
      PROVE  menuBar' = menuBar
    <2>1. CASE UNCHANGED outcomes
        BY <2>1, SameMenu
    <2>2. CASE \E p \in Path \ Confs : p \notin Dest /\ Put(p, Torn)
        <3>1. PICK p \in Path \ Confs : p \notin Dest /\ Put(p, Torn)
            BY <2>2
        <3>2. \A q \in Confs \cup Dest : outcomes'[q] = outcomes[q]
            BY <3>1, Paths DEF Put, IInv, TypeOK
        <3>3. \A c \in Confs : MenuOf(c)' = MenuOf(c)
            BY <3>2, SameItem DEF MenuInv
        <3> QED
            BY <3>3 DEF menuBar
    <2> QED
        BY <1>4, <2>1, <2>2
<1>5. pc = "copy" => Menu!Waiting # {}
    BY WaitingCopy DEF MenuInv
<1>6. CASE CopyStops
    <2>1. menuBar' = menuBar
        BY <1>4, <1>6 DEF CopyStops
    <2>2. Menu!Waiting = {} => unflushed' = unflushed
        BY <1>5, <1>6 DEF CopyStops, IInv, Control, TypeOK
    <2> QED
        BY <1>1, <1>2, <1>3, <2>1, <2>2 DEF Menu!Abandon
<1>7. CASE pc = "copy" /\ CopyWriteFails
    <2>1. PICK i \in pending : Put(Staging(changeset[i].dest), Torn)
        BY <1>7 DEF CopyWriteFails
    <2>2. Staging(changeset[i].dest) \in (Path \ Confs) \ Dest
        BY PendingItem, Paths DEF Temps, IInv
    <2>3. menuBar' = menuBar
        BY <1>4, <2>1, <2>2
    <2> QED
        BY <1>1, <1>2, <1>3, <1>5, <1>7, <2>3 DEF Menu!Abandon
<1>8. CASE pc = "copy" /\ Put(ConfOf(Entry), Torn)
    <2>1. PICK c : c = ConfOf(Entry)
        OBVIOUS
    <2>2. c \in Confs /\ c \in Menu!Waiting
        BY <1>8, <2>1, Current, WaitingCopy DEF MenuInv
    <2>3. /\ \A d \in Confs \ {c} : MenuOf(d)' = MenuOf(d)
          /\ MenuOf(c)' = MenuOf(c) \cup {<<"torn">>}
        BY <1>8, <2>1, <2>2, PutConf DEF MenuInv
    <2>4. menuBar' = [menuBar EXCEPT ![c] = @ \cup {<<"torn">>}]
        BY <2>2, <2>3 DEF menuBar
    <2> QED
        BY <1>1, <1>2, <1>3, <2>2, <2>4 DEF Menu!Abandon, Menu!Garbled
<1> QED
    BY <1>6, <1>7, <1>8 DEF Stop

RefinementInv == IInv /\ IntactInv /\ DurableInv /\ MenuInv

LEMMA RefinementInvInit ==
    ASSUME Init, \A c \in Confs : InitialDisk[c] = Absent
    PROVE  RefinementInv
BY IInvInit, IntactInit, DurableInit, MenuInit DEF RefinementInv

LEMMA RefinementInvStep ==
    ASSUME RefinementInv, [Next]_vars
    PROVE  RefinementInv'
BY IInvStep, IntactStep, DurableStep, MenuStep DEF RefinementInv

LEMMA MenuStarts ==
    ASSUME Init, \A c \in Confs : InitialDisk[c] = Absent
    PROVE  Menu!Init
<1>1. req = NoRequest /\ pc = "idle" /\ unflushed = FALSE
      /\ outcomes = [p \in Path |-> {InitialDisk[p]}]
    BY DEF Init
<1>2. servingBar = FALSE /\ keptBar = {}
    BY <1>1 DEF servingBar, keptBar
<1>3. currentBar = [c \in {} |-> {}]
    BY <1>1, EmptyBar DEF InstalledEntries
<1>4. ASSUME NEW c \in Confs
      PROVE  MenuOf(c) = {<<"none">>}
    <2>1. outcomes[c] = {Absent}
        BY <1>1, Paths
    <2>2. \A x : x \in MenuOf(c) <=> x = <<"none">>
        BY <2>1, InMenu, ContentAssumption
    <2> QED
        BY <2>2
<1>5. menuBar = [c \in Confs |-> {<<"none">>}]
    BY <1>4 DEF menuBar
<1> QED
    BY <1>1, <1>2, <1>3, <1>5 DEF Menu!Init, Menu!None

LEMMA MenuMoves ==
    ASSUME Steady, RefinementInv, RefinementInv', [Next]_vars
    PROVE  [Menu!Next]_(Menu!menuVars)
<1> USE DEF RefinementInv
<1>1. CASE \E r \in Requests : Begin(r)
    BY <1>1, AskStep DEF Menu!Next
<1>2. CASE CopyChanged
    BY <1>2, PrepareStep DEF Menu!Next
<1>3. CASE WriteConf
    BY <1>3, PublishStep DEF Menu!Next
<1>4. CASE RemoveConf \/ RemoveTree \/ RemoveFile
    BY <1>4, RetireStep DEF Menu!Next
<1>5. CASE Stop
    BY <1>5, AbandonStep DEF Menu!Next
<1>6. CASE Crash
    BY <1>6, CutStep DEF Menu!Next
<1>7. CASE Recover /\ Settle
    BY <1>7, SettleStep DEF Menu!Next
<1>8. CASE \/ HashAsset \/ HashDone \/ Install \/ Scan \/ CleanDone \/ UNCHANGED vars
           \/ Recover /\ ~ Settle
    BY <1>8, QuietStep
<1> QED
    BY <1>1, <1>2, <1>3, <1>4, <1>5, <1>6, <1>7, <1>8 DEF Next

(***************************************************************************)
(* For requests that keep installed names, on a partition without confs of *)
(* its own to begin with, sync_entries implements the menu, whatever fails *)
(* and whenever the power does: no file of a conf that is kept becomes     *)
(* another content, the files of a text are whole where the text is found, *)
(* from its writing on, and cleanup waits until the running system has     *)
(* every conf.  Neither says that a conf is found: none is synced.         *)
(***************************************************************************)
THEOREM Refines ==
    ASSUME Steady, \A c \in Confs : InitialDisk[c] = Absent
    PROVE  Spec => ImplementsMenu
<1>1. Init => RefinementInv /\ Menu!Init
    BY RefinementInvInit, MenuStarts
<1>2. RefinementInv /\ [Next]_vars => RefinementInv'
    BY RefinementInvStep
<1>3. RefinementInv /\ RefinementInv' /\ [Next]_vars => [Menu!Next]_(Menu!menuVars)
    BY MenuMoves
<1> QED
    BY <1>1, <1>2, <1>3, PTL DEF Spec, ImplementsMenu, Menu!Spec

-----------------------------------------------------------------------------
(* What the owner of the machine gets from it.                             *)

Owner == INSTANCE BootMenuProofs WITH
             menu    <- menuBar,
             serving <- servingBar,
             kept    <- keptBar,
             current <- currentBar,
             doubt   <- unflushed

LEMMA OwnerInit ==
    ASSUME Menu!Init
    PROVE  Owner!PromiseInv
<1>1. Owner!Init
    BY DEF Menu!Init, Owner!Init, Menu!None, Owner!None
<1> QED
    BY <1>1, Owner!PromiseInit

LEMMA OwnerStep ==
    ASSUME Owner!PromiseInv, [Menu!Next]_(Menu!menuVars)
    PROVE  Owner!PromiseInv'
<1>1. Menu!Ask => Owner!Ask
    BY DEF Menu!Ask, Owner!Ask
<1>2. Menu!Prepare => Owner!Prepare
    <2>1. Menu!Waiting = Owner!Waiting
        BY DEF Menu!Waiting, Owner!Waiting
    <2>2. \A c, states : Menu!Variants(c, states) = Owner!Variants(c, states)
        BY DEF Menu!Variants, Owner!Variants, Menu!None, Owner!None, Menu!Garbled, Owner!Garbled
    <2>3. \A items, text : Menu!StatesOf(items, text) = Owner!StatesOf(items, text)
        BY DEF Menu!StatesOf, Owner!StatesOf, Menu!None, Owner!None, Menu!Garbled, Owner!Garbled
    <2> QED
        BY <2>1, <2>2, <2>3, Zenon DEF Menu!Prepare, Owner!Prepare
<1>3. \A c \in Confs : Menu!Publish(c) => Owner!Publish(c)
    BY DEF Menu!Publish, Owner!Publish, Menu!Waiting, Owner!Waiting, Menu!StatesOf, Owner!StatesOf,
           Menu!None, Owner!None, Menu!Garbled, Owner!Garbled
<1>4. Menu!Retire => Owner!Retire
    BY DEF Menu!Retire, Owner!Retire, Menu!Waiting, Owner!Waiting, Menu!Variants, Owner!Variants,
           Menu!None, Owner!None, Menu!Garbled, Owner!Garbled
<1>5. Menu!Abandon => Owner!Abandon
    BY DEF Menu!Abandon, Owner!Abandon, Menu!Waiting, Owner!Waiting, Menu!Garbled, Owner!Garbled
<1>6. Menu!Cut => Owner!Cut
    BY DEF Menu!Cut, Owner!Cut
<1>7. Menu!Settle => Owner!Settle
    BY DEF Menu!Settle, Owner!Settle
<1>8. [Owner!Next]_(Owner!menuVars)
    BY <1>1, <1>2, <1>3, <1>4, <1>5, <1>6, <1>7
       DEF Menu!Next, Owner!Next, Menu!menuVars, Owner!menuVars
<1> QED
    BY <1>8, Owner!PromiseStep

(***************************************************************************)
(* BootMenu's promise, of sync_entries: for such requests, from the moment *)
(* a conf is written (mod.rs 367) to the end of the call, wherever a power *)
(* failure leaves its text, the files it names are whole, or, of an        *)
(* earlier program that ended before its sync, missing.                    *)
(***************************************************************************)
THEOREM PromiseMet ==
    ASSUME Steady, \A c \in Confs : InitialDisk[c] = Absent
    PROVE  Spec => []Menu!Promised
<1> DEFINE I == RefinementInv /\ Owner!PromiseInv
<1>1. Init => I
    BY RefinementInvInit, MenuStarts, OwnerInit
<1>2. I /\ [Next]_vars => I'
    <2>1. ASSUME I, [Next]_vars
          PROVE  RefinementInv'
        BY <2>1, RefinementInvStep
    <2>2. ASSUME I, [Next]_vars
          PROVE  Owner!PromiseInv'
        BY <2>1, <2>2, MenuMoves, OwnerStep
    <2> QED
        BY <2>1, <2>2
<1>3. I => Menu!Promised
    BY DEF Owner!PromiseInv, Owner!Promised, Menu!Promised, Owner!StatesOf, Menu!StatesOf,
           Owner!None, Menu!None, Owner!Garbled, Menu!Garbled
<1> QED
    BY <1>1, <1>2, <1>3, PTL DEF Spec

-----------------------------------------------------------------------------
(* Requests that give a path to one content never mix entries.             *)

\* Whatever interrupted what, a path holds what some request gives it.
Kin == \A p \in Dest : outcomes[p] \subseteq {Absent} \cup Given(p)

MixInv == IInv /\ Ordered /\ Origins /\ Kin

LEMMA MixInit ==
    ASSUME Init, Familiar
    PROVE  MixInv
<1>1. IInv
    BY IInvInit
<1>2. Ordered
    BY DEF Init, Ordered, Serving
<1>3. Origins /\ Kin
    BY Paths DEF Init, Familiar, Origins, Kin
<1> QED
    BY <1>1, <1>2, <1>3 DEF MixInv

LEMMA KinStep ==
    ASSUME IInv, Ordered, Kin, [Next]_vars
    PROVE  Kin'
<1>1. /\ TypeOK /\ disk \in [Path -> Content] /\ outcomes \in [Path -> SUBSET Content]
      /\ Dest \subseteq Path
    BY Paths DEF IInv, TypeOK
<1>2. ASSUME \A p \in Dest : outcomes'[p] \subseteq outcomes[p] \cup {Absent} \cup Given(p)
      PROVE  Kin'
    BY <1>2 DEF Kin, Given
<1>3. ASSUME NEW p \in Path \ Dest, NEW t, Put(p, t)
      PROVE  Kin'
    <2>1. \A q \in Dest : outcomes'[q] = outcomes[q]
        BY <1>1, <1>3 DEF Put
    <2> QED
        BY <1>2, <2>1
<1>4. ASSUME pc = "copy"
      PROVE  ConfOf(Entry) \in Path \ Dest
    BY <1>4, Current, Paths
<1>5. CASE CopyChanged
    <2>1. CASE \A p \in Dest : outcomes'[p] \subseteq outcomes[p]
        BY <1>2, <2>1
    <2>2. CASE \E i \in pending :
                   /\ \A p \in Dest : p # changeset[i].dest => outcomes'[p] = outcomes[p]
                   /\ \/ outcomes'[changeset[i].dest]
                             = outcomes[changeset[i].dest] \cup {Absent}
                      \/ outcomes'[changeset[i].dest]
                             = outcomes[changeset[i].dest] \cup {changeset[i].data}
        <3>1. PICK i \in pending :
                   /\ \A p \in Dest : p # changeset[i].dest => outcomes'[p] = outcomes[p]
                   /\ \/ outcomes'[changeset[i].dest]
                             = outcomes[changeset[i].dest] \cup {Absent}
                      \/ outcomes'[changeset[i].dest]
                             = outcomes[changeset[i].dest] \cup {changeset[i].data}
            BY <2>2
        <3>2. changeset[i].data \in Given(changeset[i].dest)
            <4>1. /\ pc = "copy" /\ req \in Requests /\ Entry \in Range(req.entries)
                  /\ TextOf(Entry) = TextIn(req, Entry) /\ changeset = ChangesetOf(Entry)
                BY <1>5, Current DEF CopyChanged
            <4>2. i \in DOMAIN changeset /\ changeset[i].data \in HashSet
                BY <1>1, PendingItem DEF TypeOK
            <4>3. /\ i \in DOMAIN Entry.assets
                  /\ changeset[i].data = Entry.assets[i].hash
                  /\ changeset[i].dest = TextOf(Entry)[i]
                BY <4>1, <4>2 DEF ChangesetOf, TextOf
            <4> QED
                BY <4>1, <4>2, <4>3 DEF Given
        <3> QED
            BY <1>2, <3>1, <3>2
    <2> QED
        BY <1>5, <2>1, <2>2, CopyConfs
<1>6. CASE WriteConf
    BY <1>3, <1>4, <1>6 DEF WriteConf
<1>7. CASE RemoveConf \/ RemoveTree \/ RemoveFile
    <2>1. UNCHANGED outcomes \/ \E gone : Unlink(gone)
        BY <1>7 DEF RemoveConf, RemoveTree, RemoveFile
    <2> QED
        BY <1>1, <1>2, <2>1 DEF Unlink
<1>8. CASE Stop
    <2>1. CASE CopyStops
        BY <1>2, <2>1 DEF CopyStops
    <2>2. CASE CopyWriteFails
        <3>1. PICK i \in pending : Put(Staging(changeset[i].dest), Torn)
            BY <2>2 DEF CopyWriteFails
        <3>2. Staging(changeset[i].dest) \in Path \ Dest
            BY <1>1, PendingItem
        <3> QED
            BY <1>3, <3>1, <3>2
    <2>3. CASE pc = "copy" /\ Put(ConfOf(Entry), Torn)
        BY <1>3, <1>4, <2>3
    <2> QED
        BY <1>8, <2>1, <2>2, <2>3 DEF Stop
<1>9. CASE Recover
    <2>1. CASE Settle
        BY <1>1, <1>2, <2>1, SettleShrinks
    <2>2. CASE UNCHANGED vfatVars
        BY <1>2, <2>2 DEF vfatVars
    <2> QED
        BY <1>9, <2>1, <2>2 DEF Recover
<1>10. CASE \/ \E r \in Requests : Begin(r)
            \/ HashAsset \/ HashDone \/ Install \/ Scan \/ CleanDone \/ Crash \/ UNCHANGED vars
    BY <1>2, <1>10 DEF Begin, HashAsset, HashDone, Install, StartCopies, Scan, CleanDone,
                       Crash, vars, vfatVars
<1> QED
    BY <1>5, <1>6, <1>7, <1>8, <1>9, <1>10 DEF Next

LEMMA MixStep ==
    ASSUME MixInv, [Next]_vars
    PROVE  MixInv'
BY IInvStep, OrderedStep, OriginsStep, KinStep DEF MixInv

LEMMA NothingMixed ==
    ASSUME OneContent, MixInv
    PROVE  NeverMixed
<1> SUFFICES ASSUME req # NoRequest,
                    NEW e \in Range(req.entries), NEW text \in outcomes[ConfOf(e)] \cap Text,
                    NEW j \in DOMAIN e.assets
             PROVE  outcomes[text[j]] \subseteq {e.assets[j].hash, Absent}
    BY DEF NeverMixed
<1>1. req \in Requests /\ ConfOf(e) \in Confs
    BY DEF MixInv, IInv, TypeOK, Confs, ConfOf
<1>2. text \in TextsFor(ConfOf(e))
    BY <1>1, SentinelAssumption DEF MixInv, Origins
<1>3. PICK r \in Requests : \E f \in Range(r.entries) :
          ConfIn(r, f) = ConfOf(e) /\ text = TextIn(r, f)
    BY <1>2 DEF TextsFor
<1>4. PICK f \in Range(r.entries) : ConfIn(r, f) = ConfOf(e) /\ text = TextIn(r, f)
    BY <1>3
<1>5. j \in DOMAIN f.assets /\ f.assets[j].hash = e.assets[j].hash
    BY <1>1, <1>4 DEF OneContent, ConfOf
<1>6. \A h \in Given(text[j]) : h = e.assets[j].hash
    BY <1>4, <1>5 DEF OneContent, Given
<1>7. text[j] \in Dest
    <2>1. DOMAIN text = DOMAIN f.assets
        BY <1>4 DEF TextIn
    <2>2. PICK g \in Entries : text \in [DOMAIN g.assets -> Dest]
        BY DEF Text
    <2> QED
        BY <1>5, <2>1, <2>2
<1> QED
    BY <1>6, <1>7 DEF MixInv, Kin

(***************************************************************************)
(* "So that they all get installed instead of overwriting eachother"       *)
(* (mod.rs 508), across calls: a request's conf never names a kernel or    *)
(* initrd of other contents, whatever was interrupted before, if every     *)
(* path stands for one content in all the requests there are.  The code    *)
(* does not see to that (Reindex); callers that keep older entries in      *)
(* front, and drop none of a version that has conflicts, do.               *)
(***************************************************************************)
THEOREM Unmixed ==
    ASSUME OneContent, Familiar
    PROVE  Spec => []NeverMixed
<1>1. Init => MixInv
    BY MixInit
<1>2. MixInv /\ [Next]_vars => MixInv'
    BY MixStep
<1>3. MixInv => NeverMixed
    BY NothingMixed
<1> QED
    BY <1>1, <1>2, <1>3, PTL DEF Spec

-----------------------------------------------------------------------------
(* What puts an entry at risk that is on the medium.                       *)

\* What is still to be copied differs from what is there, to the rename of it.
Differ ==
    \A i \in pending :
        disk[changeset[i].dest] = changeset[i].data => IsNext(i) /\ step = "flushRename"

LossInv == MixInv /\ IntactInv /\ Differ

LEMMA DestsApart ==
    ASSUME EachOnce, IInv, Ordered, pc = "copy",
           NEW i \in DOMAIN changeset, NEW j \in DOMAIN changeset,
           changeset[i].dest = changeset[j].dest
    PROVE  i = j
<1>1. /\ req \in Requests /\ Entry \in Range(req.entries)
      /\ TextOf(Entry) = TextIn(req, Entry) /\ changeset = ChangesetOf(Entry)
    BY Current
<1>2. /\ i \in DOMAIN Entry.assets /\ j \in DOMAIN Entry.assets
      /\ changeset[i].dest = TextOf(Entry)[i] /\ changeset[j].dest = TextOf(Entry)[j]
    BY <1>1 DEF ChangesetOf, TextOf
<1> QED
    BY <1>1, <1>2 DEF EachOnce

LEMMA DifferStep ==
    ASSUME EachOnce, IInv, IInv', Ordered, Differ, [Next]_vars
    PROVE  Differ'
<1>1. /\ TypeOK /\ Control /\ Control' /\ disk \in [Path -> Content]
      /\ outcomes \in [Path -> SUBSET Content] /\ Dest \subseteq Path
    BY Paths DEF IInv, TypeOK
<1>2. CASE CopyChanged
    <2>1. PICK i \in pending :
              /\ IsNext(i)
              /\ \/ CopyWrite(i)       \/ CopyFlush(i)  \/ CopyRemove(i)
                 \/ CopyFlushRemove(i) \/ CopyRename(i) \/ CopyFlushRename(i)
        BY <1>2 DEF CopyChanged, Copy
    <2> DEFINE to   == changeset[i].dest
               from == Staging(to)
    <2>2. /\ to \in Path /\ from \in Path
          /\ \A j \in pending : /\ changeset[j].dest \in Path /\ changeset[j].dest # from
                                /\ changeset[j].data # Absent
        <3>1. ASSUME NEW j \in pending
              PROVE  /\ changeset[j].dest \in Dest /\ changeset[j].data \in HashSet
                     /\ Staging(changeset[j].dest) \in Path \ Dest
            BY <1>1, PendingItem
        <3> QED
            BY <1>1, <3>1, AssetAssumption
    <2>3. changeset' = changeset /\ pc = "copy" /\ pending \subseteq DOMAIN changeset
        BY <1>1, <1>2, CopyFrame DEF CopyChanged, TypeOK
    <2>4. \A j \in pending : IsNext(j) => j = i
        BY <1>1, <2>1, NextUnique
    <2> HIDE DEF to, from
    <2>5. CASE CopyWrite(i)
        <3>1. \A j \in pending : disk'[changeset[j].dest] = disk[changeset[j].dest]
            BY <1>1, <2>2, <2>5 DEF CopyWrite, Put, from, to
        <3> QED
            BY <2>3, <2>5, <3>1 DEF CopyWrite, Differ
    <2>6. CASE CopyFlush(i) \/ CopyFlushRemove(i)
        BY <2>3, <2>6 DEF CopyFlush, CopyFlushRemove, Syncfs, Differ
    <2>7. CASE CopyRemove(i)
        <3>1. \A j \in pending : \/ disk'[changeset[j].dest] = disk[changeset[j].dest]
                                 \/ disk'[changeset[j].dest] = Absent
            BY <1>1, <2>2, <2>7 DEF CopyRemove, Unlink
        <3> QED
            BY <2>2, <2>3, <2>7, <3>1 DEF CopyRemove, Differ
    <2>8. CASE CopyRename(i)
        <3>1. ASSUME NEW j \in pending, j # i
              PROVE  disk'[changeset[j].dest] = disk[changeset[j].dest]
            <4>1. changeset[j].dest # to
                BY <2>3, <3>1, DestsApart DEF to
            <4> QED
                BY <1>1, <2>2, <2>8, <4>1 DEF CopyRename, Rename, from, to
        <3>2. pending' = pending /\ step' = "flushRename" /\ IsNext(i)'
            BY <2>1, <2>8 DEF CopyRename, IsNext
        <3> QED
            BY <2>3, <2>8, <3>1, <3>2 DEF CopyRename, Differ
    <2>9. CASE CopyFlushRename(i)
        BY <2>3, <2>4, <2>9 DEF CopyFlushRename, Syncfs, Differ
    <2> QED
        BY <2>1, <2>5, <2>6, <2>7, <2>8, <2>9
<1>3. CASE Install
    BY <1>3 DEF Install, StartCopies, Changed, Differ
<1>4. CASE UNCHANGED vars
    BY <1>4 DEF vars, vfatVars, Differ, IsNext
<1>5. CASE ~ CopyChanged /\ ~ Install /\ ~ UNCHANGED vars
    <2>1. pending' = {}
        BY <1>1, <1>5 DEF Next, Begin, ResetCopies, HashAsset, HashDone, WriteConf, Scan,
                     RemoveConf, RemoveTree, RemoveFile, CleanDone, Stop, CopyStops,
                     CopyWriteFails, Crash, Recover, Settle, vfatVars, Control
    <2> QED
        BY <2>1 DEF Differ
<1> QED
    BY <1>2, <1>3, <1>4, <1>5

\* A copy gives a file up only to put another content in its place.
LEMMA CopyKeeps ==
    ASSUME IInv, Differ, CopyChanged, NEW p \in Dest, NEW h, outcomes[p] = {h},
           \A i \in pending : changeset[i].dest = p => changeset[i].data = h
    PROVE  outcomes'[p] = {h}
<1>1. /\ TypeOK /\ disk \in [Path -> Content] /\ outcomes \in [Path -> SUBSET Content]
      /\ p \in Path /\ disk[p] = h
    BY Paths DEF IInv, TypeOK
<1>2. PICK i \in pending :
          /\ IsNext(i)
          /\ \/ CopyWrite(i)       \/ CopyFlush(i)  \/ CopyRemove(i)
             \/ CopyFlushRemove(i) \/ CopyRename(i) \/ CopyFlushRename(i)
    BY DEF CopyChanged, Copy
<1> DEFINE to   == changeset[i].dest
           from == Staging(to)
<1>3. to \in Path /\ from \in Path /\ p # from
    BY <1>1, PendingItem, Paths
<1>4. to = p => changeset[i].data = h
    OBVIOUS
<1> HIDE DEF to, from
<1>5. CASE CopyWrite(i)
    BY <1>1, <1>3, <1>5 DEF CopyWrite, Put, from, to
<1>6. CASE CopyFlush(i) \/ CopyFlushRemove(i) \/ CopyFlushRename(i)
    BY <1>1, <1>6 DEF CopyFlush, CopyFlushRemove, CopyFlushRename, Syncfs
<1>7. CASE CopyRemove(i)
    <2>1. to # p
        BY <1>1, <1>4, <1>7 DEF CopyRemove, Differ, to
    <2> QED
        BY <1>1, <1>3, <1>7, <2>1 DEF CopyRemove, Unlink, to
<1>8. CASE CopyRename(i)
    <2>1. outcomes[from] = {changeset[i].data}
        BY <1>2, <1>8 DEF CopyRename, IInv, Staged, from, to
    <2>2. outcomes'[p] = IF p = to THEN outcomes[to] \cup outcomes[from] ELSE outcomes[p]
        BY <1>1, <1>3, <1>8 DEF CopyRename, Rename, from, to
    <2> QED
        BY <1>4, <2>1, <2>2
<1> QED
    BY <1>2, <1>5, <1>6, <1>7, <1>8

\* An entry is not at risk as long as its conf and its files are not.
LEMMA StaysSo ==
    ASSUME NEW c \in Confs, Bootable(c),
           \A x : outcomes[c] = {x} => outcomes'[c] = {x},
           \A t \in outcomes[c] \cap Text : \A j \in DOMAIN t :
               outcomes[t[j]] = {Hash(c, j)} => outcomes'[t[j]] = {Hash(c, j)}
    PROVE  Bootable(c)'
<1>1. PICK t \in outcomes[c] \cap Text :
          outcomes[c] = {t} /\ \A j \in DOMAIN t : outcomes[t[j]] = {Hash(c, j)}
    BY DEF Bootable, Hash
<1>2. outcomes'[c] = {t} /\ \A j \in DOMAIN t : outcomes'[t[j]] = {Hash(c, j)}
    BY <1>1
<1> QED
    BY <1>1, <1>2 DEF Bootable, Hash

LEMMA TextDests ==
    ASSUME NEW t \in Text, NEW j \in DOMAIN t
    PROVE  t[j] \in Dest
BY DEF Text

\* A text that some request gives to a conf gives each file one content.
LEMMA OneHash ==
    ASSUME OneContent, IInv, Ordered, Origins, pc = "copy", NEW c \in Confs,
           NEW t \in outcomes[c] \cap Text, NEW j \in DOMAIN t,
           NEW i \in DOMAIN changeset, changeset[i].dest = t[j]
    PROVE  changeset[i].data = Hash(c, j)
<1>1. /\ req \in Requests /\ Entry \in Range(req.entries)
      /\ TextOf(Entry) = TextIn(req, Entry) /\ changeset = ChangesetOf(Entry)
    BY Current
<1>2. /\ i \in DOMAIN Entry.assets /\ changeset[i].data = Entry.assets[i].hash
      /\ TextIn(req, Entry)[i] = t[j]
    BY <1>1 DEF ChangesetOf, TextOf
<1>3. t \in TextsFor(c)
    BY SentinelAssumption DEF Origins
<1>4. PICK r \in Requests : \E e \in Range(r.entries) : ConfIn(r, e) = c /\ t = TextIn(r, e)
    BY <1>3 DEF TextsFor
<1>5. PICK e \in Range(r.entries) : ConfIn(r, e) = c /\ t = TextIn(r, e)
    BY <1>4
<1>6. PICK s \in Requests : EntryNamed[c] \in Range(s.entries) /\ ConfIn(s, EntryNamed[c]) = c
    BY <1>5, NamedFacts
<1>7. j \in DOMAIN e.assets
    BY <1>5 DEF TextIn
<1>8. Hash(c, j) = e.assets[j].hash
    <2> HIDE DEF ConfIn
    <2>1. \A k \in DOMAIN e.assets : e.assets[k].hash = EntryNamed[c].assets[k].hash
        BY <1>5, <1>6 DEF OneContent
    <2> QED
        BY <1>7, <2>1 DEF Hash
<1>9. e.assets[j].hash = Entry.assets[i].hash
    BY <1>1, <1>2, <1>5, <1>7 DEF OneContent
<1> QED
    BY <1>2, <1>8, <1>9

LEMMA LossStep ==
    ASSUME OneContent, EachOnce, LossInv, [Next]_vars, NEW c \in Confs,
           Bootable(c), ~ Bootable(c)'
    PROVE  \/ /\ pc = "copy" /\ c = ConfOf(Entry)
              /\ FilesInPlace(Entry)
           \/ /\ pc = "clean" /\ c \notin InstalledConfs
              /\ \A e \in Range(req.entries) :
                     FilesInPlace(e) /\ disk[ConfOf(e)] = TextOf(e)
<1>1. /\ IInv /\ Ordered /\ Origins /\ TypeOK /\ Control
      /\ disk \in [Path -> Content] /\ outcomes \in [Path -> SUBSET Content]
      /\ \A p \in Path : disk[p] \in outcomes[p]
      /\ Dest \subseteq Path /\ c \in Path /\ c \notin Dest
      /\ InstalledIntact /\ Copied /\ StaleUnused /\ Differ
    BY Paths DEF LossInv, MixInv, IntactInv, IInv, TypeOK
<1>2. ASSUME \A x : outcomes[c] = {x} => outcomes'[c] = {x},
             \A p \in Dest : \A x : outcomes[p] = {x} => outcomes'[p] = {x}
      PROVE  FALSE
    BY <1>2, StaysSo, TextDests
<1>3. ASSUME NEW p \in Path \ Dest, p # c, NEW x, Put(p, x)
      PROVE  FALSE
    <2>1. \A q \in Path : q # p => outcomes'[q] = outcomes[q]
        BY <1>1, <1>3 DEF Put
    <2> QED
        BY <1>1, <1>2, <1>3, <2>1
<1>4. ASSUME pc = "copy", pending = {}
      PROVE  FilesInPlace(Entry) /\ ConfOf(Entry) \in Path \ Dest
    <2>1. changeset = ChangesetOf(Entry) /\ ConfOf(Entry) \in Path \ Dest
        BY <1>1, <1>4, Current, Paths
    <2>2. \A j \in DOMAIN Entry.assets :
              /\ j \in DOMAIN changeset
              /\ changeset[j].dest = TextOf(Entry)[j]
              /\ changeset[j].data = Entry.assets[j].hash
        BY <2>1 DEF ChangesetOf, TextOf
    <2>3. \A j \in DOMAIN changeset : disk[changeset[j].dest] = changeset[j].data
        BY <1>1, <1>4 DEF Copied
    <2> QED
        BY <2>1, <2>2, <2>3 DEF FilesInPlace
<1>5. CASE CopyChanged
    <2>1. pc = "copy" /\ pending \subseteq DOMAIN changeset
        BY <1>1, <1>5 DEF CopyChanged, TypeOK
    <2>2. \A x : outcomes[c] = {x} => outcomes'[c] = {x}
        <3>1. outcomes'[c] \subseteq outcomes[c]
            BY <1>1, <1>5, CopyConfs
        <3>2. IInv'
            BY <1>1, <1>5, IInvStep DEF Next
        <3>3. outcomes'[c] # {}
            BY <1>1, <3>2 DEF IInv, TypeOK
        <3> QED
            BY <3>1, <3>3
    <2>3. ASSUME NEW t \in outcomes[c] \cap Text, NEW j \in DOMAIN t,
                 outcomes[t[j]] = {Hash(c, j)}
          PROVE  outcomes'[t[j]] = {Hash(c, j)}
        <3>1. \A i \in pending : changeset[i].dest = t[j] => changeset[i].data = Hash(c, j)
            BY <1>1, <2>1, OneHash
        <3> QED
            BY <1>1, <1>5, <2>3, <3>1, CopyKeeps, TextDests
    <2> QED
        BY <2>2, <2>3, StaysSo
<1>6. CASE WriteConf
    BY <1>3, <1>4, <1>6 DEF WriteConf
<1>7. CASE RemoveConf \/ RemoveTree \/ RemoveFile
    <2>1. CASE UNCHANGED outcomes
        BY <1>2, <2>1
    <2>2. CASE ~ UNCHANGED outcomes
        <3>1. /\ pc = "clean"
              /\ \E gone : /\ Unlink(gone)
                           /\ gone \cap InstalledConfs = {} /\ gone \cap InstalledFiles = {}
            BY <1>1, <1>7, <2>2, RemovesUnused DEF IntactInv
        <3>2. PICK gone : /\ Unlink(gone)
                          /\ gone \cap InstalledConfs = {} /\ gone \cap InstalledFiles = {}
            BY <3>1
        <3>3. \A p \in Path : p \notin gone => outcomes'[p] = outcomes[p]
            BY <1>1, <3>2 DEF Unlink
        <3>4. ASSUME NEW e \in Range(req.entries)
              PROVE  FilesInPlace(e) /\ disk[ConfOf(e)] = TextOf(e)
            <4>1. /\ req \in Requests /\ cur = Len(req.entries) + 1
                BY <1>1, <3>1 DEF Control, Serving
            <4>2. e \in InstalledEntries
                <5>1. PICK i \in DOMAIN req.entries : e = req.entries[i]
                    BY DEF Range
                <5>2. req.entries \in Seq(Entries)
                    BY <4>1, RequestAssumption
                <5>3. i \in 1..(cur - 1)
                    BY <4>1, <5>1, <5>2
                <5> QED
                    BY <3>1, <5>1, <5>3 DEF InstalledEntries
            <4> QED
                BY <1>1, <4>2 DEF InstalledIntact, FilesInPlace
        <3>5. ASSUME c \in InstalledConfs
              PROVE  FALSE
            <4>1. PICK e \in Range(req.entries) : c = ConfOf(e)
                BY <3>5 DEF InstalledConfs
            <4>2. disk[c] = TextOf(e) /\ outcomes'[c] = outcomes[c]
                BY <1>1, <3>2, <3>3, <3>4, <3>5, <4>1
            <4>3. ASSUME NEW t \in outcomes[c] \cap Text, outcomes[c] = {t}, NEW j \in DOMAIN t
                  PROVE  outcomes'[t[j]] = outcomes[t[j]]
                <5>1. t = TextOf(e)
                    BY <1>1, <4>2, <4>3
                <5>2. t[j] \in InstalledFiles
                    BY <4>3, <5>1 DEF InstalledFiles, Range
                <5> QED
                    BY <1>1, <3>2, <3>3, <4>3, <5>2, TextDests
            <4>4. PICK t \in outcomes[c] \cap Text :
                      outcomes[c] = {t} /\ \A j \in DOMAIN t : outcomes[t[j]] = {Hash(c, j)}
                BY DEF Bootable, Hash
            <4>5. outcomes'[c] = {t} /\ \A j \in DOMAIN t : outcomes'[t[j]] = {Hash(c, j)}
                BY <4>2, <4>3, <4>4
            <4> QED
                BY <4>4, <4>5 DEF Bootable, Hash
        <3> QED
            BY <3>1, <3>4, <3>5
    <2> QED
        BY <2>1, <2>2
<1>8. CASE Stop
    <2>1. CASE CopyStops
        BY <1>2, <2>1 DEF CopyStops
    <2>2. CASE CopyWriteFails
        <3>1. PICK i \in pending : Put(Staging(changeset[i].dest), Torn)
            BY <2>2 DEF CopyWriteFails
        <3>2. Staging(changeset[i].dest) \in Path \ Dest /\ Staging(changeset[i].dest) # c
            <4>1. changeset[i].dest \in Dest
                BY <1>1, PendingItem
            <4>2. Staging(changeset[i].dest) \in Temps
                BY <4>1 DEF Temps
            <4> QED
                BY <1>1, <4>2, PendingItem, Paths
        <3> QED
            BY <1>3, <3>1, <3>2
    <2>3. CASE pc = "copy" /\ pending = {} /\ Put(ConfOf(Entry), Torn)
        BY <1>3, <1>4, <2>3
    <2> QED
        BY <1>8, <2>1, <2>2, <2>3 DEF Stop
<1>9. CASE Recover
    <2>1. CASE Settle
        <3>1. PICK q : \E x \in outcomes[q] : outcomes' = [outcomes EXCEPT ![q] = {x}]
            BY <2>1 DEF Settle
        <3> QED
            BY <1>1, <1>2, <3>1
    <2>2. CASE UNCHANGED vfatVars
        BY <1>2, <2>2 DEF vfatVars
    <2> QED
        BY <1>9, <2>1, <2>2 DEF Recover
<1>10. CASE \/ \E r \in Requests : Begin(r)
            \/ HashAsset \/ HashDone \/ Install \/ Scan \/ CleanDone \/ Crash \/ UNCHANGED vars
    BY <1>2, <1>10 DEF Begin, HashAsset, HashDone, Install, StartCopies, Scan, CleanDone,
                       Crash, vars, vfatVars
<1> QED
    BY <1>5, <1>6, <1>7, <1>8, <1>9, <1>10 DEF Next

(***************************************************************************)
(* Where every path stands for one content, and no entry names a file      *)
(* twice, an entry that is on the medium is put at risk only when its own  *)
(* conf is rewritten and when cleanup removes it, after all that the       *)
(* request keeps was written (mod.rs 145-150, 367): no copy for another    *)
(* entry, no failure and no power cut does, whatever was interrupted       *)
(* before.                                                                 *)
(***************************************************************************)
THEOREM Lossless ==
    ASSUME OneContent, EachOnce, Familiar
    PROVE  Spec => NothingLost
<1>1. Init => LossInv
    <2>1. Init => Differ
        BY DEF Init, Differ
    <2> QED
        BY <2>1, MixInit, IntactInit DEF LossInv
<1>2. LossInv /\ [Next]_vars => LossInv'
    <2>1. LossInv /\ [Next]_vars => MixInv'
        BY MixStep DEF LossInv
    <2> QED
        BY <2>1, IntactStep, DifferStep DEF LossInv, MixInv
<1>3. LossInv /\ [Next]_vars =>
          [\A c \in Confs :
               Bootable(c) /\ ~ Bootable(c)' =>
                   \/ /\ pc = "copy" /\ c = ConfOf(Entry)
                      /\ FilesInPlace(Entry)
                   \/ /\ pc = "clean" /\ c \notin InstalledConfs
                      /\ \A e \in Range(req.entries) :
                             FilesInPlace(e) /\ disk[ConfOf(e)] = TextOf(e)]_vars
    BY LossStep
<1> QED
    BY <1>1, <1>2, <1>3, PTL DEF Spec, NothingLost
=============================================================================
