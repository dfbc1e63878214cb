---------------------------- MODULE CmdlineProofs ----------------------------
(***************************************************************************)
(* Theorems about the discovery of kernels and about the options line.     *)
(***************************************************************************)
EXTENDS Cmdline, FiniteSetTheorems, SequenceTheorems, TLAPS

-----------------------------------------------------------------------------
(* Orders.                                                                 *)

\* ByName puts files of different names in order, and each of them once.
LEMMA ByNameSorts ==
    ASSUME NEW files \in {Files, LegacyFiles}, NEW S \in SUBSET files,
           \A f, g \in S : f.name = g.name => f = g
    PROVE  /\ Cardinality(S) \in Nat
           /\ ByName(S) \in [1..Cardinality(S) -> S]
           /\ \A f \in S : \E i \in 1..Cardinality(S) : ByName(S)[i] = f
           /\ \A i, j \in 1..Cardinality(S) :
                  i < j => NameBefore(ByName(S)[i].name, ByName(S)[j].name)
           /\ \A i, j \in 1..Cardinality(S) :
                  ByName(S)[i].name = ByName(S)[j].name => i = j
<1> DEFINE n == Cardinality(S)
           Pred(x) == {y \in S : NameBefore(y.name, x.name)}
           rank == [x \in S |-> Cardinality(Pred(x)) + 1]
           Sorted(s) == \A i, j \in DOMAIN s : i < j => ~NameBefore(s[j].name, s[i].name)
<1>1. IsFiniteSet(S) /\ n \in Nat
    BY NameAssumption, FS_Subset, FS_CardinalityType
<1>2. /\ \A x, y \in S : ~(NameBefore(x.name, y.name) /\ NameBefore(y.name, x.name))
      /\ \A x, y \in S : x # y => NameBefore(x.name, y.name) \/ NameBefore(y.name, x.name)
      /\ \A x, y, z \in S : NameBefore(x.name, y.name) /\ NameBefore(y.name, z.name)
                                => NameBefore(x.name, z.name)
    BY NameAssumption
<1>3. \A x \in S : /\ IsFiniteSet(Pred(x)) /\ Cardinality(Pred(x)) \in Nat
                   /\ x \notin Pred(x)
    <2>1. \A x \in S : Pred(x) \in SUBSET S
        OBVIOUS
    <2>2. \A x \in S : x \notin Pred(x)
        BY <1>2
    <2> HIDE DEF Pred
    <2> QED
        BY <1>1, <2>1, <2>2, FS_Subset, FS_CardinalityType
<1>4. ASSUME NEW x \in S, NEW y \in S, NameBefore(x.name, y.name)
      PROVE  rank[x] < rank[y]
    <2>1. Pred(x) \in SUBSET Pred(y) /\ x \in Pred(y) /\ x \notin Pred(x)
        BY <1>2, <1>4
    <2> HIDE DEF Pred
    <2>2. Cardinality(Pred(x)) <= Cardinality(Pred(y)) /\ Cardinality(Pred(x)) # Cardinality(Pred(y))
        BY <1>3, <2>1, FS_Subset
    <2> QED
        BY <1>3, <2>2
<1>5. \A x \in S : rank[x] \in 1..n
    <2> SUFFICES ASSUME NEW x \in S
                 PROVE  rank[x] \in 1..n
        OBVIOUS
    <2>1. Pred(x) \in SUBSET S
        OBVIOUS
    <2> HIDE DEF Pred
    <2>2. Cardinality(Pred(x)) <= n /\ Cardinality(Pred(x)) # n
        BY <1>1, <1>3, <2>1, FS_Subset
    <2> QED
        BY <1>1, <1>3, <2>2
<1>6. rank \in Surjection(S, 1..n)
    <2>1. \A x, y \in S : rank[x] = rank[y] => x = y
        <3> SUFFICES ASSUME NEW x \in S, NEW y \in S, rank[x] = rank[y], x # y
                     PROVE  FALSE
            OBVIOUS
        <3>1. rank[x] < rank[y] \/ rank[y] < rank[x]
            BY <1>2, <1>4
        <3>2. rank[x] \in Nat /\ rank[y] \in Nat
            BY <1>5
        <3> HIDE DEF rank
        <3> QED
            BY <3>1, <3>2
    <2>2. rank \in [S -> 1..n]
        BY <1>5
    <2> HIDE DEF rank
    <2>3. rank \in Injection(S, 1..n)
        BY <2>1, <2>2 DEF Injection, IsInjective
    <2>4. IsFiniteSet(1..n) /\ Cardinality(1..n) = n
        BY <1>1, FS_Interval
    <2> QED
        BY <2>3, <2>4, FS_Injection
<1> DEFINE f == [i \in 1..n |-> CHOOSE x \in S : rank[x] = i]
<1>7. \A i \in 1..n : f[i] \in S /\ rank[f[i]] = i
    <2>1. \A i \in 1..n : \E x \in S : rank[x] = i
        BY <1>6 DEF Surjection
    <2> HIDE DEF rank
    <2> QED
        BY <2>1
<1>8. f \in SetToSeqs(S) /\ Sorted(f)
    <2>1. f \in [1..n -> S]
        BY <1>7
    <2>2. \A i, j \in 1..n : i # j => f[i] # f[j]
        BY <1>7, Zenon
    <2>3. ASSUME NEW i \in 1..n, NEW j \in 1..n, i < j
          PROVE  ~NameBefore(f[j].name, f[i].name)
        <3>1. f[i] \in S /\ f[j] \in S /\ rank[f[i]] = i /\ rank[f[j]] = j
            BY <1>7
        <3>2. NameBefore(f[j].name, f[i].name) => rank[f[j]] < rank[f[i]]
            BY <1>4, <3>1
        <3> HIDE DEF f, rank
        <3> QED
            BY <1>1, <2>3, <3>1, <3>2
    <2>4. DOMAIN f = 1..n
        OBVIOUS
    <2> HIDE DEF f
    <2> QED
        BY <2>1, <2>2, <2>3, <2>4 DEF SetToSeqs
<1> DEFINE b == ByName(S)
<1>9. b \in SetToSeqs(S) /\ Sorted(b)
    BY <1>8 DEF ByName
<1>10. b \in [1..n -> S] /\ \A i, j \in 1..n : i # j => b[i] # b[j]
    BY <1>9 DEF SetToSeqs
<1> HIDE DEF b
<1>11. \A x \in S : \E i \in 1..n : b[i] = x
    <2>1. b \in Injection(1..n, S)
        BY <1>10 DEF Injection, IsInjective
    <2>2. IsFiniteSet(1..n) /\ Cardinality(1..n) = n
        BY <1>1, FS_Interval
    <2>3. b \in Surjection(1..n, S)
        BY <1>1, <2>1, <2>2, FS_Injection
    <2> QED
        BY <2>3 DEF Surjection
<1>12. \A i, j \in 1..n : b[i].name = b[j].name => i = j
    BY <1>10
<1>13. \A i, j \in 1..n : i < j => NameBefore(b[i].name, b[j].name)
    <2> SUFFICES ASSUME NEW i \in 1..n, NEW j \in 1..n, i < j
                 PROVE  NameBefore(b[i].name, b[j].name)
        OBVIOUS
    <2>1. ~NameBefore(b[j].name, b[i].name)
        BY <1>9, <1>10
    <2>2. b[i] # b[j] /\ b[i] \in S /\ b[j] \in S
        BY <1>10
    <2> QED
        BY <1>2, <2>1, <2>2
<1> QED
    BY <1>1, <1>10, <1>11, <1>12, <1>13 DEF b

LEMMA ByNameSet ==
    ASSUME NEW files \in {Files, LegacyFiles}, NEW S \in SUBSET files,
           \A f, g \in S : f.name = g.name => f = g
    PROVE  ToSet(ByName(S)) = S
<1> DEFINE b == ByName(S)
           n == Cardinality(S)
<1>1. b \in [1..n -> S] /\ \A f \in S : \E i \in 1..n : b[i] = f
    BY ByNameSorts
<1> HIDE DEF b, n
<1>2. ToSet(b) = {b[i] : i \in 1..n}
    BY <1>1 DEF ToSet
<1> QED
    BY <1>1, <1>2 DEF b

\* In one directory, and among the initrds of a kernel, names tell files apart.
LEMMA OwnNames ==
    ASSUME NEW files \in {Files, LegacyFiles}, NEW f \in files, NEW g \in files,
           f.name = g.name, f.dir = g.dir
    PROVE  f = g
BY NameAssumption

LEMMA InitrdNames ==
    ASSUME NEW files \in {Files, LegacyFiles}, tree \subseteq files, NEW v
    PROVE  /\ InitrdsOf(v) \in SUBSET files
           /\ \A f, g \in InitrdsOf(v) : f.name = g.name => f = g
<1>1. InitrdsOf(v) \in SUBSET files
    BY DEF InitrdsOf, Assets, SharedInitrds
<1>2. ASSUME NEW f \in InitrdsOf(v), NEW g \in InitrdsOf(v), f.name = g.name
      PROVE  f.dir = g.dir
    BY <1>2 DEF InitrdsOf, Assets, SharedInitrds, Below
<1> QED
    BY <1>1, <1>2, OwnNames

-----------------------------------------------------------------------------
(* The invariant.                                                          *)

Etcs == [EtcNames -> {"none", "text", "null"}]

\* The Manager has what the administrator had when it was made.
Loaded ==
    \/ loaded = NotLoaded /\ kernels = {}
    \/ \E s \in Snippets("etc", Added) :
           loaded = [snippets |-> s, exclusions |-> Masked, valid |-> TRUE]

\* And its kernels have what packages had shipped when they were discovered.
ExtrasOf(k) ==
    IF legacy THEN {f \in treeThen : Form(f) \in {"cmdline", "other"} /\ SameKernel(f, k.image)}
              ELSE {f \in treeThen : /\ f.dir = k.version /\ Ending(f.name) # "vmlinuz"
                                     /\ AuxKind(f) \in {"cmdline", "other"}}

Known ==
    \A k \in kernels :
        /\ ToSet(k.extras) = ExtrasOf(k)
        /\ legacy => k.image \in LegacyFiles /\ ToSet(k.initrd) =
               {f \in treeThen : \/ Form(f) = "shared"
                                 \/ /\ Form(f) = "initrd"
                                    /\ Parts(f.name).variant = Parts(k.image.name).variant
                                    /\ Begins(Parts(f.name).version, Parts(k.image.name).version)}

CmdlineInv ==
    /\ legacy \in BOOLEAN
    /\ tree \subseteq Shippable /\ treeThen \subseteq Shippable
    /\ etc \in Etcs /\ etcThen \in Etcs
    /\ changes \in 0 .. MaxChanges
    /\ \A o \in options : o.line[1] = Root
    /\ Loaded
    /\ Known

LEMMA CmdlineInit ==
    ASSUME Init
    PROVE  CmdlineInv
BY BoundAssumption DEF Init, CmdlineInv, Etcs, Loaded, Known

\* Discovery, of the files that are there.
LEMMA LegacyNames ==
    ASSUME legacy, tree \subseteq Shippable, NEW image, NEW S,
           S \in {LegacyExtras(image), LegacyInitrds(image)}
    PROVE  S \in SUBSET LegacyFiles /\ \A f, g \in S : f.name = g.name => f = g
<1>1. S \in SUBSET LegacyFiles
    BY DEF Shippable, LegacyExtras, LegacyInitrds
<1>2. \A f \in S : Form(f) # ""
    BY DEF LegacyExtras, LegacyInitrds
<1>3. \A f \in S : f.dir = ""
    BY <1>1, <1>2, LegacyAssumption DEF Form
<1> QED
    BY <1>1, <1>3, OwnNames

LEMMA NewManagerStep ==
    ASSUME CmdlineInv, NewManager
    PROVE  CmdlineInv'
<1>1. /\ kernels' \in Discovered /\ treeThen' = tree /\ etcThen' = etc /\ options' = {}
      /\ UNCHANGED <<tree, legacy, etc, changes>> /\ loaded' \in EtcCmdlines
    BY DEF NewManager
<1>2. Loaded'
    <2>1. PICK s \in Snippets("etc", EtcNamed("text")) :
              loaded' = [snippets |-> s, exclusions |-> EtcNamed("null"), valid |-> TRUE]
        BY <1>1 DEF EtcCmdlines
    <2>2. EtcNamed("text") = Added' /\ EtcNamed("null") = Masked'
        BY <1>1 DEF EtcNamed, Added, Masked
    <2>3. Snippets("etc", EtcNamed("text")) = Snippets("etc", Added)'
        BY <2>2 DEF Snippets
    <2> QED
        BY <2>1, <2>2, <2>3 DEF Loaded
<1>3. Known'
    <2> SUFFICES ASSUME NEW k \in kernels'
                 PROVE  /\ ToSet(k.extras) = ExtrasOf(k)'
                        /\ legacy => k.image \in LegacyFiles /\ ToSet(k.initrd) =
                               {f \in tree : \/ Form(f) = "shared"
                                             \/ /\ Form(f) = "initrd"
                                                /\ Parts(f.name).variant = Parts(k.image.name).variant
                                                /\ Begins(Parts(f.name).version, Parts(k.image.name).version)}
        BY <1>1 DEF Known
    <2>1. CASE legacy
        <3>1. PICK last \in LastImages : kernels' = {LegacyKernel(last[v]) : v \in LegacyVersions}
            BY <1>1, <2>1 DEF Discovered, LegacyKernels
        <3>2. PICK v \in LegacyVersions : k = LegacyKernel(last[v])
            BY <3>1
        <3>3. PICK image \in LegacyFiles : image = last[v]
            BY <2>1, <3>2 DEF LastImages, LegacyImages, CmdlineInv, Shippable
        <3>4. /\ k.image = image /\ k.extras = ByName(LegacyExtras(image))
              /\ k.initrd = ByName(LegacyInitrds(image))
            BY <3>2, <3>3 DEF LegacyKernel
        <3>5. ToSet(k.extras) = LegacyExtras(image) /\ ToSet(k.initrd) = LegacyInitrds(image)
            BY <2>1, <3>4, LegacyNames, ByNameSet DEF CmdlineInv
        <3> QED
            BY <1>1, <2>1, <3>4, <3>5 DEF ExtrasOf, LegacyExtras, LegacyInitrds
    <2>2. CASE ~legacy
        <3>1. PICK image \in Images : k = Kernel(image)
            BY <1>1, <2>2 DEF Discovered, Kernels
        <3> DEFINE S == {f \in Assets(image.dir) : AuxKind(f) \in {"cmdline", "other"}}
        <3>2. k.version = image.dir /\ k.extras = ByName(S)
            BY <3>1 DEF Kernel
        <3>3. S \in SUBSET Files /\ \A f \in S : f.dir = image.dir
            BY <2>2 DEF CmdlineInv, Shippable, Assets, Below
        <3>4. \A f, g \in S : f.name = g.name => f = g
            BY <3>3, OwnNames
        <3>5. ToSet(ByName(S)) = S
            <4> HIDE DEF S
            <4> QED
                BY <3>3, <3>4, ByNameSet
        <3> QED
            BY <1>1, <2>2, <3>2, <3>5 DEF ExtrasOf, Assets, Below
    <2> QED
        BY <2>1, <2>2
<1> QED
    BY <1>1, <1>2, <1>3 DEF CmdlineInv, Shippable

-----------------------------------------------------------------------------
(* The options line.                                                       *)

\* A list of snippets from one source, each name once.
Part(s, from, names) ==
    /\ Len(s) \in Nat /\ DOMAIN s = 1..Len(s)
    /\ ToSet(s) = {Snippet(from, x) : x \in names}
    /\ \A i, j \in DOMAIN s : s[i] = s[j] => i = j

LEMMA SnippetsOf ==
    ASSUME NEW from, NEW names, IsFiniteSet(names), NEW s \in Snippets(from, names)
    PROVE  s \in Seq({Snippet(from, x) : x \in names}) /\ Part(s, from, names)
<1> DEFINE n == Cardinality(names)
<1>1. n \in Nat
    BY FS_CardinalityType
<1>2. PICK t \in SetToSeqs(names) : s = [i \in DOMAIN t |-> Snippet(from, t[i])]
    BY DEF Snippets
<1>3. t \in [1..n -> names] /\ \A i, j \in 1..n : i # j => t[i] # t[j]
    BY <1>2 DEF SetToSeqs
<1>4. \A x \in names : \E i \in 1..n : t[i] = x
    <2>1. t \in Injection(1..n, names)
        BY <1>3 DEF Injection, IsInjective
    <2>2. Cardinality(1..n) = n
        BY <1>1, FS_Interval
    <2>3. t \in Surjection(1..n, names)
        BY <1>1, <2>1, <2>2, FS_Injection
    <2> QED
        BY <2>3 DEF Surjection
<1>5. DOMAIN s = 1..n /\ \A i \in 1..n : s[i] = Snippet(from, t[i])
    BY <1>2, <1>3
<1> HIDE DEF n
<1>6. ToSet(s) = {Snippet(from, x) : x \in names}
    BY <1>3, <1>4, <1>5 DEF ToSet
<1>7. s \in [1..n -> {Snippet(from, x) : x \in names}]
    BY <1>2, <1>3
<1>8. s \in Seq({Snippet(from, x) : x \in names})
    BY <1>1, <1>7, SeqDef
<1>9. \A i, j \in DOMAIN s : s[i] = s[j] => i = j
    BY <1>3, <1>5 DEF Snippet
<1>10. Len(s) \in Nat /\ DOMAIN s = 1..Len(s)
    BY <1>8, LenProperties
<1> QED
    BY <1>6, <1>8, <1>9, <1>10 DEF Part

\* A sequence that is one and then another, by index.
Join(u, s, t) ==
    /\ Len(u) = Len(s) + Len(t)
    /\ \A i \in 1..Len(s) : u[i] = s[i]
    /\ \A i \in 1..Len(t) : u[Len(s) + i] = t[i]

LEMMA Joined ==
    ASSUME NEW U, NEW s \in Seq(U), NEW t \in Seq(U)
    PROVE  s \o t \in Seq(U) /\ Join(s \o t, s, t)
<1>1. /\ s \o t \in Seq(U) /\ Len(s \o t) = Len(s) + Len(t)
      /\ \A i \in 1..(Len(s) + Len(t)) :
             (s \o t)[i] = IF i <= Len(s) THEN s[i] ELSE t[i - Len(s)]
    BY ConcatProperties
<1>2. Len(s) \in Nat /\ Len(t) \in Nat
    OBVIOUS
<1>3. \A i \in 1..Len(t) : (Len(s) + i) - Len(s) = i
    BY <1>2
<1> QED
    BY <1>1, <1>2, <1>3 DEF Join

\* The parts of a line, by index.
InParts(line, r, a, g, o, e) ==
    /\ Len(line) = Len(a) + Len(g) + Len(e) + 2
    /\ line[1] = r
    /\ \A i \in 1..Len(a) : line[1 + i] = a[i]
    /\ \A i \in 1..Len(g) : line[1 + Len(a) + i] = g[i]
    /\ line[Len(a) + Len(g) + 2] = o
    /\ \A i \in 1..Len(e) : line[Len(a) + Len(g) + 2 + i] = e[i]

LEMMA Indices ==
    ASSUME NEW a, NEW g, NEW e, NEW x, NEW y, NEW s1, NEW s2, NEW s3, NEW line,
           Len(a) \in Nat, Len(g) \in Nat, Len(e) \in Nat, Len(x) = 1, Len(y) = 1,
           Join(s1, x, a), Join(s2, s1, g), Join(s3, s2, y), Join(line, s3, e)
    PROVE  InParts(line, x[1], a, g, y[1], e)
<1>1. /\ Len(s1) = 1 + Len(a)
      /\ Len(s2) = 1 + Len(a) + Len(g)
      /\ Len(s3) = Len(a) + Len(g) + 2
      /\ Len(line) = Len(a) + Len(g) + Len(e) + 2
    BY DEF Join
<1>2. /\ 1 \in 1..Len(x) /\ 1 \in 1..Len(s1) /\ 1 \in 1..Len(s2) /\ 1 \in 1..Len(s3)
      /\ 1 \in 1..Len(y)
    BY <1>1
<1>3. line[1] = x[1]
    BY <1>2 DEF Join
<1>4. \A i \in 1..Len(a) : line[1 + i] = a[i]
    <2> SUFFICES ASSUME NEW i \in 1..Len(a)
                 PROVE  line[1 + i] = a[i]
        OBVIOUS
    <2>1. 1 + i \in 1..Len(s1) /\ 1 + i \in 1..Len(s2) /\ 1 + i \in 1..Len(s3)
        BY <1>1
    <2>2. s1[1 + i] = a[i]
        BY DEF Join
    <2>3. line[1 + i] = s3[1 + i] /\ s3[1 + i] = s2[1 + i] /\ s2[1 + i] = s1[1 + i]
        BY <2>1, Zenon DEF Join
    <2> QED
        BY <2>2, <2>3
<1>5. \A i \in 1..Len(g) : line[1 + Len(a) + i] = g[i]
    <2> SUFFICES ASSUME NEW i \in 1..Len(g)
                 PROVE  line[1 + Len(a) + i] = g[i]
        OBVIOUS
    <2>1. 1 + Len(a) + i \in 1..Len(s2) /\ 1 + Len(a) + i \in 1..Len(s3)
        BY <1>1
    <2>2. s2[1 + Len(a) + i] = g[i]
        BY <1>1 DEF Join
    <2>3. line[1 + Len(a) + i] = s3[1 + Len(a) + i] /\ s3[1 + Len(a) + i] = s2[1 + Len(a) + i]
        BY <2>1, Zenon DEF Join
    <2> QED
        BY <2>2, <2>3
<1>6. line[Len(a) + Len(g) + 2] = y[1]
    <2>1. s3[Len(s2) + 1] = y[1]
        BY <1>2 DEF Join
    <2>2. Len(s2) + 1 = Len(a) + Len(g) + 2 /\ Len(s2) + 1 \in 1..Len(s3)
        BY <1>1
    <2>3. line[Len(s2) + 1] = s3[Len(s2) + 1]
        BY <2>2, Zenon DEF Join
    <2> QED
        BY <2>1, <2>2, <2>3
<1>7. \A i \in 1..Len(e) : line[Len(a) + Len(g) + 2 + i] = e[i]
    BY <1>1 DEF Join
<1> QED
    BY <1>1, <1>3, <1>4, <1>5, <1>6, <1>7 DEF InParts

LEMMA LineIndex ==
    ASSUME NEW U, NEW r \in U, NEW o \in U,
           NEW a, NEW g, NEW e, {a, g, e} \subseteq Seq(U)
    PROVE  LET line == <<r>> \o a \o g \o <<o>> \o e
           IN  line \in Seq(U) /\ InParts(line, r, a, g, o, e)
<1>1. PICK x : x = <<r>>
    OBVIOUS
<1>2. PICK y : y = <<o>>
    OBVIOUS
<1>3. x \in Seq(U) /\ Len(x) = 1 /\ x[1] = r
    BY <1>1
<1>4. y \in Seq(U) /\ Len(y) = 1 /\ y[1] = o
    BY <1>2
<1>5. x \in Seq(U) /\ y \in Seq(U) /\ a \in Seq(U) /\ g \in Seq(U) /\ e \in Seq(U)
    BY <1>3, <1>4
<1>6. x \o a \in Seq(U) /\ Join(x \o a, x, a)
    BY <1>5, Joined, Zenon
<1>7. (x \o a) \o g \in Seq(U) /\ Join((x \o a) \o g, x \o a, g)
    BY <1>5, <1>6, Joined, Zenon
<1>8. ((x \o a) \o g) \o y \in Seq(U) /\ Join(((x \o a) \o g) \o y, (x \o a) \o g, y)
    BY <1>5, <1>7, Joined, Zenon
<1>9. /\ (((x \o a) \o g) \o y) \o e \in Seq(U)
      /\ Join((((x \o a) \o g) \o y) \o e, ((x \o a) \o g) \o y, e)
    BY <1>5, <1>8, Joined, Zenon
<1>10. Len(a) \in Nat /\ Len(g) \in Nat /\ Len(e) \in Nat
    BY <1>5, LenProperties
<1>11. InParts((((x \o a) \o g) \o y) \o e, x[1], a, g, y[1], e)
    BY <1>3, <1>4, <1>6, <1>7, <1>8, <1>9, <1>10, Indices, Zenon
<1> QED
    BY <1>1, <1>2, <1>3, <1>4, <1>9, <1>11, Zenon

\* Every index of a line is in one of its parts.
LEMMA LineCases ==
    ASSUME NEW la \in Nat, NEW lg \in Nat, NEW le \in Nat, NEW i \in 1..(la + lg + le + 2)
    PROVE  \/ i = 1
           \/ \E k \in 1..la : i = 1 + k
           \/ \E k \in 1..lg : i = 1 + la + k
           \/ i = la + lg + 2
           \/ \E k \in 1..le : i = la + lg + 2 + k
<1>1. CASE i \in 2..(la + 1)
    <2>1. \E k \in 1..la : k = i - 1
        BY <1>1
    <2> QED
        BY <1>1, <2>1
<1>2. CASE i \in (la + 2)..(la + lg + 1)
    <2>1. \E k \in 1..lg : k = i - 1 - la
        BY <1>2
    <2> QED
        BY <1>2, <2>1
<1>3. CASE i \in (la + lg + 3)..(la + lg + le + 2)
    <2>1. \E k \in 1..le : k = i - la - lg - 2
        BY <1>3
    <2> QED
        BY <1>3, <2>1
<1> QED
    BY <1>1, <1>2, <1>3

\* The snippets that a kernel ships and that a sync reads.
OwnFiles(k) ==
    {f \in ToSet(k.extras) : IsCmdline(f) /\ f.name \notin loaded.exclusions /\ f \in tree}

LEMMA KernelPart ==
    ASSUME CmdlineInv, NEW k \in kernels
    PROVE  LET a == KernelSnippets(k)
               names == {f.name : f \in OwnFiles(k)}
           IN  a \in Seq({Snippet("kernel", x) : x \in names}) /\ Part(a, "kernel", names)
<1> DEFINE S == OwnFiles(k)
           n == Cardinality(S)
           own == ByName(S)
           names == {f.name : f \in S}
           a == KernelSnippets(k)
<1>1. Shippable \in {Files, LegacyFiles} /\ S \in SUBSET Shippable
    BY DEF CmdlineInv, Shippable, OwnFiles
<1>2. \A f \in S : f \in ExtrasOf(k)
    BY DEF CmdlineInv, Known, OwnFiles
<1>3. \A f, g \in S : f.dir = g.dir
    <2>1. CASE legacy
        <3>1. \A f \in S : f \in LegacyFiles /\ Form(f) \in {"cmdline", "other"}
            BY <1>1, <1>2, <2>1 DEF ExtrasOf, Shippable
        <3>2. \A f \in S : Form(f) # ""
            BY <3>1, Zenon
        <3> HIDE DEF S
        <3>3. \A f \in S : f.dir = ""
            BY <3>1, <3>2, LegacyAssumption, Zenon DEF Form
        <3> QED
            BY <3>3, Zenon
    <2>2. CASE ~legacy
        <3>1. \A f \in S : f.dir = k.version
            BY <1>2, <2>2 DEF ExtrasOf
        <3> QED
            BY <3>1
    <2> QED
        BY <2>1, <2>2
<1>4. \A f, g \in S : f.name = g.name => f = g
    BY <1>1, <1>3, OwnNames
<1>5. a = [i \in DOMAIN own |-> Snippet("kernel", own[i].name)]
    BY DEF KernelSnippets, OwnFiles
<1> HIDE DEF S
<1>6. /\ n \in Nat /\ own \in [1..n -> S]
      /\ \A f \in S : \E i \in 1..n : own[i] = f
      /\ \A i, j \in 1..n : own[i].name = own[j].name => i = j
    BY <1>1, <1>4, ByNameSorts
<1> HIDE DEF n, own
<1>7. DOMAIN a = 1..n /\ \A i \in 1..n : a[i] = Snippet("kernel", own[i].name)
    BY <1>5, <1>6
<1>8. a \in [1..n -> {Snippet("kernel", x) : x \in names}]
    BY <1>5, <1>6
<1>9. a \in Seq({Snippet("kernel", x) : x \in names})
    BY <1>6, <1>8, SeqDef
<1>10. ToSet(a) = {Snippet("kernel", x) : x \in names}
    <2>1. ToSet(a) = {a[i] : i \in 1..n}
        BY <1>7 DEF ToSet
    <2> QED
        BY <2>1, <1>6, <1>7
<1>11. \A i, j \in DOMAIN a : a[i] = a[j] => i = j
    BY <1>6, <1>7 DEF Snippet
<1>12. Len(a) \in Nat /\ DOMAIN a = 1..Len(a)
    BY <1>9, LenProperties
<1> QED
    BY <1>9, <1>10, <1>11, <1>12 DEF Part, S

\* What a sync writes.
LEMMA LineOfSync ==
    ASSUME CmdlineInv, Sync, NEW o \in options'
    PROVE  /\ o.kernel \in kernels /\ loaded.exclusions = Masked
           /\ DOMAIN o.line = 1..Len(o.line)
           /\ \E a, g, e :
                  /\ Part(a, "kernel", {f.name : f \in OwnFiles(o.kernel)})
                  /\ Part(g, "global", GlobalNames)
                  /\ Part(e, "etc", Added)
                  /\ InParts(o.line, Root, a, g, OfEntry, e)
<1>1. PICK g \in Snippets("global", GlobalNames) :
          options' = {[kernel |-> k, line |-> FullCmdline(k, g)] : k \in kernels}
    BY DEF Sync
<1>2. PICK k \in kernels : o = [kernel |-> k, line |-> FullCmdline(k, g)]
    BY <1>1
<1>3. PICK e \in Snippets("etc", Added) :
          loaded = [snippets |-> e, exclusions |-> Masked, valid |-> TRUE]
    BY DEF CmdlineInv, Loaded, Sync, NotLoaded
<1>4. PICK a : a = KernelSnippets(k)
    OBVIOUS
<1> DEFINE A == {Snippet("kernel", x) : x \in {f.name : f \in OwnFiles(k)}}
           G == {Snippet("global", x) : x \in GlobalNames}
           E == {Snippet("etc", x) : x \in Added}
           U == {Root, OfEntry} \cup A \cup G \cup E
<1>5. a \in Seq(A) /\ Part(a, "kernel", {f.name : f \in OwnFiles(k)})
    BY <1>4, KernelPart
<1>6. IsFiniteSet(GlobalNames)
    <2> DEFINE D == {h \in tree : h.dir = "cmdline.d"}
               m == [h \in D |-> h.name]
               N == {h.name : h \in D}
    <2>1. IsFiniteSet(D)
        BY NameAssumption, FS_Subset DEF CmdlineInv, Shippable
    <2>2. m \in Surjection(D, N)
        BY DEF Surjection
    <2>3. IsFiniteSet(N)
        <3> HIDE DEF D, N, m
        <3> QED
            BY <2>1, <2>2, FS_Surjection
    <2> QED
        BY <2>3, FS_Subset DEF GlobalNames
<1>7. IsFiniteSet(Added)
    BY BoundAssumption, FS_Subset DEF Added
<1>8. g \in Seq(G) /\ Part(g, "global", GlobalNames)
    BY <1>1, <1>6, SnippetsOf
<1>9. e \in Seq(E) /\ Part(e, "etc", Added)
    BY <1>3, <1>7, SnippetsOf
<1>10. o.line = <<Root>> \o a \o g \o <<OfEntry>> \o e
    BY <1>2, <1>3, <1>4 DEF FullCmdline
<1>11. {a, g, e} \subseteq Seq(U) /\ Root \in U /\ OfEntry \in U
    <2>1. A \subseteq U /\ G \subseteq U /\ E \subseteq U
        OBVIOUS
    <2> HIDE DEF A, G, E, U
    <2>2. a \in Seq(U)
        BY <1>5, <2>1
    <2>3. g \in Seq(U)
        BY <1>8, <2>1
    <2>4. e \in Seq(U)
        BY <1>9, <2>1
    <2> QED
        BY <2>2, <2>3, <2>4 DEF U
<1> HIDE DEF A, G, E, U
<1>12. o.line \in Seq(U) /\ InParts(o.line, Root, a, g, OfEntry, e)
    BY <1>10, <1>11, LineIndex
<1>13. DOMAIN o.line = 1..Len(o.line)
    BY <1>12, LenProperties
<1>14. o.kernel = k
    BY <1>2
<1> QED
    BY <1>3, <1>5, <1>8, <1>9, <1>12, <1>13, <1>14

\* The sources of the parts of a line.
LEMMA PartSource ==
    ASSUME NEW s, NEW from, NEW names, Part(s, from, names)
    PROVE  /\ \A i \in 1..Len(s) : s[i].from = from /\ s[i] \in {Snippet(from, x) : x \in names}
           /\ \A x \in names : \E i \in 1..Len(s) : s[i] = Snippet(from, x)
<1>1. DOMAIN s = 1..Len(s) /\ ToSet(s) = {Snippet(from, x) : x \in names}
    BY DEF Part
<1>2. {s[i] : i \in 1..Len(s)} = {Snippet(from, x) : x \in names}
    BY <1>1 DEF ToSet
<1>3. \A x \in names : Snippet(from, x).from = from
    BY DEF Snippet
<1> QED
    BY <1>2, <1>3

LEMMA RootSource == Root.from = "root" /\ OfEntry.from = "entry"
BY Zenon DEF Root, OfEntry, Snippet

LEMMA LineSources ==
    ASSUME NEW A, NEW G, NEW E, NEW a, NEW g, NEW e, NEW line,
           Part(a, "kernel", A), Part(g, "global", G), Part(e, "etc", E),
           InParts(line, Root, a, g, OfEntry, e), DOMAIN line = 1..Len(line)
    PROVE  \A i \in DOMAIN line :
               \/ i = 1 /\ line[i].from = "root"
               \/ \E k \in 1..Len(a) : i = 1 + k /\ line[i] = a[k] /\ line[i].from = "kernel"
               \/ \E k \in 1..Len(g) :
                      i = 1 + Len(a) + k /\ line[i] = g[k] /\ line[i].from = "global"
               \/ i = Len(a) + Len(g) + 2 /\ line[i].from = "entry"
               \/ \E k \in 1..Len(e) :
                      i = Len(a) + Len(g) + 2 + k /\ line[i] = e[k] /\ line[i].from = "etc"
<1>1. Len(a) \in Nat /\ Len(g) \in Nat /\ Len(e) \in Nat
    BY DEF Part
<1>2. /\ \A k \in 1..Len(a) : a[k].from = "kernel"
      /\ \A k \in 1..Len(g) : g[k].from = "global"
      /\ \A k \in 1..Len(e) : e[k].from = "etc"
    BY PartSource
<1>3. TAKE i \in DOMAIN line
<1>4. i \in 1..(Len(a) + Len(g) + Len(e) + 2)
    BY <1>3 DEF InParts
<1>5. CASE i = 1
    BY <1>5, RootSource, Zenon DEF InParts
<1>6. CASE \E k \in 1..Len(a) : i = 1 + k
    <2>1. PICK k \in 1..Len(a) : i = 1 + k
        BY <1>6
    <2>2. line[1 + k] = a[k]
        BY <2>1, Zenon DEF InParts
    <2> QED
        BY <1>2, <2>1, <2>2, Zenon
<1>7. CASE \E k \in 1..Len(g) : i = 1 + Len(a) + k
    <2>1. PICK k \in 1..Len(g) : i = 1 + Len(a) + k
        BY <1>7
    <2>2. line[1 + Len(a) + k] = g[k]
        BY <2>1, Zenon DEF InParts
    <2> QED
        BY <1>2, <2>1, <2>2, Zenon
<1>8. CASE i = Len(a) + Len(g) + 2
    BY <1>8, RootSource, Zenon DEF InParts
<1>9. CASE \E k \in 1..Len(e) : i = Len(a) + Len(g) + 2 + k
    <2>1. PICK k \in 1..Len(e) : i = Len(a) + Len(g) + 2 + k
        BY <1>9
    <2>2. line[Len(a) + Len(g) + 2 + k] = e[k]
        BY <2>1, Zenon DEF InParts
    <2> QED
        BY <1>2, <2>1, <2>2, Zenon
<1> QED
    BY <1>1, <1>4, <1>5, <1>6, <1>7, <1>8, <1>9, LineCases

\* What a line has from packages, and what from the administrator.
Has(line, A, G, E) ==
    /\ From(line, {"kernel", "global"})
           = {Snippet("kernel", x) : x \in A} \cup {Snippet("global", x) : x \in G}
    /\ NoneTwice(line, {"kernel", "global"})
    /\ From(line, {"etc"}) = {Snippet("etc", x) : x \in E}
    /\ NoneTwice(line, {"etc"})
    /\ \A i, j \in DOMAIN line :
           i < j /\ line[i].from = "etc" => line[j].from = "etc"

LEMMA LineSets ==
    ASSUME NEW A, NEW G, NEW E, NEW a, NEW g, NEW e, NEW line,
           Part(a, "kernel", A), Part(g, "global", G), Part(e, "etc", E),
           InParts(line, Root, a, g, OfEntry, e), DOMAIN line = 1..Len(line)
    PROVE  Has(line, A, G, E)
<1>1. /\ Len(a) \in Nat /\ Len(g) \in Nat /\ Len(e) \in Nat
      /\ DOMAIN a = 1..Len(a) /\ DOMAIN g = 1..Len(g) /\ DOMAIN e = 1..Len(e)
      /\ \A i, j \in 1..Len(a) : a[i] = a[j] => i = j
      /\ \A i, j \in 1..Len(g) : g[i] = g[j] => i = j
      /\ \A i, j \in 1..Len(e) : e[i] = e[j] => i = j
    BY DEF Part
<1>2. \A i \in DOMAIN line :
          \/ i = 1 /\ line[i].from = "root"
          \/ \E k \in 1..Len(a) : i = 1 + k /\ line[i] = a[k] /\ line[i].from = "kernel"
          \/ \E k \in 1..Len(g) :
                 i = 1 + Len(a) + k /\ line[i] = g[k] /\ line[i].from = "global"
          \/ i = Len(a) + Len(g) + 2 /\ line[i].from = "entry"
          \/ \E k \in 1..Len(e) :
                 i = Len(a) + Len(g) + 2 + k /\ line[i] = e[k] /\ line[i].from = "etc"
    BY LineSources
<1>3. /\ \A k \in 1..Len(a) : 1 + k \in DOMAIN line /\ line[1 + k] = a[k]
      /\ \A k \in 1..Len(g) : 1 + Len(a) + k \in DOMAIN line /\ line[1 + Len(a) + k] = g[k]
      /\ \A k \in 1..Len(e) : /\ Len(a) + Len(g) + 2 + k \in DOMAIN line
                              /\ line[Len(a) + Len(g) + 2 + k] = e[k]
    BY <1>1 DEF InParts
<1>4. /\ {a[k] : k \in 1..Len(a)} = {Snippet("kernel", x) : x \in A}
      /\ {g[k] : k \in 1..Len(g)} = {Snippet("global", x) : x \in G}
      /\ {e[k] : k \in 1..Len(e)} = {Snippet("etc", x) : x \in E}
    BY PartSource
<1>5. /\ \A k \in 1..Len(a) : a[k].from = "kernel"
      /\ \A k \in 1..Len(g) : g[k].from = "global"
      /\ \A k \in 1..Len(e) : e[k].from = "etc"
    BY PartSource
<1>6. {s \in ToSet(line) : s.from = "kernel"} = {a[k] : k \in 1..Len(a)}
    <2>1. ASSUME NEW i \in DOMAIN line, line[i].from = "kernel"
          PROVE  \E k \in 1..Len(a) : line[i] = a[k]
        BY <1>2, <2>1
    <2>2. ASSUME NEW k \in 1..Len(a)
          PROVE  a[k] \in ToSet(line)
        BY <1>3 DEF ToSet
    <2>3. \A s \in ToSet(line) : \E i \in DOMAIN line : line[i] = s
        BY DEF ToSet
    <2> QED
        BY <1>5, <2>1, <2>2, <2>3
<1>7. {s \in ToSet(line) : s.from = "global"} = {g[k] : k \in 1..Len(g)}
    <2>1. ASSUME NEW i \in DOMAIN line, line[i].from = "global"
          PROVE  \E k \in 1..Len(g) : line[i] = g[k]
        BY <1>2, <2>1
    <2>2. ASSUME NEW k \in 1..Len(g)
          PROVE  g[k] \in ToSet(line)
        BY <1>3 DEF ToSet
    <2>3. \A s \in ToSet(line) : \E i \in DOMAIN line : line[i] = s
        BY DEF ToSet
    <2> QED
        BY <1>5, <2>1, <2>2, <2>3
<1>8. {s \in ToSet(line) : s.from = "etc"} = {e[k] : k \in 1..Len(e)}
    <2>1. ASSUME NEW i \in DOMAIN line, line[i].from = "etc"
          PROVE  \E k \in 1..Len(e) : line[i] = e[k]
        BY <1>2, <2>1
    <2>2. ASSUME NEW k \in 1..Len(e)
          PROVE  e[k] \in ToSet(line)
        BY <1>3 DEF ToSet
    <2>3. \A s \in ToSet(line) : \E i \in DOMAIN line : line[i] = s
        BY DEF ToSet
    <2> QED
        BY <1>5, <2>1, <2>2, <2>3
<1>9. From(line, {"kernel", "global"})
          = {s \in ToSet(line) : s.from = "kernel"} \cup {s \in ToSet(line) : s.from = "global"}
    BY DEF From
<1>10. From(line, {"etc"}) = {s \in ToSet(line) : s.from = "etc"}
    BY DEF From
<1>11. ASSUME NEW i \in DOMAIN line, NEW j \in DOMAIN line, line[i] = line[j],
              line[i].from \in {"kernel", "global", "etc"}
       PROVE  i = j
    <2>1. CASE line[i].from = "kernel"
        <3>1. PICK k \in 1..Len(a) : i = 1 + k /\ line[i] = a[k]
            BY <1>2, <2>1
        <3>2. PICK l \in 1..Len(a) : j = 1 + l /\ line[j] = a[l]
            BY <1>2, <1>11, <2>1
        <3> QED
            BY <1>1, <1>11, <3>1, <3>2
    <2>2. CASE line[i].from = "global"
        <3>1. PICK k \in 1..Len(g) : i = 1 + Len(a) + k /\ line[i] = g[k]
            BY <1>2, <2>2
        <3>2. PICK l \in 1..Len(g) : j = 1 + Len(a) + l /\ line[j] = g[l]
            BY <1>2, <1>11, <2>2
        <3> QED
            BY <1>1, <1>11, <3>1, <3>2
    <2>3. CASE line[i].from = "etc"
        <3>1. PICK k \in 1..Len(e) : i = Len(a) + Len(g) + 2 + k /\ line[i] = e[k]
            BY <1>2, <2>3
        <3>2. PICK l \in 1..Len(e) : j = Len(a) + Len(g) + 2 + l /\ line[j] = e[l]
            BY <1>2, <1>11, <2>3
        <3> QED
            BY <1>1, <1>11, <3>1, <3>2
    <2> QED
        BY <1>11, <2>1, <2>2, <2>3
<1>12. NoneTwice(line, {"kernel", "global"}) /\ NoneTwice(line, {"etc"})
    BY <1>11 DEF NoneTwice
<1>13. ASSUME NEW i \in DOMAIN line, NEW j \in DOMAIN line, i < j, line[i].from = "etc"
       PROVE  line[j].from = "etc"
    <2>1. PICK k \in 1..Len(e) : i = Len(a) + Len(g) + 2 + k
        BY <1>2, <1>13
    <2>2. j > Len(a) + Len(g) + 2
        BY <1>1, <1>13, <2>1
    <2>3. j # 1 /\ j # Len(a) + Len(g) + 2
          /\ (\A l \in 1..Len(a) : j # 1 + l) /\ (\A l \in 1..Len(g) : j # 1 + Len(a) + l)
        BY <1>1, <2>2
    <2> QED
        BY <1>2, <2>3, Zenon
<1> QED
    BY <1>4, <1>6, <1>7, <1>8, <1>9, <1>10, <1>12, <1>13 DEF Has

LEMMA SyncLines ==
    ASSUME CmdlineInv, Sync, NEW o \in options'
    PROVE  Has(o.line, {f.name : f \in OwnFiles(o.kernel)}, GlobalNames, Added)
<1>1. DOMAIN o.line = 1..Len(o.line)
    BY LineOfSync
<1>2. PICK a, g, e : /\ Part(a, "kernel", {f.name : f \in OwnFiles(o.kernel)})
                     /\ Part(g, "global", GlobalNames)
                     /\ Part(e, "etc", Added)
                     /\ InParts(o.line, Root, a, g, OfEntry, e)
    BY LineOfSync
<1> QED
    BY <1>1, <1>2, LineSets, Zenon

-----------------------------------------------------------------------------
(* The steps keep the invariant.                                           *)

LEMMA SyncStep ==
    ASSUME CmdlineInv, Sync
    PROVE  CmdlineInv'
<1>1. UNCHANGED <<tree, legacy, etc, loaded, kernels, etcThen, treeThen, changes>>
    BY DEF Sync
<1>2. \A o \in options' : o.line[1] = Root
    BY LineOfSync, Zenon DEF InParts
<1>3. Loaded' /\ Known'
    BY <1>1 DEF CmdlineInv, Loaded, Known, Snippets, Added, Masked, ExtrasOf
<1> QED
    BY <1>1, <1>2, <1>3 DEF CmdlineInv, Shippable

LEMMA OtherSteps ==
    ASSUME CmdlineInv, DiscoveryPanics \/ Package \/ Administrator \/ UNCHANGED vars
    PROVE  CmdlineInv'
<1>1. CASE DiscoveryPanics
    BY <1>1 DEF CmdlineInv, DiscoveryPanics, Loaded, Known, Shippable
<1>2. CASE Package
    <2>1. PICK f \in Shippable : tree' = IF f \in tree THEN tree \ {f} ELSE tree \cup {f}
        BY <1>2 DEF Package
    <2>2. tree' \subseteq Shippable'
        BY <1>2, <2>1 DEF CmdlineInv, Package, Shippable
    <2>3. changes' \in 0 .. MaxChanges
        BY <1>2, BoundAssumption DEF CmdlineInv, Package
    <2>4. Loaded' /\ Known'
        BY <1>2 DEF Package, CmdlineInv, Loaded, Known, Snippets, Added, Masked, ExtrasOf
    <2> QED
        BY <1>2, <2>2, <2>3, <2>4 DEF CmdlineInv, Package, Shippable
<1>3. CASE Administrator
    <2>1. etc' \in Etcs
        BY <1>3 DEF Administrator, CmdlineInv, Etcs
    <2>2. changes' \in 0 .. MaxChanges
        BY <1>3, BoundAssumption DEF CmdlineInv, Administrator
    <2>3. Loaded' /\ Known'
        BY <1>3 DEF Administrator, CmdlineInv, Loaded, Known, Snippets, Added, Masked, ExtrasOf
    <2> QED
        BY <1>3, <2>1, <2>2, <2>3 DEF CmdlineInv, Administrator, Shippable
<1>4. CASE UNCHANGED vars
    BY <1>4 DEF CmdlineInv, vars, Loaded, Known, Snippets, Added, Masked, ExtrasOf, Shippable
<1> QED
    BY <1>1, <1>2, <1>3, <1>4

LEMMA CmdlineStep ==
    ASSUME CmdlineInv, [Next]_vars
    PROVE  CmdlineInv'
BY NewManagerStep, SyncStep, OtherSteps DEF Next

LEMMA CmdlineInvariant == Spec => []CmdlineInv
BY CmdlineInit, CmdlineStep, PTL DEF Spec

-----------------------------------------------------------------------------
(* Theorems.                                                               *)

\* Type correctness of the snippets and of what they are made from.
THEOREM CmdlineTypes == Spec => []TypeOK
<1>1. ASSUME CmdlineInv
      PROVE  TypeOK
    <2>1. /\ loaded.exclusions \subseteq {n \in EtcNames : Ending(n) = ".cmdline"}
          /\ \A i \in DOMAIN loaded.snippets : loaded.snippets[i].from = "etc"
        <3>1. CASE loaded = NotLoaded
            BY <3>1 DEF NotLoaded
        <3>2. CASE loaded # NotLoaded
            <4>1. PICK s \in Snippets("etc", Added) :
                      loaded = [snippets |-> s, exclusions |-> Masked, valid |-> TRUE]
                BY <1>1, <3>2 DEF CmdlineInv, Loaded
            <4>2. \A i \in DOMAIN s : s[i].from = "etc"
                BY DEF Snippets, Snippet
            <4>3. loaded.exclusions = Masked /\ loaded.snippets = s
                BY <4>1
            <4> QED
                BY <4>2, <4>3 DEF Masked
        <3> QED
            BY <3>1, <3>2
    <2> QED
        BY <1>1, <2>1 DEF CmdlineInv, TypeOK, Etcs
<1> QED
    BY <1>1, CmdlineInvariant, PTL

\* Whatever packages ship, the initrds of a kernel are found, each name once,
\* in the order in which sync_entries writes them into the entry.
THEOREM Loadable == Spec => []InitrdsLoadable
<1>1. ASSUME CmdlineInv
      PROVE  InitrdsLoadable
    <2> SUFFICES ASSUME NEW image \in Images
                 PROVE  /\ \A i, j \in DOMAIN Kernel(image).initrd :
                               i < j => NameBefore(Kernel(image).initrd[i].name,
                                                   Kernel(image).initrd[j].name)
                        /\ {f.name : f \in ToSet(Kernel(image).initrd)}
                               = {f.name : f \in {g \in tree :
                                     /\ g.dir \in {Kernel(image).version, "initrd.d"}
                                     /\ IsInitrd(g)}}
        BY DEF InitrdsLoadable, Kernels
    <2> DEFINE v == image.dir
               S == InitrdsOf(v)
               b == ByName(S)
    <2>1. Kernel(image).version = v /\ Kernel(image).initrd = b
        BY DEF Kernel
    <2>2. PICK files \in {Files, LegacyFiles} : tree \subseteq files
        BY <1>1 DEF CmdlineInv, Shippable
    <2>3. S \in SUBSET files /\ \A f, g \in S : f.name = g.name => f = g
        BY <2>2, InitrdNames
    <2>4. {f.name : f \in S}
              = {f.name : f \in {g \in tree : g.dir \in {v, "initrd.d"} /\ IsInitrd(g)}}
        <3>1. \A f \in S : f \in tree /\ f.dir \in {v, "initrd.d"} /\ IsInitrd(f)
            BY DEF InitrdsOf, Assets, SharedInitrds, Below
        <3>2. \A f \in SharedInitrds : f \in S
            BY DEF InitrdsOf
        <3>3. ASSUME NEW f \in tree, f.dir = v, IsInitrd(f)
              PROVE  \E g \in S : g.name = f.name
            <4>1. Ending(f.name) # "vmlinuz"
                BY <3>3 DEF IsInitrd, AuxKind
            <4>2. f \in Assets(v)
                BY <3>3, <4>1 DEF Assets, Below
            <4> QED
                BY <3>2, <3>3, <4>2 DEF InitrdsOf
        <3>4. ASSUME NEW f \in tree, f.dir = "initrd.d", IsInitrd(f)
              PROVE  \E g \in S : g.name = f.name
            BY <3>2, <3>4 DEF SharedInitrds
        <3> HIDE DEF S
        <3> QED
            BY <3>1, <3>3, <3>4
    <2> HIDE DEF S
    <2>5. ToSet(b) = S
        BY <2>3, ByNameSet
    <2>6. \A i, j \in DOMAIN b : i < j => NameBefore(b[i].name, b[j].name)
        <3>1. DOMAIN b = 1..Cardinality(S)
            BY <2>3, ByNameSorts
        <3>2. \A i, j \in 1..Cardinality(S) : i < j => NameBefore(b[i].name, b[j].name)
            BY <2>3, ByNameSorts
        <3> QED
            BY <3>1, <3>2
    <2> HIDE DEF b
    <2> QED
        BY <2>1, <2>4, <2>5, <2>6
<1> QED
    BY <1>1, CmdlineInvariant, PTL

\* A package that changes one version's directory leaves the others' kernels
\* as they were found.
THEOREM Independence == Spec => Independent
<1>1. ASSUME NEW k \in Kernels,
             \A f \in (tree \ tree') \cup (tree' \ tree) : f.dir \notin {k.version, "initrd.d"}
      PROVE  k \in Kernels'
    <2>1. PICK image \in Images : k = Kernel(image)
        BY DEF Kernels
    <2> DEFINE v == image.dir
    <2>2. k.version = v
        BY <2>1 DEF Kernel
    <2>3. \A f : f.dir \in {v, "initrd.d"} => (f \in tree <=> f \in tree')
        BY <1>1, <2>2
    <2>4. image \in Images'
        BY <2>3 DEF Images
    <2>5. Assets(v)' = Assets(v) /\ SharedInitrds' = SharedInitrds
        BY <2>3 DEF Assets, SharedInitrds, Below, IsInitrd, AuxKind
    <2>6. InitrdsOf(v)' = InitrdsOf(v)
        BY <2>5 DEF InitrdsOf
    <2>7. Kernel(image)' = Kernel(image)
        BY <2>5, <2>6 DEF Kernel
    <2> QED
        BY <2>1, <2>4, <2>7 DEF Kernels
<1>2. [Next]_vars =>
          [\A k \in Kernels :
              (\A f \in (tree \ tree') \cup (tree' \ tree) : f.dir \notin {k.version, "initrd.d"})
              => k \in Kernels']_tree
    BY <1>1
<1> QED
    BY <1>2, PTL DEF Spec, Independent

\* A line has what packages ship for its kernel and the administrator has not
\* masked, each snippet once and no others.
THEOREM Vendors == Spec => VendorSnippets
<1> DEFINE Right(o) ==
        /\ From(o.line, {"kernel", "global"}) = {s \in Shipped(o.kernel) : s.name \notin Masked}
        /\ NoneTwice(o.line, {"kernel", "global"})
<1>1. ASSUME CmdlineInv, Sync, NEW o \in options'
      PROVE  Right(o)
    <2> DEFINE k == o.kernel
               A == {f.name : f \in OwnFiles(k)}
    <2>1. k \in kernels /\ loaded.exclusions = Masked
        BY <1>1, LineOfSync
    <2>2. /\ From(o.line, {"kernel", "global"})
                 = {Snippet("kernel", x) : x \in A} \cup {Snippet("global", x) : x \in GlobalNames}
          /\ NoneTwice(o.line, {"kernel", "global"})
        BY <1>1, SyncLines DEF Has
    <2>3. A = {f.name : f \in {g \in tree \cap treeThen : OwnCmdline(k, g)}} \ Masked
        <3>1. \A f : f \in OwnFiles(k) <=>
                  f \in tree /\ f \in ExtrasOf(k) /\ IsCmdline(f) /\ f.name \notin Masked
            BY <1>1, <2>1 DEF CmdlineInv, Known, OwnFiles
        <3>2. \A f : f \in ExtrasOf(k) /\ IsCmdline(f) <=> f \in treeThen /\ OwnCmdline(k, f)
            <4>1. CASE legacy
                <5>1. k.image = k.image /\ \A f : f \in ExtrasOf(k) <=>
                          f \in treeThen /\ Form(f) \in {"cmdline", "other"} /\ SameKernel(f, k.image)
                    BY <4>1 DEF ExtrasOf
                <5> QED
                    BY <4>1, <5>1 DEF IsCmdline, OwnCmdline
            <4>2. CASE ~legacy
                <5>1. \A f : f \in ExtrasOf(k) <=>
                          /\ f \in treeThen /\ f.dir = k.version /\ Ending(f.name) # "vmlinuz"
                          /\ AuxKind(f) \in {"cmdline", "other"}
                    BY <4>2 DEF ExtrasOf
                <5>2. \A f : AuxKind(f) = "cmdline" <=> Ending(f.name) = ".cmdline"
                    BY DEF AuxKind
                <5> QED
                    BY <4>2, <5>1, <5>2 DEF IsCmdline, OwnCmdline
            <4> QED
                BY <4>1, <4>2
        <3> QED
            BY <3>1, <3>2
    <2>4. GlobalNames = {f.name : f \in {g \in tree : g.dir = "cmdline.d"}} \ Masked
        BY <2>1 DEF GlobalNames
    <2>5. \A from, x : Snippet(from, x).name = x
        BY DEF Snippet
    <2>6. {Snippet("kernel", x) : x \in A} \cup {Snippet("global", x) : x \in GlobalNames}
              = {s \in Shipped(k) : s.name \notin Masked}
        <3> DEFINE K == {f.name : f \in {g \in tree \cap treeThen : OwnCmdline(k, g)}}
                   G == {f.name : f \in {g \in tree : g.dir = "cmdline.d"}}
        <3>1. Shipped(k) = {Snippet("kernel", x) : x \in K} \cup {Snippet("global", x) : x \in G}
            BY DEF Shipped
        <3>2. A = K \ Masked /\ GlobalNames = G \ Masked
            BY <2>3, <2>4
        <3> HIDE DEF K, G, A
        <3> QED
            BY <2>5, <3>1, <3>2
    <2> QED
        BY <2>2, <2>6
<1>2. CmdlineInv /\ [Next]_vars => [Sync => \A o \in options' : Right(o)]_vars
    BY <1>1
<1> QED
    BY <1>2, CmdlineInvariant, PTL DEF Spec, VendorSnippets

\* What the administrator wrote ends every line, each snippet once, as it was
\* when the Manager was made.
THEOREM EtcLast == Spec => AdministratorLast
<1> DEFINE Right(o) ==
        /\ From(o.line, {"etc"}) = {Snippet("etc", n) : n \in Added}
        /\ NoneTwice(o.line, {"etc"})
        /\ \A i, j \in DOMAIN o.line :
               i < j /\ o.line[i].from = "etc" => o.line[j].from = "etc"
<1>1. ASSUME CmdlineInv, Sync, NEW o \in options'
      PROVE  Right(o)
    BY <1>1, SyncLines DEF Has
<1>2. CmdlineInv /\ [Next]_vars => [Sync => \A o \in options' : Right(o)]_vars
    BY <1>1
<1> QED
    BY <1>2, CmdlineInvariant, PTL DEF Spec, AdministratorLast

\* Where no version that a name says begins with another, every initrd that is
\* not shared was made for the kernel it is given to.
THEOREM Versions ==
    ASSUME \A f, g \in LegacyFiles :
               Begins(Parts(f.name).version, Parts(g.name).version)
                   => Parts(f.name).version = Parts(g.name).version
    PROVE  Spec => []OwnInitrds
<1>1. ASSUME CmdlineInv
      PROVE  OwnInitrds
    BY <1>1 DEF CmdlineInv, Known, OwnInitrds, SameKernel, Shippable
<1> QED
    BY <1>1, CmdlineInvariant, PTL
=============================================================================
