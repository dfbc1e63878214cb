-------------------------- MODULE RootDeviceProofs --------------------------
(***************************************************************************)
(* Theorems about the root arguments, for every machine: any number of     *)
(* devices, stacked in any way that has no circle.                         *)
(*                                                                         *)
(* The chain of a device is computed by recursion over slaves/.  That the  *)
(* recursion defines it, and what is in it, is proved by looking at a      *)
(* device for which it fails and that rests on none for which it does.     *)
(***************************************************************************)
EXTENDS RootDevice, SequenceTheorems, WellFoundedInduction, TLAPS

-----------------------------------------------------------------------------
(* Lemmas about sequences.                                                 *)

LEMMA SmallestOf ==
    ASSUME NEW T \in SUBSET Nat, T # {}
    PROVE  \E m \in T : \A k \in T : m <= k
<1> DEFINE R == {ss \in Nat \X Nat : ss[1] < ss[2]}
<1>1. IsWellFoundedOn(R, Nat)
    BY NatLessThanWellFounded DEF OpToRel
<1> HIDE DEF R
<1>2. PICK m \in T : \A k \in T : <<k, m>> \notin R
    BY <1>1, WFMin
<1>3. \A k \in T : ~(k < m)
    BY <1>2 DEF R
<1> QED
    BY <1>3

LEMMA ToSetConcat ==
    ASSUME NEW S, NEW s \in Seq(S), NEW t \in Seq(S)
    PROVE  ToSet(s \o t) = ToSet(s) \cup ToSet(t)
<1> DEFINE c == s \o t
<1>1. /\ c \in Seq(S) /\ Len(c) = Len(s) + Len(t)
      /\ \A i \in 1..Len(s) + Len(t) : c[i] = IF i <= Len(s) THEN s[i] ELSE t[i - Len(s)]
    BY ConcatProperties
<1>2. /\ Len(s) \in Nat /\ DOMAIN s = 1..Len(s)
      /\ Len(t) \in Nat /\ DOMAIN t = 1..Len(t)
      /\ DOMAIN c = 1..Len(s) + Len(t)
    BY <1>1, LenProperties
<1> HIDE DEF c
<1>3. ASSUME NEW i \in DOMAIN c
      PROVE  c[i] \in ToSet(s) \cup ToSet(t)
    <2>1. CASE i <= Len(s)
        BY <1>1, <1>2, <2>1 DEF ToSet
    <2>2. CASE i > Len(s)
        <3>1. i - Len(s) \in DOMAIN t /\ c[i] = t[i - Len(s)]
            BY <1>1, <1>2, <2>2
        <3> QED
            BY <3>1 DEF ToSet
    <2> QED
        BY <1>2, <2>1, <2>2
<1>4. ASSUME NEW i \in DOMAIN s
      PROVE  s[i] \in ToSet(c)
    <2>1. i \in DOMAIN c /\ c[i] = s[i]
        BY <1>1, <1>2
    <2> QED
        BY <2>1 DEF ToSet
<1>5. ASSUME NEW i \in DOMAIN t
      PROVE  t[i] \in ToSet(c)
    <2>1. Len(s) + i \in DOMAIN c /\ c[Len(s) + i] = t[i]
        BY <1>1, <1>2
    <2> QED
        BY <2>1 DEF ToSet
<1> QED
    BY <1>3, <1>4, <1>5 DEF ToSet, c

LEMMA ToSetIn ==
    ASSUME NEW S, NEW s \in Seq(S)
    PROVE  ToSet(s) \subseteq S
BY LenProperties DEF ToSet

LEMMA ToSetOne == \A x : ToSet(<<x>>) = {x}
BY DEF ToSet

LEMMA ToSetNone == ToSet(<<>>) = {}
BY DEF ToSet

LEMMA FrontOf ==
    ASSUME NEW S, NEW c \in Seq(S), Len(c) >= 1
    PROVE  /\ Front(c) \in Seq(S)
           /\ DOMAIN Front(c) = 1..(Len(c) - 1)
           /\ \A i \in 1..(Len(c) - 1) : Front(c)[i] = c[i]
<1> DEFINE n == Len(c)
           m == n - 1
           f == SubSeq(c, 1, m)
<1>1. n \in Nat /\ n >= 1 /\ \A i \in 1..n : c[i] \in S
    BY LenProperties, ElementOfSeq
<1>2. m \in Nat /\ 1 \in Int /\ m \in Int /\ \A i \in 1..m : i \in 1..n
    BY <1>1
<1>3. \A i \in 1..m : c[i] \in S
    BY <1>1, <1>2
<1> HIDE DEF m
<1>4. /\ f \in Seq(S)
      /\ Len(f) = IF 1 <= m THEN m - 1 + 1 ELSE 0
      /\ \A i \in 1..m - 1 + 1 : f[i] = c[1 + i - 1]
    BY <1>2, <1>3, SubSeqProperties
<1> HIDE DEF f
<1>5. Len(f) = m /\ \A i \in 1..m : f[i] = c[i]
    BY <1>2, <1>3, <1>4
<1>6. DOMAIN f = 1..m
    BY <1>4, <1>5, LenProperties
<1> QED
    BY <1>4, <1>5, <1>6 DEF Front, f, m

\* The recursion by which FlattenSeq is computed.
Flattens(f, s, n) ==
    f = [i \in 1..n |-> IF i = 1 THEN s[i] ELSE f[i - 1] \o s[i]]

LEMMA FlattenIs ==
    ASSUME NEW s, Len(s) # 0
    PROVE  FlattenSeq(s) = (CHOOSE f : Flattens(f, s, Len(s)))[Len(s)]
BY DEF FlattenSeq, Flattens

LEMMA FlattenExists ==
    ASSUME NEW s, NEW n \in Nat
    PROVE  \E f : Flattens(f, s, n)
<1> SUFFICES ASSUME \A f : ~Flattens(f, s, n)
             PROVE  FALSE
    OBVIOUS
<1> DEFINE T == {m \in Nat : \A f : ~Flattens(f, s, m)}
<1>1. n \in T
    OBVIOUS
<1>2. PICK m \in T : \A k \in T : m <= k
    <2> HIDE DEF T
    <2>1. T \in SUBSET Nat
        BY DEF T
    <2> QED
        BY <1>1, <2>1, SmallestOf
<1>3. m # 0
    <2> DEFINE f0 == [i \in 1..0 |-> s]
    <2>1. Flattens(f0, s, 0)
        BY DEF Flattens
    <2> QED
        BY <1>2, <2>1
<1>4. m - 1 \in Nat /\ m - 1 \notin T
    BY <1>2, <1>3
<1>5. PICK g : Flattens(g, s, m - 1)
    BY <1>4
<1> DEFINE f == [i \in 1..m |-> IF i = 1 THEN s[i] ELSE g[i - 1] \o s[i]]
<1>6. \A i \in 1..(m - 1) : f[i] = g[i]
    <2>1. \A i \in 1..(m - 1) : g[i] = IF i = 1 THEN s[i] ELSE g[i - 1] \o s[i]
        BY <1>4, <1>5 DEF Flattens
    <2>2. \A i \in 1..(m - 1) : i \in 1..m
        BY <1>4
    <2> QED
        BY <2>1, <2>2
<1>7. \A i \in 1..m : i # 1 => i - 1 \in 1..(m - 1)
    BY <1>4
<1>8. \A i \in 1..m : f[i] = IF i = 1 THEN s[i] ELSE f[i - 1] \o s[i]
    BY <1>6, <1>7
<1>9. Flattens(f, s, m)
    BY <1>8 DEF Flattens
<1> QED
    BY <1>2, <1>9

\* Flattening forgets in which of the sequences something is.
LEMMA Flattened ==
    ASSUME NEW S, NEW s \in Seq(Seq(S))
    PROVE  /\ FlattenSeq(s) \in Seq(S)
           /\ ToSet(FlattenSeq(s)) = UNION {ToSet(s[k]) : k \in DOMAIN s}
<1> DEFINE n == Len(s)
<1>1. n \in Nat /\ DOMAIN s = 1..n /\ \A k \in 1..n : s[k] \in Seq(S)
    BY LenProperties, ElementOfSeq
<1>2. CASE n = 0
    <2>1. FlattenSeq(s) = s /\ s = <<>>
        BY <1>2, EmptySeq DEF FlattenSeq
    <2>2. <<>> \in Seq(S)
        BY EmptySeq
    <2> QED
        BY <1>1, <1>2, <2>1, <2>2, ToSetNone
<1>3. CASE n # 0
    <2> DEFINE f == CHOOSE g : Flattens(g, s, n)
               Upto(i) == UNION {ToSet(s[k]) : k \in 1..i}
               T == {i \in 1..n : ~(f[i] \in Seq(S) /\ ToSet(f[i]) = Upto(i))}
    <2>1. Flattens(f, s, n)
        BY <1>1, FlattenExists
    <2> HIDE DEF f
    <2>2. \A i \in 1..n : f[i] = IF i = 1 THEN s[i] ELSE f[i - 1] \o s[i]
        BY <2>1 DEF Flattens
    <2>3. T = {}
        <3> SUFFICES ASSUME T # {}
                     PROVE  FALSE
            OBVIOUS
        <3>1. T \in SUBSET Nat
            BY <1>1
        <3>2. PICK i \in T : \A j \in T : i <= j
            <4> HIDE DEF T
            <4> QED
                BY <3>1, SmallestOf
        <3>3. i \in 1..n
            OBVIOUS
        <3>4. i # 1
            <4>1. ASSUME i = 1
                  PROVE  f[i] = s[i] /\ Upto(i) = ToSet(s[i])
                <5>1. f[i] = s[i]
                    BY <2>2, <3>3, <4>1
                <5>2. \A k \in 1..1 : k = 1
                    OBVIOUS
                <5> QED
                    BY <4>1, <5>1, <5>2
            <4> QED
                BY <1>1, <3>2, <3>3, <4>1
        <3>5. i - 1 \in 1..n /\ i - 1 \notin T
            <4>1. i - 1 \in 1..n /\ ~(i <= i - 1)
                BY <1>1, <3>3, <3>4
            <4> HIDE DEF T
            <4> QED
                BY <3>2, <4>1
        <3>6. f[i - 1] \in Seq(S) /\ ToSet(f[i - 1]) = Upto(i - 1)
            BY <3>5
        <3>7. f[i] = f[i - 1] \o s[i] /\ s[i] \in Seq(S)
            BY <1>1, <2>2, <3>3, <3>4
        <3>8. f[i] \in Seq(S) /\ ToSet(f[i]) = ToSet(f[i - 1]) \cup ToSet(s[i])
            BY <3>6, <3>7, ConcatProperties, ToSetConcat
        <3>9. Upto(i) = Upto(i - 1) \cup ToSet(s[i])
            <4>1. \A k : k \in 1..i <=> k \in 1..(i - 1) \/ k = i
                BY <1>1, <3>3, <3>4
            <4> HIDE DEF n, T
            <4> QED
                BY <4>1
        <3> QED
            BY <3>2, <3>6, <3>8, <3>9
    <2>4. n \in 1..n
        BY <1>1, <1>3
    <2>5. FlattenSeq(s) = f[n]
        BY <1>3, FlattenIs DEF f
    <2>6. f[n] \in Seq(S) /\ ToSet(f[n]) = Upto(n)
        BY <2>3, <2>4
    <2> QED
        BY <1>1, <2>5, <2>6
<1> QED
    BY <1>2, <1>3

-----------------------------------------------------------------------------
(* The chain below a device.                                               *)

\* The devices right below, each followed by what f has for it.
Links(slaves, f) == [i \in DOMAIN slaves |-> <<slaves[i]>> \o f[slaves[i]]]

\* f is the chain, as far as it is defined.
Chains(f, D) ==
    /\ \A d \in D : ToSet(machine.slaves[d]) \subseteq D
    /\ f = [d \in D |-> FlattenSeq(Links(machine.slaves[d], f))]

LEMMA ChainIs == Chain = CHOOSE f : f = [d \in Devs |-> FlattenSeq(Links(machine.slaves[d], f))]
BY DEF Chain, Links

\* What the recursion says of a device depends on f for its slaves only.
LEMMA SameLinks ==
    ASSUME NEW s, NEW f, NEW g, \A x \in ToSet(s) : f[x] = g[x]
    PROVE  Links(s, f) = Links(s, g)
BY DEF Links, ToSet

LEMMA LinksSeq ==
    ASSUME NEW s \in Seq(Devs), NEW f, \A x \in ToSet(s) : f[x] \in Seq(Devs)
    PROVE  /\ Links(s, f) \in Seq(Seq(Devs))
           /\ UNION {ToSet(Links(s, f)[k]) : k \in DOMAIN Links(s, f)}
                  = ToSet(s) \cup UNION {ToSet(f[x]) : x \in ToSet(s)}
<1>1. Len(s) \in Nat /\ DOMAIN s = 1..Len(s)
    BY LenProperties
<1>2. DOMAIN Links(s, f) = DOMAIN s /\ \A i \in DOMAIN s : Links(s, f)[i] = <<s[i]>> \o f[s[i]]
    BY DEF Links
<1>3. \A i \in DOMAIN s : s[i] \in Devs /\ f[s[i]] \in Seq(Devs) /\ <<s[i]>> \in Seq(Devs)
    BY <1>1, ElementOfSeq DEF ToSet
<1>4. ASSUME NEW i \in DOMAIN s
      PROVE  /\ Links(s, f)[i] \in Seq(Devs)
             /\ ToSet(Links(s, f)[i]) = {s[i]} \cup ToSet(f[s[i]])
    <2> DEFINE a == <<s[i]>>
               b == f[s[i]]
    <2>1. a \in Seq(Devs) /\ b \in Seq(Devs) /\ ToSet(a) = {s[i]}
        BY <1>3, ToSetOne
    <2>2. Links(s, f)[i] = a \o b
        BY <1>2
    <2> HIDE DEF a, b
    <2>3. a \o b \in Seq(Devs) /\ ToSet(a \o b) = ToSet(a) \cup ToSet(b)
        BY <2>1, ConcatProperties, ToSetConcat
    <2> QED
        BY <2>1, <2>2, <2>3 DEF b
<1>5. Links(s, f) \in [1..Len(s) -> Seq(Devs)]
    BY <1>1, <1>2, <1>4 DEF Links
<1>6. Links(s, f) \in Seq(Seq(Devs))
    BY <1>1, <1>5, SeqDef
<1>7. \A x : x \in UNION {ToSet(Links(s, f)[k]) : k \in DOMAIN Links(s, f)}
                <=> \E i \in DOMAIN s : x = s[i] \/ x \in ToSet(f[s[i]])
    BY <1>2, <1>4
<1>8. \A x : (\E i \in DOMAIN s : x = s[i] \/ x \in ToSet(f[s[i]]))
                <=> x \in ToSet(s) \cup UNION {ToSet(f[y]) : y \in ToSet(s)}
    BY DEF ToSet
<1> QED
    BY <1>6, <1>7, <1>8

Slaves(d) == ToSet(machine.slaves[d])

\* Every set of devices has one that rests on no other of the set.
LEMMA MachineFacts ==
    ASSUME machine \in Machines
    PROVE  /\ machine.kind \in [Devs -> Kinds]
           /\ \A d \in Devs : machine.slaves[d] \in Seq(Devs) /\ Slaves(d) \subseteq Devs
           /\ \A S \in SUBSET Devs : S # {} => \E d \in S : Slaves(d) \cap S = {}
           /\ \A d, e \in Devs : d \in Slaves(e) => machine.kind[d] \in {"luks2", "none"}
           /\ \A d \in machine.gpt : machine.slaves[d] = <<>>
           /\ machine.tops \subseteq Devs
           /\ \A d \in machine.tops : /\ machine.kind[d] # "luks2"
                                      /\ \A e \in Devs : d \notin Slaves(e)
<1>1. \A d \in Devs : machine.slaves[d] \in Seq(Devs)
    BY MachineAssumption
<1>2. \A d \in Devs : Slaves(d) \subseteq Devs
    BY <1>1, ToSetIn DEF Slaves
<1>3. Grounded(machine)
    BY MachineAssumption
<1> QED
    BY <1>1, <1>2, <1>3, MachineAssumption DEF Grounded, HasHolder, Slaves

\* Two attempts at the recursion agree.
LEMMA ChainsAgree ==
    ASSUME machine \in Machines,
           NEW D \in SUBSET Devs, NEW E \in SUBSET Devs, NEW f, NEW g,
           Chains(f, D), Chains(g, E)
    PROVE  \A d \in D \cap E : f[d] = g[d]
<1> DEFINE S == {d \in D \cap E : f[d] # g[d]}
<1> SUFFICES ASSUME S # {}
             PROVE  FALSE
    OBVIOUS
<1>1. PICK d \in S : Slaves(d) \cap S = {}
    <2> HIDE DEF S
    <2>1. S \in SUBSET Devs
        BY DEF S
    <2> QED
        BY <2>1, MachineFacts
<1>2. \A x \in Slaves(d) : f[x] = g[x]
    BY <1>1 DEF Chains, Slaves
<1>3. Links(machine.slaves[d], f) = Links(machine.slaves[d], g)
    BY <1>2, SameLinks DEF Slaves
<1>4. f[d] = FlattenSeq(Links(machine.slaves[d], f)) /\ g[d] = FlattenSeq(Links(machine.slaves[d], g))
    BY <1>1 DEF Chains
<1> QED
    BY <1>1, <1>3, <1>4

\* The attempts together are one, on all that any of them covers.
LEMMA ChainExists ==
    ASSUME machine \in Machines
    PROVE  \E f : Chains(f, Devs)
<1> DEFINE Covers(f, D, d) == D \in SUBSET Devs /\ Chains(f, D) /\ d \in D
           C == {d \in Devs : \E D, f : Covers(f, D, d)}
           Value(d) == CHOOSE v : \E D, f : Covers(f, D, d) /\ v = f[d]
           F == [d \in C |-> Value(d)]
<1>1. ASSUME NEW D, NEW f, NEW d, Covers(f, D, d)
      PROVE  d \in C /\ F[d] = f[d]
    <2>1. d \in C
        BY <1>1
    <2>2. \E D1, f1 : Covers(f1, D1, d) /\ Value(d) = f1[d]
        <3>1. \E v : \E D1, f1 : Covers(f1, D1, d) /\ v = f1[d]
            BY <1>1
        <3> QED
            BY <3>1
    <2>3. PICK D1, f1 : Covers(f1, D1, d) /\ Value(d) = f1[d]
        BY <2>2
    <2> HIDE DEF Value
    <2>4. f1[d] = f[d]
        BY <1>1, <2>3, ChainsAgree
    <2> QED
        BY <2>1, <2>3, <2>4
<1>2. ASSUME NEW d \in C
      PROVE  /\ Slaves(d) \subseteq C
             /\ F[d] = FlattenSeq(Links(machine.slaves[d], F))
    <2>1. PICK D, f : Covers(f, D, d)
        BY <1>2
    <2>2. Slaves(d) \subseteq D
        BY <2>1 DEF Chains, Slaves
    <2>3. \A x \in Slaves(d) : Covers(f, D, x)
        BY <2>1, <2>2
    <2> HIDE DEF Covers, C, F
    <2>4. \A x \in Slaves(d) : x \in C /\ F[x] = f[x]
        BY <1>1, <2>3
    <2>5. Links(machine.slaves[d], F) = Links(machine.slaves[d], f)
        BY <2>4, SameLinks DEF Slaves
    <2>6. f[d] = FlattenSeq(Links(machine.slaves[d], f))
        BY <2>1 DEF Covers, Chains
    <2>7. F[d] = f[d]
        BY <1>1, <2>1
    <2> QED
        BY <2>4, <2>5, <2>6, <2>7
<1>3. C = Devs
    <2> SUFFICES ASSUME Devs \ C # {}
                 PROVE  FALSE
        OBVIOUS
    <2>1. PICK d \in Devs \ C : Slaves(d) \cap (Devs \ C) = {}
        <3> HIDE DEF C
        <3> QED
            BY MachineFacts
    <2> DEFINE E == C \cup {d}
               G == [x \in E |-> IF x \in C THEN F[x] ELSE FlattenSeq(Links(machine.slaves[d], F))]
    <2>2. Slaves(d) \subseteq C
        <3> HIDE DEF C
        <3> QED
            BY <2>1, MachineFacts
    <2>3. \A x \in E : Slaves(x) \subseteq C
        BY <1>2, <2>2
    <2>4. \A x \in C : G[x] = F[x]
        OBVIOUS
    <2>5. ASSUME NEW x \in E
          PROVE  G[x] = FlattenSeq(Links(machine.slaves[x], G))
        <3>1. G[x] = FlattenSeq(Links(machine.slaves[x], F))
            <4> HIDE DEF C, F
            <4> QED
                BY <1>2
        <3>2. \A y \in ToSet(machine.slaves[x]) : G[y] = F[y]
            BY <2>3, <2>4 DEF Slaves
        <3> HIDE DEF G, F, C
        <3>3. Links(machine.slaves[x], G) = Links(machine.slaves[x], F)
            BY <3>2, SameLinks
        <3> QED
            BY <3>1, <3>3
    <2>6. G = [x \in E |-> FlattenSeq(Links(machine.slaves[x], G))]
        <3>1. G = [x \in E |-> G[x]]
            OBVIOUS
        <3> HIDE DEF G, E
        <3> QED
            BY <2>5, <3>1
    <2>7. Chains(G, E)
        <3> HIDE DEF G, C
        <3> QED
            BY <2>3, <2>6 DEF Chains, Slaves
    <2>8. Covers(G, E, d)
        BY <2>7
    <2> QED
        <3> HIDE DEF G, E, Covers, C
        <3> QED
            BY <1>1, <2>1, <2>8
<1>4. Chains(F, Devs)
    <2>1. F = [d \in Devs |-> F[d]]
        BY <1>3
    <2> HIDE DEF F, C
    <2> QED
        BY <1>2, <1>3, <2>1 DEF Chains, Slaves
<1> QED
    BY <1>4

LEMMA ChainDef ==
    ASSUME machine \in Machines
    PROVE  \A d \in Devs : Chain[d] = FlattenSeq(Links(machine.slaves[d], Chain))
<1> DEFINE P(f) == f = [d \in Devs |-> FlattenSeq(Links(machine.slaves[d], f))]
<1>1. \E f : P(f)
    BY ChainExists DEF Chains
<1>2. Chain = CHOOSE f : P(f)
    BY ChainIs
<1>3. P(Chain)
    <2> HIDE DEF P
    <2> QED
        BY <1>1, <1>2
<1> QED
    BY <1>3

\* What is below a device is what it is made of, and what is below that.
LEMMA BelowStep ==
    ASSUME machine \in Machines, NEW d \in Devs
    PROVE  Below(d) = Slaves(d) \cup UNION {Below(x) : x \in Slaves(d)}
<1> DEFINE R == Slaves(d) \cup UNION {Below(x) : x \in Slaves(d)}
<1>1. \A x \in Devs : Slaves(x) \subseteq Devs
    BY MachineFacts
<1>2. \A x \in Devs : Below(x) \subseteq Devs /\ Slaves(x) \subseteq Below(x)
    BY <1>1 DEF Below, Slaves
<1>3. \A x \in Devs : Closed(Below(x))
    BY <1>1 DEF Below, Closed, Slaves
<1>4. R \subseteq Below(d)
    <2>1. ASSUME NEW x \in Slaves(d), NEW y \in Below(x)
          PROVE  y \in Below(d)
        <3>1. x \in Devs /\ x \in Below(d)
            BY <1>1, <1>2
        <3>2. Slaves(x) \subseteq Below(d)
            BY <1>3, <3>1 DEF Closed, Slaves
        <3>3. Below(d) \in SUBSET Devs /\ Closed(Below(d))
            BY <1>2, <1>3
        <3> QED
            BY <2>1, <3>2, <3>3 DEF Below, Slaves
    <2> QED
        BY <1>2, <2>1
<1>5. R \in SUBSET Devs
    BY <1>1, <1>2
<1>6. Closed(R)
    <2>1. ASSUME NEW e \in R
          PROVE  Slaves(e) \subseteq R
        <3>1. CASE e \in Slaves(d)
            BY <1>1, <1>2, <3>1
        <3>2. CASE \E x \in Slaves(d) : e \in Below(x)
            BY <1>1, <1>3, <3>2 DEF Closed, Slaves
        <3> QED
            BY <3>1, <3>2
    <2> HIDE DEF R
    <2> QED
        BY <2>1 DEF Closed, Slaves
<1>7. Below(d) \subseteq R
    <2>1. Slaves(d) \subseteq R
        OBVIOUS
    <2> HIDE DEF R
    <2> QED
        BY <1>5, <1>6, <2>1 DEF Below, Slaves
<1> QED
    BY <1>4, <1>7

\* get_device_chain lists the devices below, and nothing else.
LEMMA ChainSet ==
    ASSUME machine \in Machines
    PROVE  \A d \in Devs : Chain[d] \in Seq(Devs) /\ ToSet(Chain[d]) = Below(d)
<1> DEFINE Listed(d) == Chain[d] \in Seq(Devs) /\ ToSet(Chain[d]) = Below(d)
           S == {d \in Devs : ~Listed(d)}
<1> SUFFICES ASSUME S # {}
             PROVE  FALSE
    OBVIOUS
<1>1. PICK d \in S : Slaves(d) \cap S = {}
    <2>1. S \in SUBSET Devs
        OBVIOUS
    <2> HIDE DEF S
    <2> QED
        BY <2>1, MachineFacts
<1>2. d \in Devs /\ ~Listed(d)
    OBVIOUS
<1>3. \A x \in Slaves(d) : Listed(x)
    BY <1>1, <1>2, MachineFacts
<1> DEFINE l == Links(machine.slaves[d], Chain)
<1>4. /\ l \in Seq(Seq(Devs))
      /\ UNION {ToSet(l[k]) : k \in DOMAIN l} = Slaves(d) \cup UNION {ToSet(Chain[x]) : x \in Slaves(d)}
    <2>1. machine.slaves[d] \in Seq(Devs)
        BY <1>2, MachineFacts
    <2>2. \A x \in ToSet(machine.slaves[d]) : Chain[x] \in Seq(Devs)
        BY <1>3 DEF Slaves
    <2> HIDE DEF S, Listed
    <2> QED
        BY <2>1, <2>2, LinksSeq DEF Slaves
<1>5. Chain[d] = FlattenSeq(l)
    BY <1>2, ChainDef
<1> HIDE DEF l
<1>6. Chain[d] \in Seq(Devs) /\ ToSet(Chain[d]) = UNION {ToSet(l[k]) : k \in DOMAIN l}
    BY <1>4, <1>5, Flattened
<1>7. UNION {ToSet(Chain[x]) : x \in Slaves(d)} = UNION {Below(x) : x \in Slaves(d)}
    BY <1>3
<1>8. ToSet(Chain[d]) = Below(d)
    BY <1>2, <1>4, <1>6, <1>7, BelowStep
<1> QED
    BY <1>2, <1>6, <1>8

-----------------------------------------------------------------------------
(* The line.                                                               *)

\* What is below another device is for no more than that.
LEMMA BelowFacts ==
    ASSUME machine \in Machines, NEW d \in Devs
    PROVE  /\ Below(d) \subseteq Devs
           /\ \A x \in Below(d) : machine.kind[x] \in {"luks2", "none"} /\ x \notin machine.tops
           /\ machine.slaves[d] = <<>> => Below(d) = {}
           /\ machine.slaves[d] # <<>> => Below(d) # {}
<1> DEFINE H == {x \in Devs : \E e \in Devs : x \in Slaves(e)}
<1>1. \A x \in Devs : Slaves(x) \subseteq Devs
    BY MachineFacts
<1>2. H \in SUBSET Devs /\ Closed(H) /\ Slaves(d) \subseteq H
    BY <1>1 DEF Closed, Slaves
<1>3. Below(d) \subseteq H
    <2> HIDE DEF H
    <2> QED
        BY <1>2 DEF Below, Slaves
<1>4. \A x \in H : machine.kind[x] \in {"luks2", "none"} /\ x \notin machine.tops
    BY MachineFacts
<1>5. Below(d) = Slaves(d) \cup UNION {Below(x) : x \in Slaves(d)}
    BY BelowStep
<1>6. machine.slaves[d] = <<>> => Slaves(d) = {}
    BY ToSetNone DEF Slaves
<1>7. machine.slaves[d] # <<>> => Slaves(d) # {}
    <2>1. machine.slaves[d] \in Seq(Devs)
        BY MachineFacts
    <2>2. ASSUME machine.slaves[d] # <<>>
          PROVE  1 \in DOMAIN machine.slaves[d]
        BY <2>1, <2>2, EmptySeq, LenProperties
    <2> QED
        BY <2>2 DEF Slaves, ToSet
<1> QED
    BY <1>3, <1>4, <1>5, <1>6, <1>7

\* The block of the root device, which is the tip if nothing is below it.
Own(d, last) ==
    IF last THEN [dev |-> d, mounted |-> FALSE, aux |-> TRUE, guid |-> Guid(d)]
            ELSE [dev |-> d, mounted |-> TRUE, aux |-> FALSE, guid |-> FALSE]

Custodians(d) ==
    /\ Custodials(d) \in Seq(Devs) /\ Len(Custodials(d)) >= 1
    /\ ToSet(Custodials(d)) = {d} \cup Below(d)
    /\ Custodials(d)[1] = d
    /\ \A i \in 2..Len(Custodials(d)) : Custodials(d)[i] \in Below(d)
    /\ d \notin Below(d)
    /\ Len(Custodials(d)) = 1 <=> Below(d) = {}

LEMMA CustodialFacts ==
    ASSUME machine \in Machines, NEW d \in machine.tops
    PROVE  Custodians(d)
<1> DEFINE c == Custodials(d)
           t == Chain[d]
<1>1. d \in Devs /\ d \notin Below(d)
    BY MachineFacts, BelowFacts
<1>2. t \in Seq(Devs) /\ ToSet(t) = Below(d)
    BY <1>1, ChainSet
<1>3. c = <<d>> \o t
    BY DEF Custodials
<1>4. <<d>> \in Seq(Devs) /\ Len(<<d>>) = 1 /\ <<d>>[1] = d
    BY <1>1
<1> HIDE DEF t
<1>5. /\ c \in Seq(Devs) /\ Len(c) = 1 + Len(t) /\ ToSet(c) = {d} \cup Below(d)
      /\ \A i \in 1..1 + Len(t) : c[i] = IF i <= 1 THEN <<d>>[i] ELSE t[i - 1]
    <2> DEFINE u == <<d>>
    <2>1. ToSet(u) = {d}
        BY ToSetOne
    <2>2. u \in Seq(Devs) /\ Len(u) = 1
        BY <1>4
    <2>3. c = u \o t
        BY <1>3
    <2> HIDE DEF u
    <2>4. /\ u \o t \in Seq(Devs) /\ Len(u \o t) = Len(u) + Len(t)
          /\ \A i \in 1..Len(u) + Len(t) : (u \o t)[i] = IF i <= Len(u) THEN u[i] ELSE t[i - Len(u)]
        BY <1>2, <2>2, ConcatProperties
    <2>5. ToSet(u \o t) = {d} \cup Below(d)
        BY <1>2, <2>1, <2>2, ToSetConcat
    <2> QED
        BY <2>2, <2>3, <2>4, <2>5 DEF u
<1>6. Len(t) \in Nat /\ DOMAIN t = 1..Len(t)
    BY <1>2, LenProperties
<1>7. Len(t) = 0 <=> Below(d) = {}
    <2>1. Len(t) = 0 => ToSet(t) = {}
        BY <1>6 DEF ToSet
    <2>2. Len(t) # 0 => t[1] \in ToSet(t)
        BY <1>6 DEF ToSet
    <2> QED
        BY <1>2, <2>1, <2>2
<1>8. c[1] = d /\ Len(c) >= 1
    BY <1>4, <1>5, <1>6
<1>9. Len(c) = 1 <=> Below(d) = {}
    BY <1>5, <1>6, <1>7
<1>10. ASSUME NEW i \in 2..Len(c)
       PROVE  c[i] \in Below(d)
    <2>1. i - 1 \in DOMAIN t /\ c[i] = t[i - 1]
        BY <1>5, <1>6
    <2> QED
        BY <1>2, <2>1 DEF ToSet
<1> QED
    BY <1>1, <1>5, <1>8, <1>9, <1>10 DEF Custodians

\* The blocks a line is made of.
Blocks(d) == {Tip(d)} \cup ToSet(Children(d))

LEMMA BlockSet ==
    ASSUME machine \in Machines, NEW d \in machine.tops
    PROVE  LET B == Blocks(d) \ {Own(d, Below(d) = {})}
           IN  /\ Own(d, Below(d) = {}) \in Blocks(d)
               /\ \A b \in B : b.dev \in Below(d) /\ ~b.mounted /\ b.aux
               /\ \A x \in Below(d) : \E b \in B : b.dev = x
<1> DEFINE c == Custodials(d)
           n == Len(c)
           f == Front(c)
<1>1. Custodians(d)
    BY CustodialFacts
<1>2. n \in Nat /\ n >= 1 /\ DOMAIN c = 1..n
    BY <1>1, LenProperties DEF Custodians
<1>3. DOMAIN f = 1..(n - 1) /\ \A i \in 1..(n - 1) : f[i] = c[i]
    BY <1>1, FrontOf DEF Custodians
<1>4. Tip(d) = [dev |-> c[n], mounted |-> FALSE, aux |-> TRUE, guid |-> Guid(d)]
    BY DEF Tip, Last
<1>5. Children(d) = [i \in 1..(n - 1) |-> [dev |-> c[i], mounted |-> c[i] = d,
                                           aux |-> c[i] # d, guid |-> FALSE]]
    <2>1. Children(d) = [i \in DOMAIN f |-> [dev |-> f[i], mounted |-> f[i] = d,
                                             aux |-> f[i] # d, guid |-> FALSE]]
        BY DEF Children
    <2> HIDE DEF f, n, c
    <2> QED
        BY <1>3, <2>1
<1> HIDE DEF f, n
<1> DEFINE Child(i) == [dev |-> c[i], mounted |-> c[i] = d, aux |-> c[i] # d, guid |-> FALSE]
<1>6. ToSet(Children(d)) = {Child(i) : i \in 1..(n - 1)}
    BY <1>5 DEF ToSet
<1>9. \A i : c[i] = d => Child(i) = Own(d, FALSE)
    BY DEF Own
<1> HIDE DEF Child
<1>7. CASE Below(d) = {}
    <2>1. n = 1
        BY <1>1, <1>7 DEF Custodians, n
    <2>2. Blocks(d) = {Own(d, TRUE)}
        BY <1>1, <1>4, <1>6, <2>1 DEF Blocks, Own, Custodians
    <2> QED
        BY <1>7, <2>2 DEF Own
<1>8. CASE Below(d) # {}
    <2>1. n > 1 /\ c[1] = d
        BY <1>1, <1>2, <1>8 DEF Custodians, n
    <2>2. Own(d, FALSE) \in ToSet(Children(d))
        <3>1. 1 \in 1..(n - 1)
            BY <1>2, <2>1
        <3> QED
            BY <1>6, <1>9, <2>1, <3>1
    <2>3. \A i \in 1..n : c[i] \in {d} \cup Below(d)
        BY <1>1, <1>2 DEF Custodians, ToSet
    <2>4. \A b \in ToSet(Children(d)) : b # Own(d, FALSE) => b.dev \in Below(d) /\ ~b.mounted /\ b.aux
        <3> SUFFICES ASSUME NEW b \in ToSet(Children(d)), b # Own(d, FALSE)
                     PROVE  b.dev \in Below(d) /\ ~b.mounted /\ b.aux
            OBVIOUS
        <3>1. PICK i \in 1..(n - 1) : b = Child(i)
            BY <1>6
        <3>2. c[i] # d
            BY <1>9, <3>1
        <3>3. c[i] \in Below(d)
            BY <1>2, <2>3, <3>2
        <3>4. Child(i).dev \in Below(d) /\ ~Child(i).mounted /\ Child(i).aux
            BY <3>2, <3>3 DEF Child
        <3> QED
            BY <3>1, <3>4
    <2>5. Tip(d).dev \in Below(d) /\ ~Tip(d).mounted /\ Tip(d).aux
        <3>1. n \in 2..n
            BY <1>2, <2>1
        <3>2. c[n] \in Below(d)
            BY <1>1, <3>1 DEF Custodians, n
        <3> QED
            BY <1>4, <3>2
    <2>6. \A x \in Below(d) : \E b \in Blocks(d) : b.dev = x
        <3> SUFFICES ASSUME NEW x \in Below(d)
                     PROVE  \E b \in Blocks(d) : b.dev = x
            OBVIOUS
        <3>1. PICK i \in 1..n : c[i] = x
            BY <1>1, <1>2 DEF Custodians, ToSet
        <3>2. CASE i = n
            BY <1>4, <3>1, <3>2 DEF Blocks
        <3>3. CASE i # n
            <4>1. i \in 1..(n - 1)
                BY <1>2, <3>3
            <4>2. Child(i) \in Blocks(d)
                BY <1>6, <4>1 DEF Blocks
            <4>3. Child(i).dev = x
                BY <3>1 DEF Child
            <4> QED
                BY <4>2, <4>3
        <3> QED
            BY <3>2, <3>3
    <2>7. Own(d, FALSE).dev = d /\ d \notin Below(d)
        BY <1>1 DEF Own, Custodians
    <2> QED
        BY <1>8, <2>2, <2>4, <2>5, <2>6, <2>7 DEF Blocks
<1> QED
    BY <1>7, <1>8

Arguments ==
    [key : {"root=", "root=UUID", "root=PARTUUID", "rd.luks.uuid"}, value : Devs]
    \cup [key : {"subvol"}, value : Subvols]

\* What a probe that was built has seen.
Probed == probe \in Seq(Mounts) \ {<<>>}

LEMMA LastMount ==
    ASSUME NEW ms \in Seq(Mounts) \ {<<>>}
    PROVE  /\ Last(ms) \in Mounts /\ Head(ms) \in Mounts
           /\ Last(ms).dev \in machine.tops /\ Head(ms).dev \in machine.tops
<1>1. Len(ms) \in Nat /\ Len(ms) # 0
    BY EmptySeq, LenProperties
<1>2. Len(ms) \in 1..Len(ms) /\ 1 \in 1..Len(ms)
    BY <1>1
<1>3. ms[Len(ms)] \in Mounts /\ ms[1] \in Mounts
    BY <1>2, ElementOfSeq
<1>4. Last(ms) = ms[Len(ms)] /\ Head(ms) = ms[1]
    BY <1>1 DEF Last
<1>5. \A m \in Mounts : m.dev \in machine.tops
    BY DEF Mounts
<1> QED
    BY <1>3, <1>4, <1>5

LEMMA LocalSet ==
    ASSUME machine \in Machines, Probed, NEW b, b.dev \in Devs
    PROVE  /\ Local(b) \in Seq(Arguments)
           /\ machine.kind[b.dev] = "luks2" => ToSet(Local(b)) = {Argument("rd.luks.uuid", b.dev)}
           /\ machine.kind[b.dev] = "none" =>
                  ToSet(Local(b)) = IF b.aux THEN {} ELSE {Argument("root=", b.dev)}
           /\ machine.kind[b.dev] = "ext4" =>
                  ToSet(Local(b)) = {Argument(IF b.guid THEN "root=PARTUUID" ELSE "root=UUID", b.dev)}
           /\ machine.kind[b.dev] = "btrfs" =>
                  ToSet(Local(b)) =
                      {Argument("root=UUID", b.dev)}
                      \cup (IF Subvol(b) # NoSubvol THEN {Argument("subvol", Subvol(b))} ELSE {})
<1>1. Subvol(b) # NoSubvol => Subvol(b) \in Subvols
    <2>1. Last(probe) \in Mounts
        BY LastMount DEF Probed
    <2>2. Last(probe).subvol # NoSubvol => Last(probe).subvol \in Subvols
        BY <2>1 DEF Mounts
    <2> QED
        BY <2>2 DEF Subvol
<1>2. machine.kind[b.dev] \in Kinds
    BY MachineFacts
<1>3. CASE machine.kind[b.dev] = "btrfs"
    <2> DEFINE r == <<Argument("root=UUID", b.dev)>>
               v == IF Subvol(b) # NoSubvol THEN <<Argument("subvol", Subvol(b))>> ELSE <<>>
    <2>1. Local(b) = r \o v
        BY <1>3 DEF Local
    <2>2. r \in Seq(Arguments) /\ ToSet(r) = {Argument("root=UUID", b.dev)}
        BY ToSetOne DEF Argument, Arguments
    <2>3. v \in Seq(Arguments)
        <3>1. CASE Subvol(b) # NoSubvol
            <4>1. Argument("subvol", Subvol(b)) \in Arguments
                BY <1>1, <3>1 DEF Argument, Arguments
            <4> QED
                BY <3>1, <4>1
        <3>2. CASE Subvol(b) = NoSubvol
            BY <3>2, EmptySeq
        <3> QED
            BY <3>1, <3>2
    <2>4. ToSet(v) = IF Subvol(b) # NoSubvol THEN {Argument("subvol", Subvol(b))} ELSE {}
        BY ToSetOne, ToSetNone
    <2> HIDE DEF r, v
    <2>5. r \o v \in Seq(Arguments) /\ ToSet(r \o v) = ToSet(r) \cup ToSet(v)
        BY <2>2, <2>3, ConcatProperties, ToSetConcat
    <2> QED
        BY <1>3, <2>1, <2>2, <2>4, <2>5
<1>4. CASE machine.kind[b.dev] = "luks2"
    <2>1. Local(b) = <<Argument("rd.luks.uuid", b.dev)>>
        BY <1>4 DEF Local
    <2>2. Local(b) \in Seq(Arguments)
        BY <2>1 DEF Argument, Arguments
    <2> QED
        BY <1>4, <2>1, <2>2, ToSetOne
<1>5. CASE machine.kind[b.dev] = "ext4"
    <2>1. Local(b) = <<Argument(IF b.guid THEN "root=PARTUUID" ELSE "root=UUID", b.dev)>>
        BY <1>5 DEF Local
    <2>2. Local(b) \in Seq(Arguments)
        BY <2>1 DEF Argument, Arguments
    <2> QED
        BY <1>5, <2>1, <2>2, ToSetOne
<1>6. CASE machine.kind[b.dev] = "none"
    <2>1. Local(b) = IF b.aux THEN <<>> ELSE <<Argument("root=", b.dev)>>
        BY <1>6 DEF Local
    <2>2. Local(b) \in Seq(Arguments)
        <3>1. CASE b.aux
            BY <2>1, <3>1, EmptySeq
        <3>2. CASE ~b.aux
            BY <2>1, <3>2 DEF Argument, Arguments
        <3> QED
            BY <3>1, <3>2
    <2> QED
        BY <1>6, <2>1, <2>2, ToSetOne, ToSetNone
<1> QED
    BY <1>2, <1>3, <1>4, <1>5, <1>6 DEF Kinds

\* The devices below the root that the initrd has to open.
Locked(d) == {x \in Below(d) : machine.kind[x] = "luks2"}

\* cmd_line gives the root's own arguments and one for each of those.
LEMMA LineSet ==
    ASSUME machine \in Machines, Probed, NEW d \in machine.tops
    PROVE  /\ CmdLine(d) \in Seq(Arguments)
           /\ ToSet(CmdLine(d)) = ToSet(Local(Own(d, Below(d) = {})))
                                  \cup {Argument("rd.luks.uuid", x) : x \in Locked(d)}
<1> DEFINE c == Children(d)
           l == [i \in DOMAIN c |-> Local(c[i])]
           own == Own(d, Below(d) = {})
<1>1. d \in Devs /\ Below(d) \subseteq Devs
    BY MachineFacts, BelowFacts
<1>2. own.dev = d
    BY DEF Own
<1>3. \A b \in Blocks(d) : b.dev \in Devs
    BY <1>1, <1>2, BlockSet
<1>4. \A b \in Blocks(d) : Local(b) \in Seq(Arguments)
    BY <1>3, LocalSet
<1>5. Len(c) \in Nat /\ DOMAIN c = 1..Len(c)
    <2>1. Custodials(d) \in Seq(Devs) /\ Len(Custodials(d)) >= 1
        BY CustodialFacts DEF Custodians
    <2>2. DOMAIN c = 1..(Len(Custodials(d)) - 1)
        BY <2>1, FrontOf DEF Children
    <2>3. Len(Custodials(d)) - 1 \in Nat
        BY <2>1, LenProperties
    <2>4. c = [i \in 1..(Len(Custodials(d)) - 1) |-> c[i]]
        BY <2>2 DEF Children
    <2> HIDE DEF c
    <2>5. Len(c) = Len(Custodials(d)) - 1
        BY <2>3, <2>4
    <2> QED
        BY <2>2, <2>3, <2>5
<1>6. l \in Seq(Seq(Arguments))
    <2>1. \A i \in DOMAIN c : Local(c[i]) \in Seq(Arguments)
        BY <1>4 DEF Blocks, ToSet
    <2>2. l \in [1..Len(c) -> Seq(Arguments)]
        BY <1>5, <2>1
    <2> QED
        BY <1>5, <2>2, SeqDef
<1>7. FlattenSeq(l) \in Seq(Arguments) /\ ToSet(FlattenSeq(l)) = UNION {ToSet(l[k]) : k \in DOMAIN l}
    <2> HIDE DEF l
    <2> QED
        BY <1>6, Flattened
<1>8. \A a : a \in ToSet(FlattenSeq(l)) <=> \E b \in ToSet(c) : a \in ToSet(Local(b))
    <2>1. \A k \in DOMAIN c : l[k] = Local(c[k])
        OBVIOUS
    <2>2. DOMAIN l = DOMAIN c
        OBVIOUS
    <2>3. ToSet(c) = {c[k] : k \in DOMAIN c}
        BY DEF ToSet
    <2> HIDE DEF l, c
    <2> QED
        BY <1>7, <2>1, <2>2, <2>3
<1>9. CmdLine(d) = Local(Tip(d)) \o FlattenSeq(l)
    BY DEF CmdLine
<1>10. Local(Tip(d)) \in Seq(Arguments)
    BY <1>4 DEF Blocks
<1> HIDE DEF l, c, own
<1>11. /\ CmdLine(d) \in Seq(Arguments)
       /\ ToSet(CmdLine(d)) = ToSet(Local(Tip(d))) \cup ToSet(FlattenSeq(l))
    BY <1>7, <1>9, <1>10, ConcatProperties, ToSetConcat
<1>12. \A a : a \in ToSet(CmdLine(d)) <=> \E b \in Blocks(d) : a \in ToSet(Local(b))
    BY <1>8, <1>11 DEF Blocks, c
<1>13. ASSUME NEW b \in Blocks(d), b # own
       PROVE  /\ b.dev \in Below(d)
              /\ machine.kind[b.dev] = "luks2" => ToSet(Local(b)) = {Argument("rd.luks.uuid", b.dev)}
              /\ machine.kind[b.dev] # "luks2" => ToSet(Local(b)) = {}
    <2>1. b.dev \in Below(d) /\ b.aux
        BY <1>13, BlockSet DEF own
    <2>2. machine.kind[b.dev] \in {"luks2", "none"}
        BY <1>1, <2>1, BelowFacts
    <2> QED
        BY <1>1, <2>1, <2>2, LocalSet
<1>14. ASSUME NEW a
       PROVE  a \in ToSet(CmdLine(d)) <=> \/ a \in ToSet(Local(own))
                                          \/ \E x \in Locked(d) : a = Argument("rd.luks.uuid", x)
    <2>1. ASSUME NEW x \in Locked(d)
          PROVE  \E b \in Blocks(d) : Argument("rd.luks.uuid", x) \in ToSet(Local(b))
        <3>1. PICK b \in Blocks(d) : b # own /\ b.dev = x
            BY <2>1, BlockSet DEF own, Locked
        <3> QED
            BY <1>13, <2>1, <3>1 DEF Locked
    <2>2. own \in Blocks(d)
        BY BlockSet DEF own
    <2>3. ASSUME NEW b \in Blocks(d), a \in ToSet(Local(b)), b # own
          PROVE  \E x \in Locked(d) : a = Argument("rd.luks.uuid", x)
        BY <1>13, <2>3 DEF Locked
    <2> QED
        BY <1>12, <2>1, <2>2, <2>3
<1> QED
    BY <1>11, <1>14 DEF own

-----------------------------------------------------------------------------
(* The inductive invariant.                                                *)

\* An answer is the line of a root that the probe has seen or stat names.
Answered ==
    line # NoLine =>
        /\ Probed
        /\ line.device \in machine.tops /\ line.mounts = probe
        /\ line.args = CmdLine(line.device)

RootInv ==
    /\ machine \in Machines
    /\ mounts \in Seq(Mounts) \ {<<>>}
    /\ probe \in Seq(Mounts)
    /\ Answered

LEMMA RootInit ==
    ASSUME Init
    PROVE  RootInv
<1>1. \A m \in Mounts : <<m>> \in Seq(Mounts) /\ <<m>> # <<>>
    OBVIOUS
<1> QED
    BY <1>1, EmptySeq DEF Init, RootInv, Answered, NoProbe

\* Nothing but the machine and what the probe has seen goes into a line.
LEMMA LineStays ==
    ASSUME UNCHANGED <<machine, probe>>, NEW d, NEW e, e = d
    PROVE  CmdLine(e)' = CmdLine(d)
<1>1. Chain' = Chain
    BY Zenon DEF Chain
<1>2. Custodials(e)' = Custodials(d)
    BY <1>1 DEF Custodials
<1>3. Tip(e)' = Tip(d) /\ Children(e)' = Children(d)
    BY <1>2 DEF Tip, Children, Guid
<1>4. \A b : Local(b)' = Local(b)
    BY DEF Local, Subvol
<1> QED
    BY <1>3, <1>4 DEF CmdLine

\* What is mounted later changes nothing of an answer.
LEMMA AnswerStays ==
    ASSUME RootInv, UNCHANGED <<machine, probe, line>>, (mounts \in Seq(Mounts) \ {<<>>})'
    PROVE  RootInv'
<1>1. CmdLine(line.device)' = CmdLine(line.device)
    BY LineStays
<1>2. Mounts' = Mounts
    BY DEF Mounts
<1> QED
    BY <1>1, <1>2 DEF RootInv, Answered, Probed

LEMMA RootStep ==
    ASSUME RootInv, [Next]_vars
    PROVE  RootInv'
<1>1. CASE Build
    BY <1>1 DEF Build, RootInv, Answered, Mounts
<1>2. CASE Query
    <2>1. Probed
        BY <1>2 DEF Query, RootInv, Probed, NoProbe
    <2>2. RootDevice \in machine.tops
        BY <2>1, LastMount DEF RootInv, Probed, RootDevice
    <2>3. /\ line' = [device |-> RootDevice, args |-> CmdLine(RootDevice), mounts |-> probe]
          /\ UNCHANGED <<machine, mounts, probe>>
        BY <1>2 DEF Query
    <2>4. line'.device = RootDevice /\ line'.mounts = probe /\ line'.args = CmdLine(RootDevice)
        BY <2>3
    <2>5. CmdLine(line.device)' = CmdLine(RootDevice)
        BY <2>3, <2>4, LineStays
    <2>6. Answered'
        BY <2>1, <2>2, <2>3, <2>4, <2>5 DEF Answered, Probed, Mounts
    <2> QED
        BY <2>3, <2>6 DEF RootInv, Mounts
<1>3. CASE Mount
    <2>1. UNCHANGED <<machine, probe, line>> /\ mounts' \in Seq(Mounts) \ {<<>>}
        <3>1. PICK m \in Mounts : mounts' = Append(mounts, m)
            BY <1>3 DEF Mount
        <3>2. Append(mounts, m) \in Seq(Mounts) /\ Len(Append(mounts, m)) = Len(mounts) + 1
            BY DEF RootInv
        <3>3. Len(mounts) + 1 # 0
            BY LenProperties DEF RootInv
        <3> QED
            BY <1>3, <3>1, <3>2, <3>3, EmptySeq DEF Mount
    <2> QED
        BY <2>1, AnswerStays DEF Mounts
<1>4. CASE Unmount
    <2>1. UNCHANGED <<machine, probe, line>> /\ mounts' = Front(mounts) /\ Len(mounts) > 1
        BY <1>4 DEF Unmount
    <2>2. mounts \in Seq(Mounts) /\ Len(mounts) \in Nat
        BY LenProperties DEF RootInv
    <2>3. Front(mounts) \in Seq(Mounts) /\ 1 \in DOMAIN Front(mounts)
        BY <2>1, <2>2, FrontOf
    <2>4. Front(mounts) # <<>>
        BY <2>3
    <2> QED
        BY <2>1, <2>3, <2>4, AnswerStays DEF Mounts
<1>5. CASE UNCHANGED vars
    BY <1>5, AnswerStays DEF vars, RootInv, Mounts
<1> QED
    BY <1>1, <1>2, <1>3, <1>4, <1>5 DEF Next

-----------------------------------------------------------------------------
(* What the invariant says of an answer.                                   *)

LEMMA ArgumentParts ==
    \A k, v : Argument(k, v).key = k /\ Argument(k, v).value = v
BY DEF Argument

\* The root's own arguments; only what is below it is LUKS.
LEMMA OwnArguments ==
    ASSUME machine \in Machines, Probed, NEW d \in machine.tops
    PROVE  LET s == ToSet(Local(Own(d, Below(d) = {})))
           IN  /\ \A a \in s : a.key # "rd.luks.uuid"
               /\ Below(d) # {} \/ machine.kind[d] = "ext4" =>
                      \A x : (\E a \in s : a.key \in {"root=", "root=UUID", "root=PARTUUID"} /\ a.value = x)
                                 <=> x = d
               /\ Below(d) # {} /\ machine.kind[d] = "btrfs" =>
                      \A x : (\E a \in s : a.key = "subvol" /\ a.value = x)
                                 <=> x = Last(probe).subvol /\ x # NoSubvol
               /\ machine.kind[d] # "btrfs" => \A a \in s : a.key # "subvol"
<1> DEFINE b == Own(d, Below(d) = {})
<1>1. d \in Devs /\ machine.kind[d] \in {"btrfs", "ext4", "none"}
    BY MachineFacts DEF Kinds
<1>2. b.dev = d /\ (Below(d) # {} => b.mounted /\ ~b.aux)
    BY DEF Own
<1>3. Below(d) # {} => Subvol(b) = Last(probe).subvol
    BY <1>2 DEF Subvol
<1> HIDE DEF b
<1>4. CASE machine.kind[d] = "btrfs"
    <2>1. ToSet(Local(b)) = {Argument("root=UUID", d)}
              \cup (IF Subvol(b) # NoSubvol THEN {Argument("subvol", Subvol(b))} ELSE {})
        BY <1>1, <1>2, <1>4, LocalSet
    <2> QED
        BY <1>3, <1>4, <2>1, ArgumentParts DEF b
<1>5. CASE machine.kind[d] = "ext4"
    <2>1. ToSet(Local(b)) = {Argument(IF b.guid THEN "root=PARTUUID" ELSE "root=UUID", d)}
        BY <1>1, <1>2, <1>5, LocalSet
    <2> QED
        BY <1>5, <2>1, ArgumentParts DEF b
<1>6. CASE machine.kind[d] = "none"
    <2>1. ToSet(Local(b)) = IF b.aux THEN {} ELSE {Argument("root=", d)}
        BY <1>1, <1>2, <1>6, LocalSet
    <2> QED
        BY <1>2, <1>6, <2>1, ArgumentParts DEF b
<1> QED
    BY <1>1, <1>4, <1>5, <1>6

LEMMA Typed ==
    ASSUME RootInv
    PROVE  TypeOK
<1>1. CASE line = NoLine
    BY <1>1, ToSetNone DEF RootInv, TypeOK, NoLine
<1>2. CASE line # NoLine
    <2>1. line.device \in Devs /\ line.mounts = probe
        BY <1>2, MachineFacts DEF RootInv, Answered
    <2>2. ToSet(line.args) \subseteq Arguments
        BY <1>2, LineSet, ToSetIn DEF RootInv, Answered
    <2> QED
        BY <2>1, <2>2 DEF RootInv, TypeOK, Arguments
<1> QED
    BY <1>1, <1>2

LEMMA AllNamed ==
    ASSUME RootInv
    PROVE  Unlocked
<1> SUFFICES ASSUME line # NoLine
             PROVE  Values({"rd.luks.uuid"}) = Locked(line.device)
    BY DEF Unlocked, Locked
<1> DEFINE d == line.device
<1>1. machine \in Machines /\ Probed /\ d \in machine.tops
    BY DEF RootInv, Answered
<1>2. ToSet(line.args) = ToSet(Local(Own(d, Below(d) = {})))
                             \cup {Argument("rd.luks.uuid", x) : x \in Locked(d)}
    BY <1>1, LineSet DEF RootInv, Answered
<1>3. \A a \in ToSet(Local(Own(d, Below(d) = {}))) : a.key # "rd.luks.uuid"
    BY <1>1, OwnArguments
<1> HIDE DEF d
<1>4. Values({"rd.luks.uuid"}) = {a.value : a \in {b \in ToSet(line.args) : b.key = "rd.luks.uuid"}}
    BY DEF Values
<1>5. \A x : x \in Values({"rd.luks.uuid"}) <=> \E a \in ToSet(line.args) :
                                                     a.key = "rd.luks.uuid" /\ a.value = x
    BY <1>4
<1>6. \A x : (\E a \in ToSet(line.args) : a.key = "rd.luks.uuid" /\ a.value = x) <=> x \in Locked(d)
    BY <1>2, <1>3, ArgumentParts
<1> QED
    BY <1>5, <1>6 DEF d

\* A root on other devices, or an ext4, is named.
LEMMA RootIsNamed ==
    ASSUME RootInv, line # NoLine, line.device = Last(line.mounts).dev,
           machine.slaves[line.device] # <<>> \/ machine.kind[line.device] = "ext4"
    PROVE  NamesRoot
<1> DEFINE d == line.device
           s == ToSet(Local(Own(d, Below(d) = {})))
           names == {"root=", "root=UUID", "root=PARTUUID"}
<1>1. /\ machine \in Machines /\ Probed /\ d \in machine.tops /\ d \in Devs
      /\ line.mounts = probe
    BY MachineFacts DEF RootInv, Answered
<1>2. ToSet(line.args) = s \cup {Argument("rd.luks.uuid", x) : x \in Locked(d)}
    BY <1>1, LineSet DEF RootInv, Answered
<1>3. Below(d) # {} \/ machine.kind[d] = "ext4"
    BY <1>1, BelowFacts
<1>4. \A x : (\E a \in s : a.key \in names /\ a.value = x) <=> x = d
    BY <1>1, <1>3, OwnArguments
<1>5. \A x : (\E a \in s : a.key = "subvol" /\ a.value = x)
                 <=> x = Last(probe).subvol /\ x # NoSubvol
    <2>1. CASE machine.kind[d] = "btrfs"
        BY <1>1, <1>3, <2>1, OwnArguments
    <2>2. CASE machine.kind[d] # "btrfs"
        <3>1. Last(probe) \in Mounts /\ Last(probe).dev = d
            BY <1>1, LastMount DEF Probed
        <3>2. Last(probe).subvol = NoSubvol
            BY <2>2, <3>1 DEF Mounts
        <3> QED
            BY <1>1, <2>2, <3>2, OwnArguments
    <2> QED
        BY <2>1, <2>2
<1> HIDE DEF s, d
<1>6. \A x : x \in Values(names) <=> \E a \in s : a.key \in names /\ a.value = x
    BY <1>2, ArgumentParts DEF Values
<1>7. \A x : x \in Values({"subvol"}) <=> \E a \in s : a.key = "subvol" /\ a.value = x
    BY <1>2, ArgumentParts DEF Values
<1>8. Values(names) = {d}
    <2>1. \A x : x \in Values(names) <=> x = d
        BY <1>4, <1>6
    <2> HIDE DEF names
    <2> QED
        BY <2>1
<1>9. Values({"subvol"}) = {Last(probe).subvol} \ {NoSubvol}
    <2>1. \A x : x \in Values({"subvol"}) <=> x = Last(probe).subvol /\ x # NoSubvol
        BY <1>5, <1>7
    <2> QED
        BY <2>1
<1> QED
    BY <1>1, <1>8, <1>9 DEF NamesRoot, d

-----------------------------------------------------------------------------
(* The theorems.                                                           *)

(***************************************************************************)
(* Whatever is mounted when, a line is made of arguments that name devices *)
(* and subvolumes, and belongs to the probe that made it.                  *)
(***************************************************************************)
THEOREM RootTypes == Spec => []TypeOK
<1>1. Init => RootInv
    BY RootInit
<1>2. RootInv /\ [Next]_vars => RootInv'
    BY RootStep
<1>3. RootInv => TypeOK
    BY Typed
<1> QED
    BY <1>1, <1>2, <1>3, PTL DEF Spec

(***************************************************************************)
(* The initrd is told to open every LUKS device on which the root rests,   *)
(* however deep and on whatever branch, and no other device: the chain     *)
(* that get_device_chain computes is the closure of slaves/, and popping   *)
(* its tip, which gets a block of its own, loses none.                     *)
(***************************************************************************)
THEOREM AllUnlocked == Spec => []Unlocked
<1>1. Init => RootInv
    BY RootInit
<1>2. RootInv /\ [Next]_vars => RootInv'
    BY RootStep
<1>3. RootInv => Unlocked
    BY AllNamed
<1> QED
    BY <1>1, <1>2, <1>3, PTL DEF Spec

(***************************************************************************)
(* A root that rests on other devices is named once, with the subvolume    *)
(* that is mounted last, whatever else is mounted on the directory.        *)
(***************************************************************************)
THEOREM StackedNamed == Spec => []StackedRootNamed
<1>1. Init => RootInv
    BY RootInit
<1>2. RootInv /\ [Next]_vars => RootInv'
    BY RootStep
<1>3. RootInv => StackedRootNamed
    BY RootIsNamed DEF StackedRootNamed
<1> QED
    BY <1>1, <1>2, <1>3, PTL DEF Spec

(***************************************************************************)
(* "Generate a working root= style boot line" (device.rs 78) holds where   *)
(* every root rests on other devices or is an ext4: a plain partition or   *)
(* disk that holds a btrfs, or no superblock that is recognised, is what   *)
(* breaks it.                                                              *)
(***************************************************************************)
THEOREM Working ==
    ASSUME \A m \in Machines : \A d \in m.tops : m.slaves[d] # <<>> \/ m.kind[d] = "ext4"
    PROVE  Spec => []RootNamed
<1>1. Init => RootInv
    BY RootInit
<1>2. RootInv /\ [Next]_vars => RootInv'
    BY RootStep
<1>3. RootInv => RootNamed
    <2> SUFFICES ASSUME RootInv, line # NoLine, line.device = Last(line.mounts).dev
                 PROVE  NamesRoot
        BY DEF RootNamed
    <2>1. machine.slaves[line.device] # <<>> \/ machine.kind[line.device] = "ext4"
        BY DEF RootInv, Answered
    <2> QED
        BY <2>1, RootIsNamed
<1> QED
    BY <1>1, <1>2, <1>3, PTL DEF Spec
=============================================================================
