---------------------------- MODULE MCEntrySync ----------------------------
(***************************************************************************)
(* Small instances of EntrySync.                                           *)
(***************************************************************************)
EXTENDS EntryMenu, InstalledKernels, TLC

CONSTANTS MaxCalls, \* how many requests a behaviour of an instance serves
          a1, a2, a3, a4, i1, i2,  \* contents of kernel images and of initrds
          other,               \* content of another system's files
          NoState

VARIABLE calls          \* how many it has served

MCInit == Init /\ calls = 0

MCNext ==
    /\ Next
    /\ calls' = IF pc # "hash" /\ pc' = "hash" THEN calls + 1 ELSE calls
    /\ calls' <= MaxCalls

MCSpec == MCInit /\ [][MCNext]_<<vars, calls>>

\* Legacy names end in the version, whose tail is taken for an extension.
MCStem(file) ==
    CASE file = "kernel-lts.6.8-1" -> "kernel-lts.6"
      [] file = "initrd-lts.6.8-1" -> "initrd-lts.6"
      [] OTHER -> file

OsInfo(id, former) ==
    [kind |-> "osinfo", name |-> id, id |-> id, ns |-> "", former |-> former]
Blsforme(id) ==
    [kind |-> "blsforme", name |-> id, id |-> id, ns |-> "", former |-> {}]

Aeryn   == OsInfo("aerynos", {"serpent-os"})
Serpent == Blsforme("serpent-os")
Legacy  == [kind |-> "legacy", name |-> "Serpent OS", id |-> "serpent-os",
            ns |-> "com.serpentos", former |-> {}]

Asset(kind, version, file, hash) ==
    [kind |-> kind, version |-> version, file |-> file, hash |-> hash]
Image(hash)  == Asset("image", "6.8", "vmlinuz", hash)
Initrd(hash) == Asset("shared", "6.8", "initrd", hash)

MCEntry(version, state, schema, assets) ==
    [version |-> version, state |-> state, schema |-> schema, assets |-> assets]

Ask(schema, entries) == [schema |-> schema, entries |-> entries]

\* Another system on the partition: a kernel, its conf, and content of its own.
MCOtherFiles ==
    {[ns |-> "aerynos-dev", dir |-> "6.8", file |-> "vmlinuz", suffix |-> NoSuffix]}
MCOtherConfs == {[os |-> "aerynos-dev", version |-> "6.8", state |-> NoState]}
OtherOnly == [p \in Path |-> IF p \in OtherConfs \cup OtherFiles THEN other ELSE Absent]

\* starts_with on the names of the instances: of the two systems, the ID of
\* one begins the ID of the other.  The weaker relation leaves that out.
Prefixed(os, prefix) == os = prefix \/ (os = "aerynos-dev" /\ prefix = "aerynos")
SameOs(os, prefix)   == os = prefix

-----------------------------------------------------------------------------
(* The kernel of one version, rebuilt: the images of two states collide,   *)
(* and so do their initrds.  Requests drop, add and reorder the entries.   *)

E1 == MCEntry("6.8", 1, NoSchema, <<Image(a1), Initrd(i1)>>)
E2 == MCEntry("6.8", 2, NoSchema, <<Image(a2), Initrd(i2)>>)

Colliding == {Ask(Aeryn, s) : s \in {<<>>, <<E1>>, <<E1, E2>>, <<E2, E1>>}}

-----------------------------------------------------------------------------
(* A system that is renamed, whose older states keep their schema, and     *)
(* that was a legacy system once.  Its kernel is rebuilt twice: requests   *)
(* add entries at the end, and drop from either end.                       *)

Old    == MCEntry("6.8", 1, Serpent, <<Image(a1), Initrd(i1)>>)
New    == MCEntry("6.8", 2, NoSchema, <<Image(a2), Initrd(i1)>>)
Newer  == MCEntry("6.8", 3, NoSchema, <<Image(a4), Initrd(i1)>>)
Oldest(schema) ==
    MCEntry("6.8-1", NoState, schema,
            <<Asset("image", "6.8-1", "lts.6.8-1", a3),
              Asset("versioned", "6.8-1", "initrd-lts.6.8-1", i2)>>)

Renaming ==
    {Ask(Legacy, <<Oldest(NoSchema)>>),
     Ask(Serpent, <<Oldest(Legacy), Old>>),
     Ask(Aeryn, <<Old, New>>),
     Ask(Aeryn, <<Old, New, Newer>>),
     Ask(Aeryn, <<New>>)}
=============================================================================
