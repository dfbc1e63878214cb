--------------------------- MODULE MCManagerSync ----------------------------
(***************************************************************************)
(* Small instances of ManagerSync: three versions of the loader and of the *)
(* kernel.                                                                 *)
(***************************************************************************)
EXTENDS ManagerSync

CONSTANTS a1, a2, a3, i1, v1, v2, v3, NoState

MCStem(file) ==
    CASE file = "BOOTX64.EFI"         -> "BOOTX64"
      [] file = "systemd-bootx64.efi" -> "systemd-bootx64"
      [] OTHER                        -> file

SameOs(os, prefix) == os = prefix

Aeryn == [kind |-> "blsforme", name |-> "aerynos", id |-> "aerynos", ns |-> "",
          former |-> {}]

MCEntry(version, hash) ==
    [version |-> version, state |-> NoState, schema |-> NoSchema,
     assets |-> <<[kind |-> "image", version |-> version, file |-> "vmlinuz", hash |-> hash],
                  [kind |-> "shared", version |-> version, file |-> "initrd", hash |-> i1]>>]

Ship(loader, entry) ==
    [loader |-> loader, request |-> [schema |-> Aeryn, entries |-> <<entry>>]]

MCGoals == {Ship(v1, MCEntry("6.8", a1)), Ship(v2, MCEntry("6.9", a2)),
            Ship(v3, MCEntry("6.10", a3))}

MCRequests == {g.request : g \in MCGoals}

MCOtherFiles == OnEsp
MCOtherContents == {v1, v2, v3, [default |-> "aerynos"]}

\* A system on which the loader is installed, and nothing else.
LoaderInstalled == [p \in Path |-> IF p \in Binaries THEN v1 ELSE Absent]
=============================================================================
