---------------------------- MODULE MCRootDevice ----------------------------
(***************************************************************************)
(* Small instances of RootDevice: a root made of up to three devices in    *)
(* every layering, each LUKS or not (an LVM volume has no superblock that  *)
(* is recognised), and a second device that can hide it.                   *)
(***************************************************************************)
EXTENDS RootDevice, FiniteSetsExt

CONSTANTS root, other, map, part1, part2, sub1, sub2

MCDevs    == {root, other, map, part1, part2}
MCSubvols == {sub1, sub2}

Orders(s) == UNION {SetToSeqs(t) : t \in SUBSET s}

Layered(rs, ms) ==
    [d \in MCDevs |-> CASE d = root -> rs [] d = map -> ms [] OTHER -> <<>>]

Machine(kind, slaves, gpt, tops) ==
    [kind |-> kind, slaves |-> slaves, gpt |-> gpt, tops |-> tops]

Stacks ==
    {Machine([d \in MCDevs |-> CASE d = root -> r [] d \in luks -> "luks2" [] OTHER -> "none"],
             Layered(rs, ms), {part1, part2}, {root})
        : r \in {"btrfs", "ext4", "none"}, luks \in SUBSET {map, part1, part2},
          rs \in Orders({map, part2}), ms \in Orders({part1, part2})}

\* A plain partition, or a whole disk.
Plain ==
    {Machine([d \in MCDevs |-> IF d = root THEN r ELSE "none"],
             Layered(<<>>, <<>>), gpt, {root})
        : r \in {"btrfs", "ext4", "none"}, gpt \in SUBSET {root}}

\* One root hides another.
Hiding ==
    {Machine([d \in MCDevs |-> CASE d = root -> r [] d = other -> o
                                 [] d = part1 -> "luks2" [] OTHER -> "none"],
             Layered(<<map>>, <<part1>>), {other, part1}, {root, other})
        : r \in {"btrfs", "ext4"}, o \in {"btrfs", "ext4"}}

MCMachines == Stacks \cup Plain \cup Hiding
=============================================================================
