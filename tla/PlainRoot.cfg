\* A root on a plain partition or disk.
SPECIFICATION Spec
CONSTANTS
    Devs <- MCDevs
    Machines <- Plain
    Subvols <- MCSubvols
    NoSubvol = NoSubvol
    MaxMounts = 2
    root = root
    other = other
    map = map
    part1 = part1
    part2 = part2
    sub1 = sub1
    sub2 = sub2
INVARIANTS
    RootNamed
