---------------------------- MODULE MCBootMounts ----------------------------
(***************************************************************************)
(* Small instances of BootMounts: UEFI and BIOS, an ESP that the boot      *)
(* loader names or that is found on the disk, with and without an          *)
(* XBOOTLDR, a running system and an image, whatever is mounted where.     *)
(***************************************************************************)
EXTENDS BootMounts

CONSTANTS esp, usb, xboot,
          MaxChanges  \* bound: how often others change the mount table

VARIABLE changes      \* how often they have

MCInit == Init /\ changes = 0

MCNext ==
    /\ Next
    /\ changes' = IF table' # table /\ pc' = pc /\ tokens' = tokens
                  THEN changes + 1 ELSE changes
    /\ changes' <= MaxChanges

MCSpec == MCInit /\ [][MCNext]_<<vars, changes>>

MCDevices == {esp, usb, xboot}
MCPoints  == {"boot", "efi", "xboot", "boot/efi"}
MCNested(p, q) == p = "boot" /\ q = "boot/efi"

MCMachines ==
    [firmware : {"uefi", "bios"}, image : BOOLEAN,
     bls : {NoDevice, esp, usb}, gpt : {NoDevice, esp},
     xbootldr : {[d \in MCDevices |-> IF d = esp THEN x ELSE NoDevice]
                    : x \in {NoDevice, xboot}}]

On(dev, point) == [dev |-> dev, point |-> point]

\* One mount after another: any partition on any of the directories at which
\* a Manager looks for one or mounts one.
Anywhere(m) == {<<On(dev, point)>> : dev \in MCDevices, point \in MCPoints \ {"xboot"}}

\* A legacy installation: the ESP at boot.
LegacyEsp(m) == {<<On(esp, "boot")>>}
=============================================================================
