----------------------------- MODULE MCCmdline ------------------------------
(***************************************************************************)
(* Small instances of Cmdline and of both discoveries.  Blsforme: two      *)
(* kernels of which the version of one begins that of the other, an initrd *)
(* shipped both shared and in the old way, and snippets of one name in two *)
(* places.  Legacy: two variants of one version, each with a snippet.      *)
(***************************************************************************)
EXTENDS Cmdline

File(dir, name) == [dir |-> dir, name |-> name]

MCFiles ==
    {File("6.8", "vmlinuz"), File("6.8", "20-ucode.initrd"), File("6.8", "quiet.cmdline"),
     File("6.8.1", "vmlinuz"), File("6.8.1", "30-fs-shared.initrd"),
     File("initrd.d", "20-ucode.initrd"), File("initrd.d", "10-splash.initrd"),
     File("cmdline.d", "quiet.cmdline"), File("cmdline.d", "serial.conf")}

MCEtcNames == {"quiet.cmdline", "serial.conf"}

MCEnding(name) ==
    CASE name \in {"20-ucode.initrd", "10-splash.initrd"} -> ".initrd"
      [] name = "30-fs-shared.initrd" -> "-shared.initrd"
      [] name \in {"quiet.cmdline"} -> ".cmdline"
      [] name = "vmlinuz" -> "vmlinuz"
      [] OTHER -> ""

MCLegacyFiles ==
    {File("", "ns.lts.6.8-1"), File("", "ns.current.6.8-1"), File("", "ns-extra"),
     File("", "initrd-ns.lts.6.8-1"), File("", "initrd-ns.ucode"),
     File("", "cmdline-6.8-1.lts"), File("", "cmdline-6.8-1.current"),
     File("cmdline.d", "quiet.cmdline")}

\* Two releases, of which one begins the other.
PrefixFiles ==
    {File("", "ns.lts.6.8-1"), File("", "ns.lts.6.8-10"),
     File("", "initrd-ns.lts.6.8-1"), File("", "initrd-ns.lts.6.8-10")}

Part(form, variant, version) == [form |-> form, variant |-> variant, version |-> version]

MCParts(name) ==
    CASE name = "ns.lts.6.8-1"          -> Part("image", "lts", "6.8-1")
      [] name = "ns.lts.6.8-10"         -> Part("image", "lts", "6.8-10")
      [] name = "ns.current.6.8-1"      -> Part("image", "current", "6.8-1")
      [] name = "ns-extra"              -> Part("odd", "", "")
      [] name = "initrd-ns.lts.6.8-1"   -> Part("initrd", "lts", "6.8-1")
      [] name = "initrd-ns.lts.6.8-10"  -> Part("initrd", "lts", "6.8-10")
      [] name = "initrd-ns.ucode"       -> Part("shared", "", "")
      [] name = "cmdline-6.8-1.lts"     -> Part("cmdline", "lts", "6.8-1")
      [] name = "cmdline-6.8-1.current" -> Part("cmdline", "current", "6.8-1")
      [] OTHER                          -> Part("", "", "")

MCBegins(v, w) == v = w \/ (v = "6.8-10" /\ w = "6.8-1")

InOrder == <<"10-splash.initrd", "20-ucode.initrd", "30-fs-shared.initrd",
             "cmdline-6.8-1.current", "cmdline-6.8-1.lts",
             "initrd-ns.lts.6.8-1", "initrd-ns.lts.6.8-10", "initrd-ns.ucode",
             "ns-extra", "ns.current.6.8-1", "ns.lts.6.8-1", "ns.lts.6.8-10",
             "quiet.cmdline", "serial.conf", "vmlinuz">>

Rank == [name \in ToSet(InOrder) |-> CHOOSE i \in DOMAIN InOrder : InOrder[i] = name]

MCNameBefore(a, b) == Rank[a] < Rank[b]

MCDirBegins(dir, with) == dir = with \/ (dir = "6.8.1" /\ with = "6.8")
=============================================================================
