-------------------------- MODULE KernelDiscovery ---------------------------
(***************************************************************************)
(* Discovery of the kernels that packages ship below /usr/lib/kernel       *)
(* (Schema::blsforme_kernels in kernel.rs), which the blsforme and os-info *)
(* schemas share.                                                          *)
(*                                                                         *)
(* A file is [dir, name]: a version's directory, "initrd.d" or             *)
(* "cmdline.d", and a name, of which Ending gives what the code looks at.  *)
(* Packages add and remove files; discovery is a function of what is       *)
(* there.                                                                  *)
(***************************************************************************)
EXTENDS Integers, SequencesExt

CONSTANTS
    Files,            \* the files that packages may ship
    Ending(_),        \* the kind of file that a name says
    NameBefore(_, _), \* the order of lower-case names
    DirBegins(_, _)   \* the name of a directory begins with another's

VARIABLE tree         \* the files that are there

Endings == {"vmlinuz", "System.map", "boot.json", "config",
            "-shared.initrd", ".initrd", ".cmdline", ""}

\* The documented layout: images in versioned directories only.
ASSUME LayoutAssumption ==
    /\ \A f \in Files : Ending(f.name) \in Endings
    /\ \A f \in Files : f.dir \in {"initrd.d", "cmdline.d"} => Ending(f.name) # "vmlinuz"

-----------------------------------------------------------------------------
Images == {f \in tree : Ending(f.name) = "vmlinuz"}

\* Mutant: names of directories compared as strings, not as components.
BelowByName(f, dir) == DirBegins(f.dir, dir)

\* Path::starts_with
Below(f, dir) == f.dir = dir

Assets(version) == {f \in tree : Below(f, version) /\ Ending(f.name) # "vmlinuz"}

AuxKind(f) ==
    CASE Ending(f.name) = "-shared.initrd" -> "shared"
      [] Ending(f.name) = ".initrd" -> IF f.dir = "initrd.d" THEN "shared" ELSE "versioned"
      [] Ending(f.name) = ".cmdline" -> "cmdline"
      [] Ending(f.name) \in {"System.map", "boot.json", "config"} -> "other"
      [] OTHER -> "none"

IsInitrd(f) == AuxKind(f) \in {"shared", "versioned"}

SharedInitrds == {f \in tree : f.dir = "initrd.d" /\ IsInitrd(f)}

\* Mutant: a file in initrd.d does not replace one of the kernel's directory.
InitrdsOfBoth(version) == {f \in Assets(version) : IsInitrd(f)} \cup SharedInitrds

\* A file in initrd.d replaces one of the same name among the kernel's own.
InitrdsOf(version) ==
    {f \in Assets(version) : /\ IsInitrd(f)
                             /\ \A g \in SharedInitrds : g.name # f.name}
    \cup SharedInitrds

ByName(files) ==
    CHOOSE s \in SetToSeqs(files) :
        \A i, j \in DOMAIN s : i < j => ~NameBefore(s[j].name, s[i].name)

NoVariant == ""

Kernel(image) ==
    [version |-> image.dir,
     variant |-> NoVariant,
     image   |-> image,
     initrd  |-> ByName(InitrdsOf(image.dir)),
     extras  |-> ByName({f \in Assets(image.dir) : AuxKind(f) \in {"cmdline", "other"}})]

\* The list comes out of a HashMap: its order is not determined.
Kernels == {Kernel(f) : f \in Images}

-----------------------------------------------------------------------------
(* Properties.                                                             *)

(***************************************************************************)
(* Of what packages ship, and discovery looks at nothing else, every       *)
(* initrd is passed on once: those of a kernel have different names, in    *)
(* the order of their NN- prefixes "for how assets should be loaded"       *)
(* (kernel.rs 395), and one of initrd.d takes the place of the one of its  *)
(* name in the kernel's directory.  README.md 8 and 69-72 also promise     *)
(* masks for initrds and an /etc/kernel/initrd.d, which the code never     *)
(* reads: the administrator can neither mask an initrd nor add one.        *)
(***************************************************************************)
InitrdsLoadable ==
    \A k \in Kernels :
        /\ \A i, j \in DOMAIN k.initrd :
               i < j => NameBefore(k.initrd[i].name, k.initrd[j].name)
        /\ {f.name : f \in ToSet(k.initrd)}
               = {f.name : f \in {g \in tree : /\ g.dir \in {k.version, "initrd.d"}
                                               /\ IsInitrd(g)}}

(***************************************************************************)
(* A package that changes only one version's directory changes nothing of  *)
(* the other kernels, also of one whose version begins like it: auxiliary  *)
(* files are "specifically dependent on that kernel version" (kernel.rs    *)
(* 59).                                                                    *)
(***************************************************************************)
Independent ==
    [][\A k \in Kernels :
          (\A f \in (tree \ tree') \cup (tree' \ tree) : f.dir \notin {k.version, "initrd.d"})
          => k \in Kernels']_tree
=============================================================================
