-------------------------- MODULE LegacyDiscovery ---------------------------
(***************************************************************************)
(* Discovery of the kernels of a legacy schema (Schema::legacy_kernels in  *)
(* kernel.rs), which all lie in one directory and say in their names what  *)
(* they are:                                                               *)
(*                                                                         *)
(*     <namespace>.<variant>.<version>-<release>          an image         *)
(*     initrd-<namespace>.<variant>.<version>-<release>*  its initrds      *)
(*     initrd-<namespace>.<name>                          everybody's      *)
(*     cmdline-, config-, System.map-<version>-<release>.<variant>         *)
(***************************************************************************)
EXTENDS KernelDiscovery

CONSTANTS
    LegacyFiles,  \* the files that packages may ship
    Parts(_),     \* what a name says: [form, variant, version]
    Begins(_, _)  \* a version begins with another, as strings

Forms == {"image", "bare", "odd", "initrd", "shared", "cmdline", "other", ""}

\* A "bare" name has a version without a release; an "odd" one begins with
\* the namespace and goes on without a dot.
ASSUME LegacyAssumption ==
    \A f \in LegacyFiles : /\ f.dir \in {"", "cmdline.d"}
                           /\ Parts(f.name).form \in Forms
                           /\ f.dir # "" => Parts(f.name).form = ""

\* Names are compared in lower case, and no two differ only in case.
ASSUME NameAssumption ==
    \A files \in {Files, LegacyFiles} :
        /\ IsFiniteSet(files)
        /\ \A f \in files : f = [dir |-> f.dir, name |-> f.name]
        /\ \A f, g \in files :
               /\ ~(NameBefore(f.name, g.name) /\ NameBefore(g.name, f.name))
               /\ f.name # g.name => NameBefore(f.name, g.name) \/ NameBefore(g.name, f.name)
        /\ \A f, g, h \in files :
               NameBefore(f.name, g.name) /\ NameBefore(g.name, h.name)
                   => NameBefore(f.name, h.name)

-----------------------------------------------------------------------------
Form(f) == Parts(f.name).form

SameKernel(f, image) ==
    /\ Parts(f.name).variant = Parts(image.name).variant
    /\ Parts(f.name).version = Parts(image.name).version

\* split_at and the assertion after it take the program down.
Panics == \E f \in tree : Form(f) = "odd"

LegacyImages == {f \in tree : Form(f) = "image"}

LegacyVersions == {Parts(f.name).version : f \in LegacyImages}

\* The last image of a version, in the order of the caller's paths.
LastImages ==
    {last \in [LegacyVersions -> LegacyImages] :
        \A v \in LegacyVersions : Parts(last[v].name).version = v}

LegacyExtras(image) ==
    {f \in tree : Form(f) \in {"cmdline", "other"} /\ SameKernel(f, image)}

LegacyInitrds(image) ==
    {f \in tree : \/ Form(f) = "shared"
                  \/ /\ Form(f) = "initrd"
                     /\ Parts(f.name).variant = Parts(image.name).variant
                     /\ Begins(Parts(f.name).version, Parts(image.name).version)}

LegacyKernel(image) ==
    [version |-> Parts(image.name).version,
     variant |-> Parts(image.name).variant,
     image   |-> image,
     initrd  |-> ByName(LegacyInitrds(image)),
     extras  |-> ByName(LegacyExtras(image))]

\* What discovery may come to.
LegacyKernels ==
    {{LegacyKernel(last[v]) : v \in LegacyVersions} : last \in LastImages}
=============================================================================
