-------------------------- MODULE InstalledKernels --------------------------
(***************************************************************************)
(* Loader::installed_kernels (systemd_boot/mod.rs): which kernels the boot *)
(* partition holds for this system, found by the discovery that is made    *)
(* for /usr/lib/kernel.                                                    *)
(***************************************************************************)
EXTENDS EntrySync

\* The files in the subdirectories of this system's own directory.
Seen == {p \in KernelPaths : /\ p.ns = OsNamespace(req.schema)
                             /\ p.dir # "" /\ disk[p] # Absent}

\* Mutant: the image is recognised by what comes before the index.
NamedByStem(p) == [dir |-> p.dir, name |-> <<p.file, NoSuffix>>]

\* A name with a conflict index ends in the index, and says nothing.
Named(p) == [dir |-> p.dir, name |-> <<p.file, p.suffix>>]

NameEnding(name) ==
    CASE name = <<"vmlinuz", NoSuffix>>   -> "vmlinuz"
      [] name[1] # "vmlinuz" /\ name[2] = NoSuffix -> ".initrd"
      [] OTHER -> ""

Discovery == INSTANCE KernelDiscovery WITH
                 Files      <- {Named(p) : p \in KernelPaths},
                 tree       <- {Named(p) : p \in Seen},
                 Ending     <- NameEnding,
                 NameBefore <- LAMBDA a, b : FALSE,
                 DirBegins  <- LAMBDA a, b : a = b

\* Those of legacy kernels are not in subdirectories.
Installed == IF req.schema.kind = "legacy" THEN {} ELSE {f.dir : f \in Discovery!Images}

(***************************************************************************)
(* After a call that could remove what it wanted to, installed_kernels     *)
(* reports a version if and only if an entry of the request has it below   *)
(* this system's own namespace and no other content of the request goes by *)
(* the name of its image: nothing that an earlier call left is taken for   *)
(* installed, and what sync_entries keeps elsewhere, or under a name with  *)
(* a conflict index, is not found.                                         *)
(***************************************************************************)
Own == {e \in Range(req.entries) : /\ Effective(e).kind # "legacy"
                                   /\ OsNamespace(Effective(e)) = OsNamespace(req.schema)}

Unrivalled(image) ==
    \A e \in Range(req.entries) : \A a \in Range(e.assets) :
        KeyOf(a) = KeyOf(image) => a.hash = image.hash

ReportsInstalled ==
    pc = "done" /\ undeleted = {} /\ req.schema.kind # "legacy" =>
        Installed = {e.version : e \in {x \in Own : Unrivalled(x.assets[1])}}
=============================================================================
