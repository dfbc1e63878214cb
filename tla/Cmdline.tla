------------------------------- MODULE Cmdline ------------------------------
(***************************************************************************)
(* The options line of an entry (cmdline.rs): root=, the snippets that the *)
(* kernel's and other packages ship, those of the entry, and those of the  *)
(* administrator, who can also mask what packages ship.                    *)
(*                                                                         *)
(* A caller discovers the kernels and makes a Manager, which reads         *)
(* /etc/kernel/cmdline.d; the snippets themselves are read when it syncs.  *)
(* Packages and the administrator change files in between.  A directory is *)
(* read in an order of its own.                                            *)
(***************************************************************************)
EXTENDS LegacyDiscovery

CONSTANTS
    EtcNames,   \* names of files in /etc/kernel/cmdline.d, the only
                \* directory of /etc/kernel that the code reads
    MaxChanges  \* bound: how many changes packages and administrator make

ASSUME BoundAssumption == IsFiniteSet(EtcNames) /\ MaxChanges \in Nat

VARIABLES
    legacy,     \* is the schema of the machine a legacy one?
    etc,        \* name -> "none", "text" or "null", a link to /dev/null
    loaded,     \* GlobalCmdline: etc_snippets and etc_exclusions, or NotLoaded
    kernels,    \* the kernels of the Manager's entries
    etcThen,    \* history: etc when the Manager was made
    treeThen,   \* history: tree when the kernels were discovered
    options,    \* the options lines of the last sync, one per kernel
    changes     \* how many changes there were

vars == <<tree, legacy, etc, loaded, kernels, etcThen, treeThen, options, changes>>

NotLoaded == [snippets |-> <<>>, exclusions |-> {}, valid |-> FALSE]

Snippet(from, name) == [from |-> from, name |-> name]
Root     == Snippet("root", "")
OfEntry  == Snippet("entry", "")

Snippets(from, names) == {[i \in DOMAIN s |-> Snippet(from, s[i])] : s \in SetToSeqs(names)}

-----------------------------------------------------------------------------
\* Mutant: every link to /dev/null masks, whatever its name ends in.
EtcAnyNamed(what) == {n \in EtcNames : etc[n] = what}

\* Only *.cmdline is looked at.
EtcNamed(what) == {n \in EtcNames : etc[n] = what /\ Ending(n) = ".cmdline"}

Shippable == IF legacy THEN LegacyFiles ELSE Files

\* load_etc_cmdline: the lists, in any order the directory is read.
EtcCmdlines ==
    {[snippets |-> s, exclusions |-> EtcNamed("null"), valid |-> TRUE]
        : s \in Snippets("etc", EtcNamed("text"))}

\* Schema::discover_system_kernels
Discovered == IF legacy THEN LegacyKernels ELSE {Kernels}

IsCmdline(f) == IF legacy THEN Form(f) = "cmdline" ELSE AuxKind(f) = "cmdline"

\* Mutant: the kernel's own snippets cannot be masked.
KernelSnippetsUnmasked(k) ==
    LET own == ByName({f \in ToSet(k.extras) : IsCmdline(f) /\ f \in tree})
    IN  [i \in DOMAIN own |-> Snippet("kernel", own[i].name)]

\* load_kernel_cmdline: the kernel's own, in the order of its extras, which is
\* that of their names, then the files of cmdline.d; what cannot be read is
\* left out.
KernelSnippets(k) ==
    LET own == ByName({f \in ToSet(k.extras) : /\ IsCmdline(f)
                                               /\ f.name \notin loaded.exclusions
                                               /\ f \in tree})
    IN  [i \in DOMAIN own |-> Snippet("kernel", own[i].name)]

GlobalNames == {f.name : f \in {g \in tree : g.dir = "cmdline.d"}} \ loaded.exclusions

\* Mutant: what the administrator adds comes before what packages ship.
EtcFirst(k, globals) ==
    <<Root>> \o loaded.snippets \o KernelSnippets(k) \o globals \o <<OfEntry>>

\* full_cmdline
FullCmdline(k, globals) ==
    <<Root>> \o KernelSnippets(k) \o globals \o <<OfEntry>> \o loaded.snippets

-----------------------------------------------------------------------------
\* Discovery and GlobalCmdline::new
NewManager ==
    /\ ~(legacy /\ Panics)
    /\ kernels' \in Discovered
    /\ treeThen' = tree
    /\ loaded' \in EtcCmdlines
    /\ etcThen' = etc
    /\ options' = {}
    /\ UNCHANGED <<tree, legacy, etc, changes>>

\* legacy_kernels panics, and the caller with it.
DiscoveryPanics ==
    /\ legacy /\ Panics
    /\ loaded' = NotLoaded
    /\ kernels' = {}
    /\ options' = {}
    /\ UNCHANGED <<tree, legacy, etc, etcThen, treeThen, changes>>

\* A sync fails before it writes an entry if an image or an initrd is gone.
Sync ==
    /\ loaded.valid
    /\ \A k \in kernels : ToSet(k.initrd) \cup {k.image} \subseteq tree
    /\ \E g \in Snippets("global", GlobalNames) :
           options' = {[kernel |-> k, line |-> FullCmdline(k, g)] : k \in kernels}
    /\ UNCHANGED <<tree, legacy, etc, loaded, kernels, etcThen, treeThen, changes>>

Package ==
    /\ changes < MaxChanges
    /\ changes' = changes + 1
    /\ \E f \in Shippable : tree' = IF f \in tree THEN tree \ {f} ELSE tree \cup {f}
    /\ UNCHANGED <<legacy, etc, loaded, kernels, etcThen, treeThen, options>>

Administrator ==
    /\ changes < MaxChanges
    /\ changes' = changes + 1
    /\ \E n \in EtcNames, what \in {"none", "text", "null"} :
           /\ etc[n] # what
           /\ etc' = [etc EXCEPT ![n] = what]
    /\ UNCHANGED <<tree, legacy, loaded, kernels, etcThen, treeThen, options>>

Init ==
    /\ legacy \in BOOLEAN
    /\ tree \in SUBSET Shippable
    /\ etc \in [EtcNames -> {"none", "text", "null"}]
    /\ loaded = NotLoaded
    /\ kernels = {}
    /\ etcThen = etc
    /\ treeThen = tree
    /\ options = {}
    /\ changes = 0

Next == NewManager \/ DiscoveryPanics \/ Sync \/ Package \/ Administrator

Spec == Init /\ [][Next]_vars

-----------------------------------------------------------------------------
(* Properties.                                                             *)

TypeOK ==
    /\ legacy \in BOOLEAN /\ tree \subseteq Shippable /\ treeThen \subseteq Shippable
    /\ {etc, etcThen} \subseteq [EtcNames -> {"none", "text", "null"}]
    /\ loaded.exclusions \subseteq {n \in EtcNames : Ending(n) = ".cmdline"}
    /\ \A i \in DOMAIN loaded.snippets : loaded.snippets[i].from = "etc"
    /\ \A o \in options : o.line[1] = Root
    /\ changes \in 0 .. MaxChanges

(***************************************************************************)
(* A kernel has the auxiliary files that are "specifically dependent on    *)
(* that kernel version" (kernel.rs 59): every initrd that is not shared    *)
(* was made for the version and the variant of the kernel it is given to.  *)
(***************************************************************************)
OwnInitrds ==
    legacy => \A k \in kernels : \A f \in ToSet(k.initrd) :
                  Form(f) = "shared" \/ SameKernel(f, k.image)

From(line, sources) == {s \in ToSet(line) : s.from \in sources}

NoneTwice(line, sources) ==
    \A i, j \in DOMAIN line : line[i] = line[j] /\ line[i].from \in sources => i = j

\* What the administrator had when the Manager was made.
Masked == {n \in EtcNames : etcThen[n] = "null" /\ Ending(n) = ".cmdline"}
Added  == {n \in EtcNames : etcThen[n] = "text" /\ Ending(n) = ".cmdline"}

\* What packages ship for a kernel: its own snippets, as far as they were
\* there to be discovered, and all of cmdline.d.
OwnCmdline(k, f) ==
    IF legacy THEN Form(f) = "cmdline" /\ SameKernel(f, k.image)
              ELSE f.dir = k.version /\ Ending(f.name) = ".cmdline"

Shipped(k) ==
    {Snippet("kernel", f.name) : f \in {g \in tree \cap treeThen : OwnCmdline(k, g)}}
    \cup {Snippet("global", f.name) : f \in {g \in tree : g.dir = "cmdline.d"}}

(***************************************************************************)
(* A sync gives every kernel the snippets that were shipped for it and     *)
(* that the administrator had not masked when the Manager was made, each   *)
(* once, and no others: a mask hides a snippet's name wherever it is       *)
(* shipped, and nothing masks a snippet of another kernel or of no entry.  *)
(* "we'll exclude the matching system-wide cmdline" (cmdline.rs 101).      *)
(***************************************************************************)
VendorSnippets ==
    [][Sync => \A o \in options' :
           /\ From(o.line, {"kernel", "global"}) = {s \in Shipped(o.kernel) : s.name \notin Masked}
           /\ NoneTwice(o.line, {"kernel", "global"})]_vars

(***************************************************************************)
(* What the administrator wrote into files of their own comes after        *)
(* everything that packages and the entry say, where it overrides them,    *)
(* each once, also when packages came or went since (the ordering that     *)
(* cmdline.rs 51-56 lists).                                                *)
(***************************************************************************)
AdministratorLast ==
    [][Sync => \A o \in options' :
           /\ From(o.line, {"etc"}) = {Snippet("etc", n) : n \in Added}
           /\ NoneTwice(o.line, {"etc"})
           /\ \A i, j \in DOMAIN o.line :
                  i < j /\ o.line[i].from = "etc" => o.line[j].from = "etc"]_vars
=============================================================================
