------------------------------ MODULE EntrySync ------------------------------
(***************************************************************************)
(* Loader::sync_entries (systemd_boot/mod.rs): make the boot partition     *)
(* hold the kernels, initrds and loader entries of one request, and remove *)
(* what earlier requests left.                                             *)
(*                                                                         *)
(* The program is sequential: one request at a time is hashed, installed   *)
(* entry by entry (changed assets through copy_atomic_vfat, then the       *)
(* .conf), and then stale confs, kernel trees and files are removed.  The  *)
(* environment chooses the requests, fails any call, kills the program and *)
(* cuts the power, at any step.                                            *)
(***************************************************************************)
EXTENDS AssetNames, FiniteSets, Functions

CONSTANTS
    Requests,         \* set of [schema, entries] that a caller may ask for
    NoRequest,
    NoSchema,         \* an entry that does not override the schema
    StartsWith(_, _), \* StartsWith(os, prefix): a file name of os has prefix
    OtherConfs,       \* confs and files that other systems keep on the
    OtherFiles,       \*   same partition
    OtherContents,    \* what those files may hold, at any time
    InitialDisk

VARIABLES
    pc,         \* where sync_entries is
    req,        \* the request being served
    cur, pos,   \* the entry and the asset being hashed or installed
    collisions, \* AssetCollisions::map
    stale,      \* what cleanup_stale_entries still has to remove
    undeleted   \* history: paths whose removal failed and was only logged

vars == <<vfatVars, pc, req, cur, pos, collisions, stale, undeleted>>

-----------------------------------------------------------------------------
(* The data a request is made of.                                          *)

EffectiveIn(r, entry) == IF entry.schema = NoSchema THEN r.schema ELSE entry.schema

Entries == UNION {Range(r.entries) : r \in Requests}
Assets  == UNION {Range(e.assets) : e \in Entries}
Keys    == {KeyOf(a) : a \in Assets}
HashSet == {a.hash : a \in Assets}
HashesOf(k) == {a.hash : a \in {b \in Assets : KeyOf(b) = k}}

\* The conflict indices that the assets of one key can get.
Indices(k) == {NoSuffix} \cup 0..(Cardinality(HashesOf(k)) - 1)

DestsOf(schema, asset) ==
    {InstalledPath(schema, asset, i) : i \in Indices(KeyOf(asset))}

Dest == UNION {UNION {UNION {DestsOf(EffectiveIn(r, e), a) : a \in Range(e.assets)}
                      : e \in Range(r.entries)} : r \in Requests}

Temps == {Staging(p) : p \in Dest}

\* Entry::id, the file name of a conf under loader/entries.
ConfIn(r, e) == [os      |-> EntryOs(EffectiveIn(r, e)),
                 version |-> e.version,
                 state   |-> e.state]

Confs == UNION {{ConfIn(r, e) : e \in Range(r.entries)} : r \in Requests}

ConfPaths   == Confs \cup OtherConfs
KernelPaths == Dest \cup Temps \cup OtherFiles
Path        == ConfPaths \cup KernelPaths

\* A conf is the sequence of paths it names: `linux', then every `initrd'.
Text    == UNION {[DOMAIN e.assets -> Dest] : e \in Entries}
Content == HashSet \cup Text \cup {Absent, Torn} \cup OtherContents

Dirs == {[ns |-> p.ns, dir |-> p.dir] : p \in KernelPaths}

NoStale == [confs |-> {}, trees |-> {}, files |-> {}]

(***************************************************************************)
(* What callers owe.  Kernels come from discover_system_kernels: below a   *)
(* non-legacy schema an image is called vmlinuz and nothing else is, every *)
(* asset is tied to its kernel's version, and no version is called         *)
(* "shared".  State IDs are unique (entry.rs 19), so no two entries of a   *)
(* request have one conf.  Legacy names carry version and variant but no   *)
(* conflict index: one name stands for one content.  The compile-time      *)
(* namespace of a legacy schema ("com.solus-project") is no OS's ID.       *)
(***************************************************************************)
ASSUME AssetAssumption ==
    /\ IsFiniteSet(HashSet)
    /\ Absent \notin HashSet /\ Torn \notin HashSet
    /\ \A a \in Assets : a.kind \in {"image", "versioned", "shared"}
    /\ \A r \in Requests : \A e \in Range(r.entries) :
           /\ e.assets \in Seq(Assets) \ {<<>>}
           /\ \A j \in DOMAIN e.assets :
                  /\ e.assets[j].kind = "image" <=> j = 1
                  /\ e.assets[j].version = e.version
           /\ e.version \notin {"", "shared"}

ASSUME RequestAssumption ==
    \A r \in Requests :
        /\ r.entries \in Seq(Entries)
        /\ \A i, j \in DOMAIN r.entries :
               ConfIn(r, r.entries[i]) = ConfIn(r, r.entries[j]) => i = j
        /\ \A e \in Range(r.entries) : \A a \in Range(e.assets) :
               EffectiveIn(r, e).kind # "legacy" =>
                   (a.kind = "image" <=> a.file = "vmlinuz")
        /\ \A e, f \in Range(r.entries) : \A a \in Range(e.assets), b \in Range(f.assets) :
               /\ EffectiveIn(r, e).kind = "legacy"
               /\ EffectiveIn(r, f).kind = "legacy"
               /\ InstalledPath(EffectiveIn(r, e), a, NoSuffix)
                      = InstalledPath(EffectiveIn(r, f), b, NoSuffix)
               => a.hash = b.hash
        /\ r.schema.kind = "legacy" =>
               \A e \in Range(r.entries) :
                   EffectiveIn(r, e).kind # "legacy" =>
                       EffectiveIn(r, e).id # r.schema.ns

\* Directories and name endings keep the kinds of files apart.
ASSUME PathAssumption ==
    /\ ConfPaths \cap KernelPaths = {}
    /\ OtherConfs \cap Confs = {}
    /\ OtherFiles \cap (Dest \cup Temps) = {}
    /\ Dest \cap Temps = {}

\* What stands for no file, for half a file and for no request is no data.
ASSUME SentinelAssumption ==
    NoRequest \notin Requests /\ Absent \notin Text /\ Torn \notin Text

ASSUME DiskAssumption ==
    /\ InitialDisk \in [Path -> Content]
    /\ \A p \in Dest : InitialDisk[p] # Torn

-----------------------------------------------------------------------------
(* sync_entries: hashing and from_entries.                                 *)

Effective(entry) == EffectiveIn(req, entry)
Entry == req.entries[cur]

Forget ==
    /\ req' = NoRequest
    /\ cur' = 1
    /\ pos' = 1
    /\ collisions' = [k \in Keys |-> <<>>]
    /\ stale' = NoStale
    /\ undeleted' = {}

Begin(r) ==
    /\ pc \in {"idle", "done"}
    /\ pc' = "hash"
    /\ req' = r
    /\ cur' = 1
    /\ pos' = 1
    /\ collisions' = [k \in Keys |-> <<>>]
    /\ stale' = NoStale
    /\ undeleted' = {}
    /\ ResetCopies
    /\ UNCHANGED <<disk, outcomes, unflushed>>

HashAsset ==
    /\ pc = "hash"
    /\ cur <= Len(req.entries)
    /\ collisions' = Insert(collisions, Entry.assets[pos])
    /\ IF pos < Len(Entry.assets)
       THEN pos' = pos + 1 /\ cur' = cur
       ELSE pos' = 1 /\ cur' = cur + 1
    /\ UNCHANGED <<vfatVars, pc, req, stale, undeleted>>

HashDone ==
    /\ pc = "hash"
    /\ cur > Len(req.entries)
    /\ pc' = "install"
    /\ cur' = 1
    /\ UNCHANGED <<vfatVars, req, pos, collisions, stale, undeleted>>

-----------------------------------------------------------------------------
(* install.                                                                *)

AssetPath(entry, asset) ==
    InstalledPath(Effective(entry), asset, ConflictIndex(collisions, asset))

ChangesetOf(entry) ==
    [j \in DOMAIN entry.assets |-> [data |-> entry.assets[j].hash,
                                    dest |-> AssetPath(entry, entry.assets[j])]]

TextOf(entry) == [j \in DOMAIN entry.assets |-> AssetPath(entry, entry.assets[j])]

ConfOf(entry) == ConfIn(req, entry)

Install ==
    /\ pc = "install"
    /\ cur <= Len(req.entries)
    /\ pc' = "copy"
    /\ StartCopies(ChangesetOf(Entry))
    /\ UNCHANGED <<req, cur, pos, collisions, stale, undeleted>>

CopyChanged ==
    /\ pc = "copy"
    /\ Copy
    /\ UNCHANGED <<pc, req, cur, pos, collisions, stale, undeleted>>

\* fs::write truncates and rewrites the conf in place; nothing syncs it.
WriteConf ==
    /\ pc = "copy"
    /\ pending = {}
    /\ Put(ConfOf(Entry), TextOf(Entry))
    /\ ResetCopies
    /\ pc' = "install"
    /\ cur' = cur + 1
    /\ UNCHANGED <<unflushed, req, pos, collisions, stale, undeleted>>

-----------------------------------------------------------------------------
(* cleanup_stale_entries.                                                  *)

Namespaces(schema) ==
    IF schema.kind = "osinfo" THEN schema.former \cup {schema.id}
                              ELSE {OsNamespace(schema)}

Prefixes(schema) ==
    IF schema.kind = "osinfo" THEN schema.former \cup {schema.id}
                              ELSE {EntryOs(schema)}

\* The InstallResult of every entry: its conf, the directory of its kernel
\* and the files it uses.
InstalledConfs == {ConfOf(e) : e \in Range(req.entries)}
InstalledDirs  == {[ns |-> TextOf(e)[1].ns, dir |-> TextOf(e)[1].dir]
                       : e \in Range(req.entries)}
InstalledFiles == UNION {Range(TextOf(e)) : e \in Range(req.entries)}

\* Mutant: every conf on the partition is taken for one of this system.
AllLoaderFiles == {p \in ConfPaths : disk[p] # Absent}

LoaderFiles ==
    {p \in ConfPaths : /\ disk[p] # Absent
                       /\ \E prefix \in Prefixes(req.schema) :
                              StartsWith(p.os, prefix)}

In(p, d) == p.ns = d.ns /\ p.dir = d.dir

FilesBelow(d) == {p \in KernelPaths : In(p, d) /\ disk[p] # Absent}

\* Mutant: former identities are forgotten.
CurrentKernelDirs ==
    {d \in Dirs : /\ d.ns = OsNamespace(req.schema)
                  /\ d.dir # ""
                  /\ FilesBelow(d) # {}}

\* Only the subdirectories of a namespace: a file directly in it is not seen.
KernelDirs ==
    {d \in Dirs : /\ d.ns \in Namespaces(req.schema)
                  /\ d.dir # ""
                  /\ FilesBelow(d) # {}}

\* Mutant: a directory that holds no image is obsolete, "shared" included.
UnusedKernels == KernelDirs \ InstalledDirs

ObsoleteKernels ==
    {d \in KernelDirs : /\ ~(d.dir = "shared" /\ req.schema.kind # "legacy")
                        /\ d \notin InstalledDirs}

\* Mutant: the files of the trees that go anyway, instead of the others.
FilesOfTrees == (UNION {FilesBelow(d) : d \in ObsoleteKernels}) \ InstalledFiles

ObsoleteFiles ==
    (UNION {FilesBelow(d) : d \in KernelDirs \ ObsoleteKernels}) \ InstalledFiles

\* Mutant: cleanup starts before the last entry is installed.
ScanBeforeLast ==
    /\ pc = "install"
    /\ cur >= Len(req.entries)
    /\ pc' = "clean"
    /\ stale' = [confs |-> LoaderFiles \ InstalledConfs,
                 trees |-> ObsoleteKernels,
                 files |-> ObsoleteFiles]
    /\ UNCHANGED <<vfatVars, req, cur, pos, collisions, undeleted>>

Scan ==
    /\ pc = "install"
    /\ cur > Len(req.entries)
    /\ pc' = "clean"
    /\ stale' = [confs |-> LoaderFiles \ InstalledConfs,
                 trees |-> ObsoleteKernels,
                 files |-> ObsoleteFiles]
    /\ UNCHANGED <<vfatVars, req, cur, pos, collisions, undeleted>>

\* A removal that fails is logged, and cleanup goes on.
RemoveConf ==
    /\ pc = "clean"
    /\ \E p \in stale.confs :
        /\ stale' = [stale EXCEPT !.confs = @ \ {p}]
        /\ \/ Unlink({p}) /\ undeleted' = undeleted
           \/ undeleted' = undeleted \cup {p} /\ UNCHANGED <<disk, outcomes>>
    /\ UNCHANGED <<changeset, pending, step, unflushed, pc, req, cur, pos, collisions>>

\* remove_dir_all stops at its first error, with some of the files gone.
RemoveTree ==
    /\ pc = "clean"
    /\ stale.confs = {}
    /\ \E d \in stale.trees : \E gone \in SUBSET FilesBelow(d) :
        /\ stale' = [stale EXCEPT !.trees = @ \ {d}]
        /\ Unlink(gone)
        /\ undeleted' = undeleted \cup (FilesBelow(d) \ gone)
    /\ UNCHANGED <<changeset, pending, step, unflushed, pc, req, cur, pos, collisions>>

RemoveFile ==
    /\ pc = "clean"
    /\ stale.confs = {}
    /\ stale.trees = {}
    /\ \E p \in stale.files :
        /\ stale' = [stale EXCEPT !.files = @ \ {p}]
        /\ \/ Unlink({p}) /\ undeleted' = undeleted
           \/ undeleted' = undeleted \cup {p} /\ UNCHANGED <<disk, outcomes>>
    /\ UNCHANGED <<changeset, pending, step, unflushed, pc, req, cur, pos, collisions>>

CleanDone ==
    /\ pc = "clean"
    /\ stale = NoStale
    /\ pc' = "done"
    /\ UNCHANGED <<vfatVars, req, cur, pos, collisions, stale, undeleted>>

-----------------------------------------------------------------------------
(* Failures.                                                               *)

\* An asset that cannot be hashed, a copy or a conf whose write fails part
\* of the way, any other error, or a kill: the call ends, what it did stays.
Stop ==
    /\ pc \notin {"idle", "done", "down"}
    /\ pc' = "idle"
    /\ Forget
    /\ \/ CopyStops
       \/ pc = "copy" /\ CopyWriteFails
       \/ /\ pc = "copy"
          /\ pending = {}
          /\ Put(ConfOf(Entry), Torn)
          /\ ResetCopies
          /\ UNCHANGED unflushed

\* The power fails; what the medium holds is settled path by path.
Crash ==
    /\ pc # "down"
    /\ pc' = "down"
    /\ Forget
    /\ ResetCopies
    /\ unflushed' = FALSE
    /\ UNCHANGED <<disk, outcomes>>

Recover ==
    /\ pc = "down"
    /\ \/ Settle /\ pc' = pc
       \/ Dirty = {} /\ pc' = "idle" /\ UNCHANGED vfatVars
    /\ UNCHANGED <<req, cur, pos, collisions, stale, undeleted>>

-----------------------------------------------------------------------------
Init ==
    /\ disk = InitialDisk
    /\ outcomes = [p \in Path |-> {InitialDisk[p]}]
    /\ changeset = <<>>
    /\ pending = {}
    /\ step = "write"
    /\ unflushed = FALSE
    /\ pc = "idle"
    /\ req = NoRequest
    /\ cur = 1
    /\ pos = 1
    /\ collisions = [k \in Keys |-> <<>>]
    /\ stale = NoStale
    /\ undeleted = {}

Next ==
    \/ \E r \in Requests : Begin(r)
    \/ HashAsset \/ HashDone \/ Install \/ CopyChanged \/ WriteConf
    \/ Scan \/ RemoveConf \/ RemoveTree \/ RemoveFile \/ CleanDone
    \/ Stop \/ Crash \/ Recover

Spec == Init /\ [][Next]_vars
-----------------------------------------------------------------------------
(* Properties.                                                             *)

TypeOK ==
    /\ disk \in [Path -> Content]
    /\ outcomes \in [Path -> SUBSET Content]
    /\ \A p \in Path : disk[p] \in outcomes[p]
    /\ changeset \in Seq([data : HashSet, dest : Dest])
    /\ pending \subseteq DOMAIN changeset
    /\ step \in Step
    /\ unflushed \in BOOLEAN
    /\ pc \in {"idle", "hash", "install", "copy", "clean", "done", "down"}
    /\ req \in Requests \cup {NoRequest}
    /\ cur \in Nat \ {0}
    /\ pos \in Nat \ {0}
    /\ collisions \in [Keys -> Seq(HashSet)]
    /\ \A k \in Keys : collisions[k] \in Seq(HashesOf(k))
    /\ stale \in [confs : SUBSET ConfPaths, trees : SUBSET Dirs, files : SUBSET KernelPaths]
    /\ undeleted \subseteq Path

(***************************************************************************)
(* "To prevent various block corruption issues with vfat" (file_utils.rs   *)
(* 94): at no instant can a power failure leave a torn kernel or initrd    *)
(* under the name a conf uses, whatever interrupted the copy, the copies   *)
(* before it, and the staging files those left.                            *)
(***************************************************************************)
AssetsNeverTorn == \A p \in Dest : Torn \notin outcomes[p]

\* The entries that this call has installed so far.
InstalledEntries ==
    IF pc \in {"install", "copy", "clean", "done"}
    THEN {req.entries[i] : i \in 1..(cur - 1)}
    ELSE {}

(***************************************************************************)
(* What install wrote for an entry is still there, and still what its conf *)
(* names, after every later entry of the request was installed and after   *)
(* the cleanup: conflict indices keep the entries of one request from      *)
(* "overwriting eachother" (mod.rs 509), staging files hit no asset, and   *)
(* cleanup recognises every file in use.                                   *)
(***************************************************************************)
InstalledIntact ==
    \A e \in InstalledEntries :
        /\ disk[ConfOf(e)] = TextOf(e)
        /\ \A j \in DOMAIN e.assets : disk[TextOf(e)[j]] = e.assets[j].hash

(***************************************************************************)
(* The kernel and the initrds of an installed entry are on the medium, not *)
(* just in the page cache, before its conf is written and from then on: no *)
(* power failure shows the new conf without its files.  Excepted is a file *)
(* that an earlier program renamed into place without reaching the last    *)
(* syncfs: changed_files finds it identical and nothing syncs it again.    *)
(***************************************************************************)
AssetsDurable ==
    \A e \in InstalledEntries : \A j \in DOMAIN e.assets :
        unflushed \/ outcomes[TextOf(e)[j]] = {e.assets[j].hash}

OursConf(p) == \E prefix \in Prefixes(req.schema) : StartsWith(p.os, prefix)
OursFile(p) == p.ns \in Namespaces(req.schema) /\ p.dir # ""

(***************************************************************************)
(* "Synchronise $BOOT state with the source intent" (README.md): a call    *)
(* that completes leaves, of what bears the names of this system, exactly  *)
(* the confs and files of the request and those whose removal was logged   *)
(* as failed -- also what killed or crashed calls left half done, staging  *)
(* files included.                                                         *)
(***************************************************************************)
Mirrored ==
    pc = "done" =>
        /\ \A p \in ConfPaths :
               OursConf(p) /\ disk[p] # Absent => p \in InstalledConfs \cup undeleted
        /\ \A p \in KernelPaths :
               OursFile(p) /\ disk[p] # Absent => p \in InstalledFiles \cup undeleted

(***************************************************************************)
(* Both distributions of a dual-boot machine keep working (README.md): no  *)
(* step puts a file of another system at risk.                             *)
(***************************************************************************)
OthersKept ==
    \A p \in OtherConfs \cup OtherFiles : outcomes[p] = {InitialDisk[p]}

(***************************************************************************)
(* It holds for systems that are told apart by their names, and not for    *)
(* others (DualBoot).  The conf of another system does not begin like one  *)
(* of ours, and its files are in no subdirectory of a namespace of ours.   *)
(***************************************************************************)
ApartFrom(kept) ==
    \A r \in Requests :
        /\ \A p \in kept \cap OtherConfs :
               \A prefix \in Prefixes(r.schema) : ~StartsWith(p.os, prefix)
        /\ \A p \in kept \cap OtherFiles : p.ns \in Namespaces(r.schema) => p.dir = ""

Apart == ApartFrom(OtherConfs \cup OtherFiles)

(***************************************************************************)
(* While a request is served, and whatever a power failure leaves, the     *)
(* conf of an entry that the request keeps never names a kernel or initrd  *)
(* of another entry's content: conflicts are "all installed instead of     *)
(* overwriting eachother" (mod.rs 508) across calls, too.                  *)
(***************************************************************************)
NeverMixed ==
    req # NoRequest =>
        \A e \in Range(req.entries) : \A text \in outcomes[ConfOf(e)] \cap Text :
            \A j \in DOMAIN e.assets :
                outcomes[text[j]] \subseteq {e.assets[j].hash, Absent}
=============================================================================
