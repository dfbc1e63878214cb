----------------------------- MODULE LoaderSync -----------------------------
(***************************************************************************)
(* Loader::sync (systemd_boot/mod.rs): bring the two copies of             *)
(* systemd-boot on the ESP up to date, then write loader.conf.             *)
(*                                                                         *)
(* The firmware starts one of the copies: while one is being replaced the  *)
(* machine depends on the other.  As in EntrySync the environment chooses  *)
(* what is asked for, fails any call, kills the program and cuts the       *)
(* power.  The machine has no XBOOTLDR partition: $BOOT is the ESP.        *)
(* ManagerSync runs it in front of EntrySync, on one partition.            *)
(***************************************************************************)
EXTENDS LoaderPaths

CONSTANTS
    Versions,     \* contents of systemd-bootx64.efi that the OS ships in turn
    OsNamespaces,   \* namespaces of the schemas a caller passes
    NoAsset,      \* the caller offers no bootloader asset, or there is no ESP
    InitialDisk

VARIABLES
    pc,         \* where sync is
    shipped,    \* the asset of the current call
    namespace,  \* the namespace of the current call
    unfinished, \* history: the asset of the last call, unless it completed and
                \* everything it found in place is on the medium
    abandoned   \* history: such a call was followed by one for another asset

vars == <<vfatVars, pc, shipped, namespace, unfinished, abandoned>>

-----------------------------------------------------------------------------
Targets(asset) == <<[data |-> asset, dest |-> Fallback], [data |-> asset, dest |-> Systemd]>>

\* default "<namespace>*"
DefaultPattern(ns) == [default |-> ns]

-----------------------------------------------------------------------------
(* Without an asset or an ESP the call fails before it touches a file.     *)
Begin(asset, ns) ==
    /\ pc \in {"idle", "done"}
    /\ pc' = "copy"
    /\ shipped' = asset
    /\ namespace' = ns
    /\ unfinished' = asset
    /\ abandoned' = (abandoned \/ unfinished \notin {NoAsset, asset})
    /\ StartCopies(Targets(asset))

\* Mutant: a rename that fails is logged, and the loop goes on.
CopyPastFailure ==
    /\ pc = "copy"
    /\ \/ Copy
       \/ /\ step = "rename"
          /\ \E i \in pending : IsNext(i) /\ pending' = pending \ {i}
          /\ step' = "write"
          /\ UNCHANGED <<disk, outcomes, changeset, unflushed>>
    /\ UNCHANGED <<pc, shipped, namespace, unfinished, abandoned>>

CopyChanged ==
    /\ pc = "copy"
    /\ Copy
    /\ UNCHANGED <<pc, shipped, namespace, unfinished, abandoned>>

\* fs::write in place, not synced: the last step of a call that completes.
WriteLoaderConf ==
    /\ pc = "copy"
    /\ pending = {}
    /\ Put(LoaderConf, DefaultPattern(namespace))
    /\ ResetCopies
    /\ pc' = "done"
    /\ unfinished' = IF unflushed THEN unfinished ELSE NoAsset
    /\ abandoned' = (abandoned /\ unflushed)
    /\ UNCHANGED <<unflushed, shipped, namespace>>

\* An error return, or a kill.
Stop ==
    /\ pc = "copy"
    /\ pc' = "idle"
    /\ \/ CopyStops
       \/ CopyWriteFails
       \/ /\ pending = {}
          /\ Put(LoaderConf, Torn)
          /\ ResetCopies
          /\ UNCHANGED unflushed
    /\ UNCHANGED <<shipped, namespace, unfinished, abandoned>>

Crash ==
    /\ pc # "down"
    /\ pc' = "down"
    /\ ResetCopies
    /\ unflushed' = FALSE
    /\ UNCHANGED <<disk, outcomes, shipped, namespace, unfinished, abandoned>>

Recover ==
    /\ pc = "down"
    /\ \/ Settle /\ pc' = pc
       \/ Dirty = {} /\ pc' = "idle" /\ UNCHANGED vfatVars
    /\ UNCHANGED <<shipped, namespace, unfinished, abandoned>>

Init ==
    /\ disk = InitialDisk
    /\ outcomes = [p \in DOMAIN InitialDisk |-> {InitialDisk[p]}]
    /\ changeset = <<>>
    /\ pending = {}
    /\ step = "write"
    /\ unflushed = FALSE
    /\ pc = "idle"
    /\ shipped = NoAsset
    /\ namespace \in OsNamespaces
    /\ unfinished = NoAsset
    /\ abandoned = FALSE

Next ==
    \/ \E asset \in Versions, ns \in OsNamespaces : Begin(asset, ns)
    \/ CopyChanged \/ WriteLoaderConf \/ Stop \/ Crash \/ Recover

Spec == Init /\ [][Next]_vars

-----------------------------------------------------------------------------
(* Properties.                                                             *)

TypeOK ==
    /\ OnEsp \subseteq DOMAIN disk /\ DOMAIN outcomes = DOMAIN disk
    /\ \A p \in OnEsp : disk[p] \in outcomes[p]
    /\ \A p \in OnEsp \ {LoaderConf} : outcomes[p] \subseteq Versions \cup {Absent, Torn}
    /\ pc = "copy" => changeset = Targets(shipped)
    /\ pending \subseteq DOMAIN changeset
    /\ step \in Step
    /\ unflushed \in BOOLEAN /\ abandoned \in BOOLEAN
    /\ pc \in {"idle", "copy", "done", "down"}
    /\ shipped \in Versions \cup {NoAsset}
    /\ namespace \in OsNamespaces
    /\ unfinished \in Versions \cup {NoAsset}

(***************************************************************************)
(* The machine stays bootable: starting from a partition with both copies, *)
(* whenever the power fails one of them is complete.  The fallback is      *)
(* replaced, and synced, before the other is touched, and a retry takes up *)
(* where the interrupted call was -- unless the OS ships yet another       *)
(* version before a call completes: a call interrupted in the second copy  *)
(* and one interrupted in the first leave none.  (A call that completes on *)
(* files an earlier one renamed and never synced does not count.)          *)
(***************************************************************************)
LoaderSurvives ==
    ~abandoned => \E p \in Binaries : outcomes[p] \subseteq Versions

(***************************************************************************)
(* A completed call leaves both copies at the shipped version, and on the  *)
(* medium (but for the file an earlier program renamed and did not sync),  *)
(* and loader.conf at the caller's namespace.                              *)
(***************************************************************************)
LoaderCurrent ==
    pc = "done" =>
        /\ \A p \in Binaries : /\ disk[p] = shipped
                               /\ unflushed \/ outcomes[p] = {shipped}
        /\ disk[LoaderConf] = DefaultPattern(namespace)
=============================================================================
