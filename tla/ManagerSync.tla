----------------------------- MODULE ManagerSync ----------------------------
(***************************************************************************)
(* Manager::sync (manager.rs): Loader::sync and, when that succeeds,       *)
(* Loader::sync_entries, both on the ESP, called again and again by a      *)
(* package manager whose idea of what should be installed changes.  The    *)
(* partition has room for a limited number of kernels and initrds.         *)
(***************************************************************************)
EXTENDS EntrySync, LoaderPaths

CONSTANTS
    Goals,      \* what the OS may ship: [loader, request]
    NoAsset,
    Capacity,   \* how many kernels and initrds the partition has room for
    MaxChanges, \* bound: how often the goal changes
    MaxFaults   \* bound: how many errors, kills and power cuts there are

VARIABLES
    goal,       \* what the OS ships now
    phase,      \* where Manager::sync is
    loaderPc, shipped, namespace, unfinished, abandoned,  \* of LoaderSync
    crowded,    \* have other systems filled what is left of the partition?
    changes, faults

ASSUME GoalAssumption ==
    \A g \in Goals : g.loader \notin {Absent, Torn, NoAsset} /\ g.request \in Requests

Loader == INSTANCE LoaderSync WITH
              pc           <- loaderPc,
              Versions     <- {g.loader : g \in Goals},
              OsNamespaces <- {OsNamespace(g.request.schema) : g \in Goals}

\* The ESP is the partition of EntrySync, and systemd-boot on it comes from the
\* OS, too.
ASSUME EspAssumption ==
    LET versions == {g.loader : g \in Goals}
    IN  /\ OnEsp \subseteq OtherFiles
        /\ \A p \in OnEsp \ {LoaderConf} : InitialDisk[p] \in versions \cup {Absent, Torn}
        /\ versions \subseteq OtherContents
        /\ \A g \in Goals :
               Loader!DefaultPattern(OsNamespace(g.request.schema)) \in OtherContents

entryVars  == <<pc, req, cur, pos, collisions, stale, undeleted>>
loaderVars == <<loaderPc, shipped, namespace, unfinished, abandoned>>
syncVars   == <<vars, loaderVars, goal, phase, crowded, changes, faults>>

-----------------------------------------------------------------------------
Call ==
    /\ phase \in {"idle", "done"}
    /\ Loader!Begin(goal.loader, OsNamespace(goal.request.schema))
    /\ phase' = "loader"
    /\ UNCHANGED <<entryVars, goal, crowded, changes, faults>>

LoaderStep ==
    /\ phase = "loader"
    /\ Loader!CopyChanged \/ Loader!WriteLoaderConf
    /\ UNCHANGED <<entryVars, goal, phase, crowded, changes, faults>>

SyncEntriesAnyway ==
    /\ phase = "loader"
    /\ Begin(goal.request)
    /\ phase' = "entries"
    /\ UNCHANGED <<loaderVars, goal, crowded, changes, faults>>

SyncEntries ==
    /\ phase = "loader"
    /\ loaderPc = "done"
    /\ Begin(goal.request)
    /\ phase' = "entries"
    /\ UNCHANGED <<loaderVars, goal, crowded, changes, faults>>

-----------------------------------------------------------------------------
(* A partition with a limited size.  A torn file may have got all of its   *)
(* blocks; confs and the binaries of the loader are small.                 *)

Target == Staging(changeset[CHOOSE i \in pending : IsNext(i)].dest)

\* Opening the staging file truncates it.
Fits == Cardinality({p \in Dest \cup Temps : disk[p] # Absent} \ {Target}) < Capacity

NeedsRoom == pc = "copy" /\ pending # {} /\ step = "write"

EntryStep ==
    /\ phase = "entries"
    /\ NeedsRoom => Fits
    /\ \/ HashAsset \/ HashDone \/ Install \/ CopyChanged \/ WriteConf
       \/ Scan \/ RemoveConf \/ RemoveTree \/ RemoveFile \/ CleanDone
    /\ undeleted' = undeleted
    /\ UNCHANGED <<loaderVars, goal, phase, crowded, changes, faults>>

NoRoom ==
    /\ phase = "entries"
    /\ NeedsRoom
    /\ crowded \/ ~Fits
    /\ Stop
    /\ disk' = [disk EXCEPT ![Target] = Torn]
    /\ phase' = "idle"
    /\ UNCHANGED <<loaderVars, goal, crowded, changes, faults>>

Return ==
    /\ phase = "entries"
    /\ pc = "done"
    /\ phase' = "done"
    /\ UNCHANGED <<vars, loaderVars, goal, crowded, changes, faults>>

-----------------------------------------------------------------------------
(* The environment: what is shipped changes between calls; calls fail, are *)
(* killed, or lose a removal; the power fails.                             *)

Change ==
    /\ phase \in {"idle", "done"}
    /\ changes < MaxChanges
    /\ changes' = changes + 1
    /\ goal' \in Goals \ {goal}
    /\ UNCHANGED <<vars, loaderVars, phase, crowded, faults>>

Fail ==
    /\ phase' = "idle"
    /\ \/ phase = "loader" /\ Loader!Stop /\ UNCHANGED entryVars
       \/ phase = "entries" /\ Stop /\ UNCHANGED loaderVars

FailToRemove ==
    /\ phase = "entries"
    /\ RemoveConf \/ RemoveTree \/ RemoveFile
    /\ undeleted' # undeleted
    /\ UNCHANGED <<loaderVars, phase>>

PowerCut == Crash /\ Loader!Crash /\ phase' = "idle"

\* Another system on the partition takes the room that is left ...
FillUp == ~crowded /\ crowded' = TRUE /\ UNCHANGED <<vars, loaderVars, phase>>

Fault ==
    /\ faults < MaxFaults
    /\ faults' = faults + 1
    /\ \/ (Fail \/ FailToRemove \/ PowerCut) /\ crowded' = crowded
       \/ FillUp
    /\ UNCHANGED <<goal, changes>>

\* ... and gives it back.
MakeRoom ==
    /\ crowded
    /\ crowded' = FALSE
    /\ UNCHANGED <<vars, loaderVars, goal, phase, changes, faults>>

PowerOn == Recover /\ Loader!Recover /\ UNCHANGED <<goal, phase, crowded, changes, faults>>

-----------------------------------------------------------------------------
SyncInit ==
    /\ Init /\ Loader!Init
    /\ goal \in Goals
    /\ phase = "idle"
    /\ crowded = FALSE
    /\ changes = 0
    /\ faults = 0

\* What happens by itself as long as nothing interrupts it.
Program == Call \/ LoaderStep \/ SyncEntries \/ EntryStep \/ NoRoom \/ Return \/ PowerOn

SyncNext == Program \/ Change \/ Fault \/ MakeRoom

\* The package manager calls until the machine is turned off, an operation
\* that is not interrupted goes on, the power comes back, and so does the
\* room that another system took for a while.
Fairness == WF_syncVars(Program) /\ WF_syncVars(MakeRoom)

SyncSpec == SyncInit /\ [][SyncNext]_syncVars /\ Fairness
-----------------------------------------------------------------------------
(* Properties.                                                             *)

LoaderTypeOK   == Loader!TypeOK
LoaderSurvives == Loader!LoaderSurvives
LoaderCurrent  == Loader!LoaderCurrent

(***************************************************************************)
(* Manager::sync returns Ok (manager.rs 185) only when all that one call   *)
(* asked for is there at once, whatever earlier calls left and although    *)
(* both halves write to one partition: both copies of the loader, every    *)
(* entry of the request, its files on the medium (with the exception that  *)
(* AssetsDurable makes), and nothing else that bears our names.            *)
(***************************************************************************)
Complete ==
    phase = "done" =>
        /\ \E g \in Goals : g.loader = shipped /\ g.request = req
        /\ \A p \in Binaries : disk[p] = shipped
        /\ InstalledEntries = Range(req.entries)
        /\ InstalledIntact /\ AssetsDurable /\ Mirrored

Wanted == Range(goal.request.entries)

\* Nothing is installed but the goal.
Synced ==
    /\ \A b \in Binaries : disk[b] = goal.loader
    /\ {p \in Confs : disk[p] # Absent} = {ConfIn(goal.request, e) : e \in Wanted}
    /\ \A e \in Wanted :
           LET text == disk[ConfIn(goal.request, e)]
           IN  text \in Text /\ \A j \in DOMAIN e.assets : disk[text[j]] = e.assets[j].hash
    /\ \A p \in Dest \cup Temps : disk[p] # Absent =>
           \E e \in Wanted : p \in Range(disk[ConfIn(goal.request, e)])

(***************************************************************************)
(* "Synchronise $BOOT state with the source intent, i.e. mirroring         *)
(* /usr/lib/kernel to facilitate garbage collection" (README.md 9): once   *)
(* the goal and the faults have stopped, calling again and again brings    *)
(* the partition to hold exactly what is asked for, whatever earlier calls *)
(* and power cuts left on it, and then no call disturbs it any more.       *)
(***************************************************************************)
Converges == <>[]Synced
=============================================================================
