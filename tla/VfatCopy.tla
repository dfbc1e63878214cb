------------------------------ MODULE VfatCopy ------------------------------
(***************************************************************************)
(* How blsforme changes files on the boot partition, and what a power      *)
(* failure may leave of them (file_utils.rs).                              *)
(*                                                                         *)
(* A boot partition is a vfat file system: nothing reaches the medium in   *)
(* any promised order until syncfs returns.  `disk' is what the running    *)
(* system sees; `outcomes' is, for every path, the set of contents that    *)
(* may be found there if the power fails now.  Paths are independent: a    *)
(* crash takes one outcome of each.                                        *)
(*                                                                         *)
(* The module has the primitive file operations, the comparison            *)
(* changed_files and the steps of copy_atomic_vfat.  A module that EXTENDS *)
(* it decides when a batch of copies starts (StartCopies) and composes the *)
(* steps with its own variables.                                           *)
(***************************************************************************)
EXTENDS Integers, Sequences

CONSTANTS
    Absent,   \* the content of a path at which there is no file
    Torn,     \* a file written in part: empty, truncated, or stale blocks
    Stem(_)   \* a file name without its last extension

ASSUME ContentAssumption == Absent # Torn

VARIABLES
    disk,       \* path -> content, as the running system sees it
    outcomes,   \* path -> contents a power failure may leave there
    changeset,  \* the sequence of (data, dest) pairs of the current batch
    pending,    \* indices of `changeset' that still have to be copied
    step,       \* where copy_atomic_vfat is, for the first pending index
    unflushed   \* history: a program stopped between its rename and the
                \* syncfs that follows it, and nothing was synced since

vfatVars == <<disk, outcomes, changeset, pending, step, unflushed>>

Step == {"write", "flush", "remove", "flushRemove", "rename", "flushRename"}

(***************************************************************************)
(* File names.  A file name is a name and a numeric suffix ("vmlinuz.0"),  *)
(* and the suffix is what Path::with_extension replaces when there is one. *)
(***************************************************************************)
NoSuffix == -1
TmpWrite == -2

Staging(p) ==
    [p EXCEPT !.file   = IF p.suffix = NoSuffix THEN Stem(p.file) ELSE p.file,
              !.suffix = TmpWrite]

-----------------------------------------------------------------------------
(* The file system.                                                        *)

\* A write that succeeds: until a sync it may be found missing, whole or torn.
Put(p, content) ==
    /\ disk' = [disk EXCEPT ![p] = content]
    /\ outcomes' = [outcomes EXCEPT ![p] = @ \cup {content, Torn}]

Unlink(gone) ==
    /\ disk' = [p \in DOMAIN disk |-> IF p \in gone THEN Absent ELSE disk[p]]
    /\ outcomes' = [p \in DOMAIN outcomes |->
                        IF p \in gone THEN outcomes[p] \cup {Absent}
                                      ELSE outcomes[p]]

Rename(from, to) ==
    /\ disk' = [disk EXCEPT ![to] = disk[from], ![from] = Absent]
    /\ outcomes' = [outcomes EXCEPT ![to]   = @ \cup outcomes[from],
                                    ![from] = @ \cup {Absent}]

Syncfs ==
    /\ outcomes' = [p \in DOMAIN disk |-> {disk[p]}]
    /\ unflushed' = FALSE
    /\ UNCHANGED disk

\* Paths whose content a power failure may change.
Dirty == {p \in DOMAIN disk : outcomes[p] # {disk[p]}}

\* After a power failure, one dirty path at a time takes one of its outcomes.
Settle ==
    /\ Dirty # {}
    /\ LET p == CHOOSE q \in Dirty : TRUE
       IN  \E content \in outcomes[p] :
             /\ disk' = [disk EXCEPT ![p] = content]
             /\ outcomes' = [outcomes EXCEPT ![p] = {content}]
    /\ UNCHANGED <<changeset, pending, step, unflushed>>

-----------------------------------------------------------------------------
(* changed_files and copy_atomic_vfat.                                     *)

\* Mutant: a file that exists is taken for identical.
ChangedIfMissing(targets) == {i \in DOMAIN targets : disk[targets[i].dest] = Absent}

\* An absent destination is an error of files_identical, hence "changed".
Changed(targets) ==
    {i \in DOMAIN targets : disk[targets[i].dest] # targets[i].data}

\* The whole batch is compared before its first copy.
StartCopies(targets) ==
    /\ changeset' = targets
    /\ pending' = Changed(targets)
    /\ step' = "write"
    /\ UNCHANGED <<disk, outcomes, unflushed>>

\* Mutant: what an interrupted batch had left to copy outlives it.
ResetKeepsPending == changeset' = <<>> /\ pending' = pending /\ step' = "write"

ResetCopies ==
    /\ changeset' = <<>>
    /\ pending' = {}
    /\ step' = "write"

IsNext(i) == i \in pending /\ \A j \in pending : i <= j

CopyWrite(i) ==
    /\ step = "write"
    /\ Put(Staging(changeset[i].dest), changeset[i].data)
    /\ step' = "flush"
    /\ UNCHANGED <<changeset, pending, unflushed>>

\* Mutant: the staging file is not synced before it replaces the destination.
CopyUnflushed(i) ==
    /\ step = "flush"
    /\ step' = IF disk[changeset[i].dest] = Absent THEN "rename" ELSE "remove"
    /\ UNCHANGED <<disk, outcomes, unflushed, changeset, pending>>

\* dest_exists is read before the write; no step in between changes dest.
CopyFlush(i) ==
    /\ step = "flush"
    /\ Syncfs
    /\ step' = IF disk[changeset[i].dest] = Absent THEN "rename" ELSE "remove"
    /\ UNCHANGED <<changeset, pending>>

CopyRemove(i) ==
    /\ step = "remove"
    /\ Unlink({changeset[i].dest})
    /\ step' = "flushRemove"
    /\ UNCHANGED <<changeset, pending, unflushed>>

CopyFlushRemove(i) ==
    /\ step = "flushRemove"
    /\ Syncfs
    /\ step' = "rename"
    /\ UNCHANGED <<changeset, pending>>

CopyRename(i) ==
    /\ step = "rename"
    /\ Rename(Staging(changeset[i].dest), changeset[i].dest)
    /\ step' = "flushRename"
    /\ UNCHANGED <<changeset, pending, unflushed>>

\* Mutant: no sync after the rename.
RenameUnflushed(i) ==
    /\ step = "flushRename"
    /\ pending' = pending \ {i}
    /\ step' = "write"
    /\ UNCHANGED <<disk, outcomes, unflushed, changeset>>

CopyFlushRename(i) ==
    /\ step = "flushRename"
    /\ Syncfs
    /\ pending' = pending \ {i}
    /\ step' = "write"
    /\ UNCHANGED changeset

Copy ==
    \E i \in pending :
        /\ IsNext(i)
        /\ \/ CopyWrite(i)       \/ CopyFlush(i)  \/ CopyRemove(i)
           \/ CopyFlushRemove(i) \/ CopyRename(i) \/ CopyFlushRename(i)

\* The staging file is opened with O_TRUNC before the source is opened and
\* read: a missing source, a full partition or a kill leaves it torn.
CopyWriteFails ==
    /\ step = "write"
    /\ \E i \in pending :
        /\ IsNext(i)
        /\ Put(Staging(changeset[i].dest), Torn)
    /\ ResetCopies
    /\ UNCHANGED unflushed

\* Any other error return of a copy, or a kill: the page cache stays as it is.
CopyStops ==
    /\ ResetCopies
    /\ unflushed' = (unflushed \/ step = "flushRename")
    /\ UNCHANGED <<disk, outcomes>>
=============================================================================
