---------------------------- MODULE MCEntryMenu ----------------------------
(***************************************************************************)
(* Instances that meet what the theorems ask of the requests, of other     *)
(* systems and of the partition (OthersSafe, Refines, Unmixed, Lossless).  *)
(***************************************************************************)
EXTENDS MCEntrySync

ASSUME Premises ==
    /\ Apart
    /\ Steady
    /\ OneContent
    /\ EachOnce
    /\ Familiar
    /\ \A c \in Confs : InitialDisk[c] = Absent
=============================================================================
