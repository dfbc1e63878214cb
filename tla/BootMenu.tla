------------------------------ MODULE BootMenu ------------------------------
(***************************************************************************)
(* What the owner of a machine finds after a power failure: the menu that  *)
(* the boot loader shows then.  It is the abstract specification that      *)
(* EntryMenu shows EntrySync to implement.                                 *)
(*                                                                         *)
(* For every conf, `menu' has what a power failure may leave of it: None,  *)
(* Garbled, or an item <<files, text>>, a whole conf with the state of the *)
(* files its text names: all as the entry wants them ("whole"), one of     *)
(* them "missing", or one of them something else ("wrong").  It says       *)
(*   - of a conf that the request keeps: no file of it becomes something   *)
(*     else, cleanup does not remove it, and from its writing to the end   *)
(*     of the call the files of its text stay whole;                       *)
(*   - of the others: they are removed, and may lose their files to        *)
(*     cleanup, only when every conf that the request keeps is written.    *)
(* It promises no entry that starts after a power failure.  A conf that is *)
(* written may be found Garbled until something is synced, which cleanup   *)
(* does not wait for, so in the end every conf may be torn that the        *)
(* request keeps, and the others gone.                                     *)
(***************************************************************************)
CONSTANT Confs

VARIABLES
    menu,     \* conf -> what a power failure may leave of it
    serving,  \* is a request being served?
    kept,     \* the confs it keeps
    current,  \* those of them it has installed, and the text of each
    doubt     \* a program ended between a rename and the sync after it

menuVars == <<menu, serving, kept, current, doubt>>

None == <<"none">>
Garbled == <<"torn">>

\* The items that conf c may turn into when its files change to `state'.
Variants(c, state) == {<<f, v[2]>> : f \in state, v \in menu[c] \ {None, Garbled}}

Waiting == kept \ DOMAIN current

\* How the files of a text may be found.
StatesOf(items, text) == {v[1] : v \in {w \in items \ {None, Garbled} : w[2] = text}}

-----------------------------------------------------------------------------
Ask ==
    /\ serving' = TRUE
    /\ kept' \subseteq Confs
    /\ current' = [c \in {} |-> {}]
    /\ UNCHANGED <<menu, doubt>>

\* Files are put in place for an entry that is not installed yet.  Doubt ends
\* with a sync, which leaves no more of it.
Prepare ==
    /\ Waiting # {}
    /\ DOMAIN menu' = Confs
    /\ \A c \in Confs :
           menu'[c] \ menu[c] \subseteq
               {v \in Variants(c, IF c \in kept THEN {"whole", "missing"}
                                           ELSE {"whole", "missing", "wrong"}) :
                    c \in DOMAIN current => v[2] # current[c] \/ v[1] = "whole"}
    /\ doubt' \in {doubt, FALSE}
    /\ doubt' # doubt => \A c \in DOMAIN current :
                             StatesOf(menu'[c], current[c]) \subseteq {"whole"}
    /\ UNCHANGED <<serving, kept, current>>

\* The conf is written in place, and not synced: until a later sync it may be
\* found torn, also where it was whole before.
Publish(c) ==
    /\ c \in Waiting
    /\ DOMAIN current' = DOMAIN current \cup {c}
    /\ \A d \in DOMAIN current : current'[d] = current[d]
    /\ \E more \in SUBSET {"missing"} :
           /\ more # {} => doubt
           /\ menu' = [menu EXCEPT ![c] =
                          @ \cup {Garbled} \cup {<<f, current'[c]>> : f \in {"whole"} \cup more}]
           /\ StatesOf(menu'[c], current'[c]) = {"whole"} \cup more
    /\ UNCHANGED <<serving, kept, doubt>>

\* What the request does not keep goes, and so do files that only an older
\* text of a kept conf names.
Retire ==
    /\ serving
    /\ Waiting = {}
    /\ DOMAIN menu' = Confs
    /\ \A c \in Confs :
           menu'[c] \ menu[c] \subseteq
               {v \in Variants(c, {"missing"}) : c \in kept => v[2] # current[c]}
               \cup (IF c \in kept THEN {} ELSE {None})
    /\ UNCHANGED <<serving, kept, current, doubt>>

\* A call ends before its time, by failure or by a kill; a conf may be half
\* written then.
Abandon ==
    /\ serving
    /\ serving' = FALSE
    /\ kept' = {}
    /\ current' = [c \in {} |-> {}]
    /\ \/ menu' = menu
       \/ \E c \in Waiting : menu' = [menu EXCEPT ![c] = @ \cup {Garbled}]
    /\ doubt' \in IF Waiting = {} THEN {doubt} ELSE BOOLEAN

\* The power fails.
Cut ==
    /\ serving' = FALSE
    /\ kept' = {}
    /\ current' = [c \in {} |-> {}]
    /\ doubt' = FALSE
    /\ UNCHANGED menu

\* What the medium holds becomes known.
Settle ==
    /\ ~serving
    /\ DOMAIN menu' = Confs
    /\ \A c \in Confs : menu'[c] # {} /\ menu'[c] \subseteq menu[c]
    /\ UNCHANGED <<serving, kept, current, doubt>>

Init ==
    /\ menu = [c \in Confs |-> {None}]
    /\ serving = FALSE
    /\ kept = {}
    /\ current = [c \in {} |-> {}]
    /\ doubt = FALSE

Next ==
    \/ Ask \/ Prepare
    \/ \E c \in Confs : Publish(c)
    \/ Retire \/ Abandon \/ Cut \/ Settle

Spec == Init /\ [][Next]_menuVars

(***************************************************************************)
(* What the owner counts on: from the moment a request has written a conf  *)
(* to the end of the call, wherever its text is found whole after a power  *)
(* failure the files it names are there, as the entry wants them.  Only    *)
(* one that an earlier program did not sync may be missing.                *)
(***************************************************************************)
Promised ==
    \A c \in DOMAIN current :
        StatesOf(menu[c], current[c])
            \subseteq {"whole"} \cup (IF doubt THEN {"missing"} ELSE {})
=============================================================================
