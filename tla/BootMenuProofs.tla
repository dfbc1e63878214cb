--------------------------- MODULE BootMenuProofs ---------------------------
(***************************************************************************)
(* BootMenu allows no step that breaks its promise.                        *)
(***************************************************************************)
EXTENDS BootMenu, TLAPS

Installed == /\ kept \subseteq Confs /\ DOMAIN current \subseteq kept
             /\ DOMAIN menu = Confs

PromiseInv == Installed /\ Promised

LEMMA PromiseInit ==
    ASSUME Init
    PROVE  PromiseInv
BY DEF Init, PromiseInv, Installed, Promised

\* A conf whose items are old ones, or show the installed text as whole or not
\* at all, keeps its promise.
LEMMA StatesGrow ==
    ASSUME NEW c, current'[c] = current[c],
           \A v \in menu'[c] \ menu[c] :
               v \in {None, Garbled} \/ v[2] # current[c] \/ v[1] = "whole"
    PROVE  StatesOf(menu'[c], current'[c])
              \subseteq StatesOf(menu[c], current[c]) \cup {"whole"}
BY DEF StatesOf, None, Garbled

LEMMA PromiseStep ==
    ASSUME PromiseInv, [Next]_menuVars
    PROVE  PromiseInv'
<1>1. /\ kept \subseteq Confs /\ DOMAIN current \subseteq kept /\ DOMAIN menu = Confs
      /\ \A c \in DOMAIN current :
             StatesOf(menu[c], current[c]) \subseteq {"whole"} \cup (IF doubt THEN {"missing"} ELSE {})
    BY DEF PromiseInv, Installed, Promised
<1>2. CASE Ask \/ Abandon \/ Cut
    <2>1. DOMAIN current' = {} /\ kept' \subseteq Confs
        BY <1>2 DEF Ask, Abandon, Cut
    <2>2. DOMAIN menu' = Confs
        BY <1>1, <1>2 DEF Ask, Abandon, Cut
    <2> QED
        BY <2>1, <2>2 DEF PromiseInv, Installed, Promised
<1>3. CASE Prepare
    <2>1. DOMAIN menu' = Confs /\ kept' = kept /\ current' = current
        BY <1>3 DEF Prepare
    <2>2. ASSUME NEW c \in DOMAIN current
          PROVE  StatesOf(menu'[c], current'[c])
              \subseteq StatesOf(menu[c], current[c]) \cup {"whole"}
        <3>1. \A v \in menu'[c] \ menu[c] : v[2] # current[c] \/ v[1] = "whole"
            BY <1>1, <1>3 DEF Prepare
        <3> QED
            BY <2>1, <3>1, StatesGrow
    <2>3. doubt' = doubt \/ \A c \in DOMAIN current : StatesOf(menu'[c], current'[c]) \subseteq {"whole"}
        BY <1>3 DEF Prepare
    <2> QED
        BY <1>1, <2>1, <2>2, <2>3 DEF PromiseInv, Installed, Promised
<1>4. CASE \E c \in Confs : Publish(c)
    <2>1. PICK c \in Confs : Publish(c)
        BY <1>4
    <2>2. /\ c \in kept /\ kept' = kept /\ doubt' = doubt /\ DOMAIN menu' = Confs
          /\ DOMAIN current' = DOMAIN current \cup {c}
          /\ c \notin DOMAIN current
          /\ \A d \in DOMAIN current : current'[d] = current[d] /\ menu'[d] = menu[d]
        BY <1>1, <2>1 DEF Publish, Waiting
    <2>3. StatesOf(menu'[c], current'[c]) \subseteq {"whole"} \cup (IF doubt THEN {"missing"} ELSE {})
        BY <2>1 DEF Publish
    <2>4. ASSUME NEW d \in DOMAIN current
          PROVE  StatesOf(menu'[d], current'[d]) \subseteq StatesOf(menu[d], current[d]) \cup {"whole"}
        BY <2>2, StatesGrow
    <2> QED
        BY <1>1, <2>2, <2>3, <2>4 DEF PromiseInv, Installed, Promised
<1>5. CASE Retire
    <2>1. DOMAIN menu' = Confs /\ kept' = kept /\ current' = current /\ doubt' = doubt
        BY <1>5 DEF Retire
    <2>2. ASSUME NEW c \in DOMAIN current
          PROVE  StatesOf(menu'[c], current'[c])
              \subseteq StatesOf(menu[c], current[c]) \cup {"whole"}
        <3>1. \A v \in menu'[c] \ menu[c] : v[2] # current[c]
            BY <1>1, <1>5 DEF Retire
        <3> QED
            BY <2>1, <3>1, StatesGrow
    <2> QED
        BY <1>1, <2>1, <2>2 DEF PromiseInv, Installed, Promised
<1>6. CASE Settle
    <2>1. DOMAIN menu' = Confs /\ kept' = kept /\ current' = current /\ doubt' = doubt
        BY <1>6 DEF Settle
    <2>2. ASSUME NEW c \in DOMAIN current
          PROVE  StatesOf(menu'[c], current'[c])
              \subseteq StatesOf(menu[c], current[c]) \cup {"whole"}
        <3>1. menu'[c] \ menu[c] = {}
            BY <1>1, <1>6 DEF Settle
        <3> QED
            BY <2>1, <3>1, StatesGrow
    <2> QED
        BY <1>1, <2>1, <2>2 DEF PromiseInv, Installed, Promised
<1>7. CASE UNCHANGED menuVars
    BY <1>7 DEF menuVars, PromiseInv, Installed, Promised, StatesOf
<1> QED
    BY <1>2, <1>3, <1>4, <1>5, <1>6, <1>7 DEF Next

(***************************************************************************)
(* The promise holds in every behaviour that BootMenu allows, and so, with *)
(* Refines of EntryMenuProofs, in every behaviour of sync_entries for such *)
(* requests.                                                               *)
(***************************************************************************)
THEOREM PromiseKept == Spec => []Promised
<1>1. Init => PromiseInv
    BY PromiseInit
<1>2. PromiseInv /\ [Next]_menuVars => PromiseInv'
    BY PromiseStep
<1>3. PromiseInv => Promised
    BY DEF PromiseInv
<1> QED
    BY <1>1, <1>2, <1>3, PTL DEF Spec
=============================================================================
