------------------------------ MODULE EntryMenu -----------------------------
(***************************************************************************)
(* EntrySync implements BootMenu: the menu is what the outcomes of a conf  *)
(* and of the files it names add up to.                                    *)
(***************************************************************************)
EXTENDS EntrySync

\* State IDs are unique: a conf stands for one entry, whatever the request.
EntryNamed ==
    [c \in Confs |-> CHOOSE e \in Entries :
                        \E r \in Requests : e \in Range(r.entries) /\ ConfIn(r, e) = c]

\* The states that a power failure may leave the files of a text in, if
\* they ought to hold the assets of entry e.
FilesOf(e, text) ==
    (IF \A j \in DOMAIN text : e.assets[j].hash \in outcomes[text[j]]
     THEN {"whole"} ELSE {})
    \cup (IF \E j \in DOMAIN text : Absent \in outcomes[text[j]]
          THEN {"missing"} ELSE {})
    \cup (IF \E j \in DOMAIN text : ~(outcomes[text[j]] \subseteq {e.assets[j].hash, Absent})
          THEN {"wrong"} ELSE {})

ItemsOf(c) ==
    UNION {{<<f, text>> : f \in FilesOf(EntryNamed[c], text)}
               : text \in outcomes[c] \ {Absent, Torn}}

MenuOf(c) ==
    (IF Absent \in outcomes[c] THEN {<<"none">>} ELSE {})
    \cup (IF Torn \in outcomes[c] THEN {<<"torn">>} ELSE {})
    \cup ItemsOf(c)

menuBar    == [c \in Confs |-> MenuOf(c)]
servingBar == req # NoRequest
keptBar    == IF req = NoRequest THEN {} ELSE InstalledConfs
currentBar == [c \in {ConfOf(e) : e \in InstalledEntries} |->
                  TextOf(CHOOSE e \in InstalledEntries : ConfOf(e) = c)]

Menu == INSTANCE BootMenu WITH
            menu    <- menuBar,
            serving <- servingBar,
            kept    <- keptBar,
            current <- currentBar,
            doubt   <- unflushed

(***************************************************************************)
(* Every step of EntrySync is one of BootMenu, or changes nothing of the   *)
(* menu: sync_entries copies the files of an entry, then writes its conf,  *)
(* and cleans up when all are written (mod.rs 145-150).  So the files that *)
(* a conf of the request names are never some other content, they are      *)
(* whole wherever the text just written is found after a power failure,    *)
(* and the running system sees every conf of the request before anything   *)
(* is removed.  That a conf is found after a power failure is not said:    *)
(* confs are rewritten in place and never synced.  It holds for requests   *)
(* that keep installed names (Steady), as those that keep older entries in *)
(* front of newer ones do; for others see NeverMixed.                      *)
(***************************************************************************)
ImplementsMenu == Menu!Spec

\* No power failure takes the entry away: the medium holds its conf, and the
\* files that the conf names.
Bootable(c) ==
    \E text \in outcomes[c] \cap Text :
        /\ outcomes[c] = {text}
        /\ \A j \in DOMAIN text : outcomes[text[j]] = {EntryNamed[c].assets[j].hash}

FilesInPlace(e) == \A j \in DOMAIN e.assets : disk[TextOf(e)[j]] = e.assets[j].hash

(***************************************************************************)
(* An entry that no power failure could take away is put at risk by two    *)
(* steps only: when its own conf is rewritten, its files being in place    *)
(* (mod.rs 367), and when cleanup removes it, as the request does not keep *)
(* it, and every entry that the request keeps has been written (mod.rs     *)
(* 150).  No copy for another entry, no failure, kill or power cut, and no *)
(* cleanup after those that were interrupted does.                         *)
(***************************************************************************)
NothingLost ==
    [][\A c \in Confs :
           Bootable(c) /\ ~Bootable(c)' =>
               \/ /\ pc = "copy" /\ c = ConfOf(Entry)
                  /\ FilesInPlace(Entry)
               \/ /\ pc = "clean" /\ c \notin InstalledConfs
                  /\ \A e \in Range(req.entries) :
                         FilesInPlace(e) /\ disk[ConfOf(e)] = TextOf(e)]_vars

-----------------------------------------------------------------------------
(* What the mapping asks of the requests, in terms of the names they give. *)

\* Asset j of entry i of request r has key k and content h.
IsAt(r, i, j, k, h) ==
    /\ KeyOf(r.entries[i].assets[j]) = k
    /\ r.entries[i].assets[j].hash = h

HashesIn(r, k) ==
    {h \in HashSet : \E i \in DOMAIN r.entries :
                         \E j \in DOMAIN r.entries[i].assets : IsAt(r, i, j, k, h)}

\* Content h of key k is first met in front of any g.
Before(r, k, h, g) ==
    \E i \in DOMAIN r.entries : \E j \in DOMAIN r.entries[i].assets :
        /\ IsAt(r, i, j, k, h)
        /\ \A m \in DOMAIN r.entries : \A n \in DOMAIN r.entries[m].assets :
               IsAt(r, m, n, k, g) => i < m \/ (i = m /\ j < n)

\* The conflict index, without the map that AssetCollisions builds.
IndexIn(r, asset) ==
    LET k == KeyOf(asset)
    IN  IF Cardinality(HashesIn(r, k)) > 1
        THEN Cardinality({h \in HashesIn(r, k) : Before(r, k, h, asset.hash)})
        ELSE NoSuffix

TextIn(r, e) ==
    [j \in DOMAIN e.assets |->
        InstalledPath(EffectiveIn(r, e), e.assets[j], IndexIn(r, e.assets[j]))]

\* A conf stands for the same contents whenever it is asked for, and a path
\* that a request puts into it is given to no other content by a request that
\* keeps it.
Steady ==
    \A r, s \in Requests : \A e \in Range(r.entries), f, g \in Range(s.entries) :
        ConfIn(r, e) = ConfIn(s, f) =>
            /\ DOMAIN e.assets = DOMAIN f.assets
            /\ \A j \in DOMAIN e.assets : e.assets[j].hash = f.assets[j].hash
            /\ \A j \in DOMAIN e.assets, i \in DOMAIN g.assets :
                   TextIn(r, e)[j] = TextIn(s, g)[i] => e.assets[j].hash = g.assets[i].hash

-----------------------------------------------------------------------------
(* What NeverMixed asks: Steady is not enough for it, since a request that *)
(* drops an entry may reuse its path, be stopped before its cleanup, and   *)
(* be followed by one that has the entry again.                            *)

\* A conf stands for the same contents, and a path for the same content,
\* whatever the request.
OneContent ==
    \A r, s \in Requests : \A e \in Range(r.entries), f \in Range(s.entries) :
        /\ ConfIn(r, e) = ConfIn(s, f) =>
               /\ DOMAIN e.assets = DOMAIN f.assets
               /\ \A j \in DOMAIN e.assets : e.assets[j].hash = f.assets[j].hash
        /\ \A j \in DOMAIN e.assets, i \in DOMAIN f.assets :
               TextIn(r, e)[j] = TextIn(s, f)[i] => e.assets[j].hash = f.assets[i].hash

\* No entry names a file twice.
EachOnce ==
    \A r \in Requests : \A e \in Range(r.entries) : \A i, j \in DOMAIN e.assets :
        TextIn(r, e)[i] = TextIn(r, e)[j] => i = j

\* The texts that requests give to a conf, and the contents they give to a path.
TextsFor(c) ==
    {t \in Text : \E r \in Requests : \E e \in Range(r.entries) :
                      ConfIn(r, e) = c /\ t = TextIn(r, e)}

Given(p) ==
    {h \in HashSet : \E r \in Requests : \E e \in Range(r.entries) : \E j \in DOMAIN e.assets :
                         TextIn(r, e)[j] = p /\ e.assets[j].hash = h}

\* The partition holds at first what such requests may have left.
Familiar ==
    /\ \A c \in Confs : InitialDisk[c] \in {Absent, Torn} \cup TextsFor(c)
    /\ \A p \in Dest : InitialDisk[p] \in {Absent} \cup Given(p)
=============================================================================
