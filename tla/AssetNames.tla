----------------------------- MODULE AssetNames -----------------------------
(***************************************************************************)
(* Where an asset (a kernel image or an initrd) is installed, and how two  *)
(* assets of one name but different content are told apart                 *)
(* (AssetKey, AssetCollisions and HashedAsset of systemd_boot/mod.rs, the  *)
(* naming functions of Schema in kernel.rs).                               *)
(*                                                                         *)
(* A schema is [kind, name, id, ns, former]: NAME and ID of os-release (or *)
(* the identity of os-info), the compile-time namespace of a legacy schema *)
(* and the former identities of an os-info one.                            *)
(* An asset is [kind, version, file, hash]; an installed path is           *)
(* [ns, dir, file, suffix], relative to $BOOT/EFI.                         *)
(***************************************************************************)
EXTENDS Integers, Sequences, VfatCopy

OsNamespace(schema) == IF schema.kind = "legacy" THEN schema.ns ELSE schema.id

\* The OS part of the name of an entry.
EntryOs(schema) == IF schema.kind = "legacy" THEN schema.name ELSE schema.id

-----------------------------------------------------------------------------
KeyOf(asset) ==
    [scope |-> IF asset.kind = "shared" THEN "shared" ELSE asset.version,
     file  |-> asset.file]

Hashes(c, k) == {c[k][i] : i \in DOMAIN c[k]}

\* AssetCollisions::insert
Insert(c, asset) ==
    LET k == KeyOf(asset)
    IN  IF asset.hash \in Hashes(c, k)
        THEN c
        ELSE [c EXCEPT ![k] = Append(@, asset.hash)]

Position(c, asset) ==
    CHOOSE i \in DOMAIN c[KeyOf(asset)] : c[KeyOf(asset)][i] = asset.hash

\* Mutant: off by one, two contents are no conflict yet.
ConflictAfterTwo(c, asset) ==
    IF Len(c[KeyOf(asset)]) > 2 THEN Position(c, asset) - 1 ELSE NoSuffix

\* Mutant: counted from the newest, an index moves when an entry is added.
IndexFromNewest(c, asset) ==
    IF Len(c[KeyOf(asset)]) > 1 THEN Len(c[KeyOf(asset)]) - Position(c, asset) ELSE NoSuffix

\* AssetCollisions::conflict_index; the code counts from 0.
ConflictIndex(c, asset) ==
    IF Len(c[KeyOf(asset)]) > 1 THEN Position(c, asset) - 1 ELSE NoSuffix

\* get_kernel_dir joined with HashedAsset::installed_name.  Legacy names sit
\* directly in the namespace directory and never carry a conflict index.
InstalledPath(schema, asset, index) ==
    IF schema.kind = "legacy"
    THEN [ns     |-> OsNamespace(schema),
          dir    |-> "",
          file   |-> IF asset.kind = "image" THEN "kernel-" \o asset.file
                                             ELSE asset.file,
          suffix |-> NoSuffix]
    ELSE [ns     |-> OsNamespace(schema),
          dir    |-> IF asset.kind = "shared" THEN "shared" ELSE asset.version,
          file   |-> IF asset.kind = "image" THEN "vmlinuz" ELSE asset.file,
          suffix |-> index]
=============================================================================
