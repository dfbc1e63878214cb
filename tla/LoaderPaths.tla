----------------------------- MODULE LoaderPaths ----------------------------
(***************************************************************************)
(* Where Loader::sync puts systemd-boot and its configuration.  Paths are  *)
(* those of AssetNames, here relative to the ESP.                          *)
(***************************************************************************)
EXTENDS VfatCopy

LoaderFile(ns, file) == [ns |-> ns, dir |-> "", file |-> file, suffix |-> NoSuffix]

Fallback   == LoaderFile("EFI/Boot", "BOOTX64.EFI")
Systemd    == LoaderFile("EFI/systemd", "systemd-bootx64.efi")
LoaderConf == LoaderFile("loader", "loader.conf")

Binaries    == {Fallback, Systemd}
OnEsp == Binaries \cup {Staging(p) : p \in Binaries} \cup {LoaderConf}
=============================================================================
