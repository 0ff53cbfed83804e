------------------------- MODULE MCInstallExecutor -------------------------
(* Two installs of different or equal targets, one retried after the other,
   and two disks, so that a run can meet what another run or a dry-run left. *)
EXTENDS InstallExecutor, TLC

CONSTANTS p1, p2, sda, sdb

MCRequests == {p1, p2}
MCDisks == {sda, sdb}
MCModes == {"install", "disko", "format", "mount"}
=============================================================================
