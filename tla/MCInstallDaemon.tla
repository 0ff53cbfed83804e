-------------------------- MODULE MCInstallDaemon --------------------------
(* Two installs and one disk: the second request may come while the first
   runs, after it failed, or after a restart. *)
EXTENDS InstallDaemon, TLC

CONSTANTS r1, r2, sda

MCRequests == {r1, r2}
MCDisks == {sda}
MCModes == {"install", "disko"}
=============================================================================
