---------------------------- MODULE MCInstallJob ----------------------------
(* Three requests: one that runs, one that is refused or waits meanwhile, one
   that comes after. *)
EXTENDS InstallJobRefinement, TLC

CONSTANTS r1, r2, r3

MCRequests == {r1, r2, r3}
MCTwoRequests == {r1, r2}
MCModes == {"dry-run", "install", "disko"}
MCInstallOnly == {"install"}
=============================================================================
