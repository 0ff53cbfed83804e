------------------------------ MODULE MCDryRun ------------------------------
(* Two overlapping requests, and a third whose write may be left behind by a
   client that went away; a sound layout and a broken one. *)
EXTENDS DryRun, TLC

CONSTANTS q1, q2, q3, good, bad

MCRequests == {q1, q2, q3}
MCTwoRequests == {q1, q2}
MCTwoLayouts == {good, bad}
MCBroken == {bad}
MCModes == {"format", "dry-run", "install"}
MCFormat == {"format"}
=============================================================================
