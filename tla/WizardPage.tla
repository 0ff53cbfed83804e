------------------------------ MODULE WizardPage ------------------------------
(* What every page of the wizard is given (ui/src/WizardInstaller.jsx): the
   draft, the transient state, and updateWizard to change both with a patch. *)
EXTENDS WizardState

VARIABLES draft, ui

Change(patch) ==
    /\ draft' = Patched(draft, patch)
    /\ ui' = Patched(ui, patch)
=============================================================================
