------------------------ MODULE InstallJobRefinement ------------------------
(***************************************************************************)
(* InstallJob implements InstallSlot: the slot is granted when the handler *)
(* reserves it and given back when the task writes its outcome; handlers,  *)
(* the state file and the history variables disappear.                     *)
(***************************************************************************)
EXTENDS InstallJob

CONSTANTS Nobody, Orphan

ASSUME SlotAssumption ==
    Nobody \notin Requests /\ Orphan \notin Requests /\ Nobody # Orphan

holderBar ==
    IF ~status.running THEN Nobody
    ELSE IF \E r \in Requests : Owner(r)
           THEN CHOOSE r \in Requests : Owner(r)
           ELSE Orphan

verdictBar ==
    [r \in Requests |->
       CASE Owner(r)                   -> "granted"
         [] job[r] = "finished_ok"     -> "succeeded"
         [] job[r] = "finished_err"    -> "failed"
         [] job[r] = "dead"            -> "abandoned"
         [] handler[r] \in {"new", "received", "validated", "checked"} -> "pending"
         [] OTHER                      -> "refused"]

Slot == INSTANCE InstallSlot WITH holder <- holderBar, verdict <- verdictBar

(* Every step of the handlers, the tasks and the restarts is a step the slot
   allows: a request is granted only a free slot, and only its own job, its
   death or a restart takes it away. *)
ImplementsSlot == Slot!Spec
=============================================================================
