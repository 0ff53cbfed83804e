------------------------------- MODULE DryRun -------------------------------
(***************************************************************************)
(* POST /dry-run (dry_run of src/main.rs) with executor::partition's       *)
(* run_disko_dry_run: validate the plan, write its disko configuration to  *)
(* the one file every request uses, and ask disko about that file.         *)
(*                                                                         *)
(* Nothing serialises these handlers.  tokio::fs::write runs in a thread   *)
(* of its own, truncates when it opens and writes afterwards, and goes on  *)
(* when the handler that awaits it is dropped.  A configuration is the     *)
(* layout it renders; disko rejects the Broken ones.                       *)
(***************************************************************************)
CONSTANTS
    Requests,       \* the POST /dry-run requests
    Modes,          \* the disk.mode values clients send
    Layouts,        \* the disk layouts their plans render to
    Broken,         \* the layouts disko --dry-run rejects
    Empty,          \* a file that was truncated and not written yet
    Garbled         \* two writes on top of each other

ASSUME DryRunAssumption ==
    /\ Broken \subseteq Layouts
    /\ Empty \notin Layouts /\ Garbled \notin Layouts /\ Empty # Garbled

VARIABLES
    mode, layout,   \* plan.disk of each request
    handler,        \* where each request's handler is
    conf,           \* /tmp/kryonix-disko-config.nix
    read,           \* history: the text disko read for each request
    disturbed       \* history: another write overlapped this dry-run

dryVars == <<mode, layout, handler, conf, read, disturbed>>

-----------------------------------------------------------------------------
(* State *)

(* The list of dry_run, the names it rewrites, and the list of
   run_disko_dry_run. *)
ValidModes == {"destroy", "format", "mount", "destroy,format,mount", "format,mount"}
RewrittenModes == {"disko", "dry-run"}
DiskoModes == {"disko", "mount", "format", "create", "zap_create_mount"}

EffectiveMode(r) ==
    IF mode[r] \in RewrittenModes THEN "destroy,format,mount" ELSE mode[r]

(* The places between opening the file and reading it back. *)
Exposed == {"opened", "written", "disko"}
Pending == {"opened", "detached"}       \* a write that still has to land
InProgress == {"received", "validated"} \cup Exposed
Answered == {"refused", "invalid_mode", "invalid_plan", "write_failed",
             "mode_rejected", "disko_failed", "ok"}
Places == {"new", "detached", "lost"} \cup InProgress \cup Answered

Texts == Layouts \cup {Empty, Garbled}

TypeOK ==
    /\ mode \in [Requests -> Modes]
    /\ layout \in [Requests -> Layouts]
    /\ handler \in [Requests -> Places]
    /\ conf \in Texts
    /\ read \in [Requests -> Texts]
    /\ disturbed \in [Requests -> BOOLEAN]

Init ==
    /\ mode \in [Requests -> Modes]
    /\ layout \in [Requests -> Layouts]
    /\ handler = [r \in Requests |-> "new"]
    /\ conf = Empty
    /\ read = [r \in Requests |-> Empty]
    /\ disturbed = [r \in Requests |-> FALSE]

-----------------------------------------------------------------------------
(* Actions *)

Goto(r, place) == handler' = [handler EXCEPT ![r] = place]
At(r, place) == handler[r] = place /\ UNCHANGED <<mode, layout>>
fileVars == <<conf, read, disturbed>>

Receive(r) == At(r, "new") /\ Goto(r, "received") /\ UNCHANGED fileVars

(* 403 of installer_guard, 401 for a wrong token. *)
Refuse(r) == At(r, "received") /\ Goto(r, "refused") /\ UNCHANGED fileVars

(* 422 INVALID_DISK_MODE *)
RefuseMode(r) ==
    /\ At(r, "received")
    /\ EffectiveMode(r) \notin ValidModes
    /\ Goto(r, "invalid_mode")
    /\ UNCHANGED fileVars

(* hash_password_if_needed (500) and validate_plan (422). *)
ValidatePlan(r) ==
    /\ At(r, "received")
    /\ EffectiveMode(r) \in ValidModes
    /\ \E place \in {"refused", "invalid_plan", "validated"} : Goto(r, place)
    /\ UNCHANGED fileVars

(* The file is opened and truncated: whoever is between its own write and its
   own reading of it is disturbed, and so is this request by a write that is
   still under way. *)
OpenConfig(r) ==
    /\ At(r, "validated")
    /\ \/ /\ Goto(r, "opened")
          /\ conf' = Empty
          /\ disturbed' =
               [s \in Requests |->
                  \/ disturbed[s]
                  \/ IF s = r THEN \E t \in Requests \ {r} : handler[t] \in Pending
                              ELSE handler[s] \in Exposed]
       \/ /\ Goto(r, "write_failed")
          /\ UNCHANGED <<conf, disturbed>>
    /\ UNCHANGED read

(* The text lands on whatever another open file left there (mutant: after it). *)
Land_Appends(r) ==
    conf' = IF conf = Empty THEN layout[r] ELSE <<conf, layout[r]>>

Land(r) == conf' \in IF conf = Empty THEN {layout[r]} ELSE {layout[r], Garbled}

(* Mutant: the result of the write is ignored. *)
WriteConfig_IgnoresFailure(r) ==
    /\ At(r, "opened")
    /\ Goto(r, "written")
    /\ Land(r) \/ UNCHANGED conf
    /\ UNCHANGED <<read, disturbed>>

WriteConfig(r) ==
    /\ At(r, "opened")
    /\ \/ Goto(r, "written") /\ Land(r)
       \/ Goto(r, "write_failed") /\ UNCHANGED conf
    /\ UNCHANGED <<read, disturbed>>

(* Mutant: an invalid mode is not returned as an error. *)
CheckMode_NoError(r) ==
    /\ At(r, "written")
    /\ EffectiveMode(r) \in DiskoModes
    /\ Goto(r, "disko")
    /\ UNCHANGED fileVars

(* "Modo disko invalido", after the file was written. *)
CheckMode(r) ==
    /\ At(r, "written")
    /\ Goto(r, IF EffectiveMode(r) \in DiskoModes THEN "disko" ELSE "mode_rejected")
    /\ UNCHANGED fileVars

(* disko reads the file as it is now; it may also fail to start. *)
RunDisko(r) ==
    /\ At(r, "disko")
    /\ read' = [read EXCEPT ![r] = conf]
    /\ \/ conf \in Layouts \ Broken /\ Goto(r, "ok")
       \/ Goto(r, "disko_failed")
    /\ UNCHANGED <<conf, disturbed>>

(* The client goes away at one of the two awaits; a write goes on. *)
Disconnect(r) ==
    /\ \/ At(r, "opened") /\ Goto(r, "detached")
       \/ At(r, "disko") /\ Goto(r, "lost")
    /\ UNCHANGED fileVars

DetachedWrite(r) ==
    /\ At(r, "detached")
    /\ Goto(r, "lost")
    /\ Land(r)
    /\ UNCHANGED <<read, disturbed>>

Handle(r) ==
    \/ Refuse(r) \/ RefuseMode(r) \/ ValidatePlan(r) \/ OpenConfig(r)
    \/ WriteConfig(r) \/ CheckMode(r) \/ RunDisko(r)

Next == \E r \in Requests : Receive(r) \/ Handle(r) \/ Disconnect(r) \/ DetachedWrite(r)

Spec == Init /\ [][Next]_dryVars

(* The runtime polls every handler; neither write nor disko hangs. *)
FairSpec == Spec /\ \A r \in Requests : WF_dryVars(Handle(r))

-----------------------------------------------------------------------------
(* Properties *)

(* A dry-run that no other write overlapped is answered about its own plan:
   disko read the layout this request rendered, whole, whatever handlers came
   before and whatever writes their dropped clients left behind. *)
UndisturbedVerdictIsOwn ==
    \A r \in Requests :
      handler[r] \in {"ok", "disko_failed"} /\ ~disturbed[r] => read[r] = layout[r]

(* Every dry-run is answered, or its client is gone. *)
EveryDryRunAnswered ==
    \A r \in Requests :
      handler[r] = "received" ~> handler[r] \in Answered \cup {"detached", "lost"}

(* "P0.5: Run real disko dry-run to validate disk config": a plan that is
   answered ok is one disko was asked about. *)
OkIsAboutThisPlan ==
    \A r \in Requests : handler[r] = "ok" => read[r] = layout[r]
=============================================================================
