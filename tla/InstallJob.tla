----------------------------- MODULE InstallJob -----------------------------
(***************************************************************************)
(* The POST /install handler of src/main.rs, the job slot it guards with   *)
(* InstallStatus.running, the task it spawns, and the copy of the status   *)
(* kept in /tmp/kryonix-install-state.json, which a restarted daemon loads.*)
(*                                                                         *)
(* One step is what the code does between two points where another task    *)
(* can run: the checks are synchronous, the reservation and the two final  *)
(* updates hold the write lock of install_status from their first to their *)
(* last line, saving included. The executor is its Result here (it may     *)
(* also panic); InstallExecutor opens it. Request bodies are their         *)
(* disk.mode; what validate_plan and run_safety_checks say is a choice.    *)
(***************************************************************************)
CONSTANTS
    Requests,       \* the POST /install requests
    Modes,          \* the disk.mode values clients send
    NoRequest       \* "no job was accepted yet"

ASSUME NoRequestAssumption == NoRequest \notin Requests

VARIABLES
    status,         \* AppState.install_status
    state_file,     \* what load_install_state would read
    handler,        \* where each request's handler is
    mode,           \* plan.disk.mode of each request
    job,            \* where each request's spawned task is
    latest,         \* history: the last request that reserved the slot
    lossy           \* history: save_install_state lost an update

vars == <<status, state_file, handler, mode, job, latest, lossy>>

-----------------------------------------------------------------------------
(* State *)

(* have_plan and can_install are always set together; last_error and
   last_log_line repeat current_phase in words. *)
InstallStatus ==
    [running       : BOOLEAN,
     exit_code     : {"None", "0", "1"},
     current_phase : {"None", "precheck", "done", "error"},
     have_plan     : BOOLEAN]

DefaultStatus ==
    [running |-> FALSE, exit_code |-> "None", current_phase |-> "None",
     have_plan |-> FALSE]

(* No file, or one that serde_json cannot parse. *)
Unreadable == [unreadable |-> TRUE]

ExecutableModes == {"install", "real"}

HandlerStates ==
    {"new", "received", "validated", "checked", "reserved",
     "refused", "validated_only", "conflict", "accepted", "lost"}

(* A handler that is still going to answer. *)
InProgress == {"received", "validated", "checked", "reserved"}

JobStates ==
    {"none", "running", "returned_ok", "returned_err",
     "finished_ok", "finished_err", "dead"}

Active == {"running", "returned_ok", "returned_err"}

TypeOK ==
    /\ status \in InstallStatus
    /\ state_file \in InstallStatus \cup {Unreadable}
    /\ handler \in [Requests -> HandlerStates]
    /\ mode \in [Requests -> Modes]
    /\ job \in [Requests -> JobStates]
    /\ latest \in Requests \cup {NoRequest}
    /\ lossy \in BOOLEAN

Init ==
    /\ status = DefaultStatus
    /\ state_file = Unreadable
    /\ handler = [r \in Requests |-> "new"]
    /\ mode \in [Requests -> Modes]
    /\ job = [r \in Requests |-> "none"]
    /\ latest = NoRequest
    /\ lossy = FALSE

-----------------------------------------------------------------------------
(* The state file *)

(* std::fs::write with its result ignored: the file holds s, or what it held
   before (it could not be opened), or a truncated text (the write failed). *)
SaveInstallState(s) ==
    /\ state_file' \in {s, state_file, Unreadable}
    /\ lossy' = (lossy \/ state_file' # s)

LoadInstallState ==
    IF state_file = Unreadable THEN DefaultStatus ELSE state_file

-----------------------------------------------------------------------------
(* The handler *)

Goto(r, place) == handler' = [handler EXCEPT ![r] = place]

slotVars == <<status, state_file, job, latest, lossy>>

Receive(r) ==
    /\ handler[r] = "new"
    /\ Goto(r, "received")
    /\ UNCHANGED <<slotVars, mode>>

(* 403 of installer_guard, 401 for a wrong token, 500 when mkpasswd fails. *)
RefuseUnauthorized(r) ==
    /\ handler[r] = "received"
    /\ Goto(r, "refused")
    /\ UNCHANGED <<slotVars, mode>>

(* disk.mode = "dry-run": the answer is validate_plan's, nothing runs. *)
ValidateOnly(r) ==
    /\ handler[r] = "received"
    /\ mode[r] = "dry-run"
    /\ Goto(r, "validated_only")
    /\ UNCHANGED <<slotVars, mode>>

(* 400 INVALID_INSTALL_MODE *)
RefuseMode(r) ==
    /\ handler[r] = "received"
    /\ mode[r] \notin ExecutableModes \cup {"dry-run"}
    /\ Goto(r, "refused")
    /\ UNCHANGED <<slotVars, mode>>

(* Mutant: the mode is not looked at before the plan is. *)
ValidatePlan_AnyMode(r) ==
    /\ handler[r] = "received"
    /\ \E place \in {"validated", "refused"} : Goto(r, place)
    /\ UNCHANGED <<slotVars, mode>>

(* validate_plan: go on, or 422. *)
ValidatePlan(r) ==
    /\ handler[r] = "received"
    /\ mode[r] \in ExecutableModes
    /\ \E place \in {"validated", "refused"} : Goto(r, place)
    /\ UNCHANGED <<slotVars, mode>>

(* run_safety_checks: go on, or 403. *)
SafetyChecks(r) ==
    /\ handler[r] = "validated"
    /\ \E place \in {"checked", "refused"} : Goto(r, place)
    /\ UNCHANGED <<slotVars, mode>>

(* The client goes away while the handler waits for the write lock, its only
   await: the handler is dropped there. *)
Disconnect(r) ==
    /\ handler[r] = "checked"
    /\ Goto(r, "lost")
    /\ UNCHANGED <<slotVars, mode>>

(* Mutant: a drop guard resets running when the handler leaves. *)
Conflict_ResetsRunning(r) ==
    /\ handler[r] = "checked"
    /\ status.running
    /\ Goto(r, "conflict")
    /\ status' = [status EXCEPT !.running = FALSE]
    /\ UNCHANGED <<mode, state_file, job, latest, lossy>>

(* Mutant: no 409, the request waits for its turn. *)
Conflict_Waits(r) == FALSE

(* 409 INSTALL_ALREADY_RUNNING *)
Conflict(r) ==
    /\ handler[r] = "checked"
    /\ status.running
    /\ Goto(r, "conflict")
    /\ UNCHANGED <<slotVars, mode>>

(* Mutant: running is set, but not looked at. *)
Reserve_Unguarded(r) ==
    /\ handler[r] = "checked"
    /\ status' = [running |-> TRUE, exit_code |-> "None",
                  current_phase |-> "precheck", have_plan |-> TRUE]
    /\ SaveInstallState(status')
    /\ latest' = r
    /\ Goto(r, "reserved")
    /\ UNCHANGED <<mode, job>>

(* Mutant: the outcome of the job before is not cleared. *)
Reserve_KeepsExitCode(r) ==
    /\ handler[r] = "checked"
    /\ ~status.running
    /\ status' = [status EXCEPT !.running = TRUE, !.current_phase = "precheck",
                                !.have_plan = TRUE]
    /\ SaveInstallState(status')
    /\ latest' = r
    /\ Goto(r, "reserved")
    /\ UNCHANGED <<mode, job>>

Reserve(r) ==
    /\ handler[r] = "checked"
    /\ ~status.running
    /\ status' = [running |-> TRUE, exit_code |-> "None",
                  current_phase |-> "precheck", have_plan |-> TRUE]
    /\ SaveInstallState(status')
    /\ latest' = r
    /\ Goto(r, "reserved")
    /\ UNCHANGED <<mode, job>>

(* Mutant: the task is created and dropped without being polled. *)
Spawn_Forgets(r) ==
    /\ handler[r] = "reserved"
    /\ Goto(r, "accepted")
    /\ UNCHANGED <<status, state_file, job, mode, latest, lossy>>

(* tokio::spawn, then 202 ACCEPTED. *)
Spawn(r) ==
    /\ handler[r] = "reserved"
    /\ Goto(r, "accepted")
    /\ job' = [job EXCEPT ![r] = "running"]
    /\ UNCHANGED <<status, state_file, mode, latest, lossy>>

-----------------------------------------------------------------------------
(* The spawned task *)

ExecutorReturns(r) ==
    /\ job[r] = "running"
    /\ \E result \in {"returned_ok", "returned_err"} :
         job' = [job EXCEPT ![r] = result]
    /\ UNCHANGED <<status, state_file, handler, mode, latest, lossy>>

(* read_log_tail, on nixos-install's error path, slices the log at a byte that
   may be inside a character; nothing joins the task, so nothing updates the
   status. *)
ExecutorPanics(r) ==
    /\ job[r] = "running"
    /\ job' = [job EXCEPT ![r] = "dead"]
    /\ UNCHANGED <<status, state_file, handler, mode, latest, lossy>>

ReportOk(r) ==
    /\ job[r] = "returned_ok"
    /\ job' = [job EXCEPT ![r] = "finished_ok"]
    /\ status' = [status EXCEPT !.running = FALSE, !.exit_code = "0",
                                !.current_phase = "done"]
    /\ SaveInstallState(status')
    /\ UNCHANGED <<handler, mode, latest>>

(* Mutant: the error path does not reset running. *)
ReportError_KeepsRunning(r) ==
    /\ job[r] = "returned_err"
    /\ job' = [job EXCEPT ![r] = "finished_err"]
    /\ status' = [status EXCEPT !.exit_code = "1", !.current_phase = "error"]
    /\ SaveInstallState(status')
    /\ UNCHANGED <<handler, mode, latest>>

ReportError(r) ==
    /\ job[r] = "returned_err"
    /\ job' = [job EXCEPT ![r] = "finished_err"]
    /\ status' = [status EXCEPT !.running = FALSE, !.exit_code = "1",
                                !.current_phase = "error"]
    /\ SaveInstallState(status')
    /\ UNCHANGED <<handler, mode, latest>>

(* The process dies and comes back: handlers and tasks are gone, the status is
   what the file says. *)
Restart ==
    /\ status' = LoadInstallState
    /\ handler' = [r \in Requests |->
                     IF handler[r] \in InProgress THEN "lost" ELSE handler[r]]
    /\ job' = [r \in Requests |->
                 IF handler[r] = "reserved" \/ job[r] \in Active
                   THEN "dead" ELSE job[r]]
    /\ UNCHANGED <<state_file, mode, latest, lossy>>

-----------------------------------------------------------------------------

Answer(r) ==
    \/ RefuseUnauthorized(r) \/ ValidateOnly(r) \/ RefuseMode(r)
    \/ ValidatePlan(r) \/ SafetyChecks(r)
    \/ Conflict(r) \/ Reserve(r) \/ Spawn(r)

Run(r) ==
    ExecutorReturns(r) \/ ExecutorPanics(r) \/ ReportOk(r) \/ ReportError(r)

Next ==
    \/ \E r \in Requests : Receive(r) \/ Answer(r) \/ Disconnect(r) \/ Run(r)
    \/ Restart

Spec == Init /\ [][Next]_vars

(* The runtime polls every handler and task that can run, and every command
   the executor starts ends. Nothing makes clients send, or the process die. *)
Fairness == \A r \in Requests : WF_vars(Answer(r)) /\ WF_vars(Run(r))

FairSpec == Spec /\ Fairness

-----------------------------------------------------------------------------
(* Properties *)

(* A request that holds the slot and still has code that will give it back. *)
Owner(r) == handler[r] = "reserved" \/ job[r] \in Active

(* Two installs never run together, however their handlers interleave and
   whatever a restart reads back ("P0.1: Bloquear instalacao concorrente"). *)
AtMostOneOwner == \A r, s \in Requests : Owner(r) /\ Owner(s) => r = s

(* While a job runs the slot is taken, so no handler can reserve it: the flag
   a restart loads never says "free" to a task that is still alive. *)
OwnerHoldsSlot == \A r \in Requests : Owner(r) => status.running

(* The slot is taken without an owner only after a job died without reporting
   (restart or panic), or when a restart read a file that a failed save had
   left behind: a client that disconnects, a refusal, a conflict or an error
   leave none. *)
SlotHasOwner ==
    status.running => lossy \/ \E r \in Requests : Owner(r) \/ job[r] = "dead"

(* What GET /install/status says is about the last job accepted, also after
   restarts, as long as every save reached the file: success is that job's
   Ok, failure its Err, and "running" is never said of a job that reported. *)
StatusTellsLatestJob ==
    ~lossy =>
      /\ status.exit_code = "0" => latest # NoRequest /\ job[latest] = "finished_ok"
      /\ status.exit_code = "1" => latest # NoRequest /\ job[latest] = "finished_err"
      /\ status.running =>
            /\ latest # NoRequest
            /\ job[latest] \notin {"finished_ok", "finished_err"}

(* An accepted install ends: it reports, or it died with the daemon. *)
AcceptedJobEnds ==
    \A r \in Requests :
      handler[r] = "reserved" ~> job[r] \in {"finished_ok", "finished_err", "dead"}

(* Every request is answered or dropped; in particular waiting for the lock
   never lasts forever, whoever holds the slot. *)
EveryRequestAnswered ==
    \A r \in Requests : handler[r] = "received" ~> handler[r] \notin InProgress

(* The 409 answer tells the client to wait for the job or to restart the
   installer: after a restart the slot should be free. *)
RestartFreesSlot == [][Restart => ~status'.running]_vars
=============================================================================
