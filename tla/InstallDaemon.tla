---------------------------- MODULE InstallDaemon ----------------------------
(***************************************************************************)
(* The daemon as POST /install sees it: the handlers, the job slot and the *)
(* state file of InstallJob, and the executor of InstallExecutor running   *)
(* inside the task that Spawn starts.  A step is a step of one of the two, *)
(* or one they take together: the executor's Return is the task's          *)
(* ExecutorReturns with that result, and a restart of the process is the   *)
(* job's Restart and the executor's Crash.  The requests, their modes and  *)
(* plan.disk.mode are the same in both.  The executor's one panic site,    *)
(* read_log_tail, lies behind nixos-install, which no mode the handler     *)
(* accepts reaches.                                                        *)
(***************************************************************************)
EXTENDS InstallExecutor

CONSTANT NoRequest      \* "no job was accepted yet"

ASSUME DaemonAssumption == NoRequest \notin Requests \cup {Absent}

VARIABLES status, state_file, handler, job, latest, lossy      \* InstallJob's own

J == INSTANCE InstallJob

jobVars == <<status, state_file, handler, job, latest, lossy>>
diskVars == <<target, cur, pc, todo, conf, live, root, mounted, gpt,
              evaluated, treeAt, foreign, lockKept>>
daemonVars == <<mode, jobVars, diskVars>>

-----------------------------------------------------------------------------

DaemonInit == J!Init /\ Init

HandlerStep ==
    /\ \E r \in Requests : J!Receive(r) \/ J!Answer(r) \/ J!Disconnect(r)
    /\ UNCHANGED diskVars

(* The spawned task calls run_installation. *)
EnterExecutor(r) ==
    /\ job[r] = "running"
    /\ Start(r)
    /\ UNCHANGED jobVars

ExecutorStep == Step /\ pc \notin {"ok", "failed"} /\ UNCHANGED jobVars

(* run_installation returns, and the task has its result. *)
LeaveExecutor(r) ==
    /\ cur = r
    /\ Return
    /\ J!ExecutorReturns(r)
    /\ job'[r] = IF pc = "ok" THEN "returned_ok" ELSE "returned_err"

ReportStep ==
    /\ \E r \in Requests : J!ReportOk(r) \/ J!ReportError(r)
    /\ UNCHANGED diskVars

RestartDaemon ==
    /\ J!Restart
    /\ IF pc = "idle" THEN UNCHANGED diskVars ELSE Crash

(* POST /dry-run, and the operator between two attempts. *)
OtherStep ==
    /\ (\E d \in Disks : DryRunWrites(d)) \/ Unmount
    /\ UNCHANGED jobVars

DaemonNext ==
    \/ HandlerStep
    \/ \E r \in Requests : EnterExecutor(r) \/ LeaveExecutor(r)
    \/ ExecutorStep
    \/ ReportStep
    \/ RestartDaemon
    \/ OtherStep

DaemonSpec == DaemonInit /\ [][DaemonNext]_daemonVars

(* The runtime polls handlers and tasks, and every command ends. *)
DaemonFairSpec ==
    /\ DaemonSpec
    /\ \A r \in Requests : WF_daemonVars(J!Answer(r) /\ UNCHANGED diskVars)
    /\ WF_daemonVars(\/ \E r \in Requests : EnterExecutor(r) \/ LeaveExecutor(r)
                     \/ ExecutorStep
                     \/ ReportStep)

-----------------------------------------------------------------------------
(* Properties *)

(* run_installation has no guard of its own: only the slot keeps two of them
   off the same /mnt.  A task about to enter it finds it idle, and whoever is
   inside owns the slot, also after panics and restarts. *)
ExecutorIsExclusive ==
    /\ pc # "idle" => J!Owner(cur) /\ status.running
    /\ \A r \in Requests : job[r] = "running" /\ r \in todo => pc = "idle"

(* Only an accepted request's plan reaches the disks or the shared disko
   configuration: refused, conflicting and abandoned requests never do. *)
OnlyAcceptedPlansRun ==
    [][pc # "idle" \/ pc' # "idle" =>
         /\ cur' # Absent => handler[cur'] = "accepted"
         /\ cur # Absent => mode[cur] \in J!ExecutableModes]_daemonVars

(* An accepted install ends with the run it started: through every place the
   executor can stop at, the task returns, takes the lock and reports, unless
   the daemon died. *)
JobEndsWithItsRun ==
    \A r \in Requests :
      handler[r] = "accepted" ~> job[r] \in {"finished_ok", "finished_err", "dead"}
=============================================================================
