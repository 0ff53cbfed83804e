---------------------------- MODULE InstallConsole ----------------------------
(* The console of the install page (ui/src/hooks/useInstallExecution.js over
   ui/src/utils/installerApi.js): one mount of the hook, which asks the daemon how
   things stand, starts the installation in three requests, follows the event
   stream and, when the stream breaks, asks again and reconnects.

   The daemon's status is that of the job POST /install runs, for whichever client
   (main.rs); the installation the console starts is a deploy of the v2 service,
   which reports nowhere.  An answer carries the status of some moment between
   question and arrival: checks[k], the k-th question asked after a broken stream,
   and hydration, the one asked on mounting, are "none", "asked", or the status
   that is on its way.  stream[s] is "closed", "quiet", or the verdict that was
   sent and not received yet; `ref` is the stream the hook can close.

   A job's verdict is broadcast before its status is set; a client that lags too
   far behind loses its stream like one whose connection breaks.  What is only
   shown (the log, the phase of the job, streamConnected) is left out. *)
EXTENDS Integers

CONSTANTS MaxChecks,    \* bound: questions in flight after broken streams
          MaxStarts,    \* bound: installations this mount starts
          MaxLoose,     \* bound: timers armed that nobody can cancel any more
          MaxJobs       \* bound: jobs other clients start meanwhile

ASSUME ConsoleAssumption == {MaxChecks, MaxStarts, MaxLoose, MaxJobs} \subseteq Nat

VARIABLES mounted, phase, planSubmitted, globalError, rebootBusy,
          installerToken, safetyChecked,
          hydration, checks, start,
          stream, ref, timer, loose,
          daemon, job, jobs

shown == <<phase, planSubmitted, globalError>>
gate == <<installerToken, safetyChecked>>
following == <<stream, ref, timer, loose>>
asking == <<hydration, checks, start>>
outside == <<daemon, job, jobs>>
vars == <<mounted, shown, rebootBusy, gate, asking, following, outside>>

Checks == 1..MaxChecks
Starts == 1..MaxStarts

(* Two names are enough: the one in use and the one that replaces it. *)
Streams == {1, 2}
NoStream == 0

(* getInstallExecutionPhase: a status is the phase it is shown as. *)
Statuses == {"idle", "running", "completed", "failed"}
Verdicts == {"completed", "failed"}

(* The phases of the page; "validating" is its own. *)
Phases == Statuses \cup {"validating"}

(* The daemon has had a plan since its first job. *)
HavePlan(status) == status # "idle"

Open == {s \in Streams : stream[s] # "closed"}

-----------------------------------------------------------------------------
(* closeStream, connectStream. *)

Without(s) == [t \in Streams |-> IF t = s THEN "closed" ELSE stream[t]]

CloseStream ==
    /\ timer' = FALSE
    /\ stream' = Without(ref)
    /\ ref' = NoStream

(* Mutant: the stream in use is not closed first. *)
ConnectStream_KeepsOld ==
    /\ timer' = FALSE
    /\ \E s \in Streams \ {ref} :
         /\ stream[s] = "closed"
         /\ stream' = [stream EXCEPT ![s] = "quiet"]
         /\ ref' = s

ConnectStream ==
    /\ timer' = FALSE
    /\ \E s \in Streams \ {ref} :
         /\ stream[s] = "closed"
         /\ stream' = [Without(ref) EXCEPT ![s] = "quiet"]
         /\ ref' = s

(* What is set after the page was left is set on nothing. *)
Show(newPhase, submitted, error) ==
    IF mounted
    THEN phase' = newPhase /\ planSubmitted' = submitted /\ globalError' = error
    ELSE UNCHANGED shown

-----------------------------------------------------------------------------
(* Hydration: everything shown is replaced by what the daemon says. *)

HydrationRead ==
    /\ hydration = "asked"
    /\ hydration' = daemon
    /\ UNCHANGED <<mounted, shown, rebootBusy, gate, checks, start, following, outside>>

Hydrate ==
    /\ hydration \in Statuses
    /\ Show(hydration, HavePlan(hydration), FALSE)
    /\ IF mounted /\ hydration = "running"
       THEN ConnectStream /\ UNCHANGED loose
       ELSE UNCHANGED following
    /\ hydration' = "none"
    /\ UNCHANGED <<mounted, rebootBusy, gate, checks, start, outside>>

HydrationFails ==
    /\ hydration # "none"
    /\ Show(phase, planSubmitted, TRUE)
    /\ hydration' = "none"
    /\ UNCHANGED <<mounted, rebootBusy, gate, checks, start, following, outside>>

-----------------------------------------------------------------------------
(* startInstallation, offered until something was submitted, runs or has ended, to
   who holds a token of the installer and has ticked the box. *)

InstallRunning == phase \in {"validating", "running"}
InstallStarted == planSubmitted \/ InstallRunning \/ phase \in Verdicts

(* The button, and what its handler asks again. *)
StartOffered == mounted /\ ~InstallStarted
MayStart == installerToken = "held" /\ safetyChecked

(* The token was kept by an earlier visit, or is asked for once. *)
TokenAnswered ==
    /\ mounted /\ installerToken = "asked"
    /\ installerToken' \in {"held", "none"}
    /\ UNCHANGED <<mounted, shown, rebootBusy, safetyChecked, asking, following, outside>>

TickSafety ==
    /\ StartOffered
    /\ safetyChecked' = ~safetyChecked
    /\ UNCHANGED <<mounted, shown, rebootBusy, installerToken, asking, following, outside>>

StartInstallation(n) ==
    /\ StartOffered /\ MayStart
    /\ start[n] = "none"
    /\ start' = [start EXCEPT ![n] = "plan"]
    /\ phase' = "validating" /\ globalError' = FALSE
    /\ CloseStream
    /\ UNCHANGED <<mounted, planSubmitted, rebootBusy, gate, hydration, checks, loose, outside>>

PlanPosted(n) ==
    /\ start[n] = "plan"
    /\ start' = [start EXCEPT ![n] = "secrets"]
    /\ Show(phase, TRUE, globalError)
    /\ UNCHANGED <<mounted, rebootBusy, gate, hydration, checks, following, outside>>

SecretsPut(n) ==
    /\ start[n] = "secrets"
    /\ start' = [start EXCEPT ![n] = "install"]
    /\ UNCHANGED <<mounted, shown, rebootBusy, gate, hydration, checks, following, outside>>

(* The stream is opened even when the page was left meanwhile. *)
FollowInstall == Show("running", TRUE, globalError) /\ ConnectStream

InstallPosted(n) ==
    /\ start[n] = "install"
    /\ start' = [start EXCEPT ![n] = "over"]
    /\ FollowInstall
    /\ UNCHANGED <<mounted, rebootBusy, gate, hydration, checks, loose, outside>>

(* Any of the requests may be refused or go unanswered, and then throws. *)
RequestSent(n) == start[n] \in {"plan", "secrets", "install"}

StartFails(n) ==
    /\ RequestSent(n)
    /\ start' = [start EXCEPT ![n] = "over"]
    /\ Show("failed", planSubmitted, TRUE)
    /\ UNCHANGED <<mounted, rebootBusy, gate, hydration, checks, following, outside>>

-----------------------------------------------------------------------------
(* The event stream. *)

(* What was sent before a verdict arrives before it. *)
ProgressArrives(s) ==
    /\ stream[s] \in Verdicts \/ (stream[s] = "quiet" /\ job = "runs")
    /\ Show("running", planSubmitted, globalError)
    /\ UNCHANGED <<mounted, rebootBusy, gate, asking, following, outside>>

(* onStatus, onDone, and the stream closes itself. *)
VerdictArrives(s) ==
    /\ stream[s] \in Verdicts
    /\ Show(stream[s], planSubmitted, globalError)
    /\ timer' = FALSE /\ ref' = NoStream
    /\ stream' = [Without(ref) EXCEPT ![s] = "closed"]
    /\ UNCHANGED <<mounted, rebootBusy, gate, asking, loose, outside>>

(* onError: the stream and the timer are gone, the status is asked for. *)
StreamBreaks(s, k) ==
    /\ stream[s] # "closed" /\ checks[k] = "none"
    /\ timer' = FALSE /\ ref' = NoStream
    /\ stream' = [Without(ref) EXCEPT ![s] = "closed"]
    /\ checks' = [checks EXCEPT ![k] = "asked"]
    /\ UNCHANGED <<mounted, shown, rebootBusy, gate, hydration, start, loose, outside>>

CheckRead(k) ==
    /\ checks[k] = "asked"
    /\ checks' = [checks EXCEPT ![k] = daemon]
    /\ UNCHANGED <<mounted, shown, rebootBusy, gate, hydration, start, following, outside>>

(* Mutant: the answer is shown and nothing more. *)
CheckAnswered_NoReconnect(k) ==
    /\ checks[k] \in Statuses
    /\ Show(checks[k], planSubmitted \/ HavePlan(checks[k]), globalError)
    /\ checks' = [checks EXCEPT ![k] = "none"]
    /\ UNCHANGED <<mounted, rebootBusy, gate, hydration, start, following, outside>>

(* A running job is reconnected to a second later; a timer that was armed already
   stays armed, out of reach of closeStream. *)
CheckAnswered(k) ==
    /\ checks[k] \in Statuses
    /\ Show(checks[k], planSubmitted \/ HavePlan(checks[k]), globalError)
    /\ IF checks[k] = "running"
       THEN /\ timer' = TRUE
            /\ loose' = IF timer THEN loose + 1 ELSE loose
            /\ loose' <= MaxLoose
       ELSE UNCHANGED <<timer, loose>>
    /\ checks' = [checks EXCEPT ![k] = "none"]
    /\ UNCHANGED <<mounted, rebootBusy, gate, hydration, start, stream, ref, outside>>

CheckFails(k) ==
    /\ checks[k] # "none"
    /\ Show(phase, planSubmitted, TRUE)
    /\ checks' = [checks EXCEPT ![k] = "none"]
    /\ UNCHANGED <<mounted, rebootBusy, gate, hydration, start, following, outside>>

Reconnect ==
    /\ \/ timer /\ UNCHANGED loose
       \/ loose > 0 /\ loose' = loose - 1
    /\ ConnectStream
    /\ UNCHANGED <<mounted, shown, rebootBusy, gate, asking, outside>>

-----------------------------------------------------------------------------
(* The page. *)

(* The wizard stays on the page while an installation is shown as running. *)
Leave ==
    /\ mounted /\ ~InstallRunning
    /\ mounted' = FALSE
    /\ CloseStream
    /\ UNCHANGED <<shown, rebootBusy, gate, asking, loose, outside>>

RebootOffered == mounted /\ phase \in Verdicts /\ ~rebootBusy

RequestReboot ==
    /\ RebootOffered
    /\ rebootBusy' = TRUE /\ globalError' = FALSE
    /\ UNCHANGED <<mounted, phase, planSubmitted, gate, asking, following, outside>>

(* The route answers that it is not implemented. *)
RebootRefused ==
    /\ rebootBusy
    /\ rebootBusy' = FALSE
    /\ Show(phase, planSubmitted, TRUE)
    /\ UNCHANGED <<mounted, gate, asking, following, outside>>

-----------------------------------------------------------------------------
(* The daemon, outside the hook: the jobs of other clients. *)

JobStarts ==
    /\ daemon # "running" /\ jobs < MaxJobs
    /\ daemon' = "running" /\ job' = "runs" /\ jobs' = jobs + 1
    /\ UNCHANGED <<mounted, shown, rebootBusy, gate, asking, following>>

JobTells ==
    /\ job = "runs"
    /\ \E v \in Verdicts :
         /\ job' = v
         /\ stream' = [s \in Streams |-> IF stream[s] = "quiet" THEN v ELSE stream[s]]
    /\ UNCHANGED <<mounted, shown, rebootBusy, gate, asking, ref, timer, loose, daemon, jobs>>

(* A panic of the task: no verdict, and the status never changes again. *)
JobDies ==
    /\ job = "runs" /\ job' = "none"
    /\ UNCHANGED <<mounted, shown, rebootBusy, gate, asking, following, daemon, jobs>>

JobReports ==
    /\ job \in Verdicts
    /\ daemon' = job /\ job' = "none"
    /\ UNCHANGED <<mounted, shown, rebootBusy, gate, asking, following, jobs>>

-----------------------------------------------------------------------------
(* The status a daemon starts with is the one its state file held, which may say
   that a job of its earlier life is running. *)
Init ==
    /\ mounted = TRUE /\ phase = "idle" /\ planSubmitted = FALSE
    /\ globalError = FALSE /\ rebootBusy = FALSE
    /\ installerToken \in {"held", "asked"} /\ safetyChecked = FALSE
    /\ hydration = "asked"
    /\ checks = [k \in Checks |-> "none"]
    /\ start = [n \in Starts |-> "none"]
    /\ stream = [s \in Streams |-> "closed"] /\ ref = NoStream
    /\ timer = FALSE /\ loose = 0
    /\ daemon \in Statuses /\ job = "none" /\ jobs = 0

Starting ==
    \/ TokenAnswered \/ TickSafety
    \/ \E n \in Starts : \/ StartInstallation(n) \/ PlanPosted(n) \/ SecretsPut(n)
                         \/ InstallPosted(n) \/ StartFails(n)

Following ==
    \/ \E s \in Streams : ProgressArrives(s) \/ VerdictArrives(s)
    \/ \E s \in Streams, k \in Checks : StreamBreaks(s, k)
    \/ \E k \in Checks : CheckRead(k) \/ CheckAnswered(k) \/ CheckFails(k)
    \/ Reconnect

Page == HydrationRead \/ Hydrate \/ HydrationFails \/ Leave \/ RequestReboot \/ RebootRefused

Daemon == JobStarts \/ JobTells \/ JobReports \/ JobDies

Next == Starting \/ Following \/ Page \/ Daemon

Spec == Init /\ [][Next]_vars

-----------------------------------------------------------------------------
(* Whatever is answered, in whatever order, the hook's state stays one the page
   can show: a phase, a stream it can close, timers that were armed. *)
TypeOK ==
    /\ {mounted, planSubmitted, globalError, rebootBusy, safetyChecked, timer} \subseteq BOOLEAN
    /\ installerToken \in {"held", "asked", "none"}
    /\ phase \in Phases
    /\ hydration \in Statuses \cup {"none", "asked"}
    /\ checks \in [Checks -> Statuses \cup {"none", "asked"}]
    /\ start \in [Starts -> {"none", "plan", "secrets", "install", "over"}]
    /\ stream \in [Streams -> {"closed", "quiet"} \cup Verdicts]
    /\ ref \in Streams \cup {NoStream}
    /\ loose \in Nat
    /\ daemon \in Statuses
    /\ job \in {"none", "runs"} \cup Verdicts
    /\ jobs \in Nat

(* The hook never follows two streams at once, and never one it has lost hold of:
   however starts, late answers, and timers interleave, also after the page was
   left, an event is shown once and closeStream closes what is open. *)
OneStream == Open = {ref} \ {NoStream}

(* A console that says an installation is running is attached to something that
   may still change its mind: a stream, a timer that will open one, an unanswered
   question; or it shows an error. *)
RunningIsFollowed ==
    (mounted /\ phase = "running") =>
        \/ Open # {} \/ timer \/ loose > 0
        \/ \E k \in Checks : checks[k] # "none"
        \/ globalError
=============================================================================
