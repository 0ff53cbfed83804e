------------------------ MODULE InstallConsole_proofs -------------------------
(* However many questions, starts, timers and jobs there are, the console follows
   one stream at a time and one it can close, and what it shows as running it
   follows.  The proof needs of the types only those of the stream, of the
   reference to it, of the questions in flight and of what the daemon answers. *)
EXTENDS InstallConsole, TLAPS

StreamType ==
    /\ stream \in [Streams -> {"closed", "quiet"} \cup Verdicts]
    /\ ref \in Streams \cup {NoStream}

CheckType == checks \in [Checks -> Statuses \cup {"none", "asked"}]

DaemonType == daemon \in Statuses /\ job \in {"none", "runs"} \cup Verdicts

IInv == StreamType /\ CheckType /\ DaemonType /\ OneStream /\ RunningIsFollowed

-----------------------------------------------------------------------------
(* What the two helpers do to the streams. *)

(* A connection replaces whatever was open. *)
LEMMA ConnectionIsOne ==
    ASSUME StreamType, OneStream, ConnectStream
    PROVE  StreamType' /\ OneStream' /\ Open' # {}
<1>1. PICK s \in Streams \ {ref} :
        /\ stream[s] = "closed"
        /\ stream' = [Without(ref) EXCEPT ![s] = "quiet"]
        /\ ref' = s
  BY DEF ConnectStream
<1>2. \A t \in Streams : stream'[t] = IF t = s THEN "quiet"
                                       ELSE IF t = ref THEN "closed" ELSE stream[t]
  BY <1>1 DEF Without
<1>3. \A t \in Streams : t # ref => stream[t] = "closed"
  BY DEF OneStream, Open
<1>4. StreamType'
  BY <1>1, <1>2 DEF StreamType, Without, Verdicts
<1>5. Open' = {s}
  BY <1>1, <1>2, <1>3 DEF Open
<1> QED
  BY <1>1, <1>4, <1>5 DEF OneStream, Streams, NoStream

(* Closing, by the reference or by the stream itself when it is over, leaves
   nothing open. *)
LEMMA ClosingClosesAll ==
    ASSUME StreamType, OneStream, ref' = NoStream,
           \/ stream' = Without(ref)
           \/ \E s \in Streams : stream' = [Without(ref) EXCEPT ![s] = "closed"]
    PROVE  StreamType' /\ OneStream'
<1>1. \A t \in Streams : t # ref => stream[t] = "closed"
  BY DEF OneStream, Open
<1>2. \A t \in Streams : stream'[t] = "closed"
  BY <1>1 DEF Without
<1>3. StreamType'
  BY DEF StreamType, Without
<1> QED
  BY <1>2, <1>3 DEF OneStream, Open

-----------------------------------------------------------------------------
(* How the console starts: nothing is followed, and nothing shown as running. *)
LEMMA InitIInv == Init => IInv
BY DEF Init, IInv, StreamType, CheckType, DaemonType, OneStream, RunningIsFollowed, Open, Streams,
       Checks, Statuses, NoStream

(* A step that neither touches the streams nor the questions, and does not begin
   to show an installation as running or take an error away. *)
LEMMA Unfollowed ==
    ASSUME IInv, UNCHANGED <<following, checks>>, DaemonType',
           (mounted' /\ phase' = "running") =>
               (mounted /\ phase = "running" /\ (globalError => globalError')) \/ globalError'
    PROVE  IInv'
BY DEF IInv, StreamType, CheckType, OneStream, RunningIsFollowed, Open, following

(* The daemon moves only in its own steps. *)
LEMMA DaemonStays == ASSUME DaemonType, UNCHANGED outside PROVE DaemonType'
BY DEF DaemonType, outside

(* Starting: only the last request opens a stream, and only a click closes one. *)
LEMMA StartingKeepsIInv == ASSUME IInv, Starting PROVE IInv'
<1>0. DaemonType'
  BY DaemonStays DEF IInv, Starting, TokenAnswered, TickSafety, StartInstallation, PlanPosted,
     SecretsPut, InstallPosted, StartFails
<1>1. CASE TokenAnswered \/ TickSafety
  <2>1. UNCHANGED <<following, checks, mounted, shown>>
    BY <1>1 DEF TokenAnswered, TickSafety, asking
  <2> QED BY <1>0, <2>1, Unfollowed DEF shown
<1>2. ASSUME NEW n \in Starts, StartInstallation(n) PROVE IInv'
  <2>1. StreamType' /\ OneStream'
    BY <1>2, ClosingClosesAll DEF IInv, StartInstallation, CloseStream
  <2>2. CheckType' /\ RunningIsFollowed'
    BY <1>2 DEF IInv, CheckType, StartInstallation, RunningIsFollowed
  <2> QED BY <1>0, <2>1, <2>2 DEF IInv
<1>3. ASSUME NEW n \in Starts, PlanPosted(n) \/ SecretsPut(n) \/ StartFails(n) PROVE IInv'
  <2>1. UNCHANGED <<following, checks, mounted>>
    BY <1>3 DEF PlanPosted, SecretsPut, StartFails
  <2>2. (mounted' /\ phase' = "running") =>
            (mounted /\ phase = "running" /\ (globalError => globalError')) \/ globalError'
    BY <1>3, <2>1 DEF PlanPosted, SecretsPut, StartFails, Show, shown
  <2> QED BY <1>0, <2>1, <2>2, Unfollowed
<1>4. ASSUME NEW n \in Starts, InstallPosted(n) PROVE IInv'
  <2>1. StreamType' /\ OneStream' /\ Open' # {}
    BY <1>4, ConnectionIsOne DEF IInv, InstallPosted, FollowInstall
  <2>2. CheckType' /\ RunningIsFollowed'
    BY <1>4, <2>1 DEF IInv, CheckType, InstallPosted, RunningIsFollowed
  <2> QED BY <1>0, <2>1, <2>2 DEF IInv
<1> QED BY <1>1, <1>2, <1>3, <1>4 DEF Starting

(* Following: what breaks is asked about, and what is answered as running is
   connected to again. *)
LEMMA FollowingKeepsIInv == ASSUME IInv, Following PROVE IInv'
<1> USE DEF IInv
<1>0. DaemonType'
  BY DaemonStays DEF Following, ProgressArrives, VerdictArrives, StreamBreaks, CheckRead,
     CheckAnswered, CheckFails, Reconnect
<1>1. ASSUME NEW s \in Streams, ProgressArrives(s) PROVE IInv'
  <2>1. StreamType' /\ OneStream' /\ CheckType' /\ Open' = Open
    BY <1>1 DEF ProgressArrives, following, asking, StreamType, OneStream, CheckType, Open
  <2>2. s \in Open
    BY <1>1 DEF ProgressArrives, Open, Verdicts
  <2> QED BY <1>0, <2>1, <2>2 DEF RunningIsFollowed
<1>2. ASSUME NEW s \in Streams, VerdictArrives(s) PROVE IInv'
  <2>1. StreamType' /\ OneStream'
    BY <1>2, ClosingClosesAll DEF VerdictArrives
  <2>2. CheckType' /\ RunningIsFollowed'
    BY <1>2 DEF VerdictArrives, asking, CheckType, Show, shown, RunningIsFollowed, Verdicts
  <2> QED BY <1>0, <2>1, <2>2
<1>3. ASSUME NEW s \in Streams, NEW k \in Checks, StreamBreaks(s, k) PROVE IInv'
  <2>1. StreamType' /\ OneStream'
    BY <1>3, ClosingClosesAll DEF StreamBreaks
  <2>2. checks' = [checks EXCEPT ![k] = "asked"]
    BY <1>3 DEF StreamBreaks
  <2>3. CheckType' /\ checks'[k] # "none"
    BY <2>2 DEF CheckType
  <2> QED BY <1>0, <2>1, <2>3 DEF RunningIsFollowed
<1>4. ASSUME NEW k \in Checks, CheckRead(k) PROVE IInv'
  <2>1. StreamType' /\ OneStream'
    BY <1>4 DEF CheckRead, following, StreamType, OneStream, Open
  <2>2. checks' = [checks EXCEPT ![k] = daemon]
    BY <1>4 DEF CheckRead
  <2>3. CheckType' /\ checks'[k] # "none"
    BY <2>2 DEF CheckType, DaemonType, Statuses
  <2> QED BY <1>0, <2>1, <2>3 DEF RunningIsFollowed
<1>5. ASSUME NEW k \in Checks, CheckAnswered(k) PROVE IInv'
  <2>1. StreamType' /\ OneStream' /\ Open' = Open
    BY <1>5 DEF CheckAnswered, StreamType, OneStream, Open
  <2>2. CheckType'
    BY <1>5 DEF CheckAnswered, CheckType
  <2>3. CASE checks[k] = "running"
    BY <1>0, <1>5, <2>1, <2>2, <2>3 DEF CheckAnswered, RunningIsFollowed
  <2>4. CASE checks[k] # "running"
    BY <1>0, <1>5, <2>1, <2>2, <2>4 DEF CheckAnswered, Show, shown, RunningIsFollowed
  <2> QED BY <2>3, <2>4
<1>6. ASSUME NEW k \in Checks, CheckFails(k) PROVE IInv'
  <2>1. StreamType' /\ OneStream'
    BY <1>6 DEF CheckFails, following, StreamType, OneStream, Open
  <2>2. CheckType' /\ RunningIsFollowed'
    BY <1>6 DEF CheckFails, CheckType, Show, shown, RunningIsFollowed
  <2> QED BY <1>0, <2>1, <2>2
<1>7. ASSUME Reconnect PROVE IInv'
  <2>1. StreamType' /\ OneStream' /\ Open' # {}
    BY <1>7, ConnectionIsOne DEF Reconnect
  <2>2. CheckType' /\ RunningIsFollowed'
    BY <1>7, <2>1 DEF Reconnect, asking, CheckType, RunningIsFollowed
  <2> QED BY <1>0, <2>1, <2>2
<1> QED BY <1>1, <1>2, <1>3, <1>4, <1>5, <1>6, <1>7 DEF Following

(* The page: only hydration connects, only leaving closes. *)
LEMMA PageKeepsIInv == ASSUME IInv, Page PROVE IInv'
<1> USE DEF IInv
<1>0. DaemonType'
  BY DaemonStays DEF Page, HydrationRead, Hydrate, HydrationFails, Leave, RequestReboot,
     RebootRefused
<1>1. CASE HydrationRead
  <2>1. UNCHANGED <<following, checks, mounted, shown>>
    BY <1>1 DEF HydrationRead
  <2> QED BY <1>0, <2>1, Unfollowed DEF shown
<1>2. CASE Hydrate
  <2>1. CheckType' /\ checks' = checks
    BY <1>2 DEF Hydrate, CheckType
  <2>2. CASE mounted /\ hydration = "running"
    <3>1. ConnectStream
      BY <1>2, <2>2 DEF Hydrate
    <3>2. StreamType' /\ OneStream' /\ Open' # {}
      BY <3>1, ConnectionIsOne
    <3> QED BY <1>0, <2>1, <3>2 DEF RunningIsFollowed
  <2>3. CASE ~(mounted /\ hydration = "running")
    <3>1. UNCHANGED following
      BY <1>2, <2>3 DEF Hydrate
    <3>2. ~(mounted' /\ phase' = "running")
      BY <1>2, <2>3 DEF Hydrate, Show
    <3> QED BY <1>0, <2>1, <3>1, <3>2, Unfollowed
  <2> QED BY <2>2, <2>3
<1>3. CASE HydrationFails \/ RebootRefused
  <2>1. UNCHANGED <<following, checks, mounted>>
    BY <1>3 DEF HydrationFails, RebootRefused, asking
  <2>2. mounted' => globalError'
    BY <1>3, <2>1 DEF HydrationFails, RebootRefused, Show
  <2> QED BY <1>0, <2>1, <2>2, Unfollowed
<1>4. CASE Leave
  <2>1. StreamType' /\ OneStream'
    BY <1>4, ClosingClosesAll DEF Leave, CloseStream
  <2>2. CheckType' /\ RunningIsFollowed'
    BY <1>4 DEF Leave, asking, CheckType, RunningIsFollowed
  <2> QED BY <1>0, <2>1, <2>2
<1>5. CASE RequestReboot
  <2>1. UNCHANGED <<following, checks>>
    BY <1>5 DEF RequestReboot, asking
  <2>2. phase' # "running"
    BY <1>5 DEF RequestReboot, RebootOffered, Verdicts
  <2> QED BY <1>0, <2>1, <2>2, Unfollowed
<1> QED BY <1>1, <1>2, <1>3, <1>4, <1>5 DEF Page

(* The daemon: a verdict that is sent opens and closes nothing. *)
LEMMA DaemonKeepsIInv == ASSUME IInv, Daemon PROVE IInv'
<1> USE DEF IInv
<1>1. DaemonType'
  BY DEF Daemon, JobStarts, JobTells, JobReports, JobDies, DaemonType, Statuses, Verdicts
<1>2. CASE JobStarts \/ JobReports \/ JobDies
  <2>1. UNCHANGED <<following, checks, mounted, shown>>
    BY <1>2 DEF JobStarts, JobReports, JobDies, asking
  <2> QED BY <1>1, <2>1, Unfollowed DEF shown
<1>3. CASE JobTells
  <2>1. PICK v \in Verdicts :
          stream' = [s \in Streams |-> IF stream[s] = "quiet" THEN v ELSE stream[s]]
    BY <1>3 DEF JobTells
  <2>2. StreamType' /\ Open' = Open
    BY <1>3, <2>1 DEF JobTells, StreamType, Open, Verdicts
  <2>3. OneStream' /\ CheckType' /\ RunningIsFollowed'
    BY <1>3, <2>2 DEF JobTells, asking, shown, OneStream, CheckType, RunningIsFollowed
  <2> QED BY <1>1, <2>2, <2>3
<1> QED BY <1>2, <1>3 DEF Daemon

LEMMA StutterKeepsIInv == ASSUME IInv, UNCHANGED vars PROVE IInv'
BY Unfollowed, DaemonStays DEF IInv, vars, shown, asking

-----------------------------------------------------------------------------
(* The invariant holds for every bound on questions, starts, timers and jobs. *)
THEOREM ConsoleInvariant == Spec => []IInv
<1>1. IInv /\ [Next]_vars => IInv'
  BY StartingKeepsIInv, FollowingKeepsIInv, PageKeepsIInv, DaemonKeepsIInv, StutterKeepsIInv
     DEF Next
<1> QED BY InitIInv, <1>1, PTL DEF Spec

(* The console never has two streams open, nor one it cannot close. *)
THEOREM StreamIsOne == Spec => []OneStream
BY ConsoleInvariant, PTL DEF IInv

(* An installation shown as running is attached to something that may still end
   it, or the page shows an error. *)
THEOREM RunningStaysFollowed == Spec => []RunningIsFollowed
BY ConsoleInvariant, PTL DEF IInv
=============================================================================
