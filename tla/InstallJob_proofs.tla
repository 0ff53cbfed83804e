-------------------------- MODULE InstallJob_proofs --------------------------
(***************************************************************************)
(* Theorems about InstallJob, for every set of requests and modes: its     *)
(* invariants, and that it implements InstallSlot.                         *)
(*                                                                         *)
(* None of the properties is inductive alone.  That a report frees a slot  *)
(* nobody else holds needs that the reporting task is the last one that    *)
(* reserved it (OwnerIsLatest); that a restart does not free the slot of a *)
(* live task, or take it for nobody, needs to know what the file holds     *)
(* (FileFollowsStatus); and that a new reservation never meets an older    *)
(* task of its own request needs JobFollowsReservation.                    *)
(***************************************************************************)
EXTENDS InstallJobRefinement, TLAPS

(* A request that was not accepted has no task. *)
JobFollowsReservation ==
    \A r \in Requests : job[r] # "none" => handler[r] \in {"accepted", "lost"}

(* Whoever owns the slot was the last to reserve it. *)
OwnerIsLatest == \A r \in Requests : Owner(r) => latest = r

(* As long as every save worked, reading the file gives the status. *)
FileFollowsStatus == ~lossy => LoadInstallState = status

IInv ==
    /\ TypeOK
    /\ JobFollowsReservation
    /\ OwnerIsLatest
    /\ OwnerHoldsSlot
    /\ FileFollowsStatus
    /\ SlotHasOwner
    /\ StatusTellsLatestJob

-----------------------------------------------------------------------------
(* An unreadable file is not the text of a status, so a save that worked is
   what the next load returns. *)
LEMMA UnreadableIsNoStatus == Unreadable \notin InstallStatus
<1>1. DOMAIN Unreadable = {"unreadable"}
  BY DEF Unreadable
<1>2. ASSUME NEW s \in InstallStatus PROVE "unreadable" \notin DOMAIN s
  BY DEF InstallStatus
<1> QED BY <1>1, <1>2

(* save_install_state either records a loss or leaves a file that reads back. *)
LEMMA SaveReadsBack ==
  ASSUME NEW s \in InstallStatus, SaveInstallState(s), TypeOK, status' = s
  PROVE  /\ state_file' \in InstallStatus \cup {Unreadable}
         /\ lossy' \in BOOLEAN
         /\ lossy => lossy'
         /\ FileFollowsStatus'
BY UnreadableIsNoStatus DEF SaveInstallState, TypeOK, FileFollowsStatus, LoadInstallState

(* The initial status is the default one, and nobody has asked for anything. *)
LEMMA InitIInv == Init => IInv
<1> SUFFICES ASSUME Init PROVE IInv
  OBVIOUS
<1>1. TypeOK
  BY DEF Init, TypeOK, InstallStatus, DefaultStatus, HandlerStates, JobStates
<1>2. JobFollowsReservation /\ OwnerIsLatest /\ OwnerHoldsSlot
  BY DEF Init, JobFollowsReservation, OwnerIsLatest, OwnerHoldsSlot, Owner, Active
<1>3. FileFollowsStatus /\ SlotHasOwner /\ StatusTellsLatestJob
  BY DEF Init, FileFollowsStatus, LoadInstallState, SlotHasOwner,
         StatusTellsLatestJob, DefaultStatus
<1> QED BY <1>1, <1>2, <1>3 DEF IInv

-----------------------------------------------------------------------------
(* A handler that moves on without touching the slot: the eight steps before
   the reservation, and the refusals. *)
LEMMA HandlerMoves ==
  ASSUME IInv,
         NEW r \in Requests,
         NEW place \in HandlerStates \ {"reserved"},
         handler[r] \in {"new", "received", "validated", "checked"},
         Goto(r, place),
         UNCHANGED <<slotVars, mode>>
  PROVE  IInv'
<1> USE DEF IInv, slotVars, Goto
<1>1. TypeOK'
  BY DEF TypeOK
<1>2. job[r] = "none"
  BY DEF JobFollowsReservation
<1>3. JobFollowsReservation'
  BY <1>2 DEF JobFollowsReservation, TypeOK
<1>4. \A s \in Requests : Owner(s)' <=> Owner(s)
  BY DEF Owner, TypeOK
<1>5. OwnerIsLatest' /\ OwnerHoldsSlot'
  BY <1>4 DEF OwnerIsLatest, OwnerHoldsSlot
<1>6. FileFollowsStatus' /\ StatusTellsLatestJob'
  BY DEF FileFollowsStatus, LoadInstallState, StatusTellsLatestJob
<1>7. SlotHasOwner'
  BY <1>4 DEF SlotHasOwner
<1> QED BY <1>1, <1>3, <1>5, <1>6, <1>7

(* A free slot is reserved: no task is alive, so the new owner is the only
   one, and the outcome of the job before is forgotten. *)
LEMMA ReserveKeepsIInv ==
  ASSUME IInv, NEW r \in Requests, Reserve(r)
  PROVE  IInv'
<1> DEFINE reserved == [running |-> TRUE, exit_code |-> "None",
                        current_phase |-> "precheck", have_plan |-> TRUE]
<1>1. reserved \in InstallStatus /\ status' = reserved
  BY DEF Reserve, InstallStatus
<1>2. /\ state_file' \in InstallStatus \cup {Unreadable}
      /\ lossy' \in BOOLEAN
      /\ FileFollowsStatus'
  BY <1>1, SaveReadsBack DEF Reserve, IInv
<1>3. TypeOK'
  BY <1>1, <1>2 DEF Reserve, Goto, IInv, TypeOK, HandlerStates
<1>4. \A s \in Requests : ~Owner(s)
  BY DEF Reserve, IInv, OwnerHoldsSlot
<1>5. job[r] = "none"
  BY DEF Reserve, IInv, JobFollowsReservation
<1>6. \A s \in Requests : Owner(s)' <=> s = r
  BY <1>4 DEF Reserve, Goto, IInv, TypeOK, Owner
<1>7. JobFollowsReservation'
  BY <1>5 DEF Reserve, Goto, IInv, TypeOK, JobFollowsReservation
<1>8. OwnerIsLatest' /\ OwnerHoldsSlot' /\ SlotHasOwner'
  BY <1>1, <1>6 DEF Reserve, OwnerIsLatest, OwnerHoldsSlot, SlotHasOwner
<1>9. StatusTellsLatestJob'
  BY <1>1, <1>5, NoRequestAssumption DEF Reserve, StatusTellsLatestJob
<1> QED BY <1>2, <1>3, <1>7, <1>8, <1>9 DEF IInv

(* The owner's task goes on or dies; what it owns stays taken. *)
LEMMA TaskMoves ==
  ASSUME IInv,
         NEW r \in Requests,
         Spawn(r) \/ ExecutorReturns(r) \/ ExecutorPanics(r)
  PROVE  IInv'
<1> USE DEF IInv
<1>1. PICK next \in Active \cup {"dead"} : job' = [job EXCEPT ![r] = next]
  BY DEF Spawn, ExecutorReturns, ExecutorPanics, Active
<1>2. UNCHANGED <<status, state_file, mode, latest, lossy>>
  BY DEF Spawn, ExecutorReturns, ExecutorPanics
<1>3. handler' = handler \/ handler' = [handler EXCEPT ![r] = "accepted"]
  BY DEF Spawn, ExecutorReturns, ExecutorPanics, Goto
<1>4. Owner(r)
  BY DEF Spawn, ExecutorReturns, ExecutorPanics, Owner, Active
<1>5. TypeOK'
  BY <1>1, <1>2, <1>3 DEF TypeOK, HandlerStates, JobStates, Active
<1>6. handler'[r] \in {"accepted", "lost"}
  BY <1>3 DEF Spawn, ExecutorReturns, ExecutorPanics, Goto, TypeOK, JobFollowsReservation
<1>7. JobFollowsReservation'
  BY <1>1, <1>3, <1>6 DEF TypeOK, JobFollowsReservation
<1>8. /\ \A s \in Requests : Owner(s)' => Owner(s)
      /\ Owner(r)' \/ job'[r] = "dead"
  BY <1>1, <1>3, <1>4 DEF TypeOK, Owner
<1>9. OwnerIsLatest' /\ OwnerHoldsSlot' /\ SlotHasOwner'
  BY <1>2, <1>4, <1>8 DEF OwnerIsLatest, OwnerHoldsSlot, SlotHasOwner
<1>10. FileFollowsStatus'
  BY <1>2 DEF FileFollowsStatus, LoadInstallState
<1>11. status.running /\ latest = r
  BY <1>4 DEF OwnerIsLatest, OwnerHoldsSlot
<1>12. job[r] \notin {"finished_ok", "finished_err"}
  BY <1>4 DEF Owner, Active, JobFollowsReservation
<1>13. StatusTellsLatestJob'
  BY <1>1, <1>2, <1>11, <1>12, NoRequestAssumption
     DEF StatusTellsLatestJob, TypeOK, Active
<1> QED BY <1>5, <1>7, <1>9, <1>10, <1>13

(* The task reports: it was the only owner, so the slot it frees is its own
   and the outcome it writes is that of the last reservation. *)
LEMMA ReportKeepsIInv ==
  ASSUME IInv, NEW r \in Requests, ReportOk(r) \/ ReportError(r)
  PROVE  IInv'
<1> USE DEF IInv
<1>1. Owner(r) /\ latest = r
  BY DEF ReportOk, ReportError, Owner, Active, OwnerIsLatest
<1>2. PICK code \in {"0", "1"}, phase \in {"done", "error"} :
         status' = [status EXCEPT !.running = FALSE, !.exit_code = code,
                                  !.current_phase = phase]
  BY DEF ReportOk, ReportError
<1>3. status' \in InstallStatus /\ ~status'.running
  BY <1>2 DEF TypeOK, InstallStatus
<1>4. /\ state_file' \in InstallStatus \cup {Unreadable}
      /\ lossy' \in BOOLEAN
      /\ FileFollowsStatus'
  BY <1>3, SaveReadsBack DEF ReportOk, ReportError
<1>5. \/ job' = [job EXCEPT ![r] = "finished_ok"] /\ status'.exit_code = "0"
      \/ job' = [job EXCEPT ![r] = "finished_err"] /\ status'.exit_code = "1"
  BY DEF ReportOk, ReportError, TypeOK, InstallStatus
<1>6. UNCHANGED <<handler, mode, latest>>
  BY DEF ReportOk, ReportError
<1>7. TypeOK'
  BY <1>3, <1>4, <1>5, <1>6 DEF TypeOK, JobStates
<1>8. handler[r] \in {"accepted", "lost"}
  BY DEF ReportOk, ReportError, JobFollowsReservation
<1>9. JobFollowsReservation'
  BY <1>5, <1>6, <1>8 DEF TypeOK, JobFollowsReservation
<1>10. \A s \in Requests : ~Owner(s)'
  BY <1>1, <1>5, <1>6, <1>8 DEF OwnerIsLatest, Owner, Active, TypeOK
<1>11. OwnerIsLatest' /\ OwnerHoldsSlot' /\ SlotHasOwner'
  BY <1>3, <1>10 DEF OwnerIsLatest, OwnerHoldsSlot, SlotHasOwner
<1>12. StatusTellsLatestJob'
  BY <1>1, <1>3, <1>5, <1>6, NoRequestAssumption DEF StatusTellsLatestJob, TypeOK
<1> QED BY <1>4, <1>7, <1>9, <1>11, <1>12

(* After a restart nobody owns the slot.  What the file says is what the
   status said, so a slot that is taken then belonged to a task now dead. *)
LEMMA RestartKeepsIInv ==
  ASSUME IInv, Restart
  PROVE  IInv'
<1> USE DEF IInv
<1>1. TypeOK'
  BY DEF Restart, TypeOK, LoadInstallState, InstallStatus, DefaultStatus,
         HandlerStates, JobStates
<1>2. \A s \in Requests : ~Owner(s)'
  BY DEF Restart, TypeOK, Owner, Active, InProgress
<1>3. JobFollowsReservation'
  BY DEF Restart, TypeOK, JobFollowsReservation, Active, InProgress
<1>4. OwnerIsLatest' /\ OwnerHoldsSlot'
  BY <1>2 DEF OwnerIsLatest, OwnerHoldsSlot
<1>5. FileFollowsStatus'
  BY DEF Restart, FileFollowsStatus, LoadInstallState
<1>6. ~lossy => status' = status
  BY DEF Restart, FileFollowsStatus
<1>7. SlotHasOwner'
  BY <1>6 DEF Restart, SlotHasOwner, Owner, TypeOK
<1>8. \A s \in Requests :
        \/ job'[s] = job[s]
        \/ job[s] \notin {"finished_ok", "finished_err"} /\ job'[s] = "dead"
  BY DEF Restart, TypeOK, Active, JobFollowsReservation
<1>9. StatusTellsLatestJob'
  BY <1>6, <1>8 DEF Restart, StatusTellsLatestJob, TypeOK
<1> QED BY <1>1, <1>3, <1>4, <1>5, <1>7, <1>9

LEMMA NextKeepsIInv == IInv /\ [Next]_vars => IInv'
<1> SUFFICES ASSUME IInv, [Next]_vars PROVE IInv'
  OBVIOUS
<1>1. ASSUME NEW r \in Requests,
             \/ Receive(r) \/ RefuseUnauthorized(r) \/ ValidateOnly(r)
             \/ RefuseMode(r) \/ ValidatePlan(r) \/ SafetyChecks(r)
             \/ Disconnect(r) \/ Conflict(r)
      PROVE  IInv'
  <2>1. handler[r] \in {"new", "received", "validated", "checked"}
    BY <1>1 DEF Receive, RefuseUnauthorized, ValidateOnly, RefuseMode, ValidatePlan,
                SafetyChecks, Disconnect, Conflict
  <2>2. UNCHANGED <<slotVars, mode>>
    BY <1>1 DEF Receive, RefuseUnauthorized, ValidateOnly, RefuseMode, ValidatePlan,
                SafetyChecks, Disconnect, Conflict
  <2>3. \E place \in HandlerStates \ {"reserved"} : Goto(r, place)
    BY <1>1 DEF Receive, RefuseUnauthorized, ValidateOnly, RefuseMode, ValidatePlan,
                SafetyChecks, Disconnect, Conflict, HandlerStates
  <2> QED BY <2>1, <2>2, <2>3, HandlerMoves
<1>2. CASE \E r \in Requests : Reserve(r)
  BY <1>2, ReserveKeepsIInv
<1>3. CASE \E r \in Requests : Spawn(r) \/ ExecutorReturns(r) \/ ExecutorPanics(r)
  BY <1>3, TaskMoves
<1>4. CASE \E r \in Requests : ReportOk(r) \/ ReportError(r)
  BY <1>4, ReportKeepsIInv
<1>5. CASE Restart
  BY <1>5, RestartKeepsIInv
<1>6. CASE UNCHANGED vars
  BY <1>6 DEF vars, IInv, TypeOK, JobFollowsReservation, OwnerIsLatest, OwnerHoldsSlot,
              FileFollowsStatus, LoadInstallState, SlotHasOwner, StatusTellsLatestJob, Owner
<1> QED BY <1>1, <1>2, <1>3, <1>4, <1>5, <1>6 DEF Next, Answer, Run

(* The whole invariant, for every set of requests and modes. *)
THEOREM IInvAlways == Spec => []IInv
BY InitIInv, NextKeepsIInv, PTL DEF Spec

-----------------------------------------------------------------------------
(* Every variable keeps its type, the loaded status included. *)
THEOREM TypeCorrect == Spec => []TypeOK
<1>1. IInv => TypeOK
  BY DEF IInv
<1> QED BY <1>1, IInvAlways, PTL

(* However many installs are requested, by handlers interleaved in any order
   and across any restarts, at most one runs. *)
THEOREM AtMostOneInstall == Spec => []AtMostOneOwner
<1>1. IInv => AtMostOneOwner
  BY DEF IInv, OwnerIsLatest, AtMostOneOwner
<1> QED BY <1>1, IInvAlways, PTL

(* A live install is never shown as a free slot. *)
THEOREM LiveInstallHoldsSlot == Spec => []OwnerHoldsSlot
<1>1. IInv => OwnerHoldsSlot
  BY DEF IInv
<1> QED BY <1>1, IInvAlways, PTL

(* A slot taken for nobody is explained by a dead task or a failed save. *)
THEOREM TakenSlotIsExplained == Spec => []SlotHasOwner
<1>1. IInv => SlotHasOwner
  BY DEF IInv
<1> QED BY <1>1, IInvAlways, PTL

(* As long as saves reach the file, GET /install/status is about the last
   accepted install, after any number of restarts. *)
THEOREM StatusIsTruthful == Spec => []StatusTellsLatestJob
<1>1. IInv => StatusTellsLatestJob
  BY DEF IInv
<1> QED BY <1>1, IInvAlways, PTL

-----------------------------------------------------------------------------
(* The refinement.  SlotView says what the mapping shows in the states IInv
   allows; it holds before and after every step, and each step then is one of
   the slot's:
     Reserve Grant   ReportOk, ReportError Complete   ExecutorPanics Die
     the refusals, the conflict and the disconnect Refuse
   the restart is the slot's, and everything else a stutter. *)

Waiting == {"new", "received", "validated", "checked"}

SlotView ==
    /\ \A r \in Requests : Owner(r) => holderBar = r
    /\ (\A r \in Requests : ~Owner(r)) =>
          holderBar = IF status.running THEN Orphan ELSE Nobody
    /\ verdictBar = [r \in Requests |-> verdictBar[r]]
    /\ \A r \in Requests :
         /\ Owner(r) => verdictBar[r] = "granted"
         /\ job[r] = "finished_ok" => verdictBar[r] = "succeeded"
         /\ job[r] = "finished_err" => verdictBar[r] = "failed"
         /\ job[r] = "dead" => verdictBar[r] = "abandoned"
         /\ handler[r] \in Waiting => verdictBar[r] = "pending"
         /\ job[r] = "none" /\ handler[r] \notin Waiting \cup {"reserved"}
              => verdictBar[r] = "refused"

LEMMA IInvGivesSlotView == IInv => SlotView
<1> SUFFICES ASSUME IInv PROVE SlotView
  OBVIOUS
<1>1. ASSUME NEW r \in Requests, Owner(r) PROVE holderBar = r
  <2>1. status.running /\ \A s \in Requests : Owner(s) <=> s = r
    BY <1>1 DEF IInv, OwnerHoldsSlot, OwnerIsLatest
  <2> QED BY <2>1 DEF holderBar
<1>2. ASSUME \A r \in Requests : ~Owner(r)
      PROVE  holderBar = IF status.running THEN Orphan ELSE Nobody
  BY <1>2 DEF holderBar
<1>3. verdictBar = [r \in Requests |-> verdictBar[r]]
  BY DEF verdictBar
<1>4. ASSUME NEW r \in Requests
      PROVE  /\ Owner(r) => verdictBar[r] = "granted"
             /\ job[r] = "finished_ok" => verdictBar[r] = "succeeded"
             /\ job[r] = "finished_err" => verdictBar[r] = "failed"
             /\ job[r] = "dead" => verdictBar[r] = "abandoned"
             /\ handler[r] \in Waiting => verdictBar[r] = "pending"
             /\ job[r] = "none" /\ handler[r] \notin Waiting \cup {"reserved"}
                  => verdictBar[r] = "refused"
  <2>1. job[r] # "none" => handler[r] \in {"accepted", "lost"}
    BY DEF IInv, JobFollowsReservation
  <2> QED BY <2>1 DEF verdictBar, Owner, Active, Waiting
<1> QED BY <1>1, <1>2, <1>3, <1>4 DEF SlotView

-----------------------------------------------------------------------------
(* A request whose handler and task did not move is shown as before. *)
LEMMA UnmovedVerdict ==
  ASSUME IInv, SlotView, SlotView', NEW r \in Requests,
         handler'[r] = handler[r], job'[r] = job[r]
  PROVE  verdictBar'[r] = verdictBar[r]
<1>1. job[r] \in JobStates /\ (Owner(r)' <=> Owner(r))
  BY DEF IInv, TypeOK, Owner
<1>2. CASE Owner(r)
  BY <1>1, <1>2 DEF SlotView
<1>3. CASE job[r] \in {"finished_ok", "finished_err", "dead"}
  BY <1>3 DEF SlotView
<1>4. CASE job[r] = "none" /\ handler[r] # "reserved"
  BY <1>4 DEF SlotView
<1> QED BY <1>1, <1>2, <1>3, <1>4 DEF JobStates, Owner, Active

(* A handler that moves without touching the slot is refused, or nothing is
   seen of it. *)
LEMMA HandlerRefuses ==
  ASSUME IInv, SlotView, SlotView',
         NEW r \in Requests,
         NEW place \in HandlerStates \ {"reserved"},
         handler[r] \in Waiting,
         Goto(r, place),
         UNCHANGED <<slotVars, mode>>
  PROVE  [Slot!Next]_(Slot!slotVars)
<1>1. job[r] = "none" /\ job' = job /\ status' = status
  BY DEF IInv, JobFollowsReservation, slotVars, Waiting
<1>2. handler'[r] = place /\ \A s \in Requests \ {r} : handler'[s] = handler[s]
  BY DEF Goto, IInv, TypeOK
<1>3. \A s \in Requests : Owner(s)' <=> Owner(s)
  BY <1>1, <1>2 DEF Owner, Waiting
<1>4. holderBar' = holderBar
  <2>1. CASE \E s \in Requests : Owner(s)
    BY <2>1, <1>3 DEF SlotView
  <2>2. CASE \A s \in Requests : ~Owner(s)
    BY <2>2, <1>1, <1>3 DEF SlotView
  <2> QED BY <2>1, <2>2
<1>5. \A s \in Requests \ {r} : verdictBar'[s] = verdictBar[s]
  BY <1>1, <1>2, UnmovedVerdict
<1>6. verdictBar[r] = "pending"
  BY DEF SlotView
<1>7. CASE place \in Waiting
  <2>1. verdictBar'[r] = "pending"
    BY <1>2, <1>7 DEF SlotView
  <2>2. verdictBar' = verdictBar
    BY <2>1, <1>5, <1>6 DEF SlotView
  <2> QED BY <2>2, <1>4 DEF Slot!slotVars
<1>8. CASE place \notin Waiting
  <2>1. verdictBar'[r] = "refused"
    BY <1>1, <1>2, <1>8 DEF SlotView
  <2>2. verdictBar' = [verdictBar EXCEPT ![r] = "refused"]
    BY <2>1, <1>5 DEF SlotView
  <2> QED BY <2>2, <1>4, <1>6 DEF Slot!Refuse, Slot!Next
<1> QED BY <1>7, <1>8

(* Reserving the free slot grants it. *)
LEMMA ReserveGrants ==
  ASSUME IInv, SlotView, SlotView', NEW r \in Requests, Reserve(r)
  PROVE  Slot!Grant(r)
<1>1. \A s \in Requests : ~Owner(s)
  BY DEF Reserve, IInv, OwnerHoldsSlot
<1>2. \A s \in Requests \ {r} : job'[s] = job[s] /\ handler'[s] = handler[s]
  BY DEF Reserve, Goto, IInv, TypeOK
<1>3. handler[r] = "checked" /\ handler'[r] = "reserved" /\ ~status.running
  BY DEF Reserve, Goto, IInv, TypeOK
<1>4. holderBar = Nobody /\ holderBar' = r /\ verdictBar[r] = "pending"
  BY <1>1, <1>3 DEF SlotView, Owner, Waiting
<1>5. verdictBar'[r] = "granted"
  BY <1>3 DEF SlotView, Owner
<1>6. \A s \in Requests \ {r} : verdictBar'[s] = verdictBar[s]
  BY <1>2, UnmovedVerdict
<1>7. verdictBar' = [verdictBar EXCEPT ![r] = "granted"]
  BY <1>5, <1>6 DEF SlotView
<1> QED BY <1>4, <1>7 DEF Slot!Grant

(* Neither starting the task nor its return is seen. *)
LEMMA TaskIsHidden ==
  ASSUME IInv, SlotView, SlotView', NEW r \in Requests,
         Spawn(r) \/ ExecutorReturns(r)
  PROVE  UNCHANGED Slot!slotVars
<1>1. Owner(r) /\ Owner(r)'
  BY DEF Spawn, ExecutorReturns, Goto, IInv, TypeOK, Owner, Active
<1>2. \A s \in Requests \ {r} : job'[s] = job[s] /\ handler'[s] = handler[s]
  BY DEF Spawn, ExecutorReturns, Goto, IInv, TypeOK
<1>3. holderBar' = holderBar /\ verdictBar'[r] = verdictBar[r]
  BY <1>1 DEF SlotView
<1>4. \A s \in Requests \ {r} : verdictBar'[s] = verdictBar[s]
  BY <1>2, UnmovedVerdict
<1>5. verdictBar' = verdictBar
  BY <1>3, <1>4 DEF SlotView
<1> QED BY <1>3, <1>5 DEF Slot!slotVars

(* A task that dies orphans the slot: nobody else had it. *)
LEMMA PanicDies ==
  ASSUME IInv, SlotView, SlotView', NEW r \in Requests, ExecutorPanics(r)
  PROVE  Slot!Die(r)
<1>1. Owner(r) /\ status.running /\ \A s \in Requests \ {r} : ~Owner(s)
  BY DEF ExecutorPanics, IInv, OwnerIsLatest, OwnerHoldsSlot, Owner, Active
<1>2. /\ job' = [job EXCEPT ![r] = "dead"]
      /\ handler' = handler /\ status' = status
      /\ handler[r] \in {"accepted", "lost"}
  BY DEF ExecutorPanics, IInv, JobFollowsReservation
<1>3. job'[r] = "dead" /\ \A s \in Requests \ {r} : job'[s] = job[s]
  BY <1>2 DEF IInv, TypeOK
<1>4. \A s \in Requests : ~Owner(s)'
  BY <1>1, <1>2, <1>3 DEF Owner, Active
<1>5. holderBar = r /\ holderBar' = Orphan
  BY <1>1, <1>2, <1>4 DEF SlotView
<1>6. verdictBar'[r] = "abandoned"
  BY <1>3 DEF SlotView
<1>7. \A s \in Requests \ {r} : verdictBar'[s] = verdictBar[s]
  BY <1>2, <1>3, UnmovedVerdict
<1>8. verdictBar' = [verdictBar EXCEPT ![r] = "abandoned"]
  BY <1>6, <1>7 DEF SlotView
<1> QED BY <1>5, <1>8 DEF Slot!Die

(* A report completes the job that holds the slot, and frees it. *)
LEMMA ReportCompletes ==
  ASSUME IInv, SlotView, SlotView', NEW r \in Requests,
         ReportOk(r) \/ ReportError(r)
  PROVE  Slot!Complete(r)
<1>1. Owner(r) /\ \A s \in Requests \ {r} : ~Owner(s)
  BY DEF ReportOk, ReportError, IInv, OwnerIsLatest, Owner, Active
<1>2. /\ handler' = handler /\ ~status'.running
      /\ handler[r] \in {"accepted", "lost"}
  BY DEF ReportOk, ReportError, IInv, TypeOK, InstallStatus, JobFollowsReservation
<1>3. /\ job'[r] \in {"finished_ok", "finished_err"}
      /\ \A s \in Requests \ {r} : job'[s] = job[s]
  BY DEF ReportOk, ReportError, IInv, TypeOK
<1>4. \A s \in Requests : ~Owner(s)'
  BY <1>1, <1>2, <1>3 DEF Owner, Active
<1>5. holderBar = r /\ holderBar' = Nobody
  BY <1>1, <1>2, <1>4 DEF SlotView
<1>6. PICK v \in {"succeeded", "failed"} : verdictBar'[r] = v
  BY <1>3 DEF SlotView
<1>7. \A s \in Requests \ {r} : verdictBar'[s] = verdictBar[s]
  BY <1>2, <1>3, UnmovedVerdict
<1>8. verdictBar' = [verdictBar EXCEPT ![r] = v]
  BY <1>6, <1>7 DEF SlotView
<1> QED BY <1>5, <1>8 DEF Slot!Complete

(* A restart abandons the granted request, drops those under way, and leaves
   the slot free or orphaned. *)
LEMMA RestartRestarts ==
  ASSUME IInv, SlotView, SlotView', Restart
  PROVE  Slot!Restart
<1> DEFINE dropped == {r \in Requests : handler[r] \in Waiting \ {"new"}}
           verdictNext == [r \in Requests |->
                             CASE verdictBar[r] = "granted" -> "abandoned"
                               [] r \in dropped            -> "refused"
                               [] OTHER                    -> verdictBar[r]]
<1>1. \A r \in Requests : ~Owner(r)'
  BY DEF Restart, IInv, TypeOK, Owner, Active, InProgress
<1>2. holderBar' \in {Nobody, Orphan}
  BY <1>1 DEF SlotView
<1>3. dropped \in SUBSET {r \in Requests : verdictBar[r] = "pending"}
  BY DEF SlotView
<1>4. ASSUME NEW r \in Requests PROVE verdictBar'[r] = verdictNext[r]
  <2>1. /\ job[r] \in JobStates /\ handler[r] \in HandlerStates
        /\ job[r] # "none" => handler[r] \in {"accepted", "lost"}
        /\ handler'[r] = IF handler[r] \in InProgress THEN "lost" ELSE handler[r]
        /\ job'[r] = IF Owner(r) THEN "dead" ELSE job[r]
    BY DEF Restart, IInv, TypeOK, JobFollowsReservation, Owner
  <2>2. CASE Owner(r)
    <3>1. verdictBar[r] = "granted" /\ job'[r] = "dead"
      BY <2>1, <2>2 DEF SlotView
    <3> QED BY <3>1 DEF SlotView
  <2>3. CASE handler[r] \in Waiting \ {"new"}
    <3>1. handler'[r] = "lost" /\ job'[r] = "none" /\ verdictBar[r] = "pending"
      BY <2>1, <2>3 DEF SlotView, Waiting, InProgress, Owner, Active
    <3>2. verdictBar'[r] = "refused"
      BY <3>1 DEF SlotView, Waiting
    <3>3. r \in dropped
      BY <2>3
    <3> QED BY <3>1, <3>2, <3>3
  <2>4. CASE ~Owner(r) /\ handler[r] \notin Waiting \ {"new"}
    <3>1. handler'[r] = handler[r] /\ job'[r] = job[r]
      BY <2>1, <2>4 DEF InProgress, Waiting, Owner
    <3>2. verdictBar'[r] = verdictBar[r]
      BY <3>1, UnmovedVerdict
    <3>3. r \notin dropped
      BY <2>4
    <3>4. verdictBar[r] # "granted"
      BY <2>1, <2>4 DEF SlotView, JobStates, HandlerStates, Owner, Active, Waiting
    <3> QED BY <3>2, <3>3, <3>4
  <2> QED BY <2>2, <2>3, <2>4
<1>5. verdictBar' = verdictNext
  BY <1>4 DEF SlotView
<1> QED BY <1>2, <1>3, <1>5 DEF Slot!Restart

-----------------------------------------------------------------------------
LEMMA StepImplementsSlot ==
  ASSUME IInv, SlotView, SlotView', [Next]_vars
  PROVE  [Slot!Next]_(Slot!slotVars)
<1>1. ASSUME NEW r \in Requests,
             \/ Receive(r) \/ RefuseUnauthorized(r) \/ ValidateOnly(r)
             \/ RefuseMode(r) \/ ValidatePlan(r) \/ SafetyChecks(r)
             \/ Disconnect(r) \/ Conflict(r)
      PROVE  [Slot!Next]_(Slot!slotVars)
  <2>1. handler[r] \in Waiting
    BY <1>1 DEF Receive, RefuseUnauthorized, ValidateOnly, RefuseMode, ValidatePlan,
                SafetyChecks, Disconnect, Conflict, Waiting
  <2>2. UNCHANGED <<slotVars, mode>>
    BY <1>1 DEF Receive, RefuseUnauthorized, ValidateOnly, RefuseMode, ValidatePlan,
                SafetyChecks, Disconnect, Conflict
  <2>3. \E place \in HandlerStates \ {"reserved"} : Goto(r, place)
    BY <1>1 DEF Receive, RefuseUnauthorized, ValidateOnly, RefuseMode, ValidatePlan,
                SafetyChecks, Disconnect, Conflict, HandlerStates
  <2> QED BY <2>1, <2>2, <2>3, HandlerRefuses
<1>2. CASE \E r \in Requests : Reserve(r)
  BY <1>2, ReserveGrants DEF Slot!Next
<1>3. CASE \E r \in Requests : Spawn(r) \/ ExecutorReturns(r)
  BY <1>3, TaskIsHidden
<1>4. CASE \E r \in Requests : ExecutorPanics(r)
  BY <1>4, PanicDies DEF Slot!Next
<1>5. CASE \E r \in Requests : ReportOk(r) \/ ReportError(r)
  BY <1>5, ReportCompletes DEF Slot!Next
<1>6. CASE Restart
  BY <1>6, RestartRestarts DEF Slot!Next
<1>7. CASE UNCHANGED vars
  BY <1>7 DEF vars, holderBar, verdictBar, Owner, Slot!slotVars
<1> QED BY <1>1, <1>2, <1>3, <1>4, <1>5, <1>6, <1>7 DEF Next, Answer, Run

LEMMA InitImplementsSlot == Init => Slot!Init
<1> SUFFICES ASSUME Init PROVE Slot!Init
  OBVIOUS
<1>1. SlotView
  BY InitIInv, IInvGivesSlotView
<1>2. \A r \in Requests : ~Owner(r) /\ handler[r] \in Waiting
  BY DEF Init, Owner, Active, Waiting
<1>3. holderBar = Nobody
  BY <1>1, <1>2 DEF SlotView, Init, DefaultStatus
<1>4. verdictBar = [r \in Requests |-> "pending"]
  BY <1>1, <1>2 DEF SlotView
<1> QED BY <1>3, <1>4 DEF Slot!Init

(* Handlers, tasks, panics, failing saves and restarts together do to the
   install slot only what InstallSlot allows. *)
THEOREM JobImplementsSlot == Spec => ImplementsSlot
<1>1. Spec => []IInv
  BY IInvAlways
<1>2. IInv /\ IInv' /\ [Next]_vars => [Slot!Next]_(Slot!slotVars)
  <2>1. IInv' => SlotView'
    BY IInvGivesSlotView, PTL
  <2> QED BY <2>1, IInvGivesSlotView, StepImplementsSlot
<1> QED BY <1>1, <1>2, InitImplementsSlot, PTL DEF Spec, ImplementsSlot, Slot!Spec
=============================================================================
