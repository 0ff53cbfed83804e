---------------------------- MODULE InstallSlot ----------------------------
(***************************************************************************)
(* What POST /install promises its clients, without handlers, tasks, locks *)
(* or the state file: one slot, granted to at most one request at a time.  *)
(* A slot whose job died without reporting is an Orphan: nothing but a     *)
(* restart takes it away again, and a restart may also leave one behind.   *)
(* InstallJob implements this specification.                               *)
(***************************************************************************)
CONSTANTS
    Requests,   \* the POST /install requests
    Nobody,     \* the slot is free
    Orphan      \* the slot is taken and no job will ever give it back

VARIABLES
    holder,     \* who has the slot
    verdict     \* what became of each request

slotVars == <<holder, verdict>>

Verdicts == {"pending", "refused", "granted", "succeeded", "failed", "abandoned"}

SlotTypeOK ==
    /\ holder \in Requests \cup {Nobody, Orphan}
    /\ verdict \in [Requests -> Verdicts]

Init ==
    /\ holder = Nobody
    /\ verdict = [r \in Requests |-> "pending"]

(* The request gets the slot: only a free one can be granted. *)
Grant(r) ==
    /\ holder = Nobody
    /\ verdict[r] = "pending"
    /\ holder' = r
    /\ verdict' = [verdict EXCEPT ![r] = "granted"]

Refuse(r) ==
    /\ verdict[r] = "pending"
    /\ verdict' = [verdict EXCEPT ![r] = "refused"]
    /\ UNCHANGED holder

(* The job ends and frees the slot. *)
Complete(r) ==
    /\ holder = r
    /\ holder' = Nobody
    /\ \E v \in {"succeeded", "failed"} : verdict' = [verdict EXCEPT ![r] = v]

(* The job dies inside the daemon and leaves the slot taken. *)
Die(r) ==
    /\ holder = r
    /\ holder' = Orphan
    /\ verdict' = [verdict EXCEPT ![r] = "abandoned"]

(* The daemon restarts: the job in progress is gone, and so are some of the
   requests it had not answered yet. *)
Restart ==
    /\ holder' \in {Nobody, Orphan}
    /\ \E dropped \in SUBSET {r \in Requests : verdict[r] = "pending"} :
         verdict' = [r \in Requests |->
                       CASE verdict[r] = "granted" -> "abandoned"
                         [] r \in dropped          -> "refused"
                         [] OTHER                  -> verdict[r]]

Next ==
    \/ \E r \in Requests : Grant(r) \/ Refuse(r) \/ Complete(r) \/ Die(r)
    \/ Restart

Spec == Init /\ [][Next]_slotVars
=============================================================================
