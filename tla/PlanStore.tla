------------------------------ MODULE PlanStore ------------------------------
(***************************************************************************)
(* The v2 install service (api/install.rs): POST /api/v2/plan saves a plan *)
(* under the digest of its bytes, PUT /api/v2/secrets saves the files of   *)
(* its secrets next to it.                                                 *)
(*                                                                         *)
(* Nothing locks the store.  Its calls do not await, but the runtime has   *)
(* several threads, so two requests can be between any two system calls    *)
(* at once, and the daemon can die between any two.  /run keeps the files  *)
(* while the machine is up.                                                *)
(*                                                                         *)
(* A plan stands for its digest; a file for the request that wrote it.     *)
(* The checks for links and modes are one of the ways a call fails.  The   *)
(* dry-run and the install only load a plan, which writes nothing here.    *)
(***************************************************************************)
CONSTANTS
    PlanRequests,       \* POST /api/v2/plan
    SecretRequests,     \* PUT /api/v2/secrets
    Plans,
    Earlier,            \* a writer of before this life of the daemon
    Absent,             \* no such file
    Torn                \* a file with part of a text

Requests == PlanRequests \cup SecretRequests

ASSUME StoreAssumption ==
    /\ PlanRequests \cap SecretRequests = {}
    /\ Absent # Torn
    /\ {Absent, Torn} \cap (Requests \cup Plans \cup {Earlier}) = {}

VARIABLES
    plan, pppoe,    \* the plan a request names; its secrets have a PPPoE password
    handler,        \* where each request's handler is
    file,           \* the file its atomic_write is about
    temp,           \* the temporary file of that write
    store,          \* /run/kryxd/secrets/<digest>/
    disturbed,      \* history: another request wrote what this one wrote
    unremoved       \* history: the temporary file could not be removed

data == <<plan, pppoe>>
storeVars == <<file, temp, store>>
history == <<disturbed, unremoved>>
storeAll == <<plan, pppoe, handler, file, temp, store, disturbed, unremoved>>

-----------------------------------------------------------------------------
(* State *)

Files == {"plan", "admin", "pppoe"}
Contents == Requests \cup {Earlier, Absent, Torn}
Writing == {"create", "write", "rename", "remove", "sync"}
InProgress == {"received", "hash"} \cup Writing
Answered == {"refused", "not_found", "failed", "created", "ready"}
Places == {"new", "lost", "dead"} \cup InProgress \cup Answered

TypeOK ==
    /\ plan \in [Requests -> Plans]
    /\ pppoe \in [Requests -> BOOLEAN]
    /\ handler \in [Requests -> Places]
    /\ file \in [Requests -> Files]
    /\ temp \in [Requests -> {"none", "partial", "whole"}]
    /\ store \in [Plans -> [Files -> Contents]]
    /\ disturbed \in [Requests -> BOOLEAN]
    /\ unremoved \in [Requests -> BOOLEAN]

(* What an earlier life of the daemon may have left of a plan. *)
EarlierDirectories ==
    {d \in [Files -> {Absent, Earlier}] :
       /\ d["admin"] = Earlier => d["plan"] = Earlier
       /\ d["pppoe"] = Earlier => d["admin"] = Earlier}

Init ==
    /\ plan \in [Requests -> Plans]
    /\ pppoe \in {p \in [Requests -> BOOLEAN] : \A r \in Requests \ SecretRequests : ~p[r]}
    /\ handler = [r \in Requests |-> "new"]
    /\ file = [r \in Requests |-> IF r \in SecretRequests THEN "admin" ELSE "plan"]
    /\ temp = [r \in Requests |-> "none"]
    /\ store \in [Plans -> EarlierDirectories]
    /\ disturbed = [r \in Requests |-> FALSE]
    /\ unremoved = [r \in Requests |-> FALSE]

-----------------------------------------------------------------------------
(* Every handler *)

Goto(r, place) == handler' = [handler EXCEPT ![r] = place]
At(r, place) == handler[r] = place /\ UNCHANGED data

PlanExists(p) == store[p]["plan"] # Absent

Receive(r) ==
    At(r, "new") /\ Goto(r, "received") /\ UNCHANGED <<storeVars, history>>

(* A wrong token or body, capabilities a plan may not ask for, and calls that
   fail before anything was written. *)
Refuse(r) ==
    At(r, "received") /\ Goto(r, "refused") /\ UNCHANGED <<storeVars, history>>

-----------------------------------------------------------------------------
(* save_plan and save_secrets *)

SavePlan(r) ==
    /\ r \in PlanRequests
    /\ At(r, "received")
    /\ Goto(r, "create")
    /\ UNCHANGED <<storeVars, history>>

SaveSecrets(r) ==
    /\ r \in SecretRequests
    /\ At(r, "received")
    /\ Goto(r, IF PlanExists(plan[r]) THEN "hash" ELSE "not_found")
    /\ UNCHANGED <<storeVars, history>>

(* The hashing process; then persist_secrets looks for the plan again. *)
HashPassword(r) ==
    /\ At(r, "hash")
    /\ \/ Goto(r, IF PlanExists(plan[r]) THEN "create" ELSE "not_found")
       \/ Goto(r, "failed")
    /\ UNCHANGED <<storeVars, history>>

-----------------------------------------------------------------------------
(* atomic_write: a temporary file whose guard removes it when a call fails
   before the rename. *)

CreateTemp(r) ==
    /\ At(r, "create")
    /\ \/ Goto(r, "write") /\ temp' = [temp EXCEPT ![r] = "partial"]
       \/ Goto(r, "failed") /\ UNCHANGED temp
    /\ UNCHANGED <<file, store, history>>

(* PendingFile::drop: nobody learns that the removal failed. *)
DropPending(r) ==
    \/ temp' = [temp EXCEPT ![r] = "none"] /\ UNCHANGED unremoved
    \/ UNCHANGED temp /\ unremoved' = [unremoved EXCEPT ![r] = TRUE]

(* Mutant: no guard removes the temporary file. *)
WriteTemp_Leaves(r) ==
    /\ At(r, "write")
    /\ \/ Goto(r, "rename") /\ temp' = [temp EXCEPT ![r] = "whole"]
       \/ Goto(r, "failed") /\ UNCHANGED temp
    /\ UNCHANGED <<file, store, history>>

(* Mutant: write for write_all, whose count of bytes is not looked at. *)
WriteTemp_Short(r) ==
    /\ At(r, "write")
    /\ \/ /\ Goto(r, "rename")
          /\ temp' = [temp EXCEPT ![r] = "whole"] \/ UNCHANGED temp
          /\ UNCHANGED unremoved
       \/ Goto(r, "failed") /\ DropPending(r)
    /\ UNCHANGED <<file, store, disturbed>>

WriteTemp(r) ==
    /\ At(r, "write")
    /\ \/ /\ Goto(r, "rename")
          /\ temp' = [temp EXCEPT ![r] = "whole"]
          /\ UNCHANGED unremoved
       \/ Goto(r, "failed") /\ DropPending(r)
    /\ UNCHANGED <<file, store, disturbed>>

(* The secrets of a plan have another writer than r: whoever is writing them
   or was told they are ready no longer knows what is there. *)
Disturb(r) ==
    disturbed' = [s \in Requests |->
      \/ disturbed[s]
      \/ /\ {r, s} \subseteq SecretRequests
         /\ r # s /\ plan[s] = plan[r]
         /\ handler[s] \in Writing \cup {"ready"}]

Publish(r, content) ==
    /\ store' = [store EXCEPT ![plan[r]][file[r]] = content]
    /\ Disturb(r)

(* What follows a write: the answer of save_plan, or the next file. *)
AfterWrite(r) ==
    IF file[r] = "plan" THEN Goto(r, "created") /\ UNCHANGED file
    ELSE IF file[r] = "pppoe" THEN Goto(r, "sync") /\ UNCHANGED file
    ELSE /\ Goto(r, IF pppoe[r] THEN "create" ELSE "remove")
         /\ file' = [file EXCEPT ![r] = "pppoe"]

(* The temporary file, with what was written to it, takes the final name. *)
Materialize(r) ==
    /\ Publish(r, IF temp[r] = "whole" THEN r ELSE Torn)
    /\ temp' = [temp EXCEPT ![r] = "none"]
    /\ UNCHANGED unremoved

RenameFails(r) == DropPending(r) /\ UNCHANGED <<file, store, disturbed>>

(* Mutant: a rename that fails is taken for one that was done. *)
Rename_IgnoresFailure(r) ==
    /\ At(r, "rename")
    /\ AfterWrite(r)
    /\ \/ Materialize(r)
       \/ DropPending(r) /\ UNCHANGED <<store, disturbed>>

(* Mutant: a rename that failed is tried again, for ever. *)
Rename_Retries(r) ==
    /\ At(r, "rename")
    /\ \/ AfterWrite(r) /\ Materialize(r)
       \/ Goto(r, "create") /\ RenameFails(r)

(* The mode and the directory are synced after the rename: a failure there is
   answered as an error although the file is in place. *)
Rename(r) ==
    /\ At(r, "rename")
    /\ \/ AfterWrite(r) /\ Materialize(r)
       \/ Goto(r, "failed") /\ UNCHANGED file /\ Materialize(r)
       \/ Goto(r, "failed") /\ RenameFails(r)

(* Mutant: the PPPoE password of an earlier request stays. *)
RemoveObsolete_Skipped(r) ==
    /\ At(r, "remove")
    /\ Goto(r, "sync")
    /\ UNCHANGED <<storeVars, history>>

RemoveObsolete(r) ==
    /\ At(r, "remove")
    /\ \/ Goto(r, "sync") /\ Publish(r, Absent)
       \/ Goto(r, "failed") /\ UNCHANGED <<store, disturbed>>
    /\ UNCHANGED <<file, temp, unremoved>>

SyncDirectory(r) ==
    /\ At(r, "sync")
    /\ Goto(r, "ready") \/ Goto(r, "failed")
    /\ UNCHANGED <<storeVars, history>>

-----------------------------------------------------------------------------
(* Around the handlers *)

(* The client goes away while the password is hashed, the only await. *)
Disconnect(r) ==
    /\ At(r, "hash")
    /\ Goto(r, "lost")
    /\ UNCHANGED <<storeVars, history>>

(* The daemon dies and comes back. It keeps nothing but its files, temporary
   ones included. *)
Crash ==
    /\ \E r \in Requests : handler[r] \in InProgress
    /\ handler' = [r \in Requests |->
                     IF handler[r] \in InProgress THEN "dead" ELSE handler[r]]
    /\ UNCHANGED <<data, storeVars, history>>

Handle(r) ==
    \/ Refuse(r) \/ SavePlan(r) \/ SaveSecrets(r) \/ HashPassword(r)
    \/ CreateTemp(r) \/ WriteTemp(r) \/ Rename(r) \/ RemoveObsolete(r) \/ SyncDirectory(r)

Next ==
    \/ \E r \in Requests : Receive(r) \/ Handle(r) \/ Disconnect(r)
    \/ Crash

Spec == Init /\ [][Next]_storeAll

(* The runtime polls every handler, and no call it makes hangs. *)
FairSpec == Spec /\ \A r \in Requests : WF_storeAll(Handle(r))

-----------------------------------------------------------------------------
(* Properties *)

(* Whoever reads a file of the store under its final name finds all of what
   one request wrote, at every point of every write and after any crash. *)
PublishedIsWhole == \A p \in Plans, f \in Files : store[p][f] # Torn

(* A plan whose digest was answered with 201 can be loaded from then on,
   whatever failed or crashed in between. *)
CreatedPlanLoads ==
    \A r \in PlanRequests :
      handler[r] = "created" => PlanExists(plan[r]) /\ store[plan[r]]["plan"] # Torn

(* `ready` means that the secrets next to the plan are the two of this request:
   not the PPPoE password of an earlier one, nor half of what a failed or
   crashed one left, unless another request wrote them since. *)
UndisturbedReadyIsOwn ==
    \A r \in SecretRequests :
      handler[r] = "ready" /\ ~disturbed[r] =>
        /\ store[plan[r]]["admin"] = r
        /\ store[plan[r]]["pppoe"] = IF pppoe[r] THEN r ELSE Absent

(* The text of a plan or secret is in a temporary file only while its request
   writes it, or because the daemon died then, or because the request was
   answered with an error and the file could not be removed either: never next
   to a file whose request was told that all went well. *)
LeftTempIsExplained ==
    \A r \in Requests :
      temp[r] # "none" =>
        \/ handler[r] \in {"write", "rename", "dead"}
        \/ handler[r] = "failed" /\ unremoved[r]

(* Every request is answered, unless its client or the daemon is gone. *)
EveryRequestAnswered ==
    \A r \in Requests :
      handler[r] = "received" ~> handler[r] \in Answered \cup {"lost", "dead"}
=============================================================================
