-------------------------- MODULE PlanStore_proofs ---------------------------
(***************************************************************************)
(* Theorems about PlanStore, for every set of plans and requests.          *)
(*                                                                         *)
(* That the secrets of an undisturbed request are its own is inductive     *)
(* once the invariant says what is already in place while they are still   *)
(* being written: the hash, as soon as the PPPoE file is the next one      *)
(* (OwnFiles), and that a request is only ever about to write its own kind *)
(* of file, so that saving a plan touches no secrets and saving secrets no *)
(* plan (FileFits, SecretsInOrder).  That a published file is whole rests  *)
(* on what its temporary file holds by the time it is renamed              *)
(* (WholeBeforeRename).                                                    *)
(***************************************************************************)
EXTENDS PlanStore, TLAPS

(* save_plan writes plan.json and nothing else, save_secrets the two others. *)
FileFits ==
    /\ \A r \in PlanRequests :
         file[r] = "plan" /\ handler[r] \notin {"hash", "remove", "sync", "ready"}
    /\ \A r \in SecretRequests : file[r] # "plan" /\ handler[r] # "created"

(* The hash comes first; the PPPoE password is written if there is one, and
   removed if there is none. *)
SecretsInOrder ==
    \A r \in SecretRequests :
      /\ handler[r] \in {"new", "received", "hash"} => file[r] = "admin"
      /\ handler[r] \in {"remove", "sync", "ready"} => file[r] = "pppoe"
      /\ handler[r] = "remove" => ~pppoe[r]
      /\ handler[r] \in {"create", "write", "rename"} /\ file[r] = "pppoe" => pppoe[r]

(* Nothing is renamed before all of it was written. *)
WholeBeforeRename == \A r \in Requests : handler[r] = "rename" => temp[r] = "whole"

(* What is in place of the secrets of a request nobody disturbed. *)
OwnFiles ==
    \A r \in SecretRequests :
      ~disturbed[r] =>
        /\ handler[r] \in Writing \cup {"ready"} /\ file[r] = "pppoe" =>
             store[plan[r]]["admin"] = r
        /\ handler[r] \in {"sync", "ready"} =>
             store[plan[r]]["pppoe"] = IF pppoe[r] THEN r ELSE Absent

IInv ==
    /\ TypeOK
    /\ FileFits
    /\ SecretsInOrder
    /\ WholeBeforeRename
    /\ OwnFiles
    /\ PublishedIsWhole
    /\ CreatedPlanLoads
    /\ LeftTempIsExplained

-----------------------------------------------------------------------------
(* Requests are neither of the two values that stand for no text. *)
LEMMA RequestsAreTexts ==
  ASSUME NEW r \in Requests
  PROVE  r # Absent /\ r # Torn /\ r \in Contents /\ Absent \in Contents /\ Absent # Torn
BY StoreAssumption DEF Contents

(* Nothing is torn in what an earlier life of the daemon left. *)
LEMMA InitIInv == Init => IInv
<1> SUFFICES ASSUME Init PROVE IInv
  OBVIOUS
<1>1. store \in [Plans -> [Files -> {Absent, Earlier}]]
  BY DEF Init, EarlierDirectories
<1>2. Absent # Torn /\ Earlier # Torn /\ {Absent, Earlier} \subseteq Contents
  BY StoreAssumption DEF Contents
<1>3. TypeOK
  BY <1>1, <1>2 DEF Init, TypeOK, Places, InProgress, Files
<1>4. PublishedIsWhole
  BY <1>1, <1>2 DEF PublishedIsWhole
<1>5. FileFits /\ SecretsInOrder
  BY StoreAssumption DEF Init, FileFits, SecretsInOrder, Requests
<1>6. WholeBeforeRename /\ OwnFiles /\ CreatedPlanLoads /\ LeftTempIsExplained
  BY DEF Init, WholeBeforeRename, OwnFiles, CreatedPlanLoads, LeftTempIsExplained, Writing, Requests
<1> QED BY <1>3, <1>4, <1>5, <1>6 DEF IInv

-----------------------------------------------------------------------------
(* A handler moves on and the store stays as it is. *)
LEMMA QuietMove ==
  ASSUME IInv, NEW r \in Requests, NEW place \in Places \ {"remove", "sync", "created"},
         Goto(r, place), UNCHANGED <<data, file, store, disturbed>>,
         NEW text \in {"none", "partial", "whole"}, temp' = [temp EXCEPT ![r] = text],
         NEW stuck \in BOOLEAN, unremoved' = [unremoved EXCEPT ![r] = stuck],
         text # "none" => place \in {"write", "rename"} \/ (place = "failed" /\ stuck),
         place = "rename" => text = "whole",
         place \in {"hash", "ready"} => r \in SecretRequests,
         place \in {"new", "received", "hash"} => handler[r] \in {"new", "received"},
         r \in SecretRequests /\ place \in {"create", "write", "rename"} =>
           handler[r] \in {"hash", "create", "write"},
         place = "ready" => handler[r] = "sync"
  PROVE  IInv'
<1> USE DEF IInv, Goto, data, Requests
<1>1. TypeOK'
  BY DEF TypeOK
<1>2. FileFits'
  BY StoreAssumption DEF FileFits, TypeOK
<1>3. SecretsInOrder'
  BY DEF SecretsInOrder, FileFits, TypeOK, Files
<1>4. OwnFiles'
  BY DEF OwnFiles, SecretsInOrder, TypeOK, Writing
<1>5. PublishedIsWhole' /\ CreatedPlanLoads'
  BY DEF PublishedIsWhole, CreatedPlanLoads, PlanExists, TypeOK
<1>6. WholeBeforeRename'
  BY DEF WholeBeforeRename, TypeOK
<1>7. LeftTempIsExplained'
  <2> SUFFICES ASSUME NEW s \in Requests, temp'[s] # "none"
               PROVE  \/ handler'[s] \in {"write", "rename", "dead"}
                      \/ handler'[s] = "failed" /\ unremoved'[s]
    BY DEF LeftTempIsExplained
  <2>1. CASE s = r
    BY <2>1 DEF TypeOK
  <2>2. CASE s # r
    BY <2>2 DEF LeftTempIsExplained, TypeOK
  <2> QED BY <2>1, <2>2
<1> QED BY <1>1, <1>2, <1>3, <1>4, <1>5, <1>6, <1>7

(* A call that failed, and a guard that removed the temporary file or could not. *)
LEMMA GiveUp ==
  ASSUME IInv, NEW r \in Requests, Goto(r, "failed"), DropPending(r),
         UNCHANGED <<data, file, store, disturbed>>
  PROVE  IInv'
<1>1. "failed" \in Places \ {"remove", "sync", "created"}
  BY DEF Places, Answered
<1>2. /\ unremoved = [unremoved EXCEPT ![r] = unremoved[r]] /\ unremoved[r] \in BOOLEAN
      /\ temp = [temp EXCEPT ![r] = temp[r]] /\ temp[r] \in {"none", "partial", "whole"}
  BY DEF IInv, TypeOK
<1>3. CASE temp' = [temp EXCEPT ![r] = "none"] /\ UNCHANGED unremoved
  BY <1>1, <1>2, <1>3, QuietMove
<1>4. CASE UNCHANGED temp /\ unremoved' = [unremoved EXCEPT ![r] = TRUE]
  BY <1>1, <1>2, <1>4, QuietMove
<1> QED BY <1>3, <1>4 DEF DropPending

(* The steps that write nothing under a final name. *)
LEMMA QuietSteps ==
  ASSUME IInv, NEW r \in Requests,
         \/ Receive(r) \/ Refuse(r) \/ SavePlan(r) \/ SaveSecrets(r) \/ HashPassword(r)
         \/ CreateTemp(r) \/ WriteTemp(r) \/ SyncDirectory(r) \/ Disconnect(r)
  PROVE  IInv'
<1> USE DEF At, storeVars, history
<1>0. /\ temp = [temp EXCEPT ![r] = temp[r]] /\ temp[r] \in {"none", "partial", "whole"}
      /\ unremoved = [unremoved EXCEPT ![r] = unremoved[r]] /\ unremoved[r] \in BOOLEAN
  BY DEF IInv, TypeOK
<1>1. handler[r] \notin {"write", "rename", "dead", "failed"} => temp[r] = "none"
  BY DEF IInv, LeftTempIsExplained
<1>2. r \in PlanRequests \/ r \in SecretRequests
  BY DEF Requests
<1>3. /\ handler[r] \in {"hash", "sync"} => r \in SecretRequests
      /\ {"received", "refused", "create", "hash", "not_found", "failed", "write",
          "rename", "ready", "lost"} \subseteq Places \ {"remove", "sync", "created"}
  BY <1>2 DEF IInv, FileFits, Places, InProgress, Writing, Answered
<1>4. CASE Receive(r) \/ Refuse(r)
  BY <1>0, <1>1, <1>3, <1>4, QuietMove DEF Receive, Refuse
<1>5. CASE SavePlan(r)
  BY <1>0, <1>1, <1>3, <1>5, StoreAssumption, QuietMove DEF SavePlan
<1>6. CASE SaveSecrets(r)
  BY <1>0, <1>1, <1>3, <1>6, QuietMove DEF SaveSecrets
<1>7. CASE HashPassword(r)
  BY <1>0, <1>1, <1>3, <1>7, QuietMove DEF HashPassword
<1>8. CASE CreateTemp(r)
  BY <1>0, <1>1, <1>3, <1>8, QuietMove DEF CreateTemp
<1>9. CASE WriteTemp(r)
  <2>1. CASE Goto(r, "failed") /\ DropPending(r)
    BY <1>9, <2>1, GiveUp DEF WriteTemp
  <2>2. CASE /\ Goto(r, "rename") /\ UNCHANGED unremoved
             /\ temp' = [temp EXCEPT ![r] = "whole"]
    BY <1>0, <1>3, <1>9, <2>2, QuietMove DEF WriteTemp
  <2> QED BY <1>9, <2>1, <2>2 DEF WriteTemp
<1>10. CASE SyncDirectory(r) \/ Disconnect(r)
  BY <1>0, <1>1, <1>3, <1>10, QuietMove DEF SyncDirectory, Disconnect
<1> QED BY <1>4, <1>5, <1>6, <1>7, <1>8, <1>9, <1>10

-----------------------------------------------------------------------------
(* A secrets file of r takes its final name, or loses it: the other requests
   that write or wrote secrets of this plan are disturbed, the plan stays. *)
LEMMA PublishSecret ==
  ASSUME IInv, NEW r \in SecretRequests, NEW content \in {r, Absent}, Publish(r, content)
  PROVE  /\ store' \in [Plans -> [Files -> Contents]]
         /\ disturbed' \in [Requests -> BOOLEAN]
         /\ \A p \in Plans, f \in Files :
              store'[p][f] = IF p = plan[r] /\ f = file[r] THEN content ELSE store[p][f]
         /\ PublishedIsWhole'
         /\ \A p \in Plans : PlanExists(p) <=> PlanExists(p)'
         /\ \A s \in SecretRequests :
              s # r /\ plan[s] = plan[r] /\ handler[s] \in Writing \cup {"ready"} => disturbed'[s]
         /\ \A s \in Requests : disturbed[s] => disturbed'[s]
         /\ disturbed'[r] = disturbed[r]
<1>1. r \in Requests /\ plan[r] \in Plans /\ file[r] \in Files /\ file[r] # "plan"
  BY DEF IInv, TypeOK, FileFits, Requests
<1>2. content \in Contents /\ content # Torn
  BY <1>1, RequestsAreTexts
<1>3. \A p \in Plans, f \in Files :
        store'[p][f] = IF p = plan[r] /\ f = file[r] THEN content ELSE store[p][f]
  BY <1>1 DEF Publish, IInv, TypeOK
<1>4. store' \in [Plans -> [Files -> Contents]]
  BY <1>1, <1>2 DEF Publish, IInv, TypeOK
<1>5. PublishedIsWhole'
  BY <1>2, <1>3 DEF IInv, PublishedIsWhole
<1>6. \A p \in Plans : PlanExists(p) <=> PlanExists(p)'
  BY <1>1, <1>3 DEF PlanExists, Files
<1>7. /\ disturbed' \in [Requests -> BOOLEAN]
      /\ \A s \in SecretRequests :
           s # r /\ plan[s] = plan[r] /\ handler[s] \in Writing \cup {"ready"} => disturbed'[s]
      /\ \A s \in Requests : disturbed[s] => disturbed'[s]
      /\ disturbed'[r] = disturbed[r]
  BY <1>1 DEF Publish, Disturb, IInv, TypeOK, Requests
<1> QED BY <1>3, <1>4, <1>5, <1>6, <1>7

(* A request that goes on after its secrets file was published keeps what the
   invariant says of the others; what it says of the request itself is left to
   the caller. *)
LEMMA SecretMove ==
  ASSUME IInv, NEW r \in SecretRequests, NEW content \in {r, Absent}, Publish(r, content),
         UNCHANGED data,
         NEW place \in Places \ {"hash", "new", "received", "created", "write", "rename"},
         Goto(r, place),
         temp' = [temp EXCEPT ![r] = "none"], UNCHANGED unremoved,
         NEW next \in {"admin", "pppoe"}, file' = [file EXCEPT ![r] = next],
         place \in {"remove", "sync", "ready"} => next = "pppoe",
         place = "remove" => ~pppoe[r],
         place = "create" => next = "pppoe" /\ pppoe[r],
         (~disturbed[r] /\ place \in Writing \cup {"ready"} /\ next = "pppoe") =>
            store'[plan[r]]["admin"] = r,
         (~disturbed[r] /\ place \in {"sync", "ready"}) =>
            store'[plan[r]]["pppoe"] = IF pppoe[r] THEN r ELSE Absent
  PROVE  IInv'
<1> USE DEF IInv, Goto, data
<1>0. r \in Requests /\ r \notin PlanRequests
  BY StoreAssumption DEF Requests
<1>1. TypeOK'
  BY <1>0, PublishSecret DEF TypeOK, Files
<1>2. FileFits'
  BY <1>0 DEF FileFits, TypeOK, Requests
<1>3. SecretsInOrder'
  BY <1>0 DEF SecretsInOrder, TypeOK, Requests
<1>4. OwnFiles'
  <2> SUFFICES ASSUME NEW s \in SecretRequests, ~disturbed'[s]
               PROVE  /\ handler'[s] \in Writing \cup {"ready"} /\ file'[s] = "pppoe" =>
                           store'[plan[s]]["admin"] = s
                      /\ handler'[s] \in {"sync", "ready"} =>
                           store'[plan[s]]["pppoe"] = IF pppoe[s] THEN s ELSE Absent
    BY DEF OwnFiles
  <2>1. s \in Requests /\ plan[s] \in Plans /\ ~disturbed[s]
    BY PublishSecret DEF TypeOK, Requests
  <2>2. CASE s = r
    BY <1>0, <2>1, <2>2 DEF TypeOK
  <2>3. CASE s # r
    <3>1. handler'[s] = handler[s] /\ file'[s] = file[s]
      BY <2>1, <2>3 DEF TypeOK
    <3>2. CASE handler[s] \in Writing \cup {"ready"}
      <4>1. plan[s] # plan[r]
        BY <2>3, <3>2, PublishSecret
      <4>2. \A f \in Files : store'[plan[s]][f] = store[plan[s]][f]
        BY <2>1, <4>1, PublishSecret
      <4> QED BY <2>1, <3>1, <4>2 DEF OwnFiles, Files
    <3>3. CASE handler[s] \notin Writing \cup {"ready"}
      BY <3>1, <3>3 DEF Writing
    <3> QED BY <3>2, <3>3
  <2> QED BY <2>2, <2>3
<1>5. PublishedIsWhole'
  BY PublishSecret
<1>6. CreatedPlanLoads'
  <2> SUFFICES ASSUME NEW s \in PlanRequests, handler'[s] = "created"
               PROVE  PlanExists(plan[s])' /\ store'[plan[s]]["plan"] # Torn
    BY DEF CreatedPlanLoads
  <2>1. s \in Requests /\ handler[s] = "created" /\ plan[s] \in Plans
    BY <1>0 DEF TypeOK, Requests
  <2>2. PlanExists(plan[s])
    BY <2>1 DEF CreatedPlanLoads
  <2> QED BY <1>5, <2>1, <2>2, PublishSecret DEF PlanExists, PublishedIsWhole, Files
<1>7. LeftTempIsExplained' /\ WholeBeforeRename'
  BY <1>0 DEF LeftTempIsExplained, WholeBeforeRename, TypeOK
<1> QED BY <1>1, <1>2, <1>3, <1>4, <1>5, <1>6, <1>7

-----------------------------------------------------------------------------
(* The rename of a secrets file. *)
LEMMA RenameSecret ==
  ASSUME IInv, NEW r \in SecretRequests, Rename(r)
  PROVE  IInv'
<1>1. r \in Requests /\ file[r] \in {"admin", "pppoe"} /\ plan[r] \in Plans
  BY DEF Requests, IInv, TypeOK, FileFits, Files
<1>2. /\ handler[r] = "rename" /\ UNCHANGED data
      /\ {"failed", "create", "remove", "sync"} \subseteq
           Places \ {"hash", "new", "received", "created", "write", "rename"}
  BY DEF Rename, At, Places, InProgress, Writing, Answered
<1>3. CASE Goto(r, "failed") /\ RenameFails(r)
  BY <1>1, <1>2, <1>3, GiveUp DEF RenameFails
<1>4. ASSUME Materialize(r)
      PROVE  /\ Publish(r, r) /\ UNCHANGED unremoved
             /\ temp' = [temp EXCEPT ![r] = "none"]
  BY <1>1, <1>2, <1>4 DEF Materialize, IInv, WholeBeforeRename
<1>5. CASE Goto(r, "failed") /\ UNCHANGED file /\ Materialize(r)
  <2>1. file' = [file EXCEPT ![r] = file[r]]
    BY <1>5 DEF IInv, TypeOK
  <2>2. "failed" \notin Writing \cup {"sync", "ready", "remove", "create"}
    BY DEF Writing
  <2> QED BY <1>1, <1>2, <1>4, <1>5, <2>1, <2>2, SecretMove
<1>6. CASE AfterWrite(r) /\ Materialize(r)
  <2>1. \A f \in Files :
          store'[plan[r]][f] = IF f = file[r] THEN r ELSE store[plan[r]][f]
    BY <1>1, <1>4, <1>6, PublishSecret
  <2>2. CASE file[r] = "admin"
    <3>1. store'[plan[r]]["admin"] = r
      BY <2>1, <2>2 DEF Files
    <3>2. /\ Goto(r, IF pppoe[r] THEN "create" ELSE "remove")
          /\ file' = [file EXCEPT ![r] = "pppoe"]
      BY <1>6, <2>2 DEF AfterWrite
    <3>3. CASE pppoe[r]
      BY <1>2, <1>4, <1>6, <3>1, <3>2, <3>3, SecretMove
    <3>4. CASE ~pppoe[r]
      BY <1>2, <1>4, <1>6, <3>1, <3>2, <3>4, SecretMove
    <3> QED BY <3>3, <3>4
  <2>3. CASE file[r] = "pppoe"
    <3>1. pppoe[r] /\ store'[plan[r]]["pppoe"] = r
      BY <1>2, <2>1, <2>3 DEF IInv, SecretsInOrder, Files
    <3>2. ~disturbed[r] => store'[plan[r]]["admin"] = r
      BY <1>2, <2>1, <2>3 DEF IInv, OwnFiles, Writing, Files
    <3>3. Goto(r, "sync") /\ file' = [file EXCEPT ![r] = "pppoe"]
      BY <1>6, <2>3 DEF AfterWrite, IInv, TypeOK
    <3>4. /\ Publish(r, r) /\ UNCHANGED <<data, unremoved>>
          /\ temp' = [temp EXCEPT ![r] = "none"]
      BY <1>2, <1>4, <1>6
    <3> QED BY <1>2, <3>1, <3>2, <3>3, <3>4, SecretMove
  <2> QED BY <1>1, <2>2, <2>3
<1> QED BY <1>3, <1>5, <1>6 DEF Rename

(* The removal of an obsolete PPPoE password. *)
LEMMA RemoveSecret ==
  ASSUME IInv, NEW r \in Requests, RemoveObsolete(r)
  PROVE  IInv'
<1>1. /\ r \in SecretRequests /\ plan[r] \in Plans
      /\ file[r] = "pppoe" /\ ~pppoe[r] /\ temp[r] = "none"
      /\ handler[r] = "remove" /\ UNCHANGED data
  BY DEF RemoveObsolete, At, IInv, TypeOK, FileFits, SecretsInOrder,
         LeftTempIsExplained, Requests
<1>2. /\ file' = [file EXCEPT ![r] = "pppoe"]
      /\ temp' = [temp EXCEPT ![r] = "none"]
      /\ unremoved' = [unremoved EXCEPT ![r] = unremoved[r]] /\ unremoved[r] \in BOOLEAN
      /\ UNCHANGED unremoved
      /\ "failed" \in Places \ {"remove", "sync", "created"}
      /\ "sync" \in Places \ {"hash", "new", "received", "created", "write", "rename"}
  BY <1>1 DEF RemoveObsolete, IInv, TypeOK, Places, Answered, InProgress, Writing
<1>3. CASE Goto(r, "failed") /\ UNCHANGED <<store, disturbed>>
  BY <1>1, <1>2, <1>3, QuietMove DEF RemoveObsolete
<1>4. CASE Goto(r, "sync") /\ Publish(r, Absent)
  <2>1. \A f \in Files :
          store'[plan[r]][f] = IF f = "pppoe" THEN Absent ELSE store[plan[r]][f]
    BY <1>1, <1>4, PublishSecret
  <2>2. ~disturbed[r] => store'[plan[r]]["admin"] = r
    BY <1>1, <2>1 DEF IInv, OwnFiles, Writing, Files
  <2>3. store'[plan[r]]["pppoe"] = IF pppoe[r] THEN r ELSE Absent
    BY <1>1, <2>1 DEF Files
  <2> QED BY <1>1, <1>2, <1>4, <2>2, <2>3, SecretMove
<1> QED BY <1>3, <1>4 DEF RemoveObsolete

(* The rename of plan.json: no secrets are touched. *)
LEMMA RenamePlan ==
  ASSUME IInv, NEW r \in PlanRequests, Rename(r)
  PROVE  IInv'
<1>1. /\ r \in Requests /\ r \notin SecretRequests
      /\ file[r] = "plan" /\ plan[r] \in Plans
      /\ handler[r] = "rename" /\ UNCHANGED data
      /\ {"failed", "created"} \subseteq Places
  BY StoreAssumption DEF Rename, At, Requests, IInv, TypeOK, FileFits, Places, Answered
<1>2. CASE Goto(r, "failed") /\ RenameFails(r)
  BY <1>1, <1>2, GiveUp DEF RenameFails
<1>3. CASE Materialize(r) /\ UNCHANGED file /\ (Goto(r, "created") \/ Goto(r, "failed"))
  <2> USE DEF IInv, Goto, data
  <2>0. /\ Publish(r, r) /\ UNCHANGED unremoved
        /\ temp' = [temp EXCEPT ![r] = "none"]
    BY <1>1, <1>3 DEF Materialize, WholeBeforeRename
  <2>1. \A p \in Plans, f \in Files :
          store'[p][f] = IF p = plan[r] /\ f = "plan" THEN r ELSE store[p][f]
    BY <1>1, <2>0 DEF Publish, TypeOK
  <2>2. store' \in [Plans -> [Files -> Contents]]
    BY <1>1, <2>0, RequestsAreTexts DEF Publish, TypeOK
  <2>3. disturbed' = disturbed
    BY <1>1, <2>0 DEF Publish, Disturb, TypeOK
  <2>4. TypeOK'
    BY <1>1, <1>3, <2>0, <2>2, <2>3 DEF TypeOK
  <2>5. FileFits' /\ SecretsInOrder' /\ WholeBeforeRename' /\ LeftTempIsExplained'
    BY <1>1, <1>3, <2>0
    DEF FileFits, SecretsInOrder, WholeBeforeRename, LeftTempIsExplained, TypeOK, Requests
  <2>6. OwnFiles'
    BY <1>1, <1>3, <2>1, <2>3 DEF OwnFiles, TypeOK, Requests, Files
  <2>7. PublishedIsWhole'
    BY <1>1, <2>1, RequestsAreTexts DEF PublishedIsWhole
  <2>8. CreatedPlanLoads'
    BY <1>1, <1>3, <2>1, RequestsAreTexts
    DEF CreatedPlanLoads, PlanExists, TypeOK, Requests, Files
  <2> QED BY <2>4, <2>5, <2>6, <2>7, <2>8
<1> QED BY <1>1, <1>2, <1>3 DEF Rename, AfterWrite

(* A dead daemon leaves every file as it was. *)
LEMMA CrashKeepsIInv == ASSUME IInv, Crash PROVE IInv'
<1> USE DEF IInv, Crash, data, storeVars, history
<1>1. \A r \in Requests : handler'[r] = handler[r] \/ handler'[r] = "dead"
  OBVIOUS
<1>2. TypeOK'
  BY DEF TypeOK, Places
<1>3. FileFits' /\ SecretsInOrder' /\ WholeBeforeRename' /\ LeftTempIsExplained'
  BY <1>1 DEF FileFits, SecretsInOrder, WholeBeforeRename, LeftTempIsExplained, Requests
<1>4. OwnFiles' /\ PublishedIsWhole' /\ CreatedPlanLoads'
  BY <1>1 DEF OwnFiles, PublishedIsWhole, CreatedPlanLoads, PlanExists, Requests, Writing
<1> QED BY <1>2, <1>3, <1>4

LEMMA NextKeepsIInv == ASSUME IInv, [Next]_storeAll PROVE IInv'
<1>1. CASE UNCHANGED storeAll
  BY <1>1 DEF storeAll, IInv, TypeOK, FileFits, SecretsInOrder, WholeBeforeRename, OwnFiles,
              PublishedIsWhole, CreatedPlanLoads, LeftTempIsExplained, PlanExists
<1>2. CASE Crash
  BY <1>2, CrashKeepsIInv
<1>3. ASSUME NEW r \in Requests, Receive(r) \/ Handle(r) \/ Disconnect(r)
      PROVE  IInv'
  <2>1. CASE Rename(r)
    BY <2>1, RenamePlan, RenameSecret DEF Requests
  <2>2. CASE RemoveObsolete(r)
    BY <2>2, RemoveSecret
  <2> QED BY <1>3, <2>1, <2>2, QuietSteps DEF Handle
<1> QED BY <1>1, <1>2, <1>3 DEF Next

(* The inductive invariant. *)
THEOREM IInvAlways == Spec => []IInv
BY InitIInv, NextKeepsIInv, PTL DEF Spec

-----------------------------------------------------------------------------
(* Every variable keeps its type. *)
THEOREM TypeCorrect == Spec => []TypeOK
BY IInvAlways, PTL DEF IInv

(* A reader never finds part of a file under its final name. *)
THEOREM StoreIsWhole == Spec => []PublishedIsWhole
BY IInvAlways, PTL DEF IInv

(* A plan that was answered with its digest can be loaded from then on. *)
THEOREM CreatedPlansStay == Spec => []CreatedPlanLoads
BY IInvAlways, PTL DEF IInv

(* A temporary file outlives its write only when the daemon died, or when the
   request was answered with an error and the file could not be removed. *)
THEOREM LeftTempIsExplainedAlways == Spec => []LeftTempIsExplained
BY IInvAlways, PTL DEF IInv

(* The secrets of an undisturbed request that was told `ready` are its own. *)
THEOREM ReadyIsOwn == Spec => []UndisturbedReadyIsOwn
<1>1. IInv => UndisturbedReadyIsOwn
  BY DEF IInv, OwnFiles, SecretsInOrder, UndisturbedReadyIsOwn
<1> QED BY <1>1, IInvAlways, PTL
=============================================================================
