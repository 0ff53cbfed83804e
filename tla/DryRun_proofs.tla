---------------------------- MODULE DryRun_proofs ----------------------------
(* A verdict that no other write overlapped is about its own plan, for every set
   of requests, modes and layouts.

   The invariant looks at the dry-runs between opening the shared file and
   reading it back (Exposed) that nobody has disturbed: none of them meets a
   write of somebody else that still has to land, handlers that were dropped
   included, so the file holds what they put there. *)
EXTENDS DryRun, TLAPS

(* What an undisturbed dry-run finds in the shared file. *)
Undisturbed ==
    \A r \in Requests : handler[r] \in Exposed /\ ~disturbed[r] =>
      /\ \A t \in Requests \ {r} : handler[t] \notin Pending
      /\ conf = IF handler[r] = "opened" THEN Empty ELSE layout[r]

DInv == TypeOK /\ Undisturbed /\ UndisturbedVerdictIsOwn

-----------------------------------------------------------------------------
LEMMA InitDInv == Init => DInv
BY DryRunAssumption
   DEF Init, DInv, TypeOK, Undisturbed, UndisturbedVerdictIsOwn, Texts, Places, InProgress,
       Exposed

(* The text that lands is a text, and the layout itself on an empty file. *)
LEMMA LandedText ==
    ASSUME TypeOK, NEW r \in Requests, Land(r)
    PROVE  conf' \in Texts /\ (conf = Empty => conf' = layout[r])
BY DEF TypeOK, Land, Texts

(* Steps that leave the file and its history alone keep the invariant when the
   request neither opens the file nor forgets what it wrote. *)
LEMMA PlainStep ==
    ASSUME DInv, NEW r \in Requests, NEW place \in Places, UNCHANGED <<mode, layout>>,
           Goto(r, place), UNCHANGED fileVars,
           place \notin {"ok", "disko_failed", "opened"},
           place \in {"written", "disko"} => handler[r] \in {"written", "disko"},
           place = "detached" => handler[r] = "opened"
    PROVE  DInv'
<1>1. TypeOK'
  BY DEF DInv, TypeOK, Goto, fileVars
<1>2. Undisturbed'
  <2> SUFFICES ASSUME NEW s \in Requests, handler'[s] \in Exposed, ~disturbed'[s]
               PROVE  /\ \A t \in Requests \ {s} : handler'[t] \notin Pending
                      /\ conf' = IF handler'[s] = "opened" THEN Empty ELSE layout'[s]
    BY DEF Undisturbed
  <2>1. /\ handler \in [Requests -> Places]
        /\ handler' = [handler EXCEPT ![r] = place]
        /\ conf' = conf /\ disturbed' = disturbed /\ layout' = layout
    BY DEF DInv, TypeOK, Goto, fileVars
  <2>2. handler[s] \in Exposed /\ ~disturbed[s]
    BY <2>1 DEF Exposed
  <2>3. /\ \A t \in Requests \ {s} : handler[t] \notin Pending
        /\ conf = IF handler[s] = "opened" THEN Empty ELSE layout[s]
    BY <2>2 DEF DInv, Undisturbed
  <2>4. \A t \in Requests \ {s} : handler'[t] \notin Pending
    BY <2>1, <2>3 DEF Pending
  <2>5. conf' = IF handler'[s] = "opened" THEN Empty ELSE layout'[s]
    BY <2>1, <2>2, <2>3 DEF Exposed
  <2> QED BY <2>4, <2>5
<1>3. UndisturbedVerdictIsOwn'
  BY DEF DInv, TypeOK, UndisturbedVerdictIsOwn, Goto, fileVars
<1> QED BY <1>1, <1>2, <1>3 DEF DInv

LEMMA OpenKeeps == ASSUME DInv, NEW r \in Requests, OpenConfig(r) PROVE DInv'
<1>1. CASE Goto(r, "write_failed") /\ UNCHANGED <<conf, disturbed>>
  BY <1>1, PlainStep DEF OpenConfig, At, fileVars, Places, Answered
<1>2. CASE /\ Goto(r, "opened")
           /\ conf' = Empty
           /\ disturbed' = [s \in Requests |->
                              \/ disturbed[s]
                              \/ IF s = r THEN \E t \in Requests \ {r} : handler[t] \in Pending
                                          ELSE handler[s] \in Exposed]
  <2>1. /\ handler[r] = "validated"
        /\ handler \in [Requests -> Places]
        /\ handler' = [handler EXCEPT ![r] = "opened"]
        /\ layout' = layout /\ mode' = mode /\ read' = read
    BY <1>2 DEF OpenConfig, At, DInv, TypeOK, Goto
  <2>2. TypeOK'
    <3>1. disturbed' \in [Requests -> BOOLEAN]
      BY <1>2
    <3>2. handler' \in [Requests -> Places]
      BY <2>1 DEF Places, InProgress, Exposed
    <3> QED BY <1>2, <2>1, <3>1, <3>2 DEF DInv, TypeOK, Texts
  <2>3. \A s \in Requests : ~disturbed'[s] =>
          /\ ~disturbed[s]
          /\ s # r => handler[s] \notin Exposed
          /\ s = r => \A t \in Requests \ {r} : handler[t] \notin Pending
    BY <1>2
  <2>4. Undisturbed'
    <3> SUFFICES ASSUME NEW s \in Requests, handler'[s] \in Exposed, ~disturbed'[s]
                 PROVE  /\ \A t \in Requests \ {s} : handler'[t] \notin Pending
                        /\ conf' = IF handler'[s] = "opened" THEN Empty ELSE layout'[s]
      BY DEF Undisturbed
    <3>1. s = r
      BY <2>1, <2>3
    <3>2. \A t \in Requests \ {r} : handler'[t] \notin Pending
      BY <2>1, <2>3, <3>1
    <3> QED BY <1>2, <2>1, <3>1, <3>2
  <2>5. UndisturbedVerdictIsOwn'
    BY <2>1, <2>3 DEF DInv, UndisturbedVerdictIsOwn
  <2> QED BY <2>2, <2>4, <2>5 DEF DInv
<1> QED BY <1>1, <1>2 DEF OpenConfig

(* A write that lands comes from a handler that is opened or detached: nobody
   else is undisturbed, and on the empty file it leaves its own layout. *)
LEMMA LandKeeps ==
    ASSUME DInv, NEW r \in Requests, NEW place \in {"written", "lost"},
           handler[r] \in Pending, place = "written" => handler[r] = "opened",
           Land(r), Goto(r, place), UNCHANGED <<mode, layout, read, disturbed>>
    PROVE  DInv'
<1>1. /\ handler \in [Requests -> Places]
      /\ handler' = [handler EXCEPT ![r] = place]
  BY DEF DInv, TypeOK, Goto
<1>2. conf' \in Texts /\ (conf = Empty => conf' = layout[r])
  BY LandedText DEF DInv
<1>3. TypeOK'
  BY <1>1, <1>2 DEF DInv, TypeOK, Places, InProgress, Exposed
<1>4. Undisturbed'
  <2> SUFFICES ASSUME NEW s \in Requests, handler'[s] \in Exposed, ~disturbed'[s]
               PROVE  /\ \A t \in Requests \ {s} : handler'[t] \notin Pending
                      /\ conf' = IF handler'[s] = "opened" THEN Empty ELSE layout'[s]
    BY DEF Undisturbed
  <2>1. s = r
    <3> SUFFICES ASSUME s # r PROVE FALSE
      OBVIOUS
    <3>1. handler[s] \in Exposed /\ ~disturbed[s]
      BY <1>1
    <3>2. \A t \in Requests \ {s} : handler[t] \notin Pending
      BY <3>1 DEF DInv, Undisturbed
    <3> QED BY <3>2
  <2>2. place = "written" /\ handler[r] = "opened"
    BY <1>1, <2>1 DEF Exposed
  <2>3. /\ \A t \in Requests \ {r} : handler[t] \notin Pending
        /\ conf = Empty
    BY <2>1, <2>2 DEF DInv, Undisturbed, Exposed
  <2> QED BY <1>1, <1>2, <2>1, <2>2, <2>3
<1>5. UndisturbedVerdictIsOwn'
  BY <1>1 DEF DInv, UndisturbedVerdictIsOwn
<1> QED BY <1>3, <1>4, <1>5 DEF DInv

(* disko reads what the file holds. *)
LEMMA DiskoKeeps == ASSUME DInv, NEW r \in Requests, RunDisko(r) PROVE DInv'
<1>1. PICK place \in {"ok", "disko_failed"} : Goto(r, place)
  BY DEF RunDisko
<1>2. /\ handler[r] = "disko"
      /\ handler \in [Requests -> Places] /\ read \in [Requests -> Texts]
      /\ handler' = [handler EXCEPT ![r] = place]
      /\ read' = [read EXCEPT ![r] = conf]
      /\ conf' = conf /\ disturbed' = disturbed /\ layout' = layout /\ mode' = mode
  BY <1>1 DEF RunDisko, At, DInv, TypeOK, Goto
<1>3. TypeOK'
  BY <1>2 DEF DInv, TypeOK, Places, Answered
<1>4. Undisturbed'
  BY <1>2 DEF DInv, Undisturbed, Exposed, Pending
<1>5. ~disturbed[r] => conf = layout[r]
  BY <1>2 DEF DInv, Undisturbed, Exposed
<1>6. UndisturbedVerdictIsOwn'
  <2> SUFFICES ASSUME NEW s \in Requests, handler'[s] \in {"ok", "disko_failed"}, ~disturbed'[s]
               PROVE  read'[s] = layout'[s]
    BY DEF UndisturbedVerdictIsOwn
  <2>1. CASE s = r
    BY <1>2, <1>5, <2>1
  <2>2. CASE s # r
    BY <1>2, <2>2 DEF DInv, UndisturbedVerdictIsOwn
  <2> QED BY <2>1, <2>2
<1> QED BY <1>3, <1>4, <1>6 DEF DInv

LEMMA StepKeepsDInv == ASSUME DInv, [Next]_dryVars PROVE DInv'
<1>1. ASSUME NEW r \in Requests, Receive(r) \/ Refuse(r) \/ RefuseMode(r)
      PROVE  DInv'
  BY <1>1, PlainStep DEF Receive, Refuse, RefuseMode, At, Places, InProgress, Answered
<1>2. ASSUME NEW r \in Requests, ValidatePlan(r) PROVE DInv'
  BY <1>2, PlainStep DEF ValidatePlan, At, Places, InProgress, Answered
<1>3. ASSUME NEW r \in Requests, OpenConfig(r) PROVE DInv'
  BY <1>3, OpenKeeps
<1>4. ASSUME NEW r \in Requests, WriteConfig(r) PROVE DInv'
  <2>1. handler[r] = "opened" /\ UNCHANGED <<mode, layout, read, disturbed>>
    BY <1>4 DEF WriteConfig, At
  <2>2. CASE Goto(r, "written") /\ Land(r)
    BY <2>1, <2>2, LandKeeps DEF Pending
  <2>3. CASE Goto(r, "write_failed") /\ UNCHANGED conf
    BY <2>1, <2>3, PlainStep DEF fileVars, Places, Answered
  <2> QED BY <1>4, <2>2, <2>3 DEF WriteConfig
<1>5. ASSUME NEW r \in Requests, CheckMode(r) PROVE DInv'
  <2>1. PICK place \in {"disko", "mode_rejected"} : Goto(r, place)
    BY <1>5 DEF CheckMode
  <2> QED BY <1>5, <2>1, PlainStep DEF CheckMode, At, Places, InProgress, Exposed, Answered
<1>6. ASSUME NEW r \in Requests, RunDisko(r) PROVE DInv'
  BY <1>6, DiskoKeeps
<1>7. ASSUME NEW r \in Requests, Disconnect(r) PROVE DInv'
  BY <1>7, PlainStep DEF Disconnect, At, Places
<1>8. ASSUME NEW r \in Requests, DetachedWrite(r) PROVE DInv'
  BY <1>8, LandKeeps DEF DetachedWrite, At, Pending
<1>9. CASE UNCHANGED dryVars
  BY <1>9 DEF dryVars, DInv, TypeOK, Undisturbed, UndisturbedVerdictIsOwn
<1> QED BY <1>1, <1>2, <1>3, <1>4, <1>5, <1>6, <1>7, <1>8, <1>9 DEF Next, Handle

(* A dry-run that no other write overlapped is answered about the layout its own
   plan renders to, whatever dropped handlers still write. *)
THEOREM VerdictIsOwn == Spec => []UndisturbedVerdictIsOwn
<1>1. DInv => UndisturbedVerdictIsOwn
  BY DEF DInv
<1> QED BY <1>1, InitDInv, StepKeepsDInv, PTL DEF Spec
=============================================================================
