-------------------------- MODULE DeviceFlow_proofs ---------------------------
(* For any number of sign-ins: a token the daemon holds is that of the last one
   started, unless a start overtook a poll.  The strengthening follows the code on
   its way from the start that stored it, through the poll that carries it, to
   the token. *)
EXTENDS DeviceFlow, TLAPS

Polls == {f \in Flows : flow[f] \in {"polling", "granted"}}

Types == /\ flow \in [Flows -> {"idle", "due"} \cup InFlight \cup Ended]
         /\ asked \in [Flows -> Flows \cup {NoFlow}]
         /\ {code, token, latest} \subseteq Flows \cup {NoFlow}
         /\ overtaken \in BOOLEAN

CodeIsLatest == code # NoFlow => code = latest
PollsAskLatest == \A f \in Polls : asked[f] = latest /\ latest # NoFlow

IInv == Types /\ (~overtaken =>
                    CodeIsLatest /\ PollsAskLatest /\ (token # NoFlow => token = latest))

LEMMA InitIInv == Init => IInv
BY DEF Init, IInv, Types, Polls, CodeIsLatest, PollsAskLatest

(* A request that ends polls no more, whether its page is there or not. *)
LEMMA AnswerEndsPoll ==
    ASSUME Types, NEW f \in Flows, NEW how \in {"due", "failed", "authorized"},
           Answered(f, how)
    PROVE  /\ flow' \in [Flows -> {"idle", "due"} \cup InFlight \cup Ended]
           /\ Polls' = Polls \ {f}
BY DEF Types, Answered, Polls, InFlight, Ended

(* Steps that move a flow without a poll, or end one, and touch neither code nor
   token. *)
LEMMA QuietStep ==
    ASSUME IInv, Polls' \subseteq Polls,
           flow' \in [Flows -> {"idle", "due"} \cup InFlight \cup Ended],
           UNCHANGED <<asked, code, token, latest, overtaken>>
    PROVE  IInv'
BY DEF IInv, Types, CodeIsLatest, PollsAskLatest

-----------------------------------------------------------------------------
LEMMA StepKeepsIInv == ASSUME IInv, [Next]_vars PROVE IInv'
<1> USE DEF IInv
<1>1. ASSUME NEW f \in Flows, StartFlow(f) \/ GithubIssues(f) PROVE IInv'
  <2>1. /\ Polls' \subseteq Polls
        /\ flow' \in [Flows -> {"idle", "due"} \cup InFlight \cup Ended]
    BY <1>1 DEF StartFlow, GithubIssues, Polls, Types, InFlight
  <2> QED BY <1>1, <2>1, QuietStep DEF StartFlow, GithubIssues
<1>2. ASSUME NEW f \in Flows, StartFails(f) \/ PollFails(f) PROVE IInv'
  <2>1. Answered(f, "failed")
    BY <1>2 DEF StartFails, PollFails
  <2>2. UNCHANGED <<asked, code, token, latest, overtaken>>
    BY <1>2 DEF StartFails, PollFails
  <2> QED BY <2>1, <2>2, AnswerEndsPoll, QuietStep
<1>3. ASSUME NEW f \in Flows, DaemonStores(f) PROVE IInv'
  <2>1. Answered(f, "due")
    BY <1>3 DEF DaemonStores
  <2>2. /\ Polls' = Polls \ {f}
        /\ flow' \in [Flows -> {"idle", "due"} \cup InFlight \cup Ended]
    BY <2>1, AnswerEndsPoll
  <2>3. Types'
    BY <1>3, <2>2 DEF DaemonStores, Types
  <2>4. ~overtaken' => Polls' = {}
    BY <1>3, <2>2 DEF DaemonStores, Polls
  <2> QED BY <1>3, <2>3, <2>4 DEF DaemonStores, CodeIsLatest, PollsAskLatest
<1>4. ASSUME NEW f \in Flows, ReadCode(f) PROVE IInv'
  <2>1. Types'
    BY <1>4 DEF ReadCode, Types, InFlight, Ended
  <2>2. \A g \in Polls' : asked'[g] = IF g = f THEN code ELSE asked[g]
    BY <1>4 DEF ReadCode, Types, Polls
  <2>3. \A g \in Polls' : g # f => g \in Polls
    BY <1>4 DEF ReadCode, Types, Polls
  <2>4. f \in Polls' => code # NoFlow
    BY <1>4 DEF ReadCode, Types, Polls
  <2>5. UNCHANGED <<code, token, latest, overtaken>>
    BY <1>4 DEF ReadCode
  <2> QED BY <2>1, <2>2, <2>3, <2>4, <2>5 DEF CodeIsLatest, PollsAskLatest
<1>5. ASSUME NEW f \in Flows, GithubAnswers(f) PROVE IInv'
  <2>1. UNCHANGED <<asked, code, token, latest, overtaken>>
    BY <1>5 DEF GithubAnswers
  <2>2. CASE flow' = [flow EXCEPT ![f] = "granted"]
    <3>1. /\ Polls' \subseteq Polls
          /\ flow' \in [Flows -> {"idle", "due"} \cup InFlight \cup Ended]
      BY <1>5, <2>2 DEF GithubAnswers, Polls, Types, InFlight
    <3> QED BY <2>1, <3>1, QuietStep
  <2>3. CASE Answered(f, "due") \/ Answered(f, "failed")
    <3>1. /\ Polls' \subseteq Polls
          /\ flow' \in [Flows -> {"idle", "due"} \cup InFlight \cup Ended]
      BY <2>3, AnswerEndsPoll
    <3> QED BY <2>1, <3>1, QuietStep
  <2> QED BY <1>5, <2>2, <2>3 DEF GithubAnswers
<1>6. ASSUME NEW f \in Flows, StoreToken(f) PROVE IInv'
  <2>1. f \in Polls
    BY <1>6 DEF StoreToken, Polls
  <2>2. Answered(f, "authorized")
    BY <1>6 DEF StoreToken
  <2>3. /\ Polls' = Polls \ {f}
        /\ flow' \in [Flows -> {"idle", "due"} \cup InFlight \cup Ended]
    BY <2>2, AnswerEndsPoll
  <2>4. Types'
    BY <1>6, <2>3 DEF StoreToken, Types
  <2> QED BY <1>6, <2>1, <2>3, <2>4 DEF StoreToken, CodeIsLatest, PollsAskLatest
<1>7. ASSUME NEW f \in Flows, Decide(f) \/ Expire(f) PROVE IInv'
  <2>1. UNCHANGED <<flow, asked, code, token, latest, overtaken>>
    BY <1>7 DEF Decide, Expire
  <2> QED BY <2>1, QuietStep DEF Polls, Types
<1>8. CASE ReloadPage
  <2>1. /\ Polls' \subseteq Polls
        /\ flow' \in [Flows -> {"idle", "due"} \cup InFlight \cup Ended]
    BY <1>8 DEF ReloadPage, Polls, Types, InFlight, Ended
  <2> QED BY <1>8, <2>1, QuietStep DEF ReloadPage
<1>9. CASE UNCHANGED vars
  BY <1>9 DEF vars, Types, Polls, CodeIsLatest, PollsAskLatest
<1> QED BY <1>1, <1>2, <1>3, <1>4, <1>5, <1>6, <1>7, <1>8, <1>9 DEF Next, Daemon

(* However many flows overlap: as long as none overtook a poll, who is signed in
   is who started last. *)
THEOREM TokenIsLatest == Spec => []UndisturbedTokenIsLatest
<1>1. IInv /\ [Next]_vars => IInv'
  BY StepKeepsIInv
<1>2. IInv => UndisturbedTokenIsLatest
  BY DEF IInv, UndisturbedTokenIsLatest
<1> QED BY InitIInv, <1>1, <1>2, PTL DEF Spec
=============================================================================
