------------------------------ MODULE DeviceFlow ------------------------------
(* Signing in to GitHub (src/auth.rs, with the loop of ui/src/pages/Source.jsx
   that drives it): a start asks GitHub for a code, which the user approves or
   denies there; from then on the page polls until it hears that it is signed in
   or that it will never be.

   The daemon keeps one code and one token for everybody.  Its handlers wait for
   GitHub without the lock, so what a poll learns is about the code it read
   before.  The button that starts a flow is always there (nothing the flow
   reports is among the fields the wizard keeps), so flows may overlap.  A reload
   of the page takes its timers with it; a request on its way is dropped with
   the connection, or runs to its end for nobody.

   A flow, its code and the token it yields have one name.  overtaken observes
   whether a start was stored while a poll of an earlier code was under way. *)
EXTENDS Integers

CONSTANTS Flows       \* bound: the starts

NoFlow == 0

ASSUME FlowsAssumption == NoFlow \notin Flows

VARIABLES
    flow,       \* where the page's start and the polls that follow it are
    asked,      \* the code that the poll under way carries
    nobodys,    \* the flows whose page is gone
    code, token, latest,    \* the daemon: the code, the token; the last start stored
    github,     \* what GitHub knows of a code
    overtaken

vars == <<flow, asked, nobodys, code, token, latest, github, overtaken>>

InFlight == {"starting", "issued", "polling", "granted"}
Ended == {"authorized", "failed", "gone"}

(* The request of f is answered: the page goes on, if it is still there. *)
Answered(f, how) ==
    flow' = [flow EXCEPT ![f] = IF f \in nobodys THEN "gone" ELSE how]

-----------------------------------------------------------------------------
(* handleStartDeviceFlow, start_device_flow. *)

StartFlow(f) ==
    /\ flow[f] = "idle"
    /\ flow' = [flow EXCEPT ![f] = "starting"]
    /\ UNCHANGED <<asked, nobodys, code, token, latest, github, overtaken>>

GithubIssues(f) ==
    /\ flow[f] = "starting"
    /\ flow' = [flow EXCEPT ![f] = "issued"]
    /\ github' = [github EXCEPT ![f] = "pending"]
    /\ UNCHANGED <<asked, nobodys, code, token, latest, overtaken>>

(* Not configured, unreachable, or an answer that is none. *)
StartFails(f) ==
    /\ flow[f] \in {"starting", "issued"}
    /\ Answered(f, "failed")
    /\ UNCHANGED <<asked, nobodys, code, token, latest, github, overtaken>>

(* Mutant: a new start does not sign the user out. *)
DaemonStores_KeepsToken(f) ==
    /\ flow[f] = "issued"
    /\ code' = f /\ latest' = f
    /\ overtaken' = (overtaken \/ \E g \in Flows : flow[g] \in {"polling", "granted"})
    /\ Answered(f, "due")
    /\ UNCHANGED <<asked, nobodys, token, github>>

DaemonStores(f) ==
    /\ flow[f] = "issued"
    /\ code' = f /\ token' = NoFlow /\ latest' = f
    /\ overtaken' = (overtaken \/ \E g \in Flows : flow[g] \in {"polling", "granted"})
    /\ Answered(f, "due")
    /\ UNCHANGED <<asked, nobodys, github>>

-----------------------------------------------------------------------------
(* pollDeviceFlow, poll_device_flow. *)

(* The code is whichever the daemon has by now; without one the poll is refused. *)
ReadCode(f) ==
    /\ flow[f] = "due"
    /\ flow' = [flow EXCEPT ![f] = IF code = NoFlow THEN "failed" ELSE "polling"]
    /\ asked' = [asked EXCEPT ![f] = code]
    /\ UNCHANGED <<nobodys, code, token, latest, github, overtaken>>

(* Mutant: a refusal for good is polled again. *)
GithubAnswers_RetriesRefusals(f) ==
    /\ flow[f] = "polling"
    /\ \/ /\ github[asked[f]] = "approved"
          /\ github' = [github EXCEPT ![asked[f]] = "used"]
          /\ flow' = [flow EXCEPT ![f] = "granted"]
       \/ /\ github[asked[f]] # "approved"
          /\ Answered(f, "due")
          /\ UNCHANGED github
    /\ UNCHANGED <<asked, nobodys, code, token, latest, overtaken>>

(* A code is exchanged for a token once.  Pending and slow_down are polled again
   after a while. *)
GithubAnswers(f) ==
    /\ flow[f] = "polling"
    /\ \/ /\ github[asked[f]] = "approved"
          /\ github' = [github EXCEPT ![asked[f]] = "used"]
          /\ flow' = [flow EXCEPT ![f] = "granted"]
       \/ /\ github[asked[f]] = "pending"
          /\ Answered(f, "due")
          /\ UNCHANGED github
       \/ /\ github[asked[f]] \in {"denied", "expired", "used"}
          /\ Answered(f, "failed")
          /\ UNCHANGED github
    /\ UNCHANGED <<asked, nobodys, code, token, latest, overtaken>>

(* GitHub was not reached, or its answer was lost on the way back. *)
PollFails(f) ==
    /\ flow[f] = "polling"
    /\ \/ UNCHANGED github
       \/ /\ github[asked[f]] = "approved"
          /\ github' = [github EXCEPT ![asked[f]] = "used"]
    /\ Answered(f, "failed")
    /\ UNCHANGED <<asked, nobodys, code, token, latest, overtaken>>

(* After it asked GitHub who the user is: the code is forgotten, whichever it is
   by now. *)
StoreToken(f) ==
    /\ flow[f] = "granted"
    /\ token' = asked[f] /\ code' = NoFlow
    /\ Answered(f, "authorized")
    /\ UNCHANGED <<asked, nobodys, latest, github, overtaken>>

-----------------------------------------------------------------------------
ReloadPage ==
    /\ \E f \in Flows : flow[f] \in InFlight \cup {"due"} /\ f \notin nobodys
    /\ \E kept \in SUBSET {f \in Flows : flow[f] \in InFlight} :
         /\ flow' = [f \in Flows |->
                        IF flow[f] \in InFlight \cup {"due"} /\ f \notin kept THEN "gone" ELSE flow[f]]
         /\ nobodys' = nobodys \cup kept
    /\ UNCHANGED <<asked, code, token, latest, github, overtaken>>

Decide(f) ==
    /\ github[f] = "pending"
    /\ \E verdict \in {"approved", "denied"} : github' = [github EXCEPT ![f] = verdict]
    /\ UNCHANGED <<flow, asked, nobodys, code, token, latest, overtaken>>

Expire(f) ==
    /\ github[f] \in {"pending", "approved"}
    /\ github' = [github EXCEPT ![f] = "expired"]
    /\ UNCHANGED <<flow, asked, nobodys, code, token, latest, overtaken>>

-----------------------------------------------------------------------------
Init ==
    /\ flow = [f \in Flows |-> "idle"]
    /\ asked = [f \in Flows |-> NoFlow]
    /\ nobodys = {}
    /\ code = NoFlow /\ token = NoFlow /\ latest = NoFlow
    /\ github = [f \in Flows |-> "unissued"]
    /\ overtaken = FALSE

Daemon(f) == GithubIssues(f) \/ DaemonStores(f) \/ GithubAnswers(f) \/ StoreToken(f)

Next ==
    \/ \E f \in Flows :
         StartFlow(f) \/ StartFails(f) \/ ReadCode(f) \/ PollFails(f) \/ Daemon(f)
            \/ Decide(f) \/ Expire(f)
    \/ ReloadPage

(* A request is answered in the end, a timer goes off, and GitHub's codes have a
   date of expiry; nobody has to start, to approve or to reload. *)
Fairness ==
    \A f \in Flows : WF_vars(Daemon(f)) /\ WF_vars(ReadCode(f)) /\ WF_vars(Expire(f))

Spec == Init /\ [][Next]_vars /\ Fairness

-----------------------------------------------------------------------------
(* Unless a start overtook a poll under way, the daemon's token is of the flow
   started last: nobody who starts over with another account goes on with the
   first one's.  (A poll that was overtaken stores its token all the same, and
   forgets a code that is not its own.) *)
UndisturbedTokenIsLatest == ~overtaken /\ token # NoFlow => token = latest

(* However starts, polls, reloads and GitHub's answers interleave, no page polls
   forever: it hears that it is signed in, or why not. *)
PollingEnds == \A f \in Flows : flow[f] = "due" ~> flow[f] \in Ended
=============================================================================
