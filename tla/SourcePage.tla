------------------------------ MODULE SourcePage ------------------------------
(* The source step (ui/src/pages/Source.jsx): where the system to install comes
   from, and the clone of the user's own repository that the daemon makes.

   A repository stands for an address with its branch: editing either does the
   same.  `clones` are the clones the page has asked for and not heard of since,
   `checkout` what the daemon's one checkout directory holds (outside the page:
   every clone goes to the same directory).  The answer of a clone is given to
   the wizard whatever page or kind of source is shown by then.

   The card that would create a repository is never past its sign-in: the
   fields its device flow reports are not among those the wizard keeps. *)
EXTENDS WizardPage

CONSTANTS Repositories, InsecureRepos

VARIABLES clones, checkout

sourceVars == <<draft, ui, clones, checkout>>

(* The cards of the kinds without GitHub leave what is known of the repository
   alone. *)
GithubKinds == {"github-user-repo", "github-create-from-template"}
PlainKinds == {"offline-defaults", "template"}

ChooseKind(kind) ==
    /\ kind \in (GithubKinds \cup PlainKinds) \ {draft.sourceKind}
    /\ Change(IF kind \in GithubKinds
              THEN [sourceKind |-> kind, githubSourceStatus |-> "none"]
              ELSE [sourceKind |-> kind])
    /\ UNCHANGED <<clones, checkout>>

(* Mutant: typing another address does not reset what is known of it. *)
EditRepository_KeepsStatus(repo) ==
    /\ draft.sourceKind = "github-user-repo" /\ ui.githubSourceStatus # "cloning"
    /\ repo # draft.sourceRepoUrl
    /\ Change([sourceRepoUrl |-> repo])
    /\ UNCHANGED <<clones, checkout>>

EditRepository(repo) ==
    /\ draft.sourceKind = "github-user-repo" /\ ui.githubSourceStatus # "cloning"
    /\ repo # draft.sourceRepoUrl
    /\ Change([sourceRepoUrl |-> repo, githubSourceStatus |-> "none"])
    /\ UNCHANGED <<clones, checkout>>

(* The retry button appears after an error, also when the address was emptied. *)
RetryOffered == ui.githubSourceStatus = "error"

(* handlePrepareRepo, from either button. *)
PrepareRepo ==
    /\ draft.sourceKind = "github-user-repo" /\ ui.githubSourceStatus # "cloning"
    /\ draft.sourceRepoUrl # NoRepo \/ RetryOffered
    /\ draft.sourceRepoUrl \notin clones
    /\ clones' = clones \cup {draft.sourceRepoUrl}
    /\ Change([githubSourceStatus |-> "cloning"])
    /\ UNCHANGED checkout

(* The daemon clones nothing but what is reached over https. *)
CloneSucceeds(repo) ==
    /\ repo \in clones \ (InsecureRepos \cup {NoRepo})
    /\ clones' = clones \ {repo}
    /\ checkout' = repo
    /\ Change([githubSourceStatus |-> "ready"])

(* Refused before the directory is emptied, or failed after. *)
CloneFails(repo) ==
    /\ repo \in clones
    /\ clones' = clones \ {repo}
    /\ checkout' \in {checkout, NoRepo}
    /\ Change([githubSourceStatus |-> "error"])
=============================================================================
