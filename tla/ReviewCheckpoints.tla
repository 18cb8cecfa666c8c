------------------------- MODULE ReviewCheckpoints -------------------------
(***************************************************************************)
(* The checkpoints show_changes compares a workspace with                  *)
(* (review-checkpoints.ts).  A workspace has two Git refs: the working     *)
(* tree when it was opened, and the one last shown.  A tree is the set of  *)
(* edits it holds; edits are only added.  One workspace is modelled, since *)
(* its refs are named after its id and the manager's state is keyed by it. *)
(***************************************************************************)
EXTENDS Integers

CONSTANTS
    Edits,       \* what tools change in the working tree
    Reviews,     \* calls of show_changes that may be in progress at once
    Repository,  \* which of TRUE and FALSE to check: the workspace is in a Git repository
    MaxFailures, \* bound: git commands that fail
    NoRef

VARIABLES
    eager,     \* open_workspace takes the checkpoint (DEVSPACE_WIDGETS=changes)
    isGit,     \* the workspace is in a Git repository with a commit
    tree,      \* the working tree
    state,     \* the manager's state: absent, without a Git root, with one
    opening,   \* how far initializeWorkspace has come
    snapshot,  \* the tree it has committed
    openRef, baselineRef,  \* the refs, NoRef until they exist
    review,    \* the calls of show_changes
    shown,     \* history: the edits the answers showed
    failures

reviewVars == <<eager, isGit, tree, state, opening, snapshot, openRef, baselineRef, review, shown, failures>>

Trees == SUBSET Edits
Idle == [pc |-> "idle"]
InProgress == {"waiting", "baseline", "current", "mark", "answer"}
Review == [pc : InProgress \union {"answered", "error"}, since : {"last_shown", "workspace_open"},
           markReviewed : BOOLEAN, asked : Trees, base : Trees, current : Trees]

ASSUME ReviewAssumption ==
    /\ MaxFailures \in Nat
    /\ Repository \subseteq BOOLEAN
    /\ \A t \in Trees : t # NoRef

ReviewTypeOK ==
    /\ eager \in BOOLEAN /\ isGit \in BOOLEAN
    /\ tree \in Trees /\ snapshot \in Trees
    /\ state \in {"absent", "noRoot", "root"}
    /\ opening \in {"no", "eligibility", "snapshot", "open", "baseline", "done", "failed"}
    /\ openRef \in Trees \union {NoRef} /\ baselineRef \in Trees \union {NoRef}
    /\ review \in [Reviews -> Review \union {Idle}]
    /\ shown \in Trees
    /\ failures \in 0 .. MaxFailures

\* open_workspace has answered with the id.  initializeWorkspace registers its
\* state before its first await, so an eager one has begun by then.
ReviewInit ==
    /\ eager \in BOOLEAN /\ isGit \in Repository
    /\ tree = {} /\ snapshot = {} /\ shown = {} /\ failures = 0
    /\ openRef = NoRef /\ baselineRef = NoRef
    /\ IF eager THEN state = "noRoot" /\ opening = "eligibility" ELSE state = "absent" /\ opening = "no"
    /\ review = [v \in Reviews |-> Idle]

\* A tool of the workspace, or anybody, changes a file.
Edit(e) ==
    /\ e \notin tree
    /\ tree' = tree \union {e}
    /\ UNCHANGED <<eager, isGit, state, opening, snapshot, openRef, baselineRef, review, shown, failures>>

-----------------------------------------------------------------------------
\* initializeWorkspace.

\* getGitEligibility: without a Git root there is a diagnostic and no root.
CheckEligibility ==
    /\ opening = "eligibility"
    /\ IF isGit THEN state' = "root" /\ opening' = "snapshot" ELSE state' = state /\ opening' = "done"
    /\ UNCHANGED <<eager, isGit, tree, snapshot, openRef, baselineRef, review, shown, failures>>

\* createWorkingTreeSnapshot.
TakeSnapshot ==
    /\ opening = "snapshot"
    /\ snapshot' = tree /\ opening' = "open"
    /\ UNCHANGED <<eager, isGit, tree, state, openRef, baselineRef, review, shown, failures>>

SetOpenRef ==
    /\ opening = "open"
    /\ openRef' = snapshot /\ opening' = "baseline"
    /\ UNCHANGED <<eager, isGit, tree, state, snapshot, baselineRef, review, shown, failures>>

SetBaselineRef ==
    /\ opening = "baseline"
    /\ baselineRef' = snapshot /\ opening' = "done"
    /\ UNCHANGED <<eager, isGit, tree, state, snapshot, openRef, review, shown, failures>>

\* A git command fails: the diagnostic is kept and the Git root stays set.
OpeningFails ==
    /\ opening \in {"snapshot", "open", "baseline"} /\ failures < MaxFailures
    /\ opening' = "failed" /\ failures' = failures + 1
    /\ UNCHANGED <<eager, isGit, tree, state, snapshot, openRef, baselineRef, review, shown>>

-----------------------------------------------------------------------------
\* reviewChanges.

\* A workspace nobody initialized is initialized by its first review.
Ask(v, since, markReviewed) ==
    /\ review[v] = Idle
    /\ review' = [review EXCEPT ![v] =
        [pc |-> IF state = "absent" THEN "waiting" ELSE IF state = "root" THEN "baseline" ELSE "error",
         since |-> since, markReviewed |-> markReviewed, asked |-> tree, base |-> {}, current |-> {}]]
    /\ IF state = "absent" THEN state' = "noRoot" /\ opening' = "eligibility" ELSE UNCHANGED <<state, opening>>
    /\ UNCHANGED <<eager, isGit, tree, snapshot, openRef, baselineRef, shown, failures>>

Initialized(v) ==
    /\ review[v].pc = "waiting" /\ opening \in {"done", "failed"}
    /\ review' = [review EXCEPT ![v].pc = IF state = "root" THEN "baseline" ELSE "error"]
    /\ UNCHANGED <<eager, isGit, tree, state, opening, snapshot, openRef, baselineRef, shown, failures>>

Compared(v) == IF review[v].since = "workspace_open" THEN openRef ELSE baselineRef

\* git rev-parse of the ref, which fails while the ref does not exist.
ReadBaseline(v) ==
    /\ review[v].pc = "baseline"
    /\ review' = [review EXCEPT ![v] = IF Compared(v) = NoRef THEN [@ EXCEPT !.pc = "error"]
                                       ELSE [@ EXCEPT !.pc = "current", !.base = Compared(v)]]
    /\ UNCHANGED <<eager, isGit, tree, state, opening, snapshot, openRef, baselineRef, shown, failures>>

\* The snapshot, and the diff of two commits that no longer change.
ReadCurrent(v) ==
    /\ review[v].pc = "current"
    /\ review' = [review EXCEPT ![v].pc = IF review[v].markReviewed THEN "mark" ELSE "answer",
                                ![v].current = tree]
    /\ UNCHANGED <<eager, isGit, tree, state, opening, snapshot, openRef, baselineRef, shown, failures>>

\* Mutant: the tree at the time of the mark, not the one that was compared.
Reviewed_Now(v) == tree

Reviewed(v) == review[v].current

MarkReviewed(v) ==
    /\ review[v].pc = "mark"
    /\ baselineRef' = Reviewed(v)
    /\ review' = [review EXCEPT ![v].pc = "answer"]
    /\ UNCHANGED <<eager, isGit, tree, state, opening, snapshot, openRef, shown, failures>>

AnswerReview(v) ==
    /\ review[v].pc = "answer"
    /\ review' = [review EXCEPT ![v].pc = "answered"]
    /\ shown' = shown \union (review[v].current \ review[v].base)
    /\ UNCHANGED <<eager, isGit, tree, state, opening, snapshot, openRef, baselineRef, failures>>

\* A git command of the review fails, and the review with it.
ReviewFails(v) ==
    /\ review[v].pc \in {"current", "mark"} /\ failures < MaxFailures
    /\ review' = [review EXCEPT ![v].pc = "error"]
    /\ failures' = failures + 1
    /\ UNCHANGED <<eager, isGit, tree, state, opening, snapshot, openRef, baselineRef, shown>>

\* The caller has its answer and may ask again.
Return(v) ==
    /\ review[v].pc \in {"answered", "error"}
    /\ review' = [review EXCEPT ![v] = Idle]
    /\ UNCHANGED <<eager, isGit, tree, state, opening, snapshot, openRef, baselineRef, shown, failures>>

ReviewNext ==
    \/ \E e \in Edits : Edit(e)
    \/ CheckEligibility \/ TakeSnapshot \/ SetOpenRef \/ SetBaselineRef \/ OpeningFails
    \/ \E v \in Reviews :
        \/ \E since \in {"last_shown", "workspace_open"}, mark \in BOOLEAN : Ask(v, since, mark)
        \/ Initialized(v) \/ ReadBaseline(v) \/ ReadCurrent(v) \/ MarkReviewed(v)
        \/ AnswerReview(v) \/ ReviewFails(v) \/ Return(v)

ReviewSpec == ReviewInit /\ [][ReviewNext]_reviewVars

-----------------------------------------------------------------------------
\* What a review that is past its comparison has found.
Found(v) == IF review[v].pc \in {"mark", "answer", "answered"} THEN review[v].current \ review[v].base ELSE {}

(***************************************************************************)
(* An answered show_changes accounts for every edit made before it was     *)
(* asked: the edit was there when the workspace's checkpoint was taken, or *)
(* this answer shows it, or one that was given or is about to be.  However *)
(* reviews overlap with edits, with each other and with the opening, none  *)
(* marks as reviewed an edit that nobody is shown; and a review since the  *)
(* opening shows, by itself, every edit the checkpoint lacks               *)
(* (review-checkpoints.ts, reviewChanges).                                 *)
(***************************************************************************)
AnswersAccountForAll ==
    \A v \in Reviews : review[v].pc = "answered" =>
        /\ openRef # NoRef
        /\ review[v].asked \subseteq openRef \union shown \union UNION {Found(w) : w \in Reviews}
        /\ review[v].since = "workspace_open" => review[v].asked \ openRef \subseteq Found(v)
=============================================================================
