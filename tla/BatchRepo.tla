----------------------------- MODULE BatchRepo ------------------------------
(***************************************************************************)
(* The project's git repository as the batch orchestrator uses it:         *)
(* code_gen/git_ops.py over GitRunner (common/git_utils.py).               *)
(*                                                                         *)
(* What a tree contains is the set of tasks it implements; Scrap stands    *)
(* for any other uncommitted change.  A branch knows whether it has a      *)
(* commit that main lacks: without one, git merge says "Already up to      *)
(* date", succeeds and writes no merge commit.  Markers, the lines         *)
(* "batch_completed: <id>" of merge messages, live on main.                *)
(***************************************************************************)
CONSTANTS
    Work,         \* what can be implemented: the task ids
    Main,         \* the main branch
    Branches,     \* the other branches
    Scrap         \* an uncommitted change that implements nothing

\* br maps the branches that exist to what they hold.
Repos(r) ==
    /\ DOMAIN r = {"head", "main", "marks", "br", "dirty"}
    /\ r.main \subseteq Work /\ r.marks \subseteq Work
    /\ DOMAIN r.br \subseteq Branches
    /\ r.br \in [DOMAIN r.br -> [work : SUBSET Work, ahead : BOOLEAN]]
    /\ r.head \in {Main} \cup DOMAIN r.br
    /\ r.dirty \subseteq Work \cup {Scrap}

NewBranch(work) == [work |-> work, ahead |-> FALSE]

EmptyRepo == [head |-> Main, main |-> {}, marks |-> {},
              br |-> [b \in {} |-> NewBranch({})], dirty |-> {}]

Committed(r) == IF r.head = Main THEN r.main ELSE r.br[r.head].work

\* What the tests of post_verify see.
WorkTree(r) == Committed(r) \cup (r.dirty \ {Scrap})

\* Every implementation that still exists somewhere.
AllWork(r) == r.main \cup (r.dirty \ {Scrap})
                     \cup UNION {r.br[b].work : b \in DOMAIN r.br}

\* has_uncommitted_changes, stage_and_commit
CommitAll(r) ==
    IF r.dirty = {} THEN r
    ELSE IF r.head = Main
    THEN [r EXCEPT !.main = WorkTree(r), !.dirty = {}]
    ELSE [r EXCEPT !.br[r.head] = [work |-> WorkTree(r), ahead |-> TRUE],
                   !.dirty = {}]

Checkout(r, b) == [r EXCEPT !.head = b]

DeleteBranch(r, b) ==
    [r EXCEPT !.br = [c \in DOMAIN r.br \ {b} |-> r.br[c]]]

\* git checkout -b: the new branch starts at HEAD, and the uncommitted changes
\* come along.
CreateBranch(r, b) ==
    [r EXCEPT !.head = b,
              !.br = [c \in DOMAIN r.br \cup {b} |->
                        IF c = b THEN NewBranch(Committed(r)) ELSE r.br[c]]]

\* ensure_on_main: nothing at all when main is checked out.
EnsureOnMain(r) == IF r.head = Main THEN r ELSE Checkout(CommitAll(r), Main)

\* Seeded fault: an existing branch is never reused.
SetupFreshBranch(r, b, reuse) == CreateBranch(DeleteBranch(r, b), b)

\* setup_batch_branch after ensure_on_main.
SetupBranch(r, b, reuse) ==
    IF b \in DOMAIN r.br /\ reuse THEN Checkout(r, b)
    ELSE CreateBranch(DeleteBranch(r, b), b)

\* Seeded fault: a merge that did not happen counts as one.
MergeNothing(r, b, ids) == [r EXCEPT !.head = Main]

\* GitRunner.merge_branch into main with the markers of ids in the message.
MergeBranch(r, b, ids) ==
    [r EXCEPT !.head = Main,
              !.main = @ \cup r.br[b].work,
              !.marks = IF r.br[b].ahead THEN @ \cup ids ELSE @,
              !.br[b].ahead = FALSE]
=============================================================================
