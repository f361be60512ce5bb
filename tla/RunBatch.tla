------------------------------ MODULE RunBatch ------------------------------
(***************************************************************************)
(* The code generation orchestrator, scripts/run_batch.py.                 *)
(*                                                                         *)
(* One invocation picks a batch, checks out its branch, records it as the  *)
(* current batch, lets a sub-agent work on it at most MaxAttempts times,   *)
(* verifies the result itself, merges the branch into main and records the *)
(* outcome.  Its state is spread over three places that fail separately:   *)
(* the state file (StateStore), the git repository (BatchRepo) and the     *)
(* memory of the process.  The process may die at any step, inside a save  *)
(* too; the user then starts another invocation, of any kind.              *)
(*                                                                         *)
(* External: the sub-agent, which works in the repository as AgentModes    *)
(* says, and the test run, which passes only if the checked out tree       *)
(* implements the batch's task.                                            *)
(***************************************************************************)
EXTENDS TaskPicker

CONSTANTS
    Main,         \* the main branch
    Branches,     \* the other branches
    Scrap,        \* an uncommitted change that implements nothing
    BranchOf,     \* "batch/" \o sanitize_branch_component(batch_id, 50)
    Reviewable,   \* the subtrees other than FINAL_TASKS and PROJECT_FILES
    ReviewOf,     \* "review/" \o sanitize_branch_component(subtree, 40)
    Stray,        \* a branch of the sub-agent's own
    MaxAttempts,  \* MAX_BATCH_ATTEMPTS
    MergeFile,    \* --merge-file
    Commands,     \* the kinds of invocation the user makes
    AgentModes,   \* how the sub-agent leaves the repository
    ReviewModes,  \* how a review agent leaves it, {} if no review is needed
    Faults,       \* "crash", "checkout" and "merge" may happen
    Truncations   \* how a save can be cut short (StateStore)

ASSUME RunBatchConstants ==
    /\ Main \notin Branches /\ Scrap \notin Tasks
    /\ BranchOf \in [Tasks -> Branches \ {Stray}] /\ Stray \in Branches
    /\ Reviewable \subseteq Subtrees
    /\ ReviewOf \in [Reviewable -> Branches \ {Stray}]
    /\ \A t \in Tasks, a \in Reviewable : BranchOf[t] # ReviewOf[a]
    /\ MaxAttempts \in Nat \ {0} /\ MergeFile \in BOOLEAN
    /\ Commands \subseteq {"next", "loop", "resume", "retry", "batch-id", "prune"}
    /\ AgentModes \cup ReviewModes \subseteq
          {"none", "dirty", "commit", "main", "drop", "stray"}
    /\ Faults \subseteq {"crash", "checkout", "merge"}

VARIABLES
    disk,         \* what load_code_gen_state returns
    tail,         \* the end of the state file (StateStore)
    behind,       \* the snapshot before an unterminated one (StateStore)
    repo,         \* the git repository (BatchRepo)
    pc,           \* where run_batch is; "idle" when no process runs
    cmd,          \* the invocation
    id,           \* batch_id
    group,        \* merged_task_ids of batch_state, {} for a single task
    mem,          \* global_state, as loaded at the start
    attempt,      \* attempt_num
    result,       \* how the last run_batch ended
    riders        \* history: tasks merged on the strength of another one's tests

store == <<disk, tail, behind>>
vars == <<disk, tail, behind, repo, pc, cmd, id, group, mem, attempt, result, riders>>

INSTANCE BatchRepo WITH Work <- Tasks

Store == INSTANCE StateStore WITH
    Snapshots <- States, Fresh <- FreshState,
    value <- disk

Locations == {"idle", "loop", "main", "branch", "recheck", "save", "trajectory",
              "attempt", "merge", "land", "delete", "complete", "review",
              "reviewing", "reviewed", "file", "refuse", "skip", "abandon", "fail"}

Results == {"none", "complete", "batch_complete", "batch_failed", "error", "crash"}

ProcessTypeOK ==
    /\ pc \in Locations
    /\ cmd \in {"none", "next", "loop", "resume", "retry", "batch-id"}
    /\ id \in Tasks \cup {NoBatch} /\ group \subseteq Tasks
    /\ pc \notin {"idle", "loop"} => id \in Tasks
    /\ mem \in States
    /\ attempt \in 0..MaxAttempts
    /\ result \in Results

TypeOK ==
    /\ Store!TypeOK
    /\ Repos(repo)
    /\ ProcessTypeOK
    /\ riders \subseteq Tasks

Init ==
    /\ Store!Init
    /\ repo = EmptyRepo
    /\ pc = "idle" /\ cmd = "none" /\ id = NoBatch /\ group = {}
    /\ mem = FreshState /\ attempt = 0 /\ result = "none" /\ riders = {}

-----------------------------------------------------------------------------
(* Control flow. *)

Goto(l) == pc' = l /\ UNCHANGED <<cmd, id, group, mem, attempt, result>>

\* The process is gone, with all it had in memory.
Exit(r) ==
    /\ pc' = "idle" /\ cmd' = "none" /\ result' = r
    /\ id' = NoBatch /\ group' = {} /\ mem' = FreshState /\ attempt' = 0

\* run_batch returns r.  _run_loop goes on after a completed or failed batch
\* and stops at anything else.
Return(r) ==
    IF cmd = "loop" /\ r \in {"batch_complete", "batch_failed"}
    THEN /\ pc' = "loop" /\ cmd' = "loop" /\ result' = r
         /\ id' = NoBatch /\ group' = {} /\ mem' = FreshState /\ attempt' = 0
    ELSE Exit(r)

\* The batch is known and not completed: steps 1 and 2 are over.
Dispatch(c, t, ids, s) ==
    /\ pc' = "main" /\ cmd' = c /\ id' = t /\ group' = ids /\ mem' = s
    /\ attempt' = 0 /\ result' = "none"

\* The save is cut short and the process with it.
CutShort(s) == Store!TornSave(s) /\ Exit("crash")

Crash ==
    /\ pc # "idle" /\ "crash" \in Faults
    /\ Exit("crash")
    /\ UNCHANGED <<store, repo, riders>>

-----------------------------------------------------------------------------
(* Steps 1 and 2: the invocation, from an idle process or inside a loop.   *)

\* --next, and every round of --loop.
NextBatch(c) ==
    /\ c \in Commands \cap {"next", "loop"}
    /\ pc = "idle" \/ (pc = "loop" /\ c = "loop")
    /\ LET s    == AfterScan(disk, repo.marks)
           t    == Pick(disk, repo.marks)
           ids  == MergedGroup(s, t)
           many == IF MergeFile /\ Cardinality(ids) > 1 THEN ids ELSE {}
       IN  \/ /\ IF s = disk THEN UNCHANGED store ELSE Store!Save(s)
              /\ IF t = NoBatch THEN Exit("complete") ELSE Dispatch(c, t, many, s)
           \/ s # disk /\ CutShort(s)
    /\ UNCHANGED <<repo, riders>>

\* --retry t: only t leaves failed_task_ids, and the batch is t alone.
Retry(t) ==
    /\ "retry" \in Commands /\ pc = "idle"
    /\ LET s == ClearFailed(disk, t)
       IN  \/ /\ IF s = disk THEN UNCHANGED store ELSE Store!Save(s)
              /\ IF t \in s.completed THEN Exit("error")
                                       ELSE Dispatch("retry", t, {}, s)
           \/ s # disk /\ CutShort(s)
    /\ UNCHANGED <<repo, riders>>

\* --batch-id t
RunSpecific(t) ==
    /\ "batch-id" \in Commands /\ pc = "idle"
    /\ IF t \in disk.completed THEN Exit("error")
                                ELSE Dispatch("batch-id", t, {}, disk)
    /\ UNCHANGED <<store, repo, riders>>

\* --resume: the merged ids come back with current_batch_state.
Resume ==
    /\ "resume" \in Commands /\ pc = "idle"
    /\ IF disk.current = NoBatch \/ disk.current \in disk.completed
       THEN Exit("error")
       ELSE Dispatch("resume", disk.current, disk.merged, disk)
    /\ UNCHANGED <<store, repo, riders>>

\* --prune-failed deletes every "batch/" branch but the one checked out.
IsBatchBranch(b) == \E t \in Tasks : BranchOf[t] = b

PruneFailed ==
    /\ "prune" \in Commands /\ pc = "idle"
    /\ repo' = [repo EXCEPT !.br =
                   [b \in {c \in DOMAIN @ : c = repo.head \/ ~IsBatchBranch(c)}
                       |-> @[b]]]
    /\ UNCHANGED <<store, pc, cmd, id, group, mem, attempt, result, riders>>

\* --max-batches, or Ctrl-C between two batches.
LeaveLoop ==
    /\ pc = "loop"
    /\ Exit(result)
    /\ UNCHANGED <<store, repo, riders>>

-----------------------------------------------------------------------------
(* Step 3: the branch. *)

Branch == BranchOf[id]

Reuse == cmd \in {"retry", "resume"}

\* ensure_on_main.  When the checkout fails, the work is committed where it
\* is and RuntimeError ends the invocation.
EnterMain ==
    /\ pc = "main"
    /\ \/ repo' = EnsureOnMain(repo) /\ Goto("branch")
       \/ /\ "checkout" \in Faults /\ repo.head # Main
          /\ repo' = CommitAll(repo) /\ Return("error")
    /\ UNCHANGED <<store, riders>>

\* The rest of setup_batch_branch.  A failure, or a crash, may come after the
\* stale branch was deleted.
EnterBranch ==
    /\ pc = "branch"
    /\ \/ /\ repo' = SetupBranch(repo, Branch, Reuse)
          /\ Goto(IF cmd = "resume" THEN "recheck" ELSE "save")
       \/ /\ "checkout" \in Faults
          /\ repo' \in {repo, IF Reuse THEN repo ELSE DeleteBranch(repo, Branch)}
          /\ Return("error")
    /\ UNCHANGED <<store, riders>>

-----------------------------------------------------------------------------
(* Steps 5 and 6: post_verify, the sub-agent, the attempts. *)

\* Seeded fault: the sub-agent's own report is trusted.
TrustSubAgent(r) == TRUE

\* post_verify can pass on repository r.  It looks at the batch's own task,
\* not at the tasks merged into the batch.
CanPass(r) == id \in WorkTree(r)

\* --resume: the sub-agent may have finished before the interruption.
Recheck ==
    /\ pc = "recheck"
    /\ \/ CanPass(repo) /\ Goto("merge")
       \/ Goto("save")
    /\ UNCHANGED <<store, repo, riders>>

\* set_current_batch on the state loaded at the start, and save.
SaveCurrent ==
    /\ pc = "save"
    /\ LET s == SetCurrent(mem, id, group)
       IN  \/ /\ Store!Save(s) /\ mem' = s
              /\ pc' = "trajectory" /\ UNCHANGED <<cmd, id, group, attempt, result>>
           \/ CutShort(s)
    /\ UNCHANGED <<repo, riders>>

\* get_or_create_code_gen_trajectory saves once more when it creates one.
OpenTrajectory ==
    /\ pc = "trajectory"
    /\ \/ /\ \/ UNCHANGED store
             \/ Store!Save(mem)
          /\ pc' = "attempt" /\ attempt' = 1
          /\ UNCHANGED <<cmd, id, group, mem, result>>
       \/ CutShort(mem)
    /\ UNCHANGED <<repo, riders>>

\* What an agent on branch b may turn r into, having implemented new.
AgentWork(r, b, how, new) ==
    LET edited == [r EXCEPT !.dirty = @ \cup new \cup {Scrap}]
        onMain == CommitAll(Checkout(edited, Main))
    IN  CASE how = "none"   -> r
          [] how = "dirty"  -> edited
          [] how = "commit" -> CommitAll(edited)
          [] how = "main"   -> onMain
          [] how = "drop"   -> DeleteBranch(onMain, b)
          [] how = "stray"  -> CommitAll(SetupBranch(edited, Stray, TRUE))

\* Seeded fault: one attempt too many.
MayRetryOnceMore == attempt <= MaxAttempts

MayRetry == attempt < MaxAttempts

\* run_single_attempt: the sub-agent, then post_verify, which alone decides.
\* The sub-agent may also fail or time out; that counts like a failed
\* verification.
Attempt ==
    /\ pc = "attempt"
    /\ \E how \in AgentModes, new \in SUBSET ({id} \cup group) :
          repo' = AgentWork(repo, Branch, how, new)
    /\ \/ CanPass(repo') /\ Goto("merge")
       \/ /\ MayRetry
          /\ attempt' = attempt + 1
          /\ UNCHANGED <<pc, cmd, id, group, mem, result>>
       \/ attempt = MaxAttempts /\ Goto("abandon")
    /\ UNCHANGED <<store, riders>>

-----------------------------------------------------------------------------
(* Step 7: merge_batch_branch, abandon_batch_branch and the outcome. *)

\* The branch is gone: what is uncommitted is salvaged, and the batch skipped.
BranchMissing ==
    /\ pc = "merge" /\ Branch \notin DOMAIN repo.br
    /\ \/ repo' = EnsureOnMain(CommitAll(repo))
       \/ "checkout" \in Faults /\ repo' = CommitAll(repo)
    /\ Goto("skip")
    /\ UNCHANGED <<store, riders>>

CommitLeftovers ==
    /\ pc = "merge" /\ Branch \in DOMAIN repo.br
    /\ repo' = CommitAll(repo)
    /\ Goto("land")
    /\ UNCHANGED <<store, riders>>

Land ==
    /\ pc = "land"
    /\ repo' = MergeBranch(repo, Branch, {id})
    /\ riders' = riders \cup (group \ {id})
    /\ Goto("delete")
    /\ UNCHANGED store

\* switch_failed, merge_conflict (aborted) or merge_failed; run_batch then
\* tries once more to get to main.
MergeFails ==
    /\ pc = "land" /\ "merge" \in Faults
    /\ \/ repo' = Checkout(repo, Main)
       \/ "checkout" \in Faults /\ UNCHANGED repo
    /\ Goto("refuse")
    /\ UNCHANGED <<store, riders>>

DeleteMerged ==
    /\ pc = "delete"
    /\ repo' = DeleteBranch(repo, Branch)
    /\ Goto("complete")
    /\ UNCHANGED <<store, riders>>

\* Save s unless the loaded state belongs to another batch, then go on.
Record(s, After) ==
    \/ /\ IF disk.current = id THEN Store!Save(s) ELSE UNCHANGED store
       /\ After
    \/ disk.current = id /\ CutShort(s)

\* A batch that --resume found finished (attempt = 0) returns at once.
RecordCompleted ==
    /\ pc = "complete"
    /\ Record(CompleteBatch(disk, id, TRUE),
              IF attempt = 0 THEN Return("batch_complete") ELSE Goto("review"))
    /\ UNCHANGED <<repo, riders>>

RecordRefused ==
    /\ pc = "refuse"
    /\ Record(CompleteBatch(disk, id, FALSE), Return("error"))
    /\ UNCHANGED <<repo, riders>>

RecordSkipped ==
    /\ pc = "skip"
    /\ Record(SkipBatch(disk, id), Return("error"))
    /\ UNCHANGED <<repo, riders>>

\* Seeded fault: the work of a failed batch is not committed.
AbandonUncommitted ==
    /\ pc = "abandon"
    /\ repo' = Checkout(repo, Main)
    /\ Goto("fail")
    /\ UNCHANGED <<store, riders>>

\* abandon_batch_branch does not look at whether the checkout succeeded.
Abandon ==
    /\ pc = "abandon"
    /\ \/ repo' = Checkout(CommitAll(repo), Main)
       \/ "checkout" \in Faults /\ repo' = CommitAll(repo)
    /\ Goto("fail")
    /\ UNCHANGED <<store, riders>>

RecordFailed ==
    /\ pc = "fail"
    /\ Record(CompleteBatch(disk, id, FALSE), Return("batch_failed"))
    /\ UNCHANGED <<repo, riders>>

-----------------------------------------------------------------------------
(* The review of a subtree whose last task was just completed              *)
(* (subtree_review.py): a second agent on a branch of its own, which blocks *)
(* nothing whatever it does.                                               *)

IsSubtreeJustCompleted ==
    /\ Subtree[id] \in Reviewable
    /\ \A t \in Tasks : Subtree[t] = Subtree[id] => t \in disk.completed

Review == ReviewOf[Subtree[id]]

NoReview ==
    /\ pc = "review" /\ ~IsSubtreeJustCompleted
    /\ Return("batch_complete")
    /\ UNCHANGED <<store, repo, riders>>

\* Static checks may make the agent unnecessary.  Failures to set up the
\* branch are not noticed.
EnterReview ==
    /\ pc = "review" /\ IsSubtreeJustCompleted
    /\ \/ UNCHANGED repo /\ Goto("file")
       \/ /\ ReviewModes # {}
          /\ \/ repo' = SetupBranch(EnsureOnMain(repo), Review, FALSE)
             \/ /\ "checkout" \in Faults
                /\ repo' = DeleteBranch(EnsureOnMain(repo), Review)
          /\ Goto("reviewing")
    /\ UNCHANGED <<store, riders>>

ReviewWork ==
    /\ pc = "reviewing"
    /\ \E how \in ReviewModes : repo' = AgentWork(repo, Review, how, {})
    /\ Goto("reviewed")
    /\ UNCHANGED <<store, riders>>

\* All tests pass and the branch is merged without a marker and deleted; or
\* the review is blocked, its branch kept, and the checkout not looked at.
FinishReview ==
    /\ pc = "reviewed"
    /\ \/ /\ Review \in DOMAIN repo.br
          /\ repo' = DeleteBranch(MergeBranch(CommitAll(repo), Review, {}), Review)
       \/ repo' = Checkout(CommitAll(repo), Main)
       \/ "checkout" \in Faults /\ repo' = CommitAll(repo)
    /\ Goto("file")
    /\ UNCHANGED <<store, riders>>

RecordReview ==
    /\ pc = "file"
    /\ LET s == [disk EXCEPT !.reviewed = @ \cup {Subtree[id]}]
       IN  \/ Store!Save(s) /\ Return("batch_complete")
           \/ CutShort(s)
    /\ UNCHANGED <<repo, riders>>

-----------------------------------------------------------------------------
Invocation ==
    \/ \E c \in {"next", "loop"} : NextBatch(c)
    \/ \E t \in Tasks : Retry(t) \/ RunSpecific(t)
    \/ Resume
    \/ PruneFailed

Step ==
    \/ LeaveLoop
    \/ EnterMain \/ EnterBranch
    \/ Recheck \/ SaveCurrent \/ OpenTrajectory \/ Attempt
    \/ BranchMissing \/ CommitLeftovers \/ Land \/ MergeFails \/ DeleteMerged
    \/ RecordCompleted \/ RecordRefused \/ RecordSkipped
    \/ Abandon \/ RecordFailed
    \/ NoReview \/ EnterReview \/ ReviewWork \/ FinishReview \/ RecordReview

Next == Invocation \/ Step \/ Crash

Spec == Init /\ [][Next]_vars

\* A run_batch.py process takes its next step; the user asks for the next
\* batch again and again, as next_action tells them to.
Fairness == WF_vars(Step) /\ WF_vars(\E c \in {"next", "loop"} : NextBatch(c))

FairSpec == Spec /\ Fairness

-----------------------------------------------------------------------------
(* Properties. *)

\* A completed task is on main, whatever crashed or was lost in between; a
\* task merged together with another one is as good as that one's tests.
CompletedIsOnMain == disk.completed \subseteq repo.main \cup riders

Ledger == INSTANCE TaskLedger WITH
    landed <- repo.main \cup riders,
    completed <- disk.completed,
    failed <- disk.failed

\* The orchestrator's three kinds of state together behave like one ledger.
ImplementsLedger == Ledger!Spec

\* While a sub-agent works, the state file names its batch, so that --resume
\* finds it, and the first attempt starts on the batch's own branch.
ResumeIsPossible ==
    pc = "attempt" =>
        /\ disk.current = id /\ disk.merged = group
        /\ attempt = 1 => repo.head = Branch

\* A batch reported as completed or failed leaves main checked out and nothing
\* uncommitted, its review included.
RunsEndClean ==
    (pc \in {"idle", "loop"} /\ result \in {"batch_complete", "batch_failed"}) =>
        repo.head = Main /\ repo.dirty = {}

\* Between invocations no task is both completed and failed.
OneOutcome == disk.completed \cap disk.failed = {}

\* A task whose merge is on main is not recorded as failed: after a crash
\* between the merge and the record, --next completes it.
MergedIsNotFailed == repo.marks \cap disk.failed = {}

\* "complete" is reported only when every task is completed or failed
\* (_all_done: "all tasks are processed").
CompleteMeansSettled ==
    (pc = "idle" /\ result = "complete") => Pending(disk) = {}

\* Every completed task can be recovered from the git history alone.
CompletedHasMarker == disk.completed \subseteq repo.marks \cup riders

\* Between batches, a subtree whose tasks are all completed has been reviewed.
CompletedSubtreeIsReviewed ==
    pc \in {"idle", "loop"} =>
        \A a \in Reviewable :
            (\A t \in Tasks : Subtree[t] = a => t \in disk.completed)
                => a \in disk.reviewed

\* The orchestrator discards no implementation, committed or not, except when
\* it recreates the stale branch of a batch that starts over.
WorkIsKept ==
    [][\/ AllWork(repo) \subseteq AllWork(repo')
       \/ pc \in {"idle", "attempt"}
       \/ pc = "branch" /\ ~Reuse]_vars

\* The branch of a failed batch is preserved until its own batch runs again
\* or the user prunes it.
FailedBranchIsPreserved ==
    [][\A t \in disk.failed \ {id} :
          BranchOf[t] \in DOMAIN repo.br =>
              \/ BranchOf[t] \in DOMAIN repo'.br
              \/ pc \in {"idle", "attempt"}]_vars

\* --next fails an integration test without running it only if some
\* implementation task of its subtree is not completed.
IntegrationSkipIsJustified ==
    [][\A t \in disk'.failed \ disk.failed :
          pc \in {"idle", "loop"} =>
              \E u \in Tasks : /\ Implementation(u) /\ Subtree[u] = Subtree[t]
                               /\ u \notin disk'.completed]_vars

\* A round of --loop ends with the outcome of its whole batch in the state
\* file; otherwise the next round would take the same batch again.
LoopRoundSettles ==
    [][pc' = "loop" /\ pc # "loop" =>
          \A t \in {id} \cup group : Settled(disk', t)]_vars

\* --loop ends.
LoopEnds == (pc = "loop") ~> (pc = "idle")

\* If crashes stop, every task ends up completed or failed, a sub-agent that
\* never uses its branch included.
EveryTaskSettles == (<>[][~Crash]_vars) => <>[](Pending(disk) = {})
=============================================================================
