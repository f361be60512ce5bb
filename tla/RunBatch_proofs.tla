--------------------------- MODULE RunBatch_proofs ---------------------------
(***************************************************************************)
(* Proofs about the orchestrator, for any list of tasks, any branch names, *)
(* any limits and any way the sub-agent and the file system misbehave.     *)
(***************************************************************************)
EXTENDS RunBatch, FiniteSetTheorems, WellFoundedInduction, TLAPS

-----------------------------------------------------------------------------
(* What the task pickers return.                                           *)

LEMMA HasMinimum ==
    ASSUME NEW T \in SUBSET Nat, T # {}
    PROVE  \E i \in T : \A j \in T : i <= j
<1> DEFINE R == OpToRel(<, Nat)
<1>1. IsWellFoundedOn(R, Nat)
  BY NatLessThanWellFounded
<1>2. \A x, y \in Nat : <<x, y>> \in R <=> x < y
  BY DEF OpToRel
<1> HIDE DEF R
<1>3. PICK x \in T : \A y \in T : ~(<<y, x>> \in R)
  BY <1>1, WFMin
<1>4. \A y \in T : ~(y < x)
  <2> TAKE y \in T
  <2>1. x \in Nat /\ y \in Nat
    OBVIOUS
  <2>2. ~(<<y, x>> \in R)
    BY <1>3
  <2> QED BY <2>1, <2>2, <1>2
<1>5. \A y \in T : x <= y
  <2> TAKE y \in T
  <2>1. x \in Nat /\ y \in Nat /\ ~(y < x)
    BY <1>4
  <2> QED BY <2>1
<1> QED BY <1>5

LEMMA Positions == DOMAIN TaskOrder \in SUBSET Nat
                   /\ \A i \in DOMAIN TaskOrder : TaskOrder[i] \in Tasks
BY TaskPickerConstants

-----------------------------------------------------------------------------
(* CodeGenState. *)

LEMMA FreshIsState == FreshState \in States
BY ExecutionStateConstants DEF FreshState, States

LEMMA SetCurrentIsState ==
    ASSUME NEW s \in States, NEW t \in Tasks, NEW ids \in SUBSET Tasks
    PROVE  SetCurrent(s, t, ids) \in States
BY DEF SetCurrent, States

LEMMA CompleteBatchIsState ==
    ASSUME NEW s \in States, NEW t \in Tasks, NEW ok \in BOOLEAN
    PROVE  CompleteBatch(s, t, ok) \in States
BY DEF CompleteBatch, CompleteCurrent, NoCurrent, States

LEMMA PreparedIsCount ==
    ASSUME NEW s \in States, NEW t \in Tasks
    PROVE  Prepared(s, t) \in 0..MaxPrepares
BY ExecutionStateConstants DEF Prepared, States

LEMMA SkipBatchIsState ==
    ASSUME NEW s \in States, NEW t \in Tasks
    PROVE  SkipBatch(s, t) \in States
BY PreparedIsCount DEF SkipBatch, NoCurrent, States

LEMMA ClearFailedIsState ==
    ASSUME NEW s \in States, NEW t \in Tasks
    PROVE  ClearFailed(s, t) \in States
BY DEF ClearFailed, States

-----------------------------------------------------------------------------
(* The scan. *)

LEMMA AfterScanIsState ==
    ASSUME NEW s \in States, NEW marks \in SUBSET Tasks
    PROVE  AfterScan(s, marks) \in States
<1> DEFINE done == {TaskOrder[i] : i \in {k \in Scanned(s, marks) : Recovered(s, marks, k)}}
           lost == {TaskOrder[i] : i \in {k \in Scanned(s, marks) : Doomed(s, marks, k)}}
<1>1. done \subseteq Tasks /\ lost \subseteq Tasks
  BY Positions DEF Scanned
<1> HIDE DEF done, lost
<1>2. AfterScan(s, marks) = [s EXCEPT !.completed = @ \cup done, !.failed = @ \cup lost]
  BY DEF AfterScan, done, lost
<1> QED BY <1>1, <1>2 DEF States

\* The scan completes marked tasks only.
LEMMA AfterScanCompletes ==
    ASSUME NEW s \in States, NEW marks \in SUBSET Tasks
    PROVE  /\ AfterScan(s, marks).completed \subseteq s.completed \cup marks
           /\ AfterScan(s, marks).merged = s.merged
<1> DEFINE done == {TaskOrder[i] : i \in {k \in Scanned(s, marks) : Recovered(s, marks, k)}}
           lost == {TaskOrder[i] : i \in {k \in Scanned(s, marks) : Doomed(s, marks, k)}}
<1>1. done \subseteq marks
  BY DEF Recovered
<1> HIDE DEF done, lost
<1>2. AfterScan(s, marks) = [s EXCEPT !.completed = @ \cup done, !.failed = @ \cup lost]
  BY DEF AfterScan, done, lost
<1> QED BY <1>1, <1>2 DEF States

\* The picker returns a runnable task, or nothing when there is none.
LEMMA PickIsRunnable ==
    ASSUME NEW s, NEW marks, Pick(s, marks) # NoBatch
    PROVE  \E i \in DOMAIN TaskOrder :
              Runnable(s, marks, i) /\ Pick(s, marks) = TaskOrder[i]
<1> DEFINE at == RunnableAt(s, marks)
<1>1. at # {}
  BY DEF Pick
<1>2. at \in SUBSET Nat
  BY Positions DEF RunnableAt
<1>3. \E i \in at : \A j \in at : i <= j
  BY <1>1, <1>2, HasMinimum
<1>4. (CHOOSE i \in at : \A j \in at : i <= j) \in at
  BY <1>3
<1>5. Pick(s, marks) = TaskOrder[CHOOSE i \in at : \A j \in at : i <= j]
  BY <1>1 DEF Pick
<1> QED BY <1>4, <1>5 DEF RunnableAt

LEMMA PickIsTask ==
    ASSUME NEW s, NEW marks
    PROVE  Pick(s, marks) \in Tasks \cup {NoBatch}
BY PickIsRunnable, Positions

LEMMA MergedGroupIsTasks ==
    ASSUME NEW s, NEW t \in Tasks
    PROVE  MergedGroup(s, t) \subseteq Tasks
BY Positions DEF MergedGroup, SameFile

-----------------------------------------------------------------------------
(* An integration test is handed out only when every implementation task   *)
(* is completed, failed or about to be completed from its marker, and no   *)
(* implementation task of its own subtree has failed.                      *)
THEOREM IntegrationTestRunsLast ==
    ASSUME NEW s \in States, NEW marks \in SUBSET Tasks,
           Pick(s, marks) # NoBatch, Integration(Pick(s, marks)),
           NEW t \in Tasks, Implementation(t)
    PROVE  /\ Settled(s, t) \/ t \in marks
           /\ Subtree[t] = Subtree[Pick(s, marks)] => t \notin s.failed
<1>1. PICK i \in DOMAIN TaskOrder :
          Runnable(s, marks, i) /\ Pick(s, marks) = TaskOrder[i]
  BY PickIsRunnable
<1>2. ~ImplPendingAt(s, marks, i)
  BY <1>1 DEF Runnable, Deferred
<1>3. ~HasFailedImplDependencies(s, TaskOrder[i])
  BY <1>1, <1>2 DEF Runnable, Doomed
<1>4. PICK j \in DOMAIN TaskOrder : TaskOrder[j] = t
  BY TaskPickerConstants
<1>5. Settled(s, t) \/ t \in marks
  BY <1>2, <1>4 DEF ImplPendingAt, Open
<1>6. Subtree[t] = Subtree[Pick(s, marks)] => t \notin s.failed
  BY <1>1, <1>3 DEF HasFailedImplDependencies
<1> QED BY <1>5, <1>6

-----------------------------------------------------------------------------
(* The repository stays a repository. *)

LEMMA NewRepo == Repos(EmptyRepo)
BY DEF Repos, EmptyRepo, NewBranch

LEMMA CommittedIsWork ==
    ASSUME NEW r, Repos(r)
    PROVE  Committed(r) \subseteq Tasks /\ WorkTree(r) \subseteq Tasks
BY RunBatchConstants DEF Repos, Committed, WorkTree

LEMMA CheckoutIsRepo ==
    ASSUME NEW r, Repos(r), NEW b \in {Main} \cup DOMAIN r.br
    PROVE  Repos(Checkout(r, b))
BY DEF Repos, Checkout

LEMMA CommitAllIsRepo ==
    ASSUME NEW r, Repos(r)
    PROVE  /\ Repos(CommitAll(r))
           /\ CommitAll(r).head = r.head
           /\ DOMAIN CommitAll(r).br = DOMAIN r.br
           /\ CommitAll(r).dirty = {}
           /\ r.main \subseteq CommitAll(r).main
           /\ CommitAll(r).marks = r.marks
           /\ Committed(CommitAll(r)) = WorkTree(r)
           /\ r.head # Main => CommitAll(r).main = r.main
<1>1. CASE r.dirty = {}
  BY <1>1, RunBatchConstants DEF CommitAll, WorkTree, Repos, Committed
<1>2. CASE r.dirty # {} /\ r.head = Main
  BY <1>2, CommittedIsWork DEF CommitAll, WorkTree, Repos, Committed
<1>3. CASE r.dirty # {} /\ r.head # Main
  <2> DEFINE new == [work |-> WorkTree(r), ahead |-> TRUE]
             q == [r EXCEPT !.br[r.head] = new, !.dirty = {}]
  <2>1. CommitAll(r) = q
    BY <1>3 DEF CommitAll
  <2>2. new \in [work : SUBSET Tasks, ahead : BOOLEAN]
    BY CommittedIsWork
  <2>3. r.head \in DOMAIN r.br
    BY <1>3 DEF Repos
  <2> HIDE DEF new
  <2>4. q.br = [r.br EXCEPT ![r.head] = new] /\ q.dirty = {} /\ q.head = r.head
        /\ q.main = r.main /\ q.marks = r.marks /\ DOMAIN q = DOMAIN r
    BY DEF Repos
  <2>5. Repos(q) /\ DOMAIN q.br = DOMAIN r.br
    BY <2>2, <2>3, <2>4 DEF Repos
  <2>6. q.br[q.head].work = WorkTree(r)
    BY <2>3, <2>4 DEF new
  <2> QED BY <1>3, <2>1, <2>4, <2>5, <2>6 DEF Committed
<1> QED BY <1>1, <1>2, <1>3

LEMMA DeleteBranchIsRepo ==
    ASSUME NEW r, Repos(r), NEW b, r.head # b
    PROVE  Repos(DeleteBranch(r, b))
BY DEF Repos, DeleteBranch

LEMMA CreateBranchIsRepo ==
    ASSUME NEW r, Repos(r), NEW b \in Branches
    PROVE  Repos(CreateBranch(r, b))
BY CommittedIsWork DEF Repos, CreateBranch, NewBranch

LEMMA EnsureOnMainIsRepo ==
    ASSUME NEW r, Repos(r)
    PROVE  /\ Repos(EnsureOnMain(r))
           /\ EnsureOnMain(r).head = Main
           /\ r.main \subseteq EnsureOnMain(r).main
           /\ EnsureOnMain(r).marks = r.marks
<1>1. CASE r.head = Main
  BY <1>1 DEF EnsureOnMain
<1>2. CASE r.head # Main
  <2>1. Repos(Checkout(CommitAll(r), Main))
    BY CommitAllIsRepo, CheckoutIsRepo
  <2> QED BY <1>2, <2>1, CommitAllIsRepo DEF EnsureOnMain, Checkout, Repos
<1> QED BY <1>1, <1>2

LEMMA SetupBranchIsRepo ==
    ASSUME NEW r, Repos(r), NEW b \in Branches, NEW reuse \in BOOLEAN,
           r.head # b \/ reuse
    PROVE  /\ Repos(SetupBranch(r, b, reuse))
           /\ SetupBranch(r, b, reuse).head = b
           /\ SetupBranch(r, b, reuse).main = r.main
           /\ SetupBranch(r, b, reuse).marks = r.marks
<1>1. CASE b \in DOMAIN r.br /\ reuse
  BY <1>1, CheckoutIsRepo DEF SetupBranch, Checkout, Repos
<1>2. CASE ~(b \in DOMAIN r.br /\ reuse)
  <2> DEFINE d == DeleteBranch(r, b)
  <2>0. r.head # b
    BY <1>2, RunBatchConstants DEF Repos
  <2>1. Repos(d) /\ d.main = r.main /\ d.marks = r.marks
    BY <2>0, DeleteBranchIsRepo DEF DeleteBranch, Repos
  <2> HIDE DEF d
  <2>2. SetupBranch(r, b, reuse) = CreateBranch(d, b)
    BY <1>2 DEF SetupBranch, d
  <2>3. /\ CreateBranch(d, b).head = b
        /\ CreateBranch(d, b).main = d.main
        /\ CreateBranch(d, b).marks = d.marks
    BY <2>1 DEF CreateBranch, Repos
  <2> QED BY <2>1, <2>2, <2>3, CreateBranchIsRepo
<1> QED BY <1>1, <1>2

LEMMA MergeBranchIsRepo ==
    ASSUME NEW r, Repos(r), NEW b \in DOMAIN r.br, NEW ids \in SUBSET Tasks
    PROVE  /\ Repos(MergeBranch(r, b, ids))
           /\ MergeBranch(r, b, ids).head = Main
           /\ MergeBranch(r, b, ids).main = r.main \cup r.br[b].work
           /\ r.marks \subseteq MergeBranch(r, b, ids).marks
           /\ MergeBranch(r, b, ids).marks \subseteq r.marks \cup ids
           /\ DOMAIN MergeBranch(r, b, ids).br = DOMAIN r.br
           /\ MergeBranch(r, b, ids).dirty = r.dirty
<1> DEFINE q == MergeBranch(r, b, ids)
           was == r.br[b]
           new == [was EXCEPT !.ahead = FALSE]
<1>1. was \in [work : SUBSET Tasks, ahead : BOOLEAN]
  BY DEF Repos
<1>2. new \in [work : SUBSET Tasks, ahead : BOOLEAN]
  BY <1>1
<1>3. /\ q.head = Main
      /\ q.main = r.main \cup r.br[b].work
      /\ q.marks = IF r.br[b].ahead THEN r.marks \cup ids ELSE r.marks
      /\ q.br = [r.br EXCEPT ![b] = new]
      /\ q.dirty = r.dirty
      /\ DOMAIN q = DOMAIN r
  BY DEF MergeBranch, Repos
<1> HIDE DEF q, new
<1>4. DOMAIN q.br = DOMAIN r.br /\ q.br \in [DOMAIN r.br -> [work : SUBSET Tasks, ahead : BOOLEAN]]
  BY <1>2, <1>3 DEF Repos
<1>5. q.main \subseteq Tasks
  BY <1>1, <1>3 DEF Repos
<1>6. q.marks \subseteq r.marks \cup ids /\ r.marks \subseteq q.marks
  BY <1>3
<1>7. Repos(q)
  BY <1>3, <1>4, <1>5, <1>6 DEF Repos
<1> QED BY <1>3, <1>4, <1>6, <1>7 DEF q

\* An agent that keeps to its branch and main leaves main checked out or that
\* branch, and takes nothing off main.
LEMMA AgentWorkIsRepo ==
    ASSUME NEW r, Repos(r), NEW b \in Branches, NEW new \in SUBSET Tasks,
           NEW how \in AgentModes \cup ReviewModes
    PROVE  /\ Repos(AgentWork(r, b, how, new))
           /\ r.main \subseteq AgentWork(r, b, how, new).main
           /\ AgentWork(r, b, how, new).marks = r.marks
           /\ how # "stray" => AgentWork(r, b, how, new).head \in {r.head, Main}
<1> DEFINE edited == [r EXCEPT !.dirty = @ \cup new \cup {Scrap}]
           onMain == CommitAll(Checkout(edited, Main))
<1>1. /\ Repos(edited) /\ edited.head = r.head
      /\ edited.main = r.main /\ edited.marks = r.marks
  BY DEF Repos
<1> HIDE DEF edited
<1>2. /\ Repos(Checkout(edited, Main)) /\ Checkout(edited, Main).head = Main
      /\ Checkout(edited, Main).main = r.main /\ Checkout(edited, Main).marks = r.marks
  BY <1>1, CheckoutIsRepo DEF Checkout, Repos
<1>3. /\ Repos(onMain) /\ onMain.head = Main
      /\ r.main \subseteq onMain.main /\ onMain.marks = r.marks
  BY <1>2, CommitAllIsRepo
<1>4. /\ Repos(CommitAll(edited)) /\ CommitAll(edited).head = r.head
      /\ r.main \subseteq CommitAll(edited).main /\ CommitAll(edited).marks = r.marks
  BY <1>1, CommitAllIsRepo
<1> HIDE DEF onMain
<1>5. CASE how \in {"none", "dirty", "commit", "main"}
  BY <1>1, <1>3, <1>4, <1>5 DEF AgentWork, edited, onMain
<1>6. CASE how = "drop"
  <2>1. AgentWork(r, b, how, new) = DeleteBranch(onMain, b)
    BY <1>6 DEF AgentWork, edited, onMain
  <2>2. Repos(DeleteBranch(onMain, b))
    BY <1>3, DeleteBranchIsRepo, RunBatchConstants
  <2> QED BY <1>3, <2>1, <2>2 DEF DeleteBranch, Repos
<1>7. CASE how = "stray"
  <2> DEFINE q == SetupBranch(edited, Stray, TRUE)
  <2>1. AgentWork(r, b, how, new) = CommitAll(q)
    BY <1>7 DEF AgentWork, edited
  <2>2. Repos(q) /\ r.main \subseteq q.main /\ q.marks = r.marks
    BY <1>1, SetupBranchIsRepo, RunBatchConstants
  <2> QED BY <1>7, <2>1, <2>2, CommitAllIsRepo
<1> QED BY <1>5, <1>6, <1>7, RunBatchConstants

-----------------------------------------------------------------------------
(* The state file: what is read after a save is what was saved, or one of  *)
(* the two snapshots before it, or nothing at all.                         *)

Known == {disk, behind, FreshState}

LEMMA SaveWrites ==
    ASSUME Store!TypeOK, NEW s \in States, Store!Save(s)
    PROVE  /\ Store!TypeOK'
           /\ disk' \in Known \cup {s} /\ behind' \in Known
           /\ tail = "clean" => disk' = s /\ tail' = "clean"
BY FreshIsState DEF Store!TypeOK, Store!Save, Store!Tails, Known

LEMMA TornSaveWrites ==
    ASSUME Store!TypeOK, NEW s \in States, Store!TornSave(s)
    PROVE  /\ Store!TypeOK'
           /\ disk' \in Known \cup {s} /\ behind' \in Known
           /\ Truncations \subseteq {"nothing"} => UNCHANGED store
BY FreshIsState DEF Store!TypeOK, Store!TornSave, Store!Tails, Store!vars, Known, store

LEMMA StoreUnchanged ==
    ASSUME Store!TypeOK, UNCHANGED store
    PROVE  Store!TypeOK' /\ disk' = disk /\ behind' = behind /\ tail' = tail
BY DEF Store!TypeOK, store

-----------------------------------------------------------------------------
(* The process. *)

LEMMA ExitIsTyped ==
    ASSUME NEW r \in Results, Exit(r)
    PROVE  ProcessTypeOK' /\ pc' = "idle"
BY FreshIsState, RunBatchConstants DEF Exit, ProcessTypeOK, Locations

LEMMA ReturnIsTyped ==
    ASSUME NEW r \in Results, Return(r)
    PROVE  ProcessTypeOK' /\ pc' \in {"idle", "loop"}
BY ExitIsTyped, FreshIsState, RunBatchConstants DEF Return, ProcessTypeOK, Locations

LEMMA DispatchIsTyped ==
    ASSUME NEW c \in {"next", "loop", "resume", "retry", "batch-id"},
           NEW t \in Tasks, NEW ids \in SUBSET Tasks, NEW s \in States,
           Dispatch(c, t, ids, s)
    PROVE  ProcessTypeOK' /\ pc' = "main"
BY RunBatchConstants DEF Dispatch, ProcessTypeOK, Locations, Results

LEMMA GotoIsTyped ==
    ASSUME ProcessTypeOK, id \in Tasks, NEW l \in Locations, Goto(l)
    PROVE  ProcessTypeOK' /\ pc' = l /\ id' = id
BY DEF Goto, ProcessTypeOK

\* Where the branch in use is needed for the repository to stay one.
PlaceOK ==
    /\ pc \in {"branch", "delete"} => repo.head = Main
    /\ pc = "land" => Branch \in DOMAIN repo.br
    /\ pc \in {"reviewing", "reviewed"} => Subtree[id] \in Reviewable

TypeInv == TypeOK /\ PlaceOK

LEMMA InitIsTyped == Init => TypeInv
BY FreshIsState, NewRepo, RunBatchConstants
   DEF Init, TypeInv, TypeOK, PlaceOK, ProcessTypeOK, Locations, Results,
       Store!Init, Store!TypeOK, Store!Tails

LEMMA CrashIsTyped == TypeInv /\ Crash => TypeInv'
<1> SUFFICES ASSUME TypeInv, Crash PROVE TypeInv'
  OBVIOUS
<1>1. ProcessTypeOK' /\ pc' = "idle"
  BY ExitIsTyped DEF Crash, Results
<1> QED BY <1>1, StoreUnchanged DEF TypeInv, TypeOK, PlaceOK, Crash

\* What every invocation does to the store and the process.
LEMMA InvocationIsTyped ==
    ASSUME TypeInv, Invocation
    PROVE  TypeInv'
<1> USE DEF TypeInv, TypeOK
<1> DEFINE Typed == Store!TypeOK' /\ ProcessTypeOK' /\ pc' \in {"idle", "main"}
<1>1. ASSUME NEW c \in {"next", "loop"}, NextBatch(c) PROVE Typed /\ UNCHANGED <<repo, riders>>
  <2> DEFINE s == AfterScan(disk, repo.marks)
             t == Pick(disk, repo.marks)
             ids == MergedGroup(s, t)
             many == IF MergeFile /\ Cardinality(ids) > 1 THEN ids ELSE {}
  <2>1. s \in States
    BY AfterScanIsState DEF Repos, Store!TypeOK
  <2>2. t \in Tasks \cup {NoBatch}
    BY PickIsTask
  <2>3. t # NoBatch => many \subseteq Tasks
    BY <2>2, MergedGroupIsTasks
  <2> HIDE DEF s, t, many
  <2>4. \/ /\ IF s = disk THEN UNCHANGED store ELSE Store!Save(s)
           /\ IF t = NoBatch THEN Exit("complete") ELSE Dispatch(c, t, many, s)
        \/ CutShort(s)
    BY <1>1 DEF NextBatch, s, t, many
  <2>5. Store!TypeOK'
    BY <2>1, <2>4, SaveWrites, TornSaveWrites, StoreUnchanged DEF CutShort
  <2>6. ProcessTypeOK' /\ pc' \in {"idle", "main"}
    BY <2>1, <2>2, <2>3, <2>4, ExitIsTyped, DispatchIsTyped DEF CutShort, Results
  <2> QED BY <1>1, <2>5, <2>6 DEF NextBatch
<1>2. ASSUME NEW t \in Tasks, Retry(t) PROVE Typed /\ UNCHANGED <<repo, riders>>
  <2> DEFINE s == ClearFailed(disk, t)
  <2>1. s \in States
    BY ClearFailedIsState DEF Store!TypeOK
  <2> HIDE DEF s
  <2>2. \/ /\ IF s = disk THEN UNCHANGED store ELSE Store!Save(s)
           /\ IF t \in s.completed THEN Exit("error") ELSE Dispatch("retry", t, {}, s)
        \/ CutShort(s)
    BY <1>2 DEF Retry, s
  <2>3. Store!TypeOK'
    BY <2>1, <2>2, SaveWrites, TornSaveWrites, StoreUnchanged DEF CutShort
  <2>4. ProcessTypeOK' /\ pc' \in {"idle", "main"}
    BY <2>1, <2>2, ExitIsTyped, DispatchIsTyped DEF CutShort, Results
  <2> QED BY <1>2, <2>3, <2>4 DEF Retry
<1>3. ASSUME NEW t \in Tasks, RunSpecific(t) PROVE Typed /\ UNCHANGED <<repo, riders>>
  BY <1>3, StoreUnchanged, ExitIsTyped, DispatchIsTyped
     DEF RunSpecific, Results, Store!TypeOK
<1>4. ASSUME Resume PROVE Typed /\ UNCHANGED <<repo, riders>>
  <2>1. disk.merged \in SUBSET Tasks /\ disk.current \in Tasks \cup {NoBatch}
    BY DEF Store!TypeOK, States
  <2>2. Exit("error") \/ (disk.current # NoBatch
                          /\ Dispatch("resume", disk.current, disk.merged, disk))
    BY <1>4 DEF Resume
  <2>3. ProcessTypeOK' /\ pc' \in {"idle", "main"}
    BY <2>1, <2>2, ExitIsTyped, DispatchIsTyped DEF Results, Store!TypeOK
  <2> QED BY <1>4, <2>3, StoreUnchanged DEF Resume
<1>5. ASSUME PruneFailed PROVE TypeInv'
  <2> DEFINE kept == {c \in DOMAIN repo.br : c = repo.head \/ ~IsBatchBranch(c)}
  <2>1. repo' = [repo EXCEPT !.br = [b \in kept |-> repo.br[b]]]
    BY <1>5 DEF PruneFailed
  <2>2. kept \subseteq DOMAIN repo.br /\ (repo.head # Main => repo.head \in kept)
    BY DEF Repos
  <2> HIDE DEF kept
  <2>3. Repos(repo')
    BY <2>1, <2>2 DEF Repos
  <2> QED BY <1>5, <2>3, StoreUnchanged DEF PruneFailed, PlaceOK, ProcessTypeOK
<1>6. ASSUME Typed, UNCHANGED <<repo, riders>> PROVE TypeInv'
  BY <1>6 DEF PlaceOK
<1> QED BY <1>1, <1>2, <1>3, <1>4, <1>5, <1>6 DEF Invocation

\* A save that returns, or is cut short with the process.
LEMMA SaveIsTyped ==
    ASSUME Store!TypeOK, NEW s \in States, Store!Save(s) \/ CutShort(s)
    PROVE  Store!TypeOK' /\ (CutShort(s) => ProcessTypeOK' /\ pc' = "idle")
BY SaveWrites, TornSaveWrites, ExitIsTyped DEF CutShort, Results

LEMMA StepIsTyped ==
    ASSUME TypeInv, Step
    PROVE  TypeInv'
<1> USE DEF TypeInv, TypeOK
<1> DEFINE Ended == ProcessTypeOK' /\ pc' \in {"idle", "loop"}
           Went(l) == ProcessTypeOK' /\ pc' = l /\ id' = id
<1>t. pc \notin {"idle", "loop"} => id \in Tasks /\ Branch \in Branches /\ Branch # Main
  BY RunBatchConstants DEF ProcessTypeOK, Branch
<1>g. ASSUME id \in Tasks, NEW l \in Locations, Goto(l) PROVE Went(l)
  BY <1>g, GotoIsTyped
<1>c. \A ok \in BOOLEAN : id \in Tasks => CompleteBatch(disk, id, ok) \in States
  BY CompleteBatchIsState DEF Store!TypeOK
<1>1. CASE LeaveLoop
  BY <1>1, ExitIsTyped, StoreUnchanged DEF LeaveLoop, PlaceOK, ProcessTypeOK
<1>2. CASE EnterMain
  <2>1. Repos(EnsureOnMain(repo)) /\ EnsureOnMain(repo).head = Main /\ Repos(CommitAll(repo))
    BY EnsureOnMainIsRepo, CommitAllIsRepo
  <2>2. \/ repo' = EnsureOnMain(repo) /\ Went("branch")
        \/ repo' = CommitAll(repo) /\ Ended
    BY <1>2, <1>t, <1>g, ReturnIsTyped DEF EnterMain, Locations, Results
  <2> QED BY <1>2, <2>1, <2>2, StoreUnchanged DEF EnterMain, PlaceOK
<1>3. CASE EnterBranch
  <2>1. repo.head = Main /\ Reuse \in BOOLEAN
    BY <1>3 DEF EnterBranch, PlaceOK, Reuse
  <2>2. Repos(SetupBranch(repo, Branch, Reuse)) /\ Repos(DeleteBranch(repo, Branch))
    BY <1>3, <1>t, <2>1, SetupBranchIsRepo, DeleteBranchIsRepo DEF EnterBranch
  <2>3. \/ repo' = SetupBranch(repo, Branch, Reuse) /\ (Went("recheck") \/ Went("save"))
        \/ repo' \in {repo, DeleteBranch(repo, Branch)} /\ Ended
    BY <1>3, <1>t, <1>g, ReturnIsTyped DEF EnterBranch, Locations, Results
  <2> QED BY <1>3, <2>2, <2>3, StoreUnchanged DEF EnterBranch, PlaceOK
<1>4. CASE Recheck
  <2>1. Went("merge") \/ Went("save")
    BY <1>4, <1>t, <1>g DEF Recheck, Locations
  <2> QED BY <1>4, <2>1, StoreUnchanged DEF Recheck, PlaceOK
<1>5. CASE SaveCurrent
  <2> DEFINE s == SetCurrent(mem, id, group)
  <2>1. s \in States
    BY <1>5, <1>t, SetCurrentIsState DEF SaveCurrent, ProcessTypeOK
  <2> HIDE DEF s
  <2>2. \/ /\ Store!Save(s) /\ mem' = s
           /\ pc' = "trajectory" /\ UNCHANGED <<cmd, id, group, attempt, result>>
        \/ CutShort(s)
    BY <1>5 DEF SaveCurrent, s
  <2>3. Store!TypeOK' /\ ProcessTypeOK' /\ pc' \in {"trajectory", "idle"}
    BY <1>5, <1>t, <2>1, <2>2, SaveIsTyped DEF SaveCurrent, ProcessTypeOK, Locations
  <2> QED BY <1>5, <2>3 DEF SaveCurrent, PlaceOK
<1>6. CASE OpenTrajectory
  <2>1. mem \in States /\ id \in Tasks
    BY <1>6, <1>t DEF OpenTrajectory, ProcessTypeOK
  <2>2. Store!TypeOK' /\ ProcessTypeOK' /\ pc' \in {"attempt", "idle"}
    BY <1>6, <2>1, SaveIsTyped, StoreUnchanged, RunBatchConstants
       DEF OpenTrajectory, ProcessTypeOK, Locations
  <2> QED BY <1>6, <2>2 DEF OpenTrajectory, PlaceOK
<1>7. CASE Attempt
  <2>1. PICK how \in AgentModes, new \in SUBSET ({id} \cup group) :
            repo' = AgentWork(repo, Branch, how, new)
    BY <1>7 DEF Attempt
  <2>2. new \in SUBSET Tasks
    BY <1>7, <1>t DEF Attempt, ProcessTypeOK
  <2>3. Repos(repo')
    BY <1>7, <1>t, <2>1, <2>2, AgentWorkIsRepo DEF Attempt
  <2>4. ProcessTypeOK' /\ pc' \in {"merge", "attempt", "abandon"}
    BY <1>7, <1>t, <1>g, RunBatchConstants
       DEF Attempt, Locations, ProcessTypeOK, MayRetry
  <2> QED BY <1>7, <2>3, <2>4, StoreUnchanged DEF Attempt, PlaceOK
<1>8. CASE BranchMissing
  <2>1. Repos(repo')
    BY <1>8, CommitAllIsRepo, EnsureOnMainIsRepo DEF BranchMissing
  <2>2. Went("skip")
    BY <1>8, <1>t, <1>g DEF BranchMissing, Locations
  <2> QED BY <1>8, <2>1, <2>2, StoreUnchanged DEF BranchMissing, PlaceOK
<1>9. CASE CommitLeftovers
  <2>1. Repos(repo') /\ Branch \in DOMAIN repo'.br
    BY <1>9, CommitAllIsRepo DEF CommitLeftovers
  <2>2. Went("land")
    BY <1>9, <1>t, <1>g DEF CommitLeftovers, Locations
  <2> QED BY <1>9, <2>1, <2>2, StoreUnchanged DEF CommitLeftovers, PlaceOK, Branch
<1>10. CASE Land
  <2>1. Repos(repo') /\ repo'.head = Main
    BY <1>10, <1>t, MergeBranchIsRepo DEF Land, PlaceOK
  <2>2. Went("delete")
    BY <1>10, <1>t, <1>g DEF Land, Locations
  <2> QED BY <1>10, <2>1, <2>2, StoreUnchanged DEF Land, PlaceOK, ProcessTypeOK
<1>11. CASE MergeFails
  <2>1. Repos(repo')
    BY <1>11, CheckoutIsRepo DEF MergeFails
  <2>2. Went("refuse")
    BY <1>11, <1>t, <1>g DEF MergeFails, Locations
  <2> QED BY <1>11, <2>1, <2>2, StoreUnchanged DEF MergeFails, PlaceOK
<1>12. CASE DeleteMerged
  <2>1. Repos(repo')
    BY <1>12, <1>t, DeleteBranchIsRepo DEF DeleteMerged, PlaceOK
  <2>2. Went("complete")
    BY <1>12, <1>t, <1>g DEF DeleteMerged, Locations
  <2> QED BY <1>12, <2>1, <2>2, StoreUnchanged DEF DeleteMerged, PlaceOK
<1>13. CASE RecordCompleted
  <2>1. Store!TypeOK'
    BY <1>13, <1>t, <1>c, SaveIsTyped, StoreUnchanged DEF RecordCompleted, Record
  <2>2. Ended \/ Went("review")
    BY <1>13, <1>t, <1>g, ExitIsTyped, ReturnIsTyped
       DEF RecordCompleted, Record, CutShort, Locations, Results
  <2> QED BY <1>13, <2>1, <2>2 DEF RecordCompleted, PlaceOK
<1>14. CASE RecordRefused
  <2>1. Store!TypeOK'
    BY <1>14, <1>t, <1>c, SaveIsTyped, StoreUnchanged DEF RecordRefused, Record
  <2>2. Ended
    BY <1>14, ExitIsTyped, ReturnIsTyped DEF RecordRefused, Record, CutShort, Results
  <2> QED BY <1>14, <2>1, <2>2 DEF RecordRefused, PlaceOK
<1>15. CASE RecordSkipped
  <2>1. SkipBatch(disk, id) \in States
    BY <1>15, <1>t, SkipBatchIsState DEF RecordSkipped, Store!TypeOK
  <2>2. Store!TypeOK'
    BY <1>15, <2>1, SaveIsTyped, StoreUnchanged DEF RecordSkipped, Record
  <2>3. Ended
    BY <1>15, ExitIsTyped, ReturnIsTyped DEF RecordSkipped, Record, CutShort, Results
  <2> QED BY <1>15, <2>2, <2>3 DEF RecordSkipped, PlaceOK
<1>16. CASE Abandon
  <2>1. Repos(repo')
    BY <1>16, CommitAllIsRepo, CheckoutIsRepo DEF Abandon
  <2>2. Went("fail")
    BY <1>16, <1>t, <1>g DEF Abandon, Locations
  <2> QED BY <1>16, <2>1, <2>2, StoreUnchanged DEF Abandon, PlaceOK
<1>17. CASE RecordFailed
  <2>1. Store!TypeOK'
    BY <1>17, <1>t, <1>c, SaveIsTyped, StoreUnchanged DEF RecordFailed, Record
  <2>2. Ended
    BY <1>17, ExitIsTyped, ReturnIsTyped DEF RecordFailed, Record, CutShort, Results
  <2> QED BY <1>17, <2>1, <2>2 DEF RecordFailed, PlaceOK
<1>18. CASE NoReview
  <2>1. Ended
    BY <1>18, ReturnIsTyped DEF NoReview, Results
  <2> QED BY <1>18, <2>1, StoreUnchanged DEF NoReview, PlaceOK
<1>r. Subtree[id] \in Reviewable => Review \in Branches /\ Review # Main
  BY RunBatchConstants DEF Review
<1>19. CASE EnterReview
  <2> DEFINE r == EnsureOnMain(repo)
  <2>1. Repos(r) /\ r.head = Main /\ Review \in Branches /\ Review # Main
    BY <1>19, <1>r, EnsureOnMainIsRepo DEF EnterReview, IsSubtreeJustCompleted
  <2>2. Repos(SetupBranch(r, Review, FALSE)) /\ Repos(DeleteBranch(r, Review))
    BY <2>1, SetupBranchIsRepo, DeleteBranchIsRepo
  <2>3. Repos(repo')
    BY <1>19, <2>2 DEF EnterReview
  <2>4. Went("file") \/ Went("reviewing")
    BY <1>19, <1>t, <1>g DEF EnterReview, Locations
  <2> QED BY <1>19, <2>3, <2>4, StoreUnchanged
          DEF EnterReview, IsSubtreeJustCompleted, PlaceOK
<1>20. CASE ReviewWork
  <2>1. PICK how \in ReviewModes : repo' = AgentWork(repo, Review, how, {})
    BY <1>20 DEF ReviewWork
  <2>2. Repos(repo')
    BY <1>20, <1>r, <2>1, AgentWorkIsRepo DEF ReviewWork, PlaceOK
  <2>3. Went("reviewed")
    BY <1>20, <1>t, <1>g DEF ReviewWork, Locations
  <2> QED BY <1>20, <2>2, <2>3, StoreUnchanged DEF ReviewWork, PlaceOK
<1>21. CASE FinishReview
  <2> DEFINE r == CommitAll(repo)
             q == MergeBranch(r, Review, {})
  <2>1. Repos(r) /\ DOMAIN r.br = DOMAIN repo.br /\ Review # Main
    BY <1>21, <1>r, CommitAllIsRepo DEF FinishReview, PlaceOK
  <2>2. Review \in DOMAIN repo.br => Repos(q) /\ q.head = Main
    BY <2>1, MergeBranchIsRepo
  <2>3. Review \in DOMAIN repo.br => Repos(DeleteBranch(q, Review))
    BY <2>1, <2>2, DeleteBranchIsRepo
  <2>4. Repos(Checkout(r, Main))
    BY <2>1, CheckoutIsRepo
  <2>5. Repos(repo')
    BY <1>21, <2>1, <2>3, <2>4 DEF FinishReview
  <2>6. Went("file")
    BY <1>21, <1>t, <1>g DEF FinishReview, Locations
  <2> QED BY <1>21, <2>5, <2>6, StoreUnchanged DEF FinishReview, PlaceOK
<1>22. CASE RecordReview
  <2> DEFINE s == [disk EXCEPT !.reviewed = @ \cup {Subtree[id]}]
  <2>1. s \in States
    <3>1. disk \in States /\ Subtree[id] \in Subtrees
      BY <1>22, <1>t, TaskPickerConstants DEF RecordReview, Store!TypeOK
    <3> QED BY <3>1 DEF States
  <2> HIDE DEF s
  <2>2. (Store!Save(s) /\ Return("batch_complete")) \/ CutShort(s)
    BY <1>22 DEF RecordReview, s
  <2>3. Store!TypeOK' /\ Ended
    BY <2>1, <2>2, SaveIsTyped, ReturnIsTyped DEF Results
  <2> QED BY <1>22, <2>3 DEF RecordReview, PlaceOK
<1> QED BY <1>1, <1>2, <1>3, <1>4, <1>5, <1>6, <1>7, <1>8, <1>9, <1>10, <1>11,
           <1>12, <1>13, <1>14, <1>15, <1>16, <1>17, <1>18, <1>19, <1>20,
           <1>21, <1>22 DEF Step

LEMMA TypeInvIsInductive == TypeInv /\ [Next]_vars => TypeInv'
<1> SUFFICES ASSUME TypeInv, [Next]_vars PROVE TypeInv'
  OBVIOUS
<1>1. CASE Next
  BY <1>1, InvocationIsTyped, StepIsTyped, CrashIsTyped DEF Next
<1>2. CASE UNCHANGED vars
  BY <1>2, StoreUnchanged
     DEF vars, store, TypeInv, TypeOK, ProcessTypeOK, PlaceOK, Branch
<1> QED BY <1>1, <1>2

\* Every state the orchestrator reaches is well formed: the repository has the
\* branch that is checked out, and a batch that is under way is a task.
THEOREM TypeCorrect == Spec => []TypeOK
<1>1. TypeInv => TypeOK
  BY DEF TypeInv
<1> QED BY InitIsTyped, TypeInvIsInductive, <1>1, PTL DEF Spec

-----------------------------------------------------------------------------
(* A completed task is on main.                                            *)
(*                                                                         *)
(* The theorem needs a sub-agent that does not check out branches of its   *)
(* own, and either saves that are never cut short in the middle of a line  *)
(* or batches of a single task: otherwise a record of the merged ids may   *)
(* be lost, and the outcome of a batch recorded for the ids of an earlier  *)
(* batch with the same first task.                                         *)

KeepsToBranch == "stray" \notin AgentModes

WholeSaves == Truncations \subseteq {"nothing"}

Landed == repo.main \cup riders

\* All that a later step may report as completed has landed: what was saved,
\* what the process remembers, and what git log will find.
CompletedOK ==
    /\ disk.completed \subseteq Landed
    /\ behind.completed \subseteq Landed
    /\ mem.completed \subseteq Landed
    /\ repo.marks \subseteq repo.main

\* The batch under way: its task is in the tree that is merged.
BatchOK ==
    /\ pc \in {"recheck", "save", "trajectory", "attempt", "merge"} =>
          repo.head \in {Main, Branch}
    /\ pc = "merge" => id \in WorkTree(repo)
    /\ pc = "land" => id \in repo.main \cup repo.br[Branch].work
    /\ pc \in {"delete", "complete"} => {id} \cup group \subseteq Landed

\* From the record of the current batch on, the saved merged ids are those of
\* the batch under way.
Recorded ==
    \/ pc \in {"recheck", "trajectory", "attempt", "merge", "land", "delete", "complete"}
    \/ cmd = "resume" /\ pc \in {"main", "branch"}

GroupOK ==
    /\ Recorded => disk.merged = group
    /\ pc = "trajectory" => mem.merged = group
    /\ WholeSaves => tail = "clean"
    /\ ~MergeFile => /\ group = {} /\ mem.merged = {}
                     /\ disk.merged = {} /\ behind.merged = {}

LandInv == CompletedOK /\ BatchOK /\ GroupOK

LEMMA FreshIsEmpty == FreshState.completed = {} /\ FreshState.merged = {}
BY DEF FreshState

LEMMA CompleteBatchCompletes ==
    ASSUME NEW s \in States, NEW t \in Tasks
    PROVE  /\ CompleteBatch(s, t, TRUE).completed \subseteq s.completed \cup {t} \cup s.merged
           /\ CompleteBatch(s, t, FALSE).completed = s.completed
           /\ \A ok \in BOOLEAN : CompleteBatch(s, t, ok).merged \in {s.merged, {}}
BY DEF CompleteBatch, CompleteCurrent, NoCurrent, States

LEMMA SkipBatchCompletes ==
    ASSUME NEW s \in States, NEW t \in Tasks
    PROVE  SkipBatch(s, t).completed = s.completed /\ SkipBatch(s, t).merged \in {s.merged, {}}
BY DEF SkipBatch, NoCurrent, States

\* What a save may leave in the state file, if what is saved has landed.
SavedOK ==
    /\ disk'.completed \subseteq Landed /\ behind'.completed \subseteq Landed
    /\ ~MergeFile => disk'.merged = {} /\ behind'.merged = {}
    /\ WholeSaves => tail' = "clean"

LEMMA SaveIsOK ==
    ASSUME TypeInv, LandInv, NEW s \in States, s.completed \subseteq Landed,
           ~MergeFile => s.merged = {}, Store!Save(s) \/ CutShort(s)
    PROVE  SavedOK /\ (WholeSaves /\ Store!Save(s) => disk' = s)
<1>1. CASE Store!Save(s)
  BY <1>1, SaveWrites, FreshIsEmpty
     DEF SavedOK, LandInv, CompletedOK, GroupOK, TypeInv, TypeOK, Known
<1>2. CASE CutShort(s)
  <2>1. Store!TornSave(s) /\ Store!TypeOK
    BY <1>2 DEF CutShort, TypeInv, TypeOK
  <2>2. WholeSaves => UNCHANGED store
    BY <2>1, TornSaveWrites DEF WholeSaves
  <2>3. SavedOK
    BY <2>1, <2>2, TornSaveWrites, StoreUnchanged, FreshIsEmpty
       DEF SavedOK, LandInv, CompletedOK, GroupOK, Known
  <2>4. WholeSaves /\ Store!Save(s) => disk' = s
    BY <2>1, SaveWrites DEF LandInv, GroupOK
  <2> QED BY <2>3, <2>4
<1> QED BY <1>1, <1>2

LEMMA UnsavedIsOK ==
    ASSUME LandInv, UNCHANGED store
    PROVE  SavedOK
BY DEF SavedOK, LandInv, CompletedOK, GroupOK, store

\* The process ends, or the loop goes on to its next round.
Over == /\ pc' \in {"idle", "loop"} /\ mem' = FreshState /\ group' = {}

LEMMA ExitIsOver ==
    ASSUME NEW r
    PROVE  (Exit(r) => Over) /\ (Return(r) => Over) /\ \A s \in States : CutShort(s) => Over
BY DEF Exit, Return, CutShort, Over

LEMMA OverIsOK ==
    ASSUME Over, SavedOK, Landed \subseteq Landed', repo'.marks \subseteq repo'.main
    PROVE  LandInv'
BY FreshIsEmpty DEF Over, SavedOK, LandInv, CompletedOK, BatchOK, GroupOK, Recorded

\* A step of the batch that does not touch the state file and does not change
\* what is in memory.
LEMMA QuietIsOK ==
    ASSUME LandInv, UNCHANGED <<store, mem, group, cmd>>, Landed \subseteq Landed',
           repo'.marks \subseteq repo'.main, BatchOK',
           Recorded' => Recorded, pc' # "trajectory"
    PROVE  LandInv'
BY DEF LandInv, CompletedOK, GroupOK, store

LEMMA LandedGrows ==
    ASSUME LandInv, repo.main \subseteq repo'.main, repo'.marks = repo.marks, riders' = riders
    PROVE  Landed \subseteq Landed' /\ repo'.marks \subseteq repo'.main
BY DEF LandInv, CompletedOK, Landed

LEMMA InitHasLanded == Init => LandInv
BY FreshIsEmpty, RunBatchConstants
   DEF Init, LandInv, CompletedOK, BatchOK, GroupOK, Recorded, Landed, EmptyRepo, Store!Init

LEMMA InvocationLands ==
    ASSUME TypeInv, LandInv, Invocation
    PROVE  LandInv'
<1> DEFINE Begun(s) == /\ pc' = "main" /\ mem' = s
                       /\ ~MergeFile => group' = {}
                       /\ cmd' = "resume" => disk'.merged = group'
<1>t. Store!TypeOK /\ Repos(repo) /\ repo.marks \in SUBSET Tasks
  BY DEF TypeInv, TypeOK, Repos
<1>o. disk.completed \subseteq Landed /\ (~MergeFile => disk.merged = {})
      /\ repo.marks \subseteq Landed
  BY DEF LandInv, CompletedOK, GroupOK, Landed
<1>p. ASSUME UNCHANGED <<repo, riders>>, SavedOK,
             NEW s \in States, s.completed \subseteq Landed, ~MergeFile => s.merged = {},
             Over \/ Begun(s)
      PROVE  LandInv'
  <2>1. Landed' = Landed /\ repo'.marks \subseteq repo'.main
    BY <1>p DEF Landed, LandInv, CompletedOK
  <2>2. CASE Over
    BY <1>p, <2>1, <2>2, OverIsOK
  <2>3. CASE Begun(s)
    BY <1>p, <2>1, <2>3 DEF SavedOK, LandInv, CompletedOK, BatchOK, GroupOK, Recorded
  <2> QED BY <1>p, <2>2, <2>3
<1>1. ASSUME NEW c \in {"next", "loop"}, NextBatch(c) PROVE LandInv'
  <2> DEFINE s == AfterScan(disk, repo.marks)
             t == Pick(disk, repo.marks)
             ids == MergedGroup(s, t)
             many == IF MergeFile /\ Cardinality(ids) > 1 THEN ids ELSE {}
  <2>1. s \in States /\ s.completed \subseteq Landed /\ (~MergeFile => s.merged = {})
    BY <1>t, <1>o, AfterScanIsState, AfterScanCompletes DEF Store!TypeOK
  <2>2. ~MergeFile => many = {}
    OBVIOUS
  <2> HIDE DEF s, t, many
  <2>3. \/ /\ IF s = disk THEN UNCHANGED store ELSE Store!Save(s)
           /\ IF t = NoBatch THEN Exit("complete") ELSE Dispatch(c, t, many, s)
        \/ CutShort(s)
    BY <1>1 DEF NextBatch, s, t, many
  <2>4. SavedOK
    BY <2>1, <2>3, SaveIsOK, UnsavedIsOK
  <2>5. Over \/ Begun(s)
    BY <2>1, <2>2, <2>3, ExitIsOver DEF Dispatch
  <2> QED BY <1>1, <1>p, <2>1, <2>4, <2>5 DEF NextBatch
<1>2. ASSUME NEW t \in Tasks, Retry(t) PROVE LandInv'
  <2> DEFINE s == ClearFailed(disk, t)
  <2>1. s \in States /\ s.completed = disk.completed /\ s.merged = disk.merged
    BY <1>t, ClearFailedIsState DEF ClearFailed, Store!TypeOK, States
  <2> HIDE DEF s
  <2>2. \/ /\ IF s = disk THEN UNCHANGED store ELSE Store!Save(s)
           /\ IF t \in s.completed THEN Exit("error") ELSE Dispatch("retry", t, {}, s)
        \/ CutShort(s)
    BY <1>2 DEF Retry, s
  <2>3. SavedOK
    BY <1>o, <2>1, <2>2, SaveIsOK, UnsavedIsOK
  <2>4. Over \/ Begun(s)
    BY <2>1, <2>2, ExitIsOver DEF Dispatch
  <2> QED BY <1>2, <1>o, <1>p, <2>1, <2>3, <2>4 DEF Retry
<1>3. ASSUME NEW t \in Tasks, RunSpecific(t) PROVE LandInv'
  <2>1. SavedOK /\ UNCHANGED <<repo, riders>>
    BY <1>3, UnsavedIsOK DEF RunSpecific
  <2>2. Over \/ Begun(disk)
    BY <1>3, ExitIsOver DEF RunSpecific, Dispatch
  <2> QED BY <1>t, <1>o, <1>p, <2>1, <2>2 DEF Store!TypeOK
<1>4. ASSUME Resume PROVE LandInv'
  <2>1. SavedOK /\ UNCHANGED <<repo, riders>> /\ disk' = disk
    BY <1>4, UnsavedIsOK DEF Resume, store
  <2>2. Over \/ Begun(disk)
    BY <1>4, <1>o, <2>1, ExitIsOver DEF Resume, Dispatch
  <2> QED BY <1>t, <1>o, <1>p, <2>1, <2>2 DEF Store!TypeOK
<1>5. ASSUME PruneFailed PROVE LandInv'
  <2>1. pc = "idle" /\ repo'.main = repo.main /\ repo'.marks = repo.marks
    BY <1>5, <1>t DEF PruneFailed, Repos
  <2> QED BY <1>5, <2>1 DEF PruneFailed, LandInv, CompletedOK, BatchOK, GroupOK,
              Recorded, Landed, store
<1> QED BY <1>1, <1>2, <1>3, <1>4, <1>5 DEF Invocation

\* The parts of the last steps of a batch: its outcome is saved, and then it
\* returns or is reviewed.
LEMMA RecordLands ==
    ASSUME TypeInv, LandInv, NEW s \in States, s.completed \subseteq Landed,
           ~MergeFile => s.merged = {}, UNCHANGED <<repo, riders>>,
           IF disk.current = id THEN Store!Save(s) ELSE UNCHANGED store,
           Over \/ Goto("review")
    PROVE  LandInv'
<1>1. SavedOK
  BY SaveIsOK, UnsavedIsOK
<1>2. Landed' = Landed /\ repo'.marks \subseteq repo'.main
  BY DEF Landed, LandInv, CompletedOK
<1>3. CASE Over
  BY <1>1, <1>2, <1>3, OverIsOK
<1>4. CASE Goto("review")
  BY <1>1, <1>2, <1>4
     DEF Goto, SavedOK, LandInv, CompletedOK, BatchOK, GroupOK, Recorded
<1> QED BY <1>3, <1>4

LEMMA CutShortLands ==
    ASSUME TypeInv, LandInv, NEW s \in States, s.completed \subseteq Landed,
           ~MergeFile => s.merged = {}, UNCHANGED <<repo, riders>>, CutShort(s)
    PROVE  LandInv'
<1>1. SavedOK /\ Over
  BY SaveIsOK, ExitIsOver
<1>2. Landed' = Landed /\ repo'.marks \subseteq repo'.main
  BY DEF Landed, LandInv, CompletedOK
<1> QED BY <1>1, <1>2, OverIsOK

LEMMA StepLands ==
    ASSUME KeepsToBranch, WholeSaves \/ ~MergeFile, TypeInv, LandInv, Step
    PROVE  LandInv'
<1>t. /\ Store!TypeOK /\ Repos(repo)
      /\ pc \notin {"idle", "loop"} => id \in Tasks /\ Branch \in Branches /\ Branch # Main
  BY RunBatchConstants DEF TypeInv, TypeOK, ProcessTypeOK, Branch
<1>o. /\ disk \in States /\ disk.completed \subseteq Landed
      /\ ~MergeFile => disk.merged = {} /\ group = {} /\ mem.merged = {}
      /\ mem \in States /\ mem.completed \subseteq Landed
  BY <1>t DEF LandInv, CompletedOK, GroupOK, Store!TypeOK, TypeInv, TypeOK, ProcessTypeOK
<1>d. ASSUME id \in Tasks, NEW ok \in BOOLEAN
      PROVE  /\ CompleteBatch(disk, id, ok) \in States
             /\ ~MergeFile => CompleteBatch(disk, id, ok).merged = {}
  <2>1. CompleteBatch(disk, id, ok) \in States
    BY <1>d, <1>o, CompleteBatchIsState
  <2>2. CompleteBatch(disk, id, ok).merged \in {disk.merged, {}}
    BY <1>d, <1>o, CompleteBatchCompletes
  <2> QED BY <1>o, <2>1, <2>2
\* A quiet step that leaves main as it was, or adds to it.
<1>q. ASSUME UNCHANGED <<store, riders>>, repo.main \subseteq repo'.main,
             repo'.marks = repo.marks, NEW l \in Locations, Goto(l), BatchOK',
             Recorded' => Recorded, l # "trajectory"
      PROVE  LandInv'
  BY <1>q, LandedGrows, QuietIsOK DEF Goto
<1>v. ASSUME UNCHANGED <<store, riders>>, repo.main \subseteq repo'.main,
             repo'.marks = repo.marks, NEW r, Return(r)
      PROVE  LandInv'
  BY <1>v, LandedGrows, UnsavedIsOK, ExitIsOver, OverIsOK
<1>1. CASE LeaveLoop
  <2>1. UNCHANGED <<repo, store, riders>> /\ Over
    BY <1>1, ExitIsOver DEF LeaveLoop
  <2> QED BY <2>1, UnsavedIsOK, LandedGrows, OverIsOK
<1>2. CASE EnterMain
  <2>1. CASE repo' = EnsureOnMain(repo) /\ Goto("branch")
    BY <1>2, <1>t, <1>q, <2>1, EnsureOnMainIsRepo
       DEF EnterMain, Goto, Locations, BatchOK, Recorded
  <2>2. CASE repo' = CommitAll(repo) /\ Return("error")
    BY <1>2, <1>t, <1>v, <2>2, CommitAllIsRepo DEF EnterMain
  <2> QED BY <1>2, <2>1, <2>2 DEF EnterMain
<1>3. CASE EnterBranch
  <2>1. repo.head = Main /\ Reuse \in BOOLEAN
    BY <1>3 DEF EnterBranch, TypeInv, PlaceOK, Reuse
  <2>2. CASE /\ repo' = SetupBranch(repo, Branch, Reuse)
             /\ Goto(IF cmd = "resume" THEN "recheck" ELSE "save")
    <3>1. /\ repo'.head = Branch /\ repo'.main = repo.main /\ repo'.marks = repo.marks
      BY <1>3, <1>t, <2>1, <2>2, SetupBranchIsRepo DEF EnterBranch
    <3>2. BatchOK' /\ (Recorded' => Recorded)
      BY <1>3, <2>2, <3>1 DEF EnterBranch, Goto, BatchOK, Recorded, Branch
    <3> QED BY <1>3, <1>q, <2>2, <3>1, <3>2 DEF EnterBranch, Locations
  <2>3. CASE /\ repo' \in {repo, IF Reuse THEN repo ELSE DeleteBranch(repo, Branch)}
             /\ Return("error")
    BY <1>3, <1>t, <1>v, <2>3 DEF EnterBranch, DeleteBranch, Repos
  <2> QED BY <1>3, <2>2, <2>3 DEF EnterBranch
<1>4. CASE Recheck
  <2>1. repo' = repo /\ UNCHANGED <<store, riders>>
        /\ ((CanPass(repo) /\ Goto("merge")) \/ Goto("save"))
    BY <1>4 DEF Recheck
  <2>2. BatchOK'
    BY <1>4, <2>1 DEF Recheck, Goto, LandInv, BatchOK, CanPass, Branch
  <2>3. Recorded /\ repo.main \subseteq repo'.main /\ repo'.marks = repo.marks
    BY <1>4, <2>1 DEF Recheck, Recorded
  <2>4. "merge" \in Locations /\ "save" \in Locations
    BY DEF Locations
  <2> QED BY <1>q, <2>1, <2>2, <2>3, <2>4
<1>5. CASE SaveCurrent
  <2> DEFINE s == SetCurrent(mem, id, group)
  <2>1. /\ s \in States /\ s.completed = mem.completed /\ s.merged = group
    BY <1>5, <1>t, <1>o, SetCurrentIsState
       DEF SaveCurrent, SetCurrent, TypeInv, TypeOK, ProcessTypeOK, States
  <2> HIDE DEF s
  <2>2. CASE CutShort(s) /\ UNCHANGED <<repo, riders>>
    BY <1>o, <2>1, <2>2, CutShortLands
  <2>3. CASE /\ Store!Save(s) /\ mem' = s /\ UNCHANGED <<repo, riders>>
             /\ pc = "save" /\ pc' = "trajectory" /\ UNCHANGED <<cmd, id, group>>
    <3>1. SavedOK /\ (WholeSaves => disk' = s)
      BY <1>o, <2>1, <2>3, SaveIsOK
    <3>2. CompletedOK'
      BY <1>o, <2>1, <2>3, <3>1 DEF SavedOK, LandInv, CompletedOK, Landed
    <3>3. BatchOK'
      BY <2>3 DEF LandInv, BatchOK, Branch
    <3>4. disk'.merged = group /\ mem'.merged = group
      BY <1>o, <2>1, <2>3, <3>1 DEF SavedOK
    <3>5. GroupOK'
      BY <1>o, <2>1, <2>3, <3>1, <3>4 DEF GroupOK, SavedOK
    <3> QED BY <3>2, <3>3, <3>5 DEF LandInv
  <2> QED BY <1>5, <2>2, <2>3 DEF SaveCurrent, s
<1>6. CASE OpenTrajectory
  <2>1. CASE CutShort(mem)
    BY <1>6, <1>o, <2>1, CutShortLands DEF OpenTrajectory
  <2>2. CASE /\ UNCHANGED store \/ Store!Save(mem)
             /\ pc' = "attempt" /\ UNCHANGED <<cmd, id, group, mem>>
    <3>1. SavedOK /\ disk'.merged = group
      BY <1>6, <1>o, <2>2, SaveIsOK, UnsavedIsOK
         DEF OpenTrajectory, LandInv, GroupOK, SavedOK, Recorded, store
    <3>2. UNCHANGED <<repo, riders>> /\ pc = "trajectory"
      BY <1>6 DEF OpenTrajectory
    <3>3. CompletedOK'
      BY <1>o, <2>2, <3>1, <3>2 DEF SavedOK, LandInv, CompletedOK, Landed
    <3>4. BatchOK' /\ GroupOK'
      BY <1>o, <2>2, <3>1, <3>2 DEF LandInv, BatchOK, GroupOK, SavedOK, Branch
    <3> QED BY <3>3, <3>4 DEF LandInv
  <2> QED BY <1>6, <2>1, <2>2 DEF OpenTrajectory
<1>7. CASE Attempt
  <2>1. PICK how \in AgentModes, new \in SUBSET ({id} \cup group) :
            repo' = AgentWork(repo, Branch, how, new)
    BY <1>7 DEF Attempt
  <2>2. new \in SUBSET Tasks /\ how # "stray"
    BY <1>7, <1>t DEF Attempt, TypeInv, TypeOK, ProcessTypeOK, KeepsToBranch
  <2>3. /\ repo.main \subseteq repo'.main /\ repo'.marks = repo.marks
        /\ repo'.head \in {repo.head, Main}
    BY <1>7, <1>t, <2>1, <2>2, AgentWorkIsRepo DEF Attempt
  <2>4. repo'.head \in {Main, Branch} /\ Recorded /\ UNCHANGED <<store, riders>>
    BY <1>7, <2>3 DEF Attempt, LandInv, BatchOK, Recorded
  <2>5. CASE CanPass(repo') /\ Goto("merge")
    BY <1>q, <2>3, <2>4, <2>5 DEF Goto, BatchOK, CanPass, Branch, Locations
  <2>6. CASE Goto("abandon")
    BY <1>q, <2>3, <2>4, <2>6 DEF Goto, BatchOK, Branch, Locations
  <2>7. CASE pc = "attempt" /\ UNCHANGED <<pc, cmd, id, group, mem, result>>
    <3>1. BatchOK'
      BY <2>4, <2>7 DEF BatchOK, Branch
    <3> QED BY <2>3, <2>4, <2>7, <3>1, LandedGrows, QuietIsOK
  <2> QED BY <1>7, <2>5, <2>6, <2>7 DEF Attempt
<1>8. CASE BranchMissing
  <2>1. /\ repo.main \subseteq repo'.main /\ repo'.marks = repo.marks
    <3>1. Repos(CommitAll(repo)) /\ repo.main \subseteq CommitAll(repo).main
          /\ CommitAll(repo).marks = repo.marks
      BY <1>t, CommitAllIsRepo
    <3>2. /\ CommitAll(repo).main \subseteq EnsureOnMain(CommitAll(repo)).main
          /\ EnsureOnMain(CommitAll(repo)).marks = repo.marks
      BY <3>1, EnsureOnMainIsRepo
    <3> QED BY <1>8, <3>1, <3>2 DEF BranchMissing
  <2> QED BY <1>8, <1>q, <2>1 DEF BranchMissing, Goto, BatchOK, Recorded, Locations
<1>9. CASE CommitLeftovers
  <2>1. /\ repo.main \subseteq repo'.main /\ repo'.marks = repo.marks
        /\ repo'.head = repo.head /\ Committed(repo') = WorkTree(repo)
    BY <1>9, <1>t, CommitAllIsRepo DEF CommitLeftovers
  <2>2. id \in WorkTree(repo) /\ repo.head \in {Main, Branch}
    BY <1>9 DEF CommitLeftovers, LandInv, BatchOK
  <2>3. id \in repo'.main \cup repo'.br[Branch].work
    BY <2>1, <2>2 DEF Committed
  <2>4. BatchOK' /\ Recorded
    BY <1>9, <2>3 DEF CommitLeftovers, Goto, BatchOK, Branch, Recorded
  <2> QED BY <1>9, <1>q, <2>1, <2>4 DEF CommitLeftovers, Locations
<1>10. CASE Land
  <2>1. /\ repo'.main = repo.main \cup repo.br[Branch].work
        /\ repo'.marks \subseteq repo.marks \cup {id}
    BY <1>10, <1>t, MergeBranchIsRepo DEF Land, TypeInv, PlaceOK
  <2>2. id \in repo'.main
    BY <1>10, <2>1 DEF Land, LandInv, BatchOK
  <2>3. Landed \subseteq Landed' /\ repo'.marks \subseteq repo'.main
    BY <1>10, <2>1, <2>2 DEF Land, Landed, LandInv, CompletedOK
  <2>4. {id} \cup group \subseteq Landed'
    BY <1>10, <2>2 DEF Land, Landed
  <2>5. BatchOK' /\ Recorded
    BY <1>10, <2>4 DEF Land, Goto, BatchOK, Recorded
  <2> QED BY <1>10, <2>3, <2>5, QuietIsOK DEF Land, Goto
<1>11. CASE MergeFails
  <2>1. repo'.main = repo.main /\ repo'.marks = repo.marks
    BY <1>11, <1>t DEF MergeFails, Checkout, Repos
  <2> QED BY <1>11, <1>q, <2>1 DEF MergeFails, Goto, BatchOK, Recorded, Locations
<1>12. CASE DeleteMerged
  <2>1. repo'.main = repo.main /\ repo'.marks = repo.marks
    BY <1>12, <1>t DEF DeleteMerged, DeleteBranch, Repos
  <2>2. BatchOK' /\ Recorded
    BY <1>12, <2>1 DEF DeleteMerged, Goto, LandInv, BatchOK, Landed, Recorded
  <2> QED BY <1>12, <1>q, <2>1, <2>2 DEF DeleteMerged, Locations
<1>13. CASE RecordCompleted
  <2> DEFINE s == CompleteBatch(disk, id, TRUE)
  <2>1. s \in States /\ (~MergeFile => s.merged = {})
    BY <1>13, <1>t, <1>d DEF RecordCompleted
  <2>2. disk.merged = group /\ {id} \cup group \subseteq Landed
    BY <1>13 DEF RecordCompleted, LandInv, BatchOK, GroupOK, Recorded
  <2>3. s.completed \subseteq Landed
    BY <1>13, <1>t, <1>o, <2>2, CompleteBatchCompletes DEF RecordCompleted
  <2> HIDE DEF s
  <2>4. CASE disk.current = id /\ CutShort(s)
    BY <1>13, <2>1, <2>3, <2>4, CutShortLands DEF RecordCompleted
  <2>5. CASE /\ IF disk.current = id THEN Store!Save(s) ELSE UNCHANGED store
             /\ Return("batch_complete") \/ Goto("review")
    BY <1>13, <2>1, <2>3, <2>5, ExitIsOver, RecordLands DEF RecordCompleted
  <2> QED BY <1>13, <2>4, <2>5 DEF RecordCompleted, Record, s
\* The other outcomes complete nothing.
<1>r. ASSUME NEW s \in States, s.completed = disk.completed, ~MergeFile => s.merged = {},
             NEW r, Record(s, Return(r)), UNCHANGED <<repo, riders>>
      PROVE  LandInv'
  <2>1. CASE CutShort(s)
    BY <1>o, <1>r, <2>1, CutShortLands
  <2>2. CASE /\ IF disk.current = id THEN Store!Save(s) ELSE UNCHANGED store
             /\ Return(r)
    BY <1>o, <1>r, <2>2, ExitIsOver, RecordLands
  <2> QED BY <1>r, <2>1, <2>2 DEF Record
<1>14. CASE RecordRefused
  BY <1>14, <1>t, <1>o, <1>d, <1>r, CompleteBatchCompletes DEF RecordRefused
<1>15. CASE RecordSkipped
  <2> DEFINE s == SkipBatch(disk, id)
  <2>1. s \in States /\ s.completed = disk.completed /\ (~MergeFile => s.merged = {})
    BY <1>15, <1>t, <1>o, SkipBatchIsState, SkipBatchCompletes DEF RecordSkipped
  <2> QED BY <1>15, <1>r, <2>1 DEF RecordSkipped
<1>16. CASE Abandon
  <2>1. /\ repo.main \subseteq repo'.main /\ repo'.marks = repo.marks
    BY <1>16, <1>t, CommitAllIsRepo DEF Abandon, Checkout, Repos
  <2> QED BY <1>16, <1>q, <2>1 DEF Abandon, Goto, BatchOK, Recorded, Locations
<1>17. CASE RecordFailed
  BY <1>17, <1>t, <1>o, <1>d, <1>r, CompleteBatchCompletes DEF RecordFailed
<1>18. CASE NoReview
  BY <1>18, <1>v DEF NoReview
\* The review adds to main at most, and no marker.
<1>m. ASSUME NEW b, NEW q, Repos(q)
      PROVE  DeleteBranch(q, b).main = q.main /\ DeleteBranch(q, b).marks = q.marks
  BY <1>m DEF DeleteBranch, Repos
<1>n. Subtree[id] \in Reviewable => Review \in Branches /\ Review # Main
  BY RunBatchConstants DEF Review
<1>19. CASE EnterReview
  <2> DEFINE r == EnsureOnMain(repo)
  <2>1. Repos(r) /\ r.head = Main /\ Review \in Branches /\ Review # Main
        /\ repo.main \subseteq r.main /\ r.marks = repo.marks
    BY <1>19, <1>t, <1>n, EnsureOnMainIsRepo DEF EnterReview, IsSubtreeJustCompleted
  <2>2. /\ SetupBranch(r, Review, FALSE).main = r.main
        /\ SetupBranch(r, Review, FALSE).marks = r.marks
    BY <2>1, SetupBranchIsRepo
  <2>3. /\ DeleteBranch(r, Review).main = r.main
        /\ DeleteBranch(r, Review).marks = r.marks
    BY <1>m, <2>1
  <2>4. repo.main \subseteq repo'.main /\ repo'.marks = repo.marks
    BY <1>19, <2>1, <2>2, <2>3 DEF EnterReview
  <2> QED BY <1>19, <1>q, <2>4 DEF EnterReview, Goto, BatchOK, Recorded, Locations
<1>20. CASE ReviewWork
  <2>1. PICK how \in ReviewModes : repo' = AgentWork(repo, Review, how, {})
    BY <1>20 DEF ReviewWork
  <2>2. repo.main \subseteq repo'.main /\ repo'.marks = repo.marks
    BY <1>20, <1>t, <1>n, <2>1, AgentWorkIsRepo DEF ReviewWork, TypeInv, PlaceOK
  <2> QED BY <1>20, <1>q, <2>2 DEF ReviewWork, Goto, BatchOK, Recorded, Locations
<1>21. CASE FinishReview
  <2> DEFINE r == CommitAll(repo)
             q == MergeBranch(r, Review, {})
  <2>1. /\ Repos(r) /\ DOMAIN r.br = DOMAIN repo.br
        /\ repo.main \subseteq r.main /\ r.marks = repo.marks
    BY <1>t, CommitAllIsRepo
  <2>2. Review \in DOMAIN repo.br => Repos(q) /\ r.main \subseteq q.main /\ q.marks = r.marks
    BY <2>1, MergeBranchIsRepo
  <2>3. Review \in DOMAIN repo.br => /\ DeleteBranch(q, Review).main = q.main
                                    /\ DeleteBranch(q, Review).marks = q.marks
    BY <1>m, <2>2
  <2>4. Checkout(r, Main).main = r.main /\ Checkout(r, Main).marks = r.marks
    BY <2>1 DEF Checkout, Repos
  <2>5. repo.main \subseteq repo'.main /\ repo'.marks = repo.marks
    BY <1>21, <2>1, <2>2, <2>3, <2>4 DEF FinishReview
  <2> QED BY <1>21, <1>q, <2>5 DEF FinishReview, Goto, BatchOK, Recorded, Locations
<1>22. CASE RecordReview
  <2> DEFINE s == [disk EXCEPT !.reviewed = @ \cup {Subtree[id]}]
  <2>1. Subtree[id] \in Subtrees
    BY <1>22, <1>t, TaskPickerConstants DEF RecordReview
  <2>2. s \in States /\ s.completed = disk.completed /\ s.merged = disk.merged
    BY <1>o, <2>1 DEF States
  <2> HIDE DEF s
  <2>3. CASE CutShort(s)
    BY <1>22, <1>o, <2>2, <2>3, CutShortLands DEF RecordReview
  <2>4. CASE Store!Save(s) /\ Return("batch_complete")
    <3>1. SavedOK /\ Over
      BY <1>o, <2>2, <2>4, SaveIsOK, ExitIsOver
    <3>2. UNCHANGED <<repo, riders>>
      BY <1>22 DEF RecordReview
    <3> QED BY <3>1, <3>2, OverIsOK DEF Landed, LandInv, CompletedOK
  <2> QED BY <1>22, <2>3, <2>4 DEF RecordReview, s
<1> QED BY <1>1, <1>2, <1>3, <1>4, <1>5, <1>6, <1>7, <1>8, <1>9, <1>10, <1>11,
           <1>12, <1>13, <1>14, <1>15, <1>16, <1>17, <1>18, <1>19, <1>20,
           <1>21, <1>22 DEF Step

LEMMA CrashLands ==
    ASSUME LandInv, Crash
    PROVE  LandInv'
<1>1. SavedOK /\ Over /\ UNCHANGED <<repo, riders>>
  BY UnsavedIsOK, ExitIsOver DEF Crash
<1> QED BY <1>1, OverIsOK DEF Landed, LandInv, CompletedOK

LEMMA LandInvIsInductive ==
    ASSUME KeepsToBranch, WholeSaves \/ ~MergeFile, TypeInv, LandInv, [Next]_vars
    PROVE  LandInv'
<1>1. CASE Next
  BY <1>1, InvocationLands, StepLands, CrashLands DEF Next
<1>2. CASE UNCHANGED vars
  BY <1>2 DEF vars, store, LandInv, CompletedOK, BatchOK, GroupOK, Recorded,
              Landed, Branch
<1> QED BY <1>1, <1>2

\* Whatever crashes, is lost or is retried, whatever a sub-agent that keeps to
\* its branch and main leaves behind: the state file never lists a task as
\* completed whose work is not on main, except for the tasks merged together
\* with another one, which were never verified themselves.
THEOREM CompletedTasksAreOnMain ==
    ASSUME KeepsToBranch, WholeSaves \/ ~MergeFile
    PROVE  Spec => []CompletedIsOnMain
<1>1. TypeInv /\ LandInv /\ [Next]_vars => LandInv'
  BY LandInvIsInductive
<1>2. LandInv => CompletedIsOnMain
  BY DEF LandInv, CompletedOK, CompletedIsOnMain, Landed
<1> QED BY InitIsTyped, InitHasLanded, TypeInvIsInductive, <1>1, <1>2, PTL DEF Spec

-----------------------------------------------------------------------------
(* An interrupted batch is found again.                                    *)

LEMMA StoreStep ==
    ASSUME Next
    PROVE  UNCHANGED store \/ \E s : Store!Save(s) \/ Store!TornSave(s)
<1>1. CASE Invocation
  BY <1>1 DEF Invocation, NextBatch, Retry, RunSpecific, Resume, PruneFailed, CutShort
<1>2. CASE Crash
  BY <1>2 DEF Crash
<1>3. CASE Step
  BY <1>3 DEF Step, LeaveLoop, EnterMain, EnterBranch, Recheck, SaveCurrent,
        OpenTrajectory, Attempt, BranchMissing, CommitLeftovers, Land, MergeFails,
        DeleteMerged, RecordCompleted, RecordRefused, RecordSkipped, Abandon,
        RecordFailed, NoReview, EnterReview, ReviewWork, FinishReview,
        RecordReview, Record, CutShort
<1> QED BY <1>1, <1>2, <1>3 DEF Next

\* With whole saves the file always ends cleanly.
LEMMA TailStaysClean ==
    ASSUME WholeSaves, tail = "clean", [Next]_vars
    PROVE  tail' = "clean"
<1>1. CASE Next
  <2>1. UNCHANGED store \/ \E s : Store!Save(s) \/ Store!TornSave(s)
    BY <1>1, StoreStep
  <2>2. ASSUME NEW s, Store!Save(s) PROVE tail' = "clean"
    BY <2>2 DEF Store!Save
  <2>3. ASSUME NEW s, Store!TornSave(s) PROVE tail' = "clean"
    BY <2>3 DEF Store!TornSave, Store!vars, WholeSaves
  <2> QED BY <2>1, <2>2, <2>3 DEF store
<1>2. CASE UNCHANGED vars
  BY <1>2 DEF vars, store
<1> QED BY <1>1, <1>2

\* From the record of the current batch to the end of the first attempt.
ResumeInv ==
    /\ tail = "clean"
    /\ pc \in {"recheck", "save", "trajectory"} => repo.head = Branch
    /\ pc = "trajectory" => disk = mem /\ mem.current = id /\ mem.merged = group
    /\ pc = "attempt" =>
          /\ disk.current = id /\ disk.merged = group
          /\ attempt >= 1 /\ (attempt = 1 => repo.head = Branch)

\* The steps that lead to these places or stay there.
LEMMA TowardsAttempt ==
    ASSUME Next, pc' \in {"recheck", "save", "trajectory", "attempt"}
    PROVE  EnterBranch \/ Recheck \/ SaveCurrent \/ OpenTrajectory \/ Attempt
<1>1. CASE Invocation
  BY <1>1 DEF Invocation, NextBatch, Retry, RunSpecific, Resume, PruneFailed,
        CutShort, Exit, Dispatch
<1>2. CASE Crash
  BY <1>2 DEF Crash, Exit
<1>3. CASE LeaveLoop \/ EnterMain \/ BranchMissing \/ CommitLeftovers \/ Land
           \/ MergeFails \/ DeleteMerged \/ Abandon
  BY <1>3 DEF LeaveLoop, EnterMain, BranchMissing, CommitLeftovers, Land,
        MergeFails, DeleteMerged, Abandon, Goto, Return, Exit
<1>4. CASE RecordCompleted \/ RecordRefused \/ RecordSkipped \/ RecordFailed
  BY <1>4 DEF RecordCompleted, RecordRefused, RecordSkipped, RecordFailed,
        Record, CutShort, Goto, Return, Exit
<1>5. CASE NoReview \/ EnterReview \/ ReviewWork \/ FinishReview \/ RecordReview
  BY <1>5 DEF NoReview, EnterReview, ReviewWork, FinishReview, RecordReview,
        CutShort, Goto, Return, Exit
<1> QED BY <1>1, <1>2, <1>3, <1>4, <1>5 DEF Next, Step

LEMMA ResumeInvIsInductive ==
    ASSUME WholeSaves, TypeInv, ResumeInv, [Next]_vars
    PROVE  ResumeInv'
<1>1. tail' = "clean"
  BY TailStaysClean DEF ResumeInv
<1>t. /\ Repos(repo) /\ Store!TypeOK /\ attempt \in Nat
      /\ pc \notin {"idle", "loop"} => id \in Tasks /\ Branch \in Branches
  BY RunBatchConstants DEF TypeInv, TypeOK, ProcessTypeOK, Branch
<1>2. CASE pc' \notin {"recheck", "save", "trajectory", "attempt"}
  BY <1>1, <1>2 DEF ResumeInv
<1>3. CASE EnterBranch
  <2>1. repo.head # Branch /\ Reuse \in BOOLEAN /\ Branch \in Branches
    BY <1>3, <1>t, RunBatchConstants DEF EnterBranch, TypeInv, PlaceOK, Reuse
  <2>2. SetupBranch(repo, Branch, Reuse).head = Branch
    BY <1>t, <2>1, SetupBranchIsRepo
  <2> QED BY <1>1, <1>3, <2>2 DEF EnterBranch, Goto, Return, Exit, ResumeInv, Branch
<1>4. CASE Recheck
  BY <1>1, <1>4 DEF Recheck, Goto, ResumeInv, Branch
<1>5. CASE SaveCurrent
  <2> DEFINE s == SetCurrent(mem, id, group)
  <2>1. s \in States /\ s.current = id /\ s.merged = group
    BY <1>5, <1>t, SetCurrentIsState
       DEF SaveCurrent, SetCurrent, TypeInv, TypeOK, ProcessTypeOK, States
  <2> HIDE DEF s
  <2>2. CASE /\ Store!Save(s) /\ mem' = s
             /\ pc' = "trajectory" /\ UNCHANGED <<cmd, id, group, attempt, result>>
    <3>1. disk' = s
      BY <1>t, <2>1, <2>2, SaveWrites DEF ResumeInv
    <3> QED BY <1>1, <1>5, <2>1, <2>2, <3>1 DEF SaveCurrent, ResumeInv, Branch
  <2>3. CASE CutShort(s)
    BY <1>1, <2>3 DEF CutShort, Exit, ResumeInv
  <2> QED BY <1>5, <2>2, <2>3 DEF SaveCurrent, s
<1>6. CASE OpenTrajectory
  <2>1. CASE /\ UNCHANGED store \/ Store!Save(mem)
             /\ pc' = "attempt" /\ attempt' = 1
             /\ UNCHANGED <<cmd, id, group, mem, result>>
    <3>1. disk' = mem
      BY <1>6, <1>t, <2>1, SaveWrites
         DEF OpenTrajectory, ResumeInv, TypeInv, TypeOK, ProcessTypeOK, store
    <3> QED BY <1>1, <1>6, <2>1, <3>1 DEF OpenTrajectory, ResumeInv, Branch
  <2>2. CASE CutShort(mem)
    BY <1>1, <2>2 DEF CutShort, Exit, ResumeInv
  <2> QED BY <1>6, <2>1, <2>2 DEF OpenTrajectory
<1>7. CASE Attempt
  <2>1. CASE /\ attempt' = attempt + 1
             /\ UNCHANGED <<pc, cmd, id, group, mem, result>>
    BY <1>1, <1>7, <1>t, <2>1 DEF Attempt, ResumeInv, store
  <2>2. CASE Goto("merge") \/ Goto("abandon")
    BY <1>1, <2>2 DEF Goto, ResumeInv
  <2> QED BY <1>7, <2>1, <2>2 DEF Attempt
<1>8. CASE UNCHANGED vars
  BY <1>8 DEF vars, store, ResumeInv, Branch
<1> QED BY <1>2, <1>3, <1>4, <1>5, <1>6, <1>7, <1>8, TowardsAttempt

\* While a sub-agent works the state file names its batch and its merged ids,
\* and the first attempt starts on the batch's branch: for every agent and every
\* fault, as long as no save is cut short in the middle of a line.
THEOREM InterruptedBatchIsFound ==
    ASSUME WholeSaves
    PROVE  Spec => []ResumeIsPossible
<1>1. Init => ResumeInv
  BY DEF Init, ResumeInv, Store!Init
<1>2. TypeInv /\ ResumeInv /\ [Next]_vars => ResumeInv'
  BY ResumeInvIsInductive
<1>3. ResumeInv => ResumeIsPossible
  BY DEF ResumeInv, ResumeIsPossible
<1> QED BY InitIsTyped, TypeInvIsInductive, <1>1, <1>2, <1>3, PTL DEF Spec

-----------------------------------------------------------------------------
(* A reported batch leaves main checked out and nothing uncommitted.       *)

Reported == {"batch_complete", "batch_failed"}

\* Nothing is uncommitted from the merge on; main is checked out from there
\* and after an abandoned batch.
CleanInv ==
    /\ pc \in {"land", "delete", "complete", "review", "file", "fail"} => repo.dirty = {}
    /\ pc \in {"delete", "complete", "review", "file", "fail"} => repo.head = Main
    /\ pc \in {"idle", "loop"} /\ result \in Reported =>
          repo.head = Main /\ repo.dirty = {}

\* A batch that ends.
LEMMA EndsClean ==
    ASSUME NEW r, Exit(r) \/ Return(r),
           r \in Reported => repo'.head = Main /\ repo'.dirty = {}
    PROVE  CleanInv'
BY DEF Exit, Return, CleanInv

\* A step to a place where nothing is promised.
LEMMA NotYetClean ==
    ASSUME pc' \notin {"idle", "loop", "land", "delete", "complete", "review", "file", "fail"}
    PROVE  CleanInv'
BY DEF CleanInv

LEMMA CleanInvIsInductive ==
    ASSUME "checkout" \notin Faults, TypeInv, CleanInv, [Next]_vars
    PROVE  CleanInv'
<1>t. Repos(repo)
  BY DEF TypeInv, TypeOK
<1>k. /\ Repos(CommitAll(repo)) /\ CommitAll(repo).dirty = {}
      /\ DOMAIN CommitAll(repo).br = DOMAIN repo.br
  BY <1>t, CommitAllIsRepo
<1>h. Checkout(CommitAll(repo), Main).head = Main /\ Checkout(CommitAll(repo), Main).dirty = {}
  BY <1>k DEF Checkout, Repos
<1>1. ASSUME NEW c \in {"next", "loop"}, NextBatch(c) PROVE CleanInv'
  <2>1. (\E r \in {"complete", "crash"} : Exit(r)) \/ pc' = "main"
    BY <1>1 DEF NextBatch, Dispatch, CutShort
  <2> QED BY <2>1, EndsClean, NotYetClean DEF Reported
<1>2. ASSUME NEW t \in Tasks, Retry(t) \/ RunSpecific(t) PROVE CleanInv'
  <2>1. (\E r \in {"error", "crash"} : Exit(r)) \/ pc' = "main"
    BY <1>2 DEF Retry, RunSpecific, Dispatch, CutShort
  <2> QED BY <2>1, EndsClean, NotYetClean DEF Reported
<1>3. CASE Resume
  <2>1. Exit("error") \/ pc' = "main"
    BY <1>3 DEF Resume, Dispatch
  <2> QED BY <2>1, EndsClean, NotYetClean DEF Reported
<1>4. CASE PruneFailed
  <2>1. repo'.head = repo.head /\ repo'.dirty = repo.dirty
    BY <1>4, <1>t DEF PruneFailed, Repos
  <2> QED BY <1>4, <2>1 DEF PruneFailed, CleanInv
<1>5. CASE LeaveLoop
  BY <1>5, EndsClean DEF LeaveLoop, CleanInv
<1>6. CASE EnterMain
  BY <1>6, NotYetClean DEF EnterMain, Goto
<1>7. CASE EnterBranch
  <2>1. pc' \in {"recheck", "save"}
    BY <1>7 DEF EnterBranch, Goto
  <2> QED BY <2>1, NotYetClean
<1>8. CASE Recheck \/ SaveCurrent \/ OpenTrajectory \/ Attempt
  <2>1. \/ Exit("crash")
        \/ pc' \in {"merge", "save", "trajectory", "attempt", "abandon"}
    BY <1>8 DEF Recheck, SaveCurrent, OpenTrajectory, Attempt, Goto, CutShort
  <2> QED BY <2>1, EndsClean, NotYetClean DEF Reported
<1>9. CASE BranchMissing \/ MergeFails
  <2>1. pc' \in {"skip", "refuse"}
    BY <1>9 DEF BranchMissing, MergeFails, Goto
  <2> QED BY <2>1, NotYetClean
<1>10. CASE CommitLeftovers
  BY <1>10, <1>k DEF CommitLeftovers, Goto, CleanInv
<1>11. CASE Land
  <2>1. repo'.head = Main /\ repo'.dirty = {}
    BY <1>11, <1>t, RunBatchConstants, MergeBranchIsRepo
       DEF Land, TypeInv, TypeOK, ProcessTypeOK, PlaceOK, CleanInv
  <2> QED BY <1>11, <2>1 DEF Land, Goto, CleanInv
<1>12. CASE DeleteMerged
  <2>1. repo'.head = Main /\ repo'.dirty = {}
    BY <1>12, <1>t DEF DeleteMerged, DeleteBranch, Repos, CleanInv
  <2> QED BY <1>12, <2>1 DEF DeleteMerged, Goto, CleanInv
<1>13. CASE RecordCompleted
  <2>1. repo' = repo /\ repo.head = Main /\ repo.dirty = {}
    BY <1>13 DEF RecordCompleted, CleanInv
  <2>2. Exit("crash") \/ Return("batch_complete") \/ Goto("review")
    BY <1>13 DEF RecordCompleted, Record, CutShort
  <2>3. CASE Goto("review")
    BY <2>1, <2>3 DEF Goto, CleanInv
  <2> QED BY <2>1, <2>2, <2>3, EndsClean
<1>14. CASE RecordRefused \/ RecordSkipped
  <2>1. Exit("crash") \/ Return("error")
    BY <1>14 DEF RecordRefused, RecordSkipped, Record, CutShort
  <2> QED BY <2>1, EndsClean DEF Reported
<1>15. CASE Abandon
  BY <1>15, <1>h DEF Abandon, Goto, CleanInv
<1>16. CASE RecordFailed
  <2>1. repo' = repo /\ repo.head = Main /\ repo.dirty = {}
    BY <1>16 DEF RecordFailed, CleanInv
  <2>2. Exit("crash") \/ Return("batch_failed")
    BY <1>16 DEF RecordFailed, Record, CutShort
  <2> QED BY <2>1, <2>2, EndsClean
<1>17. CASE NoReview
  BY <1>17, EndsClean DEF NoReview, CleanInv
<1>18. CASE EnterReview
  <2>1. (repo' = repo /\ Goto("file")) \/ pc' = "reviewing"
    BY <1>18 DEF EnterReview, Goto
  <2>2. CASE repo' = repo /\ Goto("file")
    BY <1>18, <2>2 DEF EnterReview, Goto, CleanInv
  <2> QED BY <2>1, <2>2, NotYetClean
<1>19. CASE ReviewWork
  BY <1>19, NotYetClean DEF ReviewWork, Goto
<1>20. CASE FinishReview
  <2> DEFINE q == MergeBranch(CommitAll(repo), Review, {})
  <2>1. ASSUME Review \in DOMAIN repo.br
        PROVE  DeleteBranch(q, Review).head = Main /\ DeleteBranch(q, Review).dirty = {}
    <3>1. Repos(q) /\ q.head = Main /\ q.dirty = {}
      BY <1>k, <2>1, MergeBranchIsRepo
    <3> HIDE DEF q
    <3> QED BY <3>1 DEF DeleteBranch, Repos
  <2>2. repo'.head = Main /\ repo'.dirty = {}
    BY <1>20, <1>h, <2>1 DEF FinishReview
  <2> QED BY <1>20, <2>2 DEF FinishReview, Goto, CleanInv
<1>21. CASE RecordReview
  <2>1. repo' = repo /\ repo.head = Main /\ repo.dirty = {}
    BY <1>21 DEF RecordReview, CleanInv
  <2>2. Exit("crash") \/ Return("batch_complete")
    BY <1>21 DEF RecordReview, CutShort
  <2> QED BY <2>1, <2>2, EndsClean
<1>22. CASE Crash
  BY <1>22, EndsClean DEF Crash, Reported
<1>23. CASE UNCHANGED vars
  BY <1>23 DEF vars, CleanInv
<1> QED BY <1>1, <1>2, <1>3, <1>4, <1>5, <1>6, <1>7, <1>8, <1>9, <1>10, <1>11,
           <1>12, <1>13, <1>14, <1>15, <1>16, <1>17, <1>18, <1>19, <1>20,
           <1>21, <1>22, <1>23 DEF Next, Invocation, Step

\* If git can always check out main, a batch reported as completed or failed
\* leaves main checked out and nothing uncommitted, whatever its sub-agent and
\* its review did.
THEOREM ReportedBatchesEndClean ==
    ASSUME "checkout" \notin Faults
    PROVE  Spec => []RunsEndClean
<1>1. Init => CleanInv
  BY DEF Init, CleanInv, Reported
<1>2. TypeInv /\ CleanInv /\ [Next]_vars => CleanInv'
  BY CleanInvIsInductive
<1>3. CleanInv => RunsEndClean
  BY DEF CleanInv, RunsEndClean, Reported
<1> QED BY InitIsTyped, TypeInvIsInductive, <1>1, <1>2, <1>3, PTL DEF Spec

-----------------------------------------------------------------------------
(* No implementation is discarded.  Two deletions need an argument: that   *)
(* of a merged branch, and that of the review branch of an earlier,        *)
(* interrupted review, which holds nothing that is not on main.            *)

Reviews == {ReviewOf[a] : a \in Reviewable}

OnMain(r, b) == b \in DOMAIN r.br => r.br[b].work \subseteq r.main

\* What review branches hold is on main, and a review leaves nothing
\* uncommitted but changes that implement nothing.
ReviewsMerged(r) ==
    /\ \A b \in Reviews : OnMain(r, b)
    /\ r.head \in Reviews => r.dirty \subseteq {Scrap}

LEMMA ReviewBranches ==
    /\ Reviews \subseteq Branches /\ Main \notin Reviews /\ Stray \notin Reviews
    /\ \A t \in Tasks : BranchOf[t] \notin Reviews
BY RunBatchConstants DEF Reviews

LEMMA CommitAllKeeps ==
    ASSUME NEW r, Repos(r)
    PROVE  /\ AllWork(r) \subseteq AllWork(CommitAll(r))
           /\ ReviewsMerged(r) => ReviewsMerged(CommitAll(r))
<1>t. CommitAll(r).head = r.head /\ CommitAll(r).dirty = {}
      /\ DOMAIN CommitAll(r).br = DOMAIN r.br /\ r.main \subseteq CommitAll(r).main
  BY CommitAllIsRepo
<1>1. CASE r.dirty = {}
  BY <1>1 DEF CommitAll
<1>2. CASE r.dirty # {} /\ r.head = Main
  <2>1. CommitAll(r).main = WorkTree(r) /\ CommitAll(r).br = r.br
    BY <1>2 DEF CommitAll, Repos
  <2>2. WorkTree(r) = r.main \cup (r.dirty \ {Scrap})
    BY <1>2 DEF WorkTree, Committed
  <2>3. ReviewsMerged(r) => ReviewsMerged(CommitAll(r))
    BY <1>t, <1>2, <2>1, ReviewBranches DEF ReviewsMerged, OnMain
  <2> QED BY <2>1, <2>2, <2>3 DEF AllWork
<1>3. CASE r.dirty # {} /\ r.head # Main
  <2> DEFINE new == [work |-> WorkTree(r), ahead |-> TRUE]
  <2>1. /\ CommitAll(r).main = r.main
        /\ CommitAll(r).br = [r.br EXCEPT ![r.head] = new]
    BY <1>3 DEF CommitAll, Repos
  <2>2. r.head \in DOMAIN r.br /\ new.work = r.br[r.head].work \cup (r.dirty \ {Scrap})
    BY <1>3 DEF Repos, WorkTree, Committed
  <2> HIDE DEF new
  <2>3. /\ CommitAll(r).br[r.head] = new
        /\ \A b \in DOMAIN r.br \ {r.head} : CommitAll(r).br[b] = r.br[b]
    BY <2>1, <2>2 DEF Repos
  <2>4. AllWork(r) \subseteq AllWork(CommitAll(r))
    <3>1. \A b \in DOMAIN r.br : r.br[b].work \subseteq CommitAll(r).br[b].work
      BY <2>2, <2>3
    <3>2. r.dirty \ {Scrap} \subseteq CommitAll(r).br[r.head].work
      BY <2>2, <2>3
    <3> QED BY <1>t, <2>1, <2>2, <3>1, <3>2 DEF AllWork
  <2>5. ASSUME ReviewsMerged(r) PROVE ReviewsMerged(CommitAll(r))
    <3>1. \A b \in Reviews : OnMain(CommitAll(r), b)
      BY <1>t, <2>1, <2>2, <2>3, <2>5 DEF ReviewsMerged, OnMain
    <3> QED BY <1>t, <3>1 DEF ReviewsMerged
  <2> QED BY <2>4, <2>5
<1> QED BY <1>1, <1>2, <1>3

LEMMA CheckoutKeeps ==
    ASSUME NEW r, Repos(r), NEW b
    PROVE  /\ AllWork(Checkout(r, b)) = AllWork(r)
           /\ ReviewsMerged(r) /\ b \notin Reviews => ReviewsMerged(Checkout(r, b))
<1>1. /\ Checkout(r, b).main = r.main /\ Checkout(r, b).br = r.br
      /\ Checkout(r, b).dirty = r.dirty /\ Checkout(r, b).head = b
  BY DEF Checkout, Repos
<1> QED BY <1>1 DEF AllWork, ReviewsMerged, OnMain

LEMMA DeleteBranchKeeps ==
    ASSUME NEW r, Repos(r), NEW b
    PROVE  /\ OnMain(r, b) => AllWork(r) \subseteq AllWork(DeleteBranch(r, b))
           /\ ReviewsMerged(r) => ReviewsMerged(DeleteBranch(r, b))
<1> DEFINE q == DeleteBranch(r, b)
<1>1. /\ q.main = r.main /\ q.dirty = r.dirty /\ q.head = r.head
      /\ DOMAIN q.br = DOMAIN r.br \ {b}
      /\ \A c \in DOMAIN r.br \ {b} : q.br[c] = r.br[c]
  BY DEF DeleteBranch, Repos
<1> HIDE DEF q
<1>2. OnMain(r, b) => AllWork(r) \subseteq AllWork(q)
  BY <1>1 DEF AllWork, OnMain
<1>3. ReviewsMerged(r) => ReviewsMerged(q)
  BY <1>1 DEF ReviewsMerged, OnMain
<1> QED BY <1>2, <1>3 DEF q

LEMMA CreateBranchKeeps ==
    ASSUME NEW r, Repos(r), NEW b \in Branches, b \notin DOMAIN r.br
    PROVE  /\ AllWork(r) \subseteq AllWork(CreateBranch(r, b))
           /\ ReviewsMerged(r) /\ (b \in Reviews => r.head = Main /\ r.dirty \subseteq {Scrap})
                 => ReviewsMerged(CreateBranch(r, b))
<1> DEFINE q == CreateBranch(r, b)
<1>1. /\ q.main = r.main /\ q.dirty = r.dirty /\ q.head = b
      /\ DOMAIN q.br = DOMAIN r.br \cup {b}
      /\ \A c \in DOMAIN r.br : q.br[c] = r.br[c]
      /\ q.br[b].work = Committed(r)
  BY DEF CreateBranch, Repos, NewBranch
<1> HIDE DEF q
<1>2. AllWork(r) \subseteq AllWork(q)
  BY <1>1 DEF AllWork
<1>3. ASSUME ReviewsMerged(r), b \in Reviews => r.head = Main /\ r.dirty \subseteq {Scrap}
      PROVE  ReviewsMerged(q)
  BY <1>1, <1>3 DEF ReviewsMerged, OnMain, Committed
<1> QED BY <1>2, <1>3 DEF q

LEMMA EnsureOnMainKeeps ==
    ASSUME NEW r, Repos(r)
    PROVE  /\ AllWork(r) \subseteq AllWork(EnsureOnMain(r))
           /\ ReviewsMerged(r) => ReviewsMerged(EnsureOnMain(r))
<1>1. Repos(CommitAll(r))
  BY CommitAllIsRepo
<1>2. /\ AllWork(Checkout(CommitAll(r), Main)) = AllWork(CommitAll(r))
      /\ ReviewsMerged(CommitAll(r)) => ReviewsMerged(Checkout(CommitAll(r), Main))
  BY <1>1, CheckoutKeeps, ReviewBranches
<1> QED BY <1>2, CommitAllKeeps DEF EnsureOnMain

\* A branch is set up from main, or reused, or replaced by a new one.
LEMMA SetupBranchKeeps ==
    ASSUME NEW r, Repos(r), NEW b \in Branches, NEW reuse \in BOOLEAN,
           r.head # b \/ reuse
    PROVE  /\ reuse \/ OnMain(r, b) => AllWork(r) \subseteq AllWork(SetupBranch(r, b, reuse))
           /\ ReviewsMerged(r) /\
                 (b \in Reviews => ~reuse /\ r.head = Main /\ r.dirty \subseteq {Scrap})
                 => ReviewsMerged(SetupBranch(r, b, reuse))
<1>1. CASE b \in DOMAIN r.br /\ reuse
  <2>1. SetupBranch(r, b, reuse) = Checkout(r, b)
    BY <1>1 DEF SetupBranch
  <2>2. /\ AllWork(Checkout(r, b)) = AllWork(r)
        /\ ReviewsMerged(r) /\ b \notin Reviews => ReviewsMerged(Checkout(r, b))
    BY CheckoutKeeps
  <2> QED BY <1>1, <2>1, <2>2
<1>2. CASE ~(b \in DOMAIN r.br /\ reuse)
  <2> DEFINE d == DeleteBranch(r, b)
  <2>1. r.head # b
    BY <1>2, RunBatchConstants DEF Repos
  <2>2. /\ Repos(d) /\ b \notin DOMAIN d.br /\ d.head = r.head /\ d.dirty = r.dirty
    BY <2>1, DeleteBranchIsRepo DEF DeleteBranch, Repos
  <2>3. /\ reuse \/ OnMain(r, b) => AllWork(r) \subseteq AllWork(d)
        /\ ReviewsMerged(r) => ReviewsMerged(d)
    BY <1>2, DeleteBranchKeeps DEF OnMain
  <2> HIDE DEF d
  <2>4. SetupBranch(r, b, reuse) = CreateBranch(d, b)
    BY <1>2 DEF SetupBranch, d
  <2>5. /\ AllWork(d) \subseteq AllWork(CreateBranch(d, b))
        /\ ReviewsMerged(d) /\ (b \in Reviews => d.head = Main /\ d.dirty \subseteq {Scrap})
              => ReviewsMerged(CreateBranch(d, b))
    BY <2>2, CreateBranchKeeps
  <2> QED BY <2>2, <2>3, <2>4, <2>5
<1> QED BY <1>1, <1>2

LEMMA MergeBranchKeeps ==
    ASSUME NEW r, Repos(r), NEW b \in DOMAIN r.br, NEW ids \in SUBSET Tasks
    PROVE  /\ AllWork(r) \subseteq AllWork(MergeBranch(r, b, ids))
           /\ OnMain(MergeBranch(r, b, ids), b)
           /\ ReviewsMerged(r) => ReviewsMerged(MergeBranch(r, b, ids))
<1> DEFINE q == MergeBranch(r, b, ids)
           was == r.br[b]
           new == [was EXCEPT !.ahead = FALSE]
<1>1. was \in [work : SUBSET Tasks, ahead : BOOLEAN]
  BY DEF Repos
<1>2. new.work = was.work
  BY <1>1
<1>3. /\ q.head = Main /\ q.main = r.main \cup was.work /\ q.dirty = r.dirty
      /\ q.br = [r.br EXCEPT ![b] = new]
  BY DEF MergeBranch, Repos
<1> HIDE DEF q, new
<1>4. DOMAIN q.br = DOMAIN r.br /\ \A c \in DOMAIN r.br : q.br[c].work = r.br[c].work
  BY <1>2, <1>3 DEF Repos
<1> HIDE DEF was
<1>5. AllWork(r) \subseteq AllWork(q)
  BY <1>3, <1>4 DEF AllWork
<1>6. OnMain(q, b)
  BY <1>3, <1>4 DEF OnMain, was
<1>7. ReviewsMerged(r) => ReviewsMerged(q)
  BY <1>3, <1>4, ReviewBranches DEF ReviewsMerged, OnMain
<1> QED BY <1>5, <1>6, <1>7 DEF q

\* Inside a review the agent implements no task.
LEMMA AgentWorkKeeps ==
    ASSUME NEW r, Repos(r), NEW b \in Branches, NEW new \in SUBSET Tasks,
           NEW how \in AgentModes \cup ReviewModes
    PROVE  /\ OnMain(r, b) => AllWork(r) \subseteq AllWork(AgentWork(r, b, how, new))
           /\ ReviewsMerged(r) /\ (r.head \in Reviews => new = {})
                 => ReviewsMerged(AgentWork(r, b, how, new))
           /\ how = "stray" => AgentWork(r, b, how, new).head = Stray
<1> DEFINE edited == [r EXCEPT !.dirty = @ \cup new \cup {Scrap}]
           onMain == CommitAll(Checkout(edited, Main))
           Good == ReviewsMerged(r) /\ (r.head \in Reviews => new = {})
<1>1. /\ Repos(edited) /\ edited.head = r.head /\ edited.main = r.main /\ edited.br = r.br
      /\ edited.dirty = r.dirty \cup new \cup {Scrap}
  BY DEF Repos
<1> HIDE DEF edited
<1>2. AllWork(r) \subseteq AllWork(edited) /\ (Good => ReviewsMerged(edited))
  BY <1>1 DEF AllWork, ReviewsMerged, OnMain
<1> HIDE DEF Good
<1>3. /\ Repos(Checkout(edited, Main)) /\ Checkout(edited, Main).head = Main
      /\ Checkout(edited, Main).main = r.main /\ Checkout(edited, Main).br = r.br
  BY <1>1, CheckoutIsRepo DEF Checkout, Repos
<1>4. /\ AllWork(r) \subseteq AllWork(Checkout(edited, Main))
      /\ Good => ReviewsMerged(Checkout(edited, Main))
  BY <1>1, <1>2, CheckoutKeeps, ReviewBranches
<1>5. /\ Repos(onMain) /\ AllWork(r) \subseteq AllWork(onMain)
      /\ Good => ReviewsMerged(onMain)
      /\ OnMain(r, b) => OnMain(onMain, b)
  <2>1. /\ CommitAll(Checkout(edited, Main)).br = r.br
        /\ r.main \subseteq CommitAll(Checkout(edited, Main)).main
    BY <1>3, CommitAllIsRepo DEF CommitAll, Repos
  <2> QED BY <1>3, <1>4, <2>1, CommitAllIsRepo, CommitAllKeeps DEF OnMain
<1>6. /\ AllWork(r) \subseteq AllWork(CommitAll(edited))
      /\ Good => ReviewsMerged(CommitAll(edited))
  BY <1>1, <1>2, CommitAllKeeps
<1> HIDE DEF onMain
<1>7. CASE how \in {"none", "dirty", "commit", "main"}
  BY <1>2, <1>5, <1>6, <1>7 DEF AgentWork, edited, onMain, Good
<1>8. CASE how = "drop"
  <2>1. AgentWork(r, b, how, new) = DeleteBranch(onMain, b)
    BY <1>8 DEF AgentWork, edited, onMain
  <2>2. /\ OnMain(onMain, b) => AllWork(onMain) \subseteq AllWork(DeleteBranch(onMain, b))
        /\ ReviewsMerged(onMain) => ReviewsMerged(DeleteBranch(onMain, b))
    BY <1>5, DeleteBranchKeeps
  <2> QED BY <1>5, <1>8, <2>1, <2>2 DEF Good
<1>9. CASE how = "stray"
  <2> DEFINE q == SetupBranch(edited, Stray, TRUE)
  <2>1. AgentWork(r, b, how, new) = CommitAll(q)
    BY <1>9 DEF AgentWork, edited
  <2>2. Stray \in Branches /\ Stray \notin Reviews /\ TRUE \in BOOLEAN
    BY ReviewBranches, RunBatchConstants
  <2>3. Repos(q) /\ q.head = Stray
    BY <1>1, <2>2, SetupBranchIsRepo
  <2>4. /\ AllWork(edited) \subseteq AllWork(q)
        /\ ReviewsMerged(edited) => ReviewsMerged(q)
    BY <1>1, <2>2, SetupBranchKeeps
  <2>5. /\ CommitAll(q).head = Stray /\ AllWork(q) \subseteq AllWork(CommitAll(q))
        /\ ReviewsMerged(q) => ReviewsMerged(CommitAll(q))
    BY <2>3, CommitAllIsRepo, CommitAllKeeps
  <2> HIDE DEF q
  <2> QED BY <1>2, <1>9, <2>1, <2>4, <2>5 DEF Good
<1> QED BY <1>7, <1>8, <1>9, RunBatchConstants

\* Where a review branch can be checked out.
ReviewPlaces == {"idle", "loop", "main", "reviewing", "reviewed", "file"}

KeptInv ==
    /\ ReviewsMerged(repo)
    /\ repo.head \in Reviews => pc \in ReviewPlaces
    /\ pc \in {"land", "delete", "complete", "review", "reviewing"} => repo.dirty = {}
    /\ pc = "delete" => OnMain(repo, Branch)

Kept ==
    \/ AllWork(repo) \subseteq AllWork(repo')
    \/ pc \in {"idle", "attempt"}
    \/ pc = "branch" /\ ~Reuse

LEMMA KeptInvAt ==
    ASSUME ReviewsMerged(repo'), repo'.head \in Reviews => pc' \in ReviewPlaces,
           pc' \notin {"land", "delete", "complete", "review", "reviewing"}
    PROVE  KeptInv'
BY DEF KeptInv

LEMMA KeptStep ==
    ASSUME TypeInv, KeptInv, [Next]_vars
    PROVE  KeptInv' /\ Kept
<1>t. /\ Repos(repo) /\ ReviewsMerged(repo)
      /\ pc \notin {"idle", "loop"} =>
            id \in Tasks /\ Branch \in Branches /\ Branch \notin Reviews
  BY RunBatchConstants, ReviewBranches DEF TypeInv, TypeOK, ProcessTypeOK, Branch, KeptInv
<1>h. pc \notin ReviewPlaces => repo.head \notin Reviews
  BY DEF KeptInv
<1>k. /\ Repos(CommitAll(repo)) /\ AllWork(repo) \subseteq AllWork(CommitAll(repo))
      /\ ReviewsMerged(CommitAll(repo)) /\ CommitAll(repo).dirty = {}
      /\ CommitAll(repo).head = repo.head /\ DOMAIN CommitAll(repo).br = DOMAIN repo.br
  BY <1>t, CommitAllIsRepo, CommitAllKeeps
<1>e. /\ AllWork(repo) \subseteq AllWork(EnsureOnMain(repo)) /\ Repos(EnsureOnMain(repo))
      /\ ReviewsMerged(EnsureOnMain(repo)) /\ EnsureOnMain(repo).head = Main
  BY <1>t, EnsureOnMainIsRepo, EnsureOnMainKeeps
<1>m. /\ AllWork(repo) \subseteq AllWork(Checkout(CommitAll(repo), Main))
      /\ ReviewsMerged(Checkout(CommitAll(repo), Main))
      /\ Checkout(CommitAll(repo), Main).head = Main
      /\ Checkout(CommitAll(repo), Main).dirty = {}
  BY <1>k, CheckoutKeeps, ReviewBranches DEF Checkout, Repos
<1>n. Main \notin Reviews /\ Stray \notin Reviews
  BY ReviewBranches
\* A step that ends the batch, or leaves the repository alone.
<1>r. ASSUME NEW r, Exit(r) \/ Return(r), ReviewsMerged(repo') PROVE KeptInv'
  <2>1. pc' \in {"idle", "loop"}
    BY <1>r DEF Exit, Return
  <2> QED BY <1>r, <2>1, KeptInvAt DEF ReviewPlaces
<1>u. repo' = repo => Kept
  BY DEF Kept
<1>1. ASSUME NEW c \in {"next", "loop"}, NextBatch(c) PROVE KeptInv' /\ Kept
  <2>1. repo' = repo /\ ((\E r : Exit(r)) \/ pc' = "main")
    BY <1>1 DEF NextBatch, Dispatch, CutShort
  <2> QED BY <1>t, <1>r, <1>u, <2>1, KeptInvAt DEF ReviewPlaces
<1>2. ASSUME NEW t \in Tasks, Retry(t) \/ RunSpecific(t) PROVE KeptInv' /\ Kept
  <2>1. repo' = repo /\ ((\E r : Exit(r)) \/ pc' = "main")
    BY <1>2 DEF Retry, RunSpecific, Dispatch, CutShort
  <2> QED BY <1>t, <1>r, <1>u, <2>1, KeptInvAt DEF ReviewPlaces
<1>3. CASE Resume
  <2>1. repo' = repo /\ ((\E r : Exit(r)) \/ pc' = "main")
    BY <1>3 DEF Resume, Dispatch
  <2> QED BY <1>t, <1>r, <1>u, <2>1, KeptInvAt DEF ReviewPlaces
<1>4. CASE PruneFailed
  <2> DEFINE kept == {c \in DOMAIN repo.br : c = repo.head \/ ~IsBatchBranch(c)}
  <2>1. /\ repo'.br = [b \in kept |-> repo.br[b]] /\ repo'.main = repo.main
        /\ repo'.head = repo.head /\ repo'.dirty = repo.dirty /\ pc = "idle" /\ pc' = pc
    BY <1>4, <1>t DEF PruneFailed, Repos
  <2>2. kept \subseteq DOMAIN repo.br
    OBVIOUS
  <2> HIDE DEF kept
  <2>3. ReviewsMerged(repo')
    BY <1>t, <2>1, <2>2 DEF ReviewsMerged, OnMain
  <2> QED BY <2>1, <2>3, KeptInvAt DEF Kept, ReviewPlaces
<1>5. CASE LeaveLoop
  BY <1>5, <1>t, <1>r, <1>u DEF LeaveLoop
<1>6. CASE EnterMain
  <2>1. CASE repo' = EnsureOnMain(repo) /\ Goto("branch")
    BY <1>e, <1>n, <2>1, KeptInvAt DEF Goto, Kept
  <2>2. CASE repo' = CommitAll(repo) /\ Return("error")
    BY <1>k, <1>r, <2>2 DEF Kept
  <2> QED BY <1>6, <2>1, <2>2 DEF EnterMain
<1>7. CASE EnterBranch
  <2>1. repo.head = Main /\ Reuse \in BOOLEAN /\ Branch # Main
    BY <1>7, <1>t, RunBatchConstants DEF EnterBranch, TypeInv, PlaceOK, Reuse
  <2>2. CASE /\ repo' = SetupBranch(repo, Branch, Reuse)
             /\ pc' \in {"recheck", "save"}
    <3>1. repo'.head = Branch
      BY <1>7, <1>t, <2>1, <2>2, SetupBranchIsRepo DEF EnterBranch
    <3>2. /\ Reuse => AllWork(repo) \subseteq AllWork(repo')
          /\ ReviewsMerged(repo')
      BY <1>7, <1>t, <2>1, <2>2, SetupBranchKeeps DEF EnterBranch
    <3> QED BY <1>7, <1>t, <2>2, <3>1, <3>2, KeptInvAt DEF EnterBranch, Kept
  <2>3. CASE /\ repo' \in {repo, IF Reuse THEN repo ELSE DeleteBranch(repo, Branch)}
             /\ Return("error")
    <3>1. ReviewsMerged(DeleteBranch(repo, Branch))
      BY <1>t, DeleteBranchKeeps
    <3> QED BY <1>7, <1>t, <1>r, <2>3, <3>1 DEF EnterBranch, Kept
  <2> QED BY <1>7, <2>2, <2>3 DEF EnterBranch, Goto
<1>8. CASE Recheck \/ SaveCurrent \/ OpenTrajectory
  <2>1. \/ Exit("crash")
        \/ pc' \in {"merge", "save", "trajectory", "attempt"}
    BY <1>8 DEF Recheck, SaveCurrent, OpenTrajectory, Goto, CutShort
  <2>2. repo' = repo /\ repo.head \notin Reviews
    BY <1>8, <1>h DEF Recheck, SaveCurrent, OpenTrajectory, ReviewPlaces
  <2> QED BY <1>t, <1>r, <1>u, <2>1, <2>2, KeptInvAt
<1>9. CASE Attempt
  <2>1. PICK how \in AgentModes, new \in SUBSET ({id} \cup group) :
            repo' = AgentWork(repo, Branch, how, new)
    BY <1>9 DEF Attempt
  <2>2. new \in SUBSET Tasks /\ repo.head \notin Reviews
    BY <1>9, <1>h, <1>t DEF Attempt, TypeInv, TypeOK, ProcessTypeOK, ReviewPlaces
  <2>3. ReviewsMerged(repo') /\ repo'.head \in {repo.head, Main, Stray}
    <3>1. Branch \in Branches /\ how \in AgentModes \cup ReviewModes
      BY <1>9, <1>t DEF Attempt
    <3>2. how # "stray" => AgentWork(repo, Branch, how, new).head \in {repo.head, Main}
      BY <1>t, <2>2, <3>1, AgentWorkIsRepo
    <3>3. /\ ReviewsMerged(AgentWork(repo, Branch, how, new))
          /\ how = "stray" => AgentWork(repo, Branch, how, new).head = Stray
      BY <1>t, <2>2, <3>1, AgentWorkKeeps
    <3> QED BY <2>1, <3>2, <3>3
  <2>4. pc = "attempt" /\ pc' \in {"merge", "attempt", "abandon"}
    BY <1>9 DEF Attempt, Goto
  <2> QED BY <1>n, <2>2, <2>3, <2>4, KeptInvAt DEF Kept
<1>10. CASE BranchMissing
  <2> DEFINE q == EnsureOnMain(CommitAll(repo))
  <2>1. AllWork(repo) \subseteq AllWork(q) /\ ReviewsMerged(q) /\ q.head = Main
    BY <1>k, EnsureOnMainIsRepo, EnsureOnMainKeeps
  <2>2. repo.head \notin Reviews /\ pc' = "skip"
    BY <1>10, <1>h DEF BranchMissing, Goto, ReviewPlaces
  <2>3. repo' = q \/ repo' = CommitAll(repo)
    BY <1>10 DEF BranchMissing
  <2> HIDE DEF q
  <2> QED BY <1>k, <1>n, <2>1, <2>2, <2>3, KeptInvAt DEF Kept
<1>11. CASE CommitLeftovers
  <2>1. repo.head \notin Reviews
    BY <1>11, <1>h DEF CommitLeftovers, ReviewPlaces
  <2> QED BY <1>11, <1>k, <2>1 DEF CommitLeftovers, Goto, KeptInv, Kept
<1>12. CASE Land
  <2>1. Branch \in DOMAIN repo.br /\ {id} \in SUBSET Tasks /\ repo.dirty = {}
    BY <1>12, <1>t DEF Land, TypeInv, PlaceOK, KeptInv
  <2>2. /\ AllWork(repo) \subseteq AllWork(repo') /\ OnMain(repo', Branch)
        /\ ReviewsMerged(repo') /\ repo'.head = Main /\ repo'.dirty = {}
    BY <1>12, <1>t, <2>1, MergeBranchIsRepo, MergeBranchKeeps DEF Land
  <2> QED BY <1>12, <1>n, <2>2 DEF Land, Goto, KeptInv, Kept, Branch
<1>13. CASE MergeFails
  <2>1. repo.head \notin Reviews /\ pc' = "refuse"
    BY <1>13, <1>h DEF MergeFails, Goto, ReviewPlaces
  <2>2. /\ AllWork(repo) \subseteq AllWork(Checkout(repo, Main))
        /\ ReviewsMerged(Checkout(repo, Main)) /\ Checkout(repo, Main).head = Main
    BY <1>t, <1>n, CheckoutKeeps DEF Checkout, Repos
  <2> QED BY <1>13, <1>n, <1>t, <2>1, <2>2, KeptInvAt DEF MergeFails, Kept
<1>14. CASE DeleteMerged
  <2>1. OnMain(repo, Branch) /\ repo.dirty = {} /\ repo.head = Main
    BY <1>14 DEF DeleteMerged, KeptInv, TypeInv, PlaceOK
  <2>2. /\ AllWork(repo) \subseteq AllWork(repo') /\ ReviewsMerged(repo')
        /\ repo'.dirty = {} /\ repo'.head = Main
    <3>1. repo' = DeleteBranch(repo, Branch)
      BY <1>14 DEF DeleteMerged
    <3>2. repo'.dirty = repo.dirty /\ repo'.head = repo.head
      BY <1>t, <3>1 DEF DeleteBranch, Repos
    <3> QED BY <1>t, <2>1, <3>1, <3>2, DeleteBranchKeeps
  <2> QED BY <1>14, <1>n, <2>2 DEF DeleteMerged, Goto, KeptInv, Kept
<1>15. CASE RecordCompleted
  <2>1. repo' = repo /\ repo.dirty = {} /\ repo.head \notin Reviews
    BY <1>15, <1>h DEF RecordCompleted, KeptInv, ReviewPlaces
  <2>2. Exit("crash") \/ Return("batch_complete") \/ Goto("review")
    BY <1>15 DEF RecordCompleted, Record, CutShort
  <2>3. CASE Goto("review")
    BY <1>t, <2>1, <2>3 DEF Goto, KeptInv, Kept
  <2> QED BY <1>r, <1>t, <1>u, <2>1, <2>2, <2>3
<1>16. CASE RecordRefused \/ RecordSkipped \/ RecordFailed
  <2>1. repo' = repo /\ (Exit("crash") \/ Return("error") \/ Return("batch_failed"))
    BY <1>16 DEF RecordRefused, RecordSkipped, RecordFailed, Record, CutShort
  <2> QED BY <1>r, <1>t, <1>u, <2>1
<1>17. CASE Abandon
  <2>1. repo.head \notin Reviews /\ pc' = "fail"
    BY <1>17, <1>h DEF Abandon, Goto, ReviewPlaces
  <2> QED BY <1>17, <1>k, <1>m, <1>n, <2>1, KeptInvAt DEF Abandon, Kept
<1>18. CASE NoReview
  BY <1>18, <1>r, <1>t, <1>u DEF NoReview
<1>s. Subtree[id] \in Reviewable => Review \in Branches /\ Review \in Reviews
  BY ReviewBranches DEF Review, Reviews
<1>19. CASE EnterReview
  <2> DEFINE r == EnsureOnMain(repo)
  <2>1. Review \in Branches /\ Review \in Reviews /\ repo.dirty = {}
    BY <1>19, <1>s DEF EnterReview, IsSubtreeJustCompleted, KeptInv
  <2>2. r.dirty = {} /\ r.head = Main /\ r.head # Review /\ OnMain(r, Review)
    BY <1>e, <1>m, <1>n, <2>1 DEF EnsureOnMain, ReviewsMerged
  <2>3. CASE UNCHANGED repo /\ Goto("file")
    BY <1>t, <1>u, <2>3, KeptInvAt DEF Goto, ReviewPlaces
  <2>4. CASE repo' = SetupBranch(r, Review, FALSE) /\ Goto("reviewing")
    <3>1. AllWork(r) \subseteq AllWork(repo') /\ ReviewsMerged(repo')
      BY <1>e, <2>1, <2>2, <2>4, SetupBranchKeeps
    <3>2. repo'.dirty = {}
      <4>1. repo' = CreateBranch(DeleteBranch(r, Review), Review)
        BY <2>4 DEF SetupBranch
      <4>2. Repos(DeleteBranch(r, Review)) /\ DeleteBranch(r, Review).dirty = {}
        BY <1>e, <2>2, DeleteBranchIsRepo DEF DeleteBranch, Repos
      <4> QED BY <4>1, <4>2 DEF CreateBranch, Repos
    <3> QED BY <1>e, <2>4, <3>1, <3>2 DEF Goto, KeptInv, Kept, ReviewPlaces
  <2>5. CASE repo' = DeleteBranch(r, Review) /\ Goto("reviewing")
    <3>1. AllWork(r) \subseteq AllWork(repo') /\ ReviewsMerged(repo')
      BY <1>e, <2>2, <2>5, DeleteBranchKeeps
    <3>2. repo'.dirty = {}
      BY <1>e, <2>2, <2>5 DEF DeleteBranch, Repos
    <3> QED BY <1>e, <2>5, <3>1, <3>2 DEF Goto, KeptInv, Kept, ReviewPlaces
  <2> QED BY <1>19, <2>3, <2>4, <2>5 DEF EnterReview
<1>20. CASE ReviewWork
  <2>1. PICK how \in ReviewModes : repo' = AgentWork(repo, Review, how, {})
    BY <1>20 DEF ReviewWork
  <2>2. Review \in Branches /\ OnMain(repo, Review)
    BY <1>20, <1>s, <1>t DEF ReviewWork, TypeInv, PlaceOK, ReviewsMerged
  <2>3. AllWork(repo) \subseteq AllWork(repo') /\ ReviewsMerged(repo')
    BY <1>t, <2>1, <2>2, AgentWorkKeeps
  <2> QED BY <1>20, <2>3, KeptInvAt DEF ReviewWork, Goto, Kept, ReviewPlaces
<1>21. CASE FinishReview
  <2> DEFINE r == CommitAll(repo)
             q == MergeBranch(r, Review, {})
  <2>1. ASSUME Review \in DOMAIN repo.br, repo' = DeleteBranch(q, Review)
        PROVE  AllWork(repo) \subseteq AllWork(repo') /\ ReviewsMerged(repo')
    <3>1. /\ Repos(q) /\ AllWork(r) \subseteq AllWork(q) /\ OnMain(q, Review)
          /\ ReviewsMerged(q)
      BY <1>k, <2>1, MergeBranchIsRepo, MergeBranchKeeps
    <3>2. AllWork(q) \subseteq AllWork(repo') /\ ReviewsMerged(repo')
      BY <2>1, <3>1, DeleteBranchKeeps
    <3> QED BY <1>k, <3>1, <3>2
  <2>2. AllWork(repo) \subseteq AllWork(repo') /\ ReviewsMerged(repo')
    BY <1>21, <1>k, <1>m, <2>1 DEF FinishReview
  <2> QED BY <1>21, <2>2, KeptInvAt DEF FinishReview, Goto, Kept, ReviewPlaces
<1>22. CASE RecordReview
  <2>1. repo' = repo /\ (Exit("crash") \/ Return("batch_complete"))
    BY <1>22 DEF RecordReview, CutShort
  <2> QED BY <1>r, <1>t, <1>u, <2>1
<1>23. CASE Crash
  BY <1>23, <1>r, <1>t, <1>u DEF Crash
<1>24. CASE UNCHANGED vars
  BY <1>24, <1>u DEF vars, KeptInv, Branch
<1> QED BY <1>1, <1>2, <1>3, <1>4, <1>5, <1>6, <1>7, <1>8, <1>9, <1>10, <1>11,
           <1>12, <1>13, <1>14, <1>15, <1>16, <1>17, <1>18, <1>19, <1>20,
           <1>21, <1>22, <1>23, <1>24 DEF Next, Invocation, Step

\* Under every fault, every agent, every way of cutting a save and every kind of
\* invocation: no step of the orchestrator makes an implementation unreachable,
\* except the recreation of the stale branch of a batch that starts over.
THEOREM ImplementationsAreKept == Spec => WorkIsKept
<1>1. Init => KeptInv
  BY ReviewBranches DEF Init, KeptInv, EmptyRepo, ReviewsMerged, OnMain
<1>2. TypeInv /\ KeptInv /\ [Next]_vars => KeptInv' /\ Kept
  BY KeptStep
<1>3. Spec => [][Kept]_vars
  <2>1. TypeInv /\ KeptInv /\ [Next]_vars => [Kept]_vars
    BY <1>2
  <2> QED BY InitIsTyped, TypeInvIsInductive, <1>1, <1>2, <2>1, PTL DEF Spec
<1> QED BY <1>3 DEF Kept, WorkIsKept

-----------------------------------------------------------------------------
(* Batches and the state file, when saves are whole.  What one scan of the *)
(* picker does to a batch that was interrupted, and what batch it makes.   *)

\* ids can have been merged with t: t is the first of them in the list.
FirstOf(t, ids) ==
    ids # {} =>
        /\ Implementation(t)
        /\ \A u \in ids : \E i, j \in DOMAIN TaskOrder :
              TaskOrder[i] = t /\ TaskOrder[j] = u /\ i <= j

\* The merged ids of a saved batch are open as long as its own task is.
BatchIsOpen(s) ==
    s.merged # {} =>
        /\ s.current \in Tasks /\ FirstOf(s.current, s.merged)
        /\ \/ s.current \in s.completed
           \/ s.current \notin s.failed /\ s.merged \cap s.completed = {}

\* Every implementation task before position i is settled or about to be
\* recovered.
NoneLeftBefore(s, marks, i) ==
    \A k \in DOMAIN TaskOrder :
        k < i /\ Implementation(TaskOrder[k]) /\ Open(s, k) => TaskOrder[k] \in marks

LEMMA ScanFields ==
    ASSUME NEW s \in States, NEW marks
    PROVE  LET q == AfterScan(s, marks)
           IN  /\ q.completed = s.completed \cup
                     {TaskOrder[i] : i \in {k \in Scanned(s, marks) : Recovered(s, marks, k)}}
               /\ q.failed = s.failed \cup
                     {TaskOrder[i] : i \in {k \in Scanned(s, marks) : Doomed(s, marks, k)}}
               /\ q.merged = s.merged /\ q.current = s.current
<1> DEFINE done == {TaskOrder[i] : i \in {k \in Scanned(s, marks) : Recovered(s, marks, k)}}
           lost == {TaskOrder[i] : i \in {k \in Scanned(s, marks) : Doomed(s, marks, k)}}
<1> HIDE DEF done, lost
<1>1. AfterScan(s, marks) = [s EXCEPT !.completed = @ \cup done, !.failed = @ \cup lost]
  BY DEF AfterScan, done, lost
<1>2. /\ AfterScan(s, marks).completed = s.completed \cup done
      /\ AfterScan(s, marks).failed = s.failed \cup lost
      /\ AfterScan(s, marks).merged = s.merged /\ AfterScan(s, marks).current = s.current
  BY <1>1 DEF States
<1> QED BY <1>2 DEF done, lost

\* The scan stops at an open implementation task without a marker.
LEMMA ScanStops ==
    ASSUME NEW s, NEW marks, NEW i \in DOMAIN TaskOrder,
           Implementation(TaskOrder[i]), Open(s, i), TaskOrder[i] \notin marks
    PROVE  i \in RunnableAt(s, marks) /\ \A k \in Scanned(s, marks) : k < i
<1>1. ~Integration(TaskOrder[i])
  BY DEF Implementation, Integration
<1>2. i \in RunnableAt(s, marks)
  BY <1>1 DEF RunnableAt, Runnable, Recovered, Deferred, Doomed
<1> QED BY <1>2 DEF Scanned

LEMMA ScanKeepsBatchOpen ==
    ASSUME NEW s \in States, NEW marks \in SUBSET Tasks, BatchIsOpen(s)
    PROVE  BatchIsOpen(AfterScan(s, marks))
<1> DEFINE q == AfterScan(s, marks)
           done == {TaskOrder[i] : i \in {k \in Scanned(s, marks) : Recovered(s, marks, k)}}
           lost == {TaskOrder[i] : i \in {k \in Scanned(s, marks) : Doomed(s, marks, k)}}
           t == s.current
<1>1. /\ q.completed = s.completed \cup done /\ q.failed = s.failed \cup lost
      /\ q.merged = s.merged /\ q.current = t
  BY ScanFields
<1>2. SUFFICES ASSUME s.merged # {}, t \notin s.completed \cup done
               PROVE  t \notin q.failed /\ s.merged \cap q.completed = {}
  <2> HIDE DEF done, lost, t
  <2> QED BY <1>1 DEF BatchIsOpen, t
<1>3. /\ t \in Tasks /\ FirstOf(t, s.merged)
      /\ t \notin s.failed /\ s.merged \cap s.completed = {}
  BY <1>2 DEF BatchIsOpen
<1>4. t \notin lost
  BY <1>2, <1>3 DEF FirstOf, Doomed, Implementation, Integration
<1>5. ASSUME NEW u \in s.merged, u \in done PROVE FALSE
  <2>1. PICK k \in Scanned(s, marks) : Recovered(s, marks, k) /\ TaskOrder[k] = u
    BY <1>5
  <2>2. PICK i, j \in DOMAIN TaskOrder : TaskOrder[i] = t /\ TaskOrder[j] = u /\ i <= j
    BY <1>2, <1>3 DEF FirstOf
  <2>3. k = j /\ k \in DOMAIN TaskOrder /\ i \in Nat /\ k \in Nat
    BY <2>1, <2>2, Positions, TaskPickerConstants DEF Scanned
  <2>4. Open(s, i) /\ Implementation(TaskOrder[i])
    BY <1>2, <1>3, <2>2 DEF Open, Settled, FirstOf
  <2>5. CASE t \in marks
    <3>1. i \in Scanned(s, marks)
      <4>1. \A j2 \in RunnableAt(s, marks) : j2 \in Nat /\ k < j2
        BY <2>1, Positions DEF Scanned, RunnableAt
      <4>2. \A j2 \in RunnableAt(s, marks) : i < j2
        BY <2>2, <2>3, <4>1
      <4> QED BY <2>2, <4>2 DEF Scanned
    <3>2. Recovered(s, marks, i)
      BY <2>2, <2>4, <2>5 DEF Recovered
    <3> QED BY <1>2, <2>2, <3>1, <3>2
  <2>6. CASE t \notin marks
    <3>1. k < i
      BY <2>1, <2>2, <2>4, <2>6, ScanStops
    <3> QED BY <2>2, <2>3, <3>1
  <2> QED BY <2>5, <2>6
<1> HIDE DEF q, done, lost, t
<1> QED BY <1>1, <1>3, <1>4, <1>5

\* The batch that --next makes of the task it picked.
LEMMA PickedBatch ==
    ASSUME NEW s \in States, NEW marks \in SUBSET Tasks, Pick(s, marks) # NoBatch,
           NEW ids, ids # {} => /\ ids = MergedGroup(AfterScan(s, marks), Pick(s, marks))
                                /\ Cardinality(ids) > 1
    PROVE  LET q == AfterScan(s, marks)
               t == Pick(s, marks)
           IN  /\ \A u \in {t} \cup ids : ~Settled(q, u)
               /\ \A u \in ids : Implementation(u)
               /\ FirstOf(t, ids) /\ t \notin marks
               /\ \A i \in DOMAIN TaskOrder :
                     TaskOrder[i] = t => NoneLeftBefore(s, marks, i)
<1> DEFINE q == AfterScan(s, marks)
           t == Pick(s, marks)
           done == {TaskOrder[i] : i \in {k \in Scanned(s, marks) : Recovered(s, marks, k)}}
           lost == {TaskOrder[i] : i \in {k \in Scanned(s, marks) : Doomed(s, marks, k)}}
           open == RunnableAt(s, marks)
<1>1. /\ q.completed = s.completed \cup done /\ q.failed = s.failed \cup lost
  BY ScanFields
<1>2. PICK p \in open : t = TaskOrder[p] /\ \A j \in open : p <= j
  <2>1. open # {}
    BY DEF Pick
  <2>2. open \in SUBSET Nat
    BY Positions DEF RunnableAt
  <2>3. \E i \in open : \A j \in open : i <= j
    BY <2>1, <2>2, HasMinimum
  <2>4. t = TaskOrder[CHOOSE i \in open : \A j \in open : i <= j]
    BY <2>1 DEF Pick
  <2> HIDE DEF open, t
  <2> QED BY <2>3, <2>4
<1>3. p \in DOMAIN TaskOrder /\ p \in Nat /\ Runnable(s, marks, p)
  BY <1>2, Positions DEF RunnableAt
<1>4. t \notin marks /\ Open(s, p)
  BY <1>2, <1>3 DEF Runnable, Recovered
<1>5. t \notin done /\ t \notin lost
  <2>1. t \notin done
    BY <1>4 DEF Recovered
  <2>2. ASSUME NEW k \in Scanned(s, marks), Doomed(s, marks, k), TaskOrder[k] = t PROVE FALSE
    <3>1. k = p
      BY <1>2, <1>3, <2>2, TaskPickerConstants DEF Scanned
    <3> QED BY <1>3, <2>2, <3>1 DEF Runnable
  <2> QED BY <2>1, <2>2
<1>6. ~Settled(q, t)
  <2> HIDE DEF q, t, done, lost
  <2>1. ~Settled(s, t)
    BY <1>2, <1>4 DEF Open
  <2> QED BY <1>1, <1>5, <2>1 DEF Settled
<1>7. ASSUME NEW k \in DOMAIN TaskOrder, k < p, Implementation(TaskOrder[k]), Open(s, k)
      PROVE  TaskOrder[k] \in marks /\ TaskOrder[k] \in done
  <2>1. k \in Nat
    BY Positions
  <2>2. TaskOrder[k] \in marks
    <3>1. SUFFICES ASSUME TaskOrder[k] \notin marks PROVE FALSE
      OBVIOUS
    <3>2. k \in open
      BY <1>7, <3>1, ScanStops
    <3> QED BY <1>2, <1>3, <1>7, <2>1, <3>2
  <2>3. k \in Scanned(s, marks)
    <3>1. \A j \in open : j \in Nat /\ p <= j
      BY <1>2, Positions DEF RunnableAt
    <3>2. \A j \in open : k < j
      BY <1>3, <1>7, <2>1, <3>1
    <3> QED BY <3>2 DEF Scanned
  <2>4. Recovered(s, marks, k)
    BY <1>7, <2>2 DEF Recovered
  <2> QED BY <2>2, <2>3, <2>4
<1>8. \A i \in DOMAIN TaskOrder : TaskOrder[i] = t => NoneLeftBefore(s, marks, i)
  <2> SUFFICES ASSUME NEW i \in DOMAIN TaskOrder, TaskOrder[i] = t
               PROVE  NoneLeftBefore(s, marks, i)
    OBVIOUS
  <2>1. i = p
    BY <1>2, <1>3, TaskPickerConstants
  <2> QED BY <1>7, <2>1 DEF NoneLeftBefore
<1>9. ASSUME NEW u \in ids PROVE /\ Implementation(t) /\ Implementation(u) /\ ~Settled(q, u)
                                 /\ \E j \in DOMAIN TaskOrder : TaskOrder[j] = u /\ p <= j
  <2>1. ids = MergedGroup(q, t) /\ Cardinality(ids) > 1
    BY <1>9
  <2>2. ids # {t}
    <3>1. Cardinality({t}) = 1
      BY FS_Singleton
    <3> QED BY <2>1, <3>1
  <2>3. Implementation(t) /\ u \in {TaskOrder[i] : i \in {k \in SameFile(q, t) : Fits(q, t, k)}}
    BY <1>9, <2>1, <2>2 DEF MergedGroup
  <2>4. PICK j \in SameFile(q, t) : u = TaskOrder[j]
    BY <2>3
  <2>5. j \in DOMAIN TaskOrder /\ Open(q, j) /\ Implementation(u) /\ j \in Nat
    BY <2>4, Positions DEF SameFile
  <2>6. ~(j < p)
    <3>1. SUFFICES ASSUME j < p PROVE FALSE
      OBVIOUS
    <3>2. TaskOrder[j] \notin s.completed \cup done /\ Open(s, j)
      <4> HIDE DEF q, done, lost
      <4> QED BY <1>1, <2>5 DEF Open, Settled
    <3> QED BY <1>7, <2>4, <2>5, <3>1, <3>2
  <2>7. ~Settled(q, u) /\ p <= j
    BY <1>3, <2>4, <2>5, <2>6 DEF Open
  <2> QED BY <2>3, <2>4, <2>5, <2>7
<1>10. FirstOf(t, ids)
  <2> HIDE DEF q, t
  <2> QED BY <1>2, <1>3, <1>9 DEF FirstOf
<1> HIDE DEF q, t
<1> QED BY <1>4, <1>6, <1>8, <1>9, <1>10 DEF q, t

\* Where the outcome of a batch is still to be recorded; before it has landed.
Undecided == Locations \ {"idle", "loop", "review", "reviewing", "reviewed", "file"}
Unlanded == Undecided \ {"delete", "complete"}

Loaded == {"main", "branch", "recheck", "save", "trajectory"}

\* The state file names the batch under way.
Named ==
    \/ pc \in Undecided \ {"main", "branch", "save"}
    \/ cmd = "resume" /\ pc \in {"main", "branch"}

BatchInv ==
    /\ tail = "clean" /\ BatchIsOpen(disk)
    /\ pc \in Loaded => mem.completed = disk.completed /\ mem.failed = disk.failed
    /\ pc = "trajectory" => mem.current = id /\ mem.merged = group
    /\ Named => disk.current = id /\ disk.merged = group
    /\ pc = "recheck" => cmd = "resume"
    /\ pc \in Undecided => /\ ({id} \cup group) \cap disk.completed = {}
                           /\ FirstOf(id, group)
                           /\ group # {} => id \notin disk.failed
    /\ pc \in {"review", "reviewing", "reviewed", "file"} =>
          {id} \cup group \subseteq disk.completed

LEMMA InitHasNoBatch == Init => BatchInv
BY DEF Init, BatchInv, Store!Init, FreshState, BatchIsOpen, Loaded, Named, Undecided

\* A save that is whole.
LEMMA WholeSave ==
    ASSUME WholeSaves, TypeInv, tail = "clean", NEW s \in States
    PROVE  /\ Store!Save(s) => disk' = s
           /\ Store!TornSave(s) => UNCHANGED store
<1>1. Store!TypeOK
  BY DEF TypeInv, TypeOK
<1> QED BY <1>1, SaveWrites, TornSaveWrites DEF WholeSaves

\* What is recorded as the outcome of the batch the state names.
LEMMA RecordedOutcome ==
    ASSUME NEW s \in States, NEW t \in Tasks, s.current = t
    PROVE  /\ CompleteBatch(s, t, TRUE).completed = s.completed \cup {t} \cup s.merged
           /\ CompleteBatch(s, t, TRUE).failed = s.failed
           /\ CompleteBatch(s, t, FALSE).completed = s.completed
           /\ CompleteBatch(s, t, FALSE).failed = s.failed \cup {t} \cup s.merged
           /\ \A ok \in BOOLEAN : CompleteBatch(s, t, ok).merged = {}
           /\ SkipBatch(s, t).completed = s.completed
           /\ SkipBatch(s, t).failed \in {s.failed, s.failed \cup {t}}
           /\ SkipBatch(s, t).merged = {}
<1> DEFINE ids == {t} \cup s.merged
<1> HIDE DEF ids
<1>1. CompleteBatch(s, t, TRUE) =
         [s EXCEPT !.current = NoBatch, !.merged = {}, !.completed = @ \cup ids]
  BY DEF CompleteBatch, CompleteCurrent, NoCurrent, States, ids
<1>2. CompleteBatch(s, t, FALSE) =
         [s EXCEPT !.current = NoBatch, !.merged = {}, !.failed = @ \cup ids]
  BY DEF CompleteBatch, CompleteCurrent, NoCurrent, States, ids
<1>3. /\ CompleteBatch(s, t, TRUE).completed = s.completed \cup ids
      /\ CompleteBatch(s, t, TRUE).failed = s.failed
      /\ CompleteBatch(s, t, TRUE).merged = {}
  BY <1>1 DEF States
<1>4. /\ CompleteBatch(s, t, FALSE).completed = s.completed
      /\ CompleteBatch(s, t, FALSE).failed = s.failed \cup ids
      /\ CompleteBatch(s, t, FALSE).merged = {}
  BY <1>2 DEF States
<1>5. /\ SkipBatch(s, t).completed = s.completed
      /\ SkipBatch(s, t).failed \in {s.failed, s.failed \cup {t}}
      /\ SkipBatch(s, t).merged = {}
  BY DEF SkipBatch, NoCurrent, States
<1>6. \A ok \in BOOLEAN : CompleteBatch(s, t, ok).merged = {}
  BY <1>3, <1>4
<1> QED BY <1>3, <1>4, <1>5, <1>6 DEF ids

\* The process ended, or the loop goes on.
LEMMA BatchEnds ==
    ASSUME tail' = "clean", BatchIsOpen(disk'), NEW r, Exit(r) \/ Return(r)
    PROVE  BatchInv'
BY DEF Exit, Return, BatchInv, Loaded, Named, Undecided

\* A step of the batch that leaves the state file and the memory alone.
LEMMA BatchGoesOn ==
    ASSUME BatchInv, UNCHANGED <<store, mem, group, id, cmd>>,
           pc' \in Undecided => pc \in Undecided, Named' => Named,
           pc' \in Loaded => pc \in Loaded,
           pc' \notin {"trajectory", "recheck", "review"},
           pc' \in {"reviewing", "reviewed", "file"} => pc \in {"review", "reviewing", "reviewed"}
    PROVE  BatchInv'
BY DEF BatchInv, store

\* The record of an outcome that leaves no merged ids behind.
LEMMA BatchRecorded ==
    ASSUME WholeSaves, TypeInv, BatchInv, NEW s \in States, s.merged = {},
           pc \in Undecided \ Loaded, id \in Tasks,
           Record(s, (\E r : Return(r)) \/ (Goto("review") /\ {id} \cup group \subseteq s.completed))
    PROVE  BatchInv' /\ (disk' = s \/ (disk' = disk /\ Exit("crash")))
<1>1. disk.current = id /\ tail = "clean" /\ BatchIsOpen(disk)
  BY DEF BatchInv, Named, Loaded
<1> DEFINE After == (\E r : Return(r)) \/ (Goto("review") /\ {id} \cup group \subseteq s.completed)
<1>2. (Store!Save(s) /\ After) \/ (Store!TornSave(s) /\ Exit("crash"))
  <2> HIDE DEF After
  <2>1. Record(s, After)
    BY DEF After
  <2> QED BY <1>1, <2>1 DEF Record, CutShort
<1>3. BatchIsOpen(s)
  BY DEF BatchIsOpen
<1>4. CASE Store!TornSave(s) /\ Exit("crash")
  <2>1. disk' = disk /\ tail' = "clean"
    BY <1>1, <1>4, WholeSave DEF store
  <2> QED BY <1>1, <1>4, <2>1, BatchEnds
<1>5. CASE Store!Save(s) /\ After
  <2>1. disk' = s /\ tail' = "clean"
    BY <1>1, <1>5, WholeSave DEF Store!Save
  <2>2. CASE \E r : Return(r)
    BY <1>3, <2>1, <2>2, BatchEnds
  <2>3. CASE Goto("review") /\ {id} \cup group \subseteq s.completed
    BY <1>3, <2>1, <2>3 DEF Goto, BatchInv, Loaded, Named, Undecided
  <2> QED BY <1>5, <2>1, <2>2, <2>3
<1> QED BY <1>2, <1>4, <1>5

LEMMA BatchInvIsInductive ==
    ASSUME WholeSaves, TypeInv, BatchInv, [Next]_vars
    PROVE  BatchInv'
<1>t. /\ disk \in States /\ mem \in States /\ repo.marks \in SUBSET Tasks
      /\ group \subseteq Tasks /\ (pc \notin {"idle", "loop"} => id \in Tasks)
  BY DEF TypeInv, TypeOK, ProcessTypeOK, Store!TypeOK, Repos
<1>c. tail = "clean" /\ tail' = "clean" /\ BatchIsOpen(disk)
  BY TailStaysClean DEF BatchInv
<1>e. ASSUME NEW r, Exit(r) \/ Return(r), disk' = disk \/ BatchIsOpen(disk')
      PROVE  BatchInv'
  <2>1. BatchIsOpen(disk')
    BY <1>c, <1>e
  <2> QED BY <1>c, <1>e, <2>1, BatchEnds
<1>1. ASSUME NEW c \in {"next", "loop"}, NextBatch(c) PROVE BatchInv'
  <2> DEFINE s == AfterScan(disk, repo.marks)
             t == Pick(disk, repo.marks)
             ids == MergedGroup(s, t)
             many == IF MergeFile /\ Cardinality(ids) > 1 THEN ids ELSE {}
  <2>1. s \in States /\ BatchIsOpen(s)
    BY <1>t, <1>c, AfterScanIsState, ScanKeepsBatchOpen
  <2>2. many # {} => many = MergedGroup(s, t) /\ Cardinality(many) > 1
    OBVIOUS
  <2>3. t # NoBatch => (\A u \in {t} \cup many : ~Settled(s, u)) /\ FirstOf(t, many)
    <3> HIDE DEF many
    <3> QED BY <1>t, <2>2, PickedBatch
  <2>4. \/ /\ (s = disk /\ UNCHANGED store) \/ Store!Save(s)
           /\ Exit("complete") \/ (t # NoBatch /\ Dispatch(c, t, many, s))
        \/ Store!TornSave(s) /\ Exit("crash")
    BY <1>1 DEF NextBatch, CutShort
  <2> HIDE DEF s, t, many
  <2>5. disk' = s \/ (disk' = disk /\ Exit("crash"))
    BY <1>c, <2>1, <2>4, WholeSave DEF store
  <2>6. CASE t # NoBatch /\ Dispatch(c, t, many, s) /\ disk' = s
    BY <1>c, <2>1, <2>3, <2>6
       DEF Dispatch, BatchInv, Loaded, Named, Undecided, Settled
  <2>7. CASE \E r : Exit(r)
    BY <1>e, <2>1, <2>5, <2>7
  <2> QED BY <2>4, <2>5, <2>6, <2>7
<1>2. ASSUME NEW t \in Tasks, Retry(t) PROVE BatchInv'
  <2> DEFINE s == ClearFailed(disk, t)
  <2>1. /\ s \in States /\ s.completed = disk.completed /\ s.failed = disk.failed \ {t}
        /\ s.merged = disk.merged /\ s.current = disk.current
    BY <1>t DEF ClearFailed, States
  <2>2. \/ /\ (s = disk /\ UNCHANGED store) \/ Store!Save(s)
           /\ Exit("error") \/ (t \notin s.completed /\ Dispatch("retry", t, {}, s))
        \/ Store!TornSave(s) /\ Exit("crash")
    BY <1>2 DEF Retry, CutShort
  <2> HIDE DEF s
  <2>3. BatchIsOpen(s)
    BY <1>c, <2>1 DEF BatchIsOpen
  <2>4. disk' = s \/ (disk' = disk /\ Exit("crash"))
    BY <1>c, <2>1, <2>2, WholeSave DEF store
  <2>5. CASE t \notin s.completed /\ Dispatch("retry", t, {}, s) /\ disk' = s
    BY <1>c, <2>3, <2>5 DEF Dispatch, BatchInv, Loaded, Named, Undecided, FirstOf
  <2>6. CASE \E r : Exit(r)
    BY <1>e, <2>3, <2>4, <2>6
  <2> QED BY <2>2, <2>4, <2>5, <2>6
<1>3. ASSUME NEW t \in Tasks, RunSpecific(t) PROVE BatchInv'
  <2>1. disk' = disk
    BY <1>3 DEF RunSpecific, store
  <2>2. CASE t \notin disk.completed /\ Dispatch("batch-id", t, {}, disk)
    BY <1>c, <2>1, <2>2 DEF Dispatch, BatchInv, Loaded, Named, Undecided, FirstOf
  <2> QED BY <1>3, <1>e, <2>1, <2>2 DEF RunSpecific
<1>4. CASE Resume
  <2>1. disk' = disk
    BY <1>4 DEF Resume, store
  <2>2. CASE /\ disk.current # NoBatch /\ disk.current \notin disk.completed
             /\ Dispatch("resume", disk.current, disk.merged, disk)
    <3>1. /\ ({disk.current} \cup disk.merged) \cap disk.completed = {}
          /\ FirstOf(disk.current, disk.merged)
          /\ disk.merged # {} => disk.current \notin disk.failed
      BY <1>c, <2>2 DEF BatchIsOpen, FirstOf
    <3> QED BY <1>c, <2>1, <2>2, <3>1 DEF Dispatch, BatchInv, Loaded, Named, Undecided
  <2> QED BY <1>4, <1>e, <2>1, <2>2 DEF Resume
<1>5. CASE PruneFailed
  BY <1>5 DEF PruneFailed, BatchInv, Named, store
<1>6. CASE LeaveLoop \/ Crash \/ NoReview
  <2>1. disk' = disk /\ \E r : Exit(r) \/ Return(r)
    BY <1>6 DEF LeaveLoop, Crash, NoReview, store
  <2> QED BY <1>e, <2>1
<1>7. CASE EnterMain \/ Recheck
  <2>1. CASE Return("error")
    BY <1>7, <1>e, <2>1 DEF EnterMain, Recheck, store
  <2>2. CASE Goto("branch") \/ Goto("save") \/ Goto("merge")
    <3>1. UNCHANGED <<store, mem, group, id, cmd>> /\ pc \in {"main", "recheck"}
          /\ (pc = "main" => pc' = "branch") /\ (pc = "recheck" => pc' \in {"save", "merge"})
      BY <1>7, <2>2 DEF EnterMain, Recheck, Goto, Return, Exit
    <3>2. pc' \in Undecided /\ pc \in Undecided /\ pc \in Loaded
      BY <3>1 DEF Undecided, Loaded, Locations
    <3>3. Named' => Named
      BY <3>1 DEF Named, Undecided, Locations
    <3> QED BY <3>1, <3>2, <3>3, BatchGoesOn
  <2> QED BY <1>7, <2>1, <2>2 DEF EnterMain, Recheck
<1>8. CASE EnterBranch
  <2>1. CASE Return("error")
    BY <1>8, <1>e, <2>1 DEF EnterBranch, store
  <2>2. CASE Goto(IF cmd = "resume" THEN "recheck" ELSE "save")
    BY <1>8, <1>c, <2>2 DEF EnterBranch, Goto, BatchInv, Loaded, Named, Undecided,
       Locations, store
  <2> QED BY <1>8, <2>1, <2>2 DEF EnterBranch
<1>9. CASE Attempt \/ BranchMissing \/ CommitLeftovers \/ Land \/ MergeFails
           \/ DeleteMerged \/ Abandon
  <2>1. /\ UNCHANGED <<store, mem, group, id, cmd>>
        /\ pc \in {"attempt", "merge", "land", "delete", "abandon"}
        /\ pc' \in {"attempt", "merge", "abandon", "skip", "land", "delete",
                    "refuse", "complete", "fail"}
    BY <1>9 DEF Attempt, BranchMissing, CommitLeftovers, Land, MergeFails,
          DeleteMerged, Abandon, Goto
  <2>2. pc \in Undecided /\ Named /\ pc' \notin Loaded
    BY <2>1 DEF Undecided, Named, Loaded, Locations
  <2> QED BY <2>1, <2>2, BatchGoesOn
<1>10. CASE EnterReview \/ ReviewWork \/ FinishReview
  <2>1. /\ UNCHANGED <<store, mem, group, id, cmd>>
        /\ pc \in {"review", "reviewing", "reviewed"}
        /\ pc' \in {"file", "reviewing", "reviewed"}
    BY <1>10 DEF EnterReview, ReviewWork, FinishReview, Goto
  <2>2. pc' \notin Undecided /\ ~Named' /\ pc' \notin Loaded
    BY <2>1 DEF Undecided, Named, Loaded
  <2> QED BY <2>1, <2>2, BatchGoesOn
<1>11. CASE SaveCurrent
  <2> DEFINE s == SetCurrent(mem, id, group)
  <2>1. /\ s \in States /\ s.completed = mem.completed /\ s.failed = mem.failed
        /\ s.current = id /\ s.merged = group
    BY <1>11, <1>t DEF SetCurrent, States, SaveCurrent
  <2>2. /\ mem.completed = disk.completed /\ mem.failed = disk.failed /\ id \in Tasks
        /\ ({id} \cup group) \cap disk.completed = {} /\ FirstOf(id, group)
        /\ group # {} => id \notin disk.failed
    BY <1>11, <1>t DEF SaveCurrent, BatchInv, Undecided, Locations, Loaded
  <2>3. \/ /\ Store!Save(s) /\ mem' = s /\ pc' = "trajectory"
           /\ UNCHANGED <<cmd, id, group>>
        \/ Store!TornSave(s) /\ Exit("crash")
    BY <1>11 DEF SaveCurrent, CutShort
  <2> HIDE DEF s
  <2>4. BatchIsOpen(s)
    BY <2>1, <2>2 DEF BatchIsOpen
  <2>5. CASE Store!Save(s) /\ mem' = s /\ pc' = "trajectory" /\ UNCHANGED <<cmd, id, group>>
    <3>1. disk' = s
      BY <1>c, <2>1, <2>5, WholeSave
    <3> QED BY <1>c, <2>1, <2>2, <2>4, <2>5, <3>1 DEF BatchInv, Loaded, Named, Undecided
  <2>6. CASE Store!TornSave(s) /\ Exit("crash")
    <3>1. disk' = disk
      BY <1>c, <2>1, <2>6, WholeSave DEF store
    <3> QED BY <1>e, <2>6, <3>1
  <2> QED BY <2>3, <2>5, <2>6
<1>12. CASE OpenTrajectory
  <2>1. /\ mem.completed = disk.completed /\ mem.failed = disk.failed /\ id \in Tasks
        /\ ({id} \cup group) \cap disk.completed = {} /\ FirstOf(id, group)
        /\ group # {} => id \notin disk.failed
        /\ mem.current = id /\ mem.merged = group
        /\ disk.current = id /\ disk.merged = group
    BY <1>12, <1>t DEF OpenTrajectory, BatchInv, Undecided, Locations, Loaded, Named
  <2>2. CASE /\ UNCHANGED store \/ Store!Save(mem)
             /\ pc' = "attempt" /\ UNCHANGED <<id, group, mem>>
    <3>1. BatchIsOpen(mem)
      BY <2>1 DEF BatchIsOpen
    <3>2. CASE Store!Save(mem)
      <4>1. disk' = mem
        BY <1>c, <1>t, <3>2, WholeSave
      <4> QED BY <1>c, <2>1, <2>2, <3>1, <4>1 DEF BatchInv, Loaded, Named, Undecided
    <3>3. CASE UNCHANGED store
      BY <1>c, <2>1, <2>2, <3>3 DEF BatchInv, Loaded, Named, Undecided, store
    <3> QED BY <2>2, <3>2, <3>3
  <2>3. CASE Store!TornSave(mem) /\ Exit("crash")
    <3>1. disk' = disk
      BY <1>c, <1>t, <2>3, WholeSave DEF store
    <3> QED BY <1>e, <2>3, <3>1
  <2> QED BY <1>12, <2>2, <2>3 DEF OpenTrajectory, CutShort
<1>13. CASE RecordCompleted \/ RecordRefused \/ RecordSkipped \/ RecordFailed
  <2>1. pc \in Undecided \ Loaded /\ id \in Tasks
    BY <1>13, <1>t DEF RecordCompleted, RecordRefused, RecordSkipped, RecordFailed,
       Undecided, Loaded, Locations
  <2>2. disk.current = id /\ disk.merged = group
    BY <2>1 DEF BatchInv, Named, Loaded
  <2>3. \A ok \in BOOLEAN : /\ CompleteBatch(disk, id, ok) \in States
                            /\ CompleteBatch(disk, id, ok).merged = {}
    BY <1>t, <2>1, <2>2, CompleteBatchIsState, RecordedOutcome
  <2>4. SkipBatch(disk, id) \in States /\ SkipBatch(disk, id).merged = {}
    BY <1>t, <2>1, <2>2, SkipBatchIsState, RecordedOutcome
  <2>5. {id} \cup group \subseteq CompleteBatch(disk, id, TRUE).completed
    <3>1. CompleteBatch(disk, id, TRUE).completed = disk.completed \cup {id} \cup disk.merged
      BY <1>t, <2>1, <2>2, RecordedOutcome
    <3> QED BY <2>2, <3>1
  <2>6. CASE RecordCompleted
    BY <2>1, <2>3, <2>5, <2>6, BatchRecorded DEF RecordCompleted, Record
  <2>7. CASE RecordRefused
    BY <2>1, <2>3, <2>7, BatchRecorded DEF RecordRefused, Record
  <2>8. CASE RecordSkipped
    BY <2>1, <2>4, <2>8, BatchRecorded DEF RecordSkipped, Record
  <2>9. CASE RecordFailed
    BY <2>1, <2>3, <2>9, BatchRecorded DEF RecordFailed, Record
  <2> QED BY <1>13, <2>6, <2>7, <2>8, <2>9
<1>14. CASE RecordReview
  <2> DEFINE s == [disk EXCEPT !.reviewed = @ \cup {Subtree[id]}]
  <2>0. Subtree[id] \in Subtrees
    BY <1>14, <1>t, TaskPickerConstants DEF RecordReview
  <2>1. /\ s \in States /\ s.completed = disk.completed /\ s.failed = disk.failed
        /\ s.merged = disk.merged /\ s.current = disk.current
    BY <1>t, <2>0 DEF States
  <2>2. Store!Save(s) \/ Store!TornSave(s)
    BY <1>14 DEF RecordReview, CutShort
  <2> HIDE DEF s
  <2>3. BatchIsOpen(s)
    BY <1>c, <2>1 DEF BatchIsOpen
  <2>4. disk' = s \/ disk' = disk
    BY <1>c, <2>1, <2>2, WholeSave DEF store
  <2> QED BY <1>14, <1>e, <2>3, <2>4 DEF RecordReview, CutShort
<1>15. CASE UNCHANGED vars
  BY <1>15 DEF vars, store, BatchInv, Named
<1> QED BY <1>1, <1>2, <1>3, <1>4, <1>5, <1>6, <1>7, <1>8, <1>9, <1>10, <1>11,
           <1>12, <1>13, <1>14, <1>15 DEF Next, Invocation, Step

-----------------------------------------------------------------------------
(* Unattended use, --next and --loop: outcomes do not contradict each      *)
(* other or the markers, without merged batches however often the state    *)
(* file is lost and rebuilt.                                               *)

Unattended == Commands \subseteq {"next", "loop"}

Below(a, b) == a.completed \subseteq b.completed /\ a.failed \subseteq b.failed

Consistent(s) ==
    s.merged = {} /\ s.completed \cap s.failed = {} /\ s.failed \cap repo.marks = {}

\* What is saved grows from the snapshot behind an unterminated one to the
\* present one to the one in memory, and the batch under way is in none of them.
OutcomeInv ==
    /\ Consistent(disk) /\ Consistent(behind) /\ Consistent(mem)
    /\ Below(behind, disk) /\ group = {}
    /\ pc \in Undecided => Below(disk, mem) /\ id \notin mem.completed \cup mem.failed
    /\ pc \in Unlanded => id \notin repo.marks

\* What one scan decides.
LEMMA ScanDecides ==
    ASSUME NEW s \in States, NEW marks \in SUBSET Tasks,
           s.completed \cap s.failed = {}, s.failed \cap marks = {}
    PROVE  LET q == AfterScan(s, marks)
               t == Pick(s, marks)
           IN  /\ q.completed \cap q.failed = {} /\ q.failed \cap marks = {}
               /\ q.merged = s.merged /\ Below(s, q)
               /\ t # NoBatch => t \notin q.completed \cup q.failed \cup marks
               /\ \A u \in q.failed \ s.failed : HasFailedImplDependencies(s, u)
<1> DEFINE q == AfterScan(s, marks)
           t == Pick(s, marks)
           done == {TaskOrder[i] : i \in {k \in Scanned(s, marks) : Recovered(s, marks, k)}}
           lost == {TaskOrder[i] : i \in {k \in Scanned(s, marks) : Doomed(s, marks, k)}}
<1>1. done \subseteq marks /\ done \cap s.failed = {}
  BY DEF Recovered, Open, Settled
<1>2. lost \cap marks = {} /\ lost \cap s.completed = {}
  BY DEF Doomed, Recovered, Open, Settled
<1>3. \A u \in lost : HasFailedImplDependencies(s, u)
  BY DEF Doomed
<1>4. ASSUME t # NoBatch PROVE t \notin s.completed \cup s.failed \cup marks \cup lost
  <2>1. PICK i \in DOMAIN TaskOrder : Runnable(s, marks, i) /\ t = TaskOrder[i]
    BY <1>4, PickIsRunnable
  <2>2. t \notin s.completed \cup s.failed \cup marks
    BY <2>1 DEF Runnable, Recovered, Open, Settled
  <2>3. ASSUME NEW k \in Scanned(s, marks), Doomed(s, marks, k), TaskOrder[k] = t PROVE FALSE
    <3>1. k = i
      BY <2>1, <2>3, TaskPickerConstants DEF Scanned
    <3> QED BY <2>1, <2>3, <3>1 DEF Runnable
  <2> QED BY <2>2, <2>3
<1> HIDE DEF done, lost, t
<1>5. q = [s EXCEPT !.completed = @ \cup done, !.failed = @ \cup lost]
  BY DEF AfterScan, done, lost
<1>6. /\ q.completed = s.completed \cup done /\ q.failed = s.failed \cup lost
      /\ q.merged = s.merged
  BY <1>5 DEF States
<1> HIDE DEF q
<1>7. t # NoBatch => t \notin q.completed \cup q.failed \cup marks
  BY <1>1, <1>4, <1>6
<1> QED BY <1>1, <1>2, <1>3, <1>6, <1>7 DEF Below, q, t

\* A save of something that is not below the present snapshot.
LEMMA SaveKeepsOrder ==
    ASSUME TypeInv, OutcomeInv, NEW s \in States, Consistent(s), Below(disk, s),
           UNCHANGED store \/ Store!Save(s) \/ Store!TornSave(s)
    PROVE  /\ Consistent(disk') /\ Consistent(behind')
           /\ Below(behind', disk') /\ Below(disk', s)
           /\ disk' = s \/ Below(disk', disk)
<1>t. Store!TypeOK
  BY DEF TypeInv, TypeOK
<1>f. Consistent(FreshState) /\ Below(FreshState, disk) /\ Below(FreshState, s)
      /\ Below(FreshState, behind) /\ Below(FreshState, FreshState)
  BY DEF FreshState, Consistent, Below
<1>b. /\ Below(behind, disk) /\ Consistent(disk) /\ Consistent(behind)
      /\ Below(disk, disk) /\ Below(behind, s) /\ Below(s, s)
  BY DEF OutcomeInv, Below
<1>1. ASSUME behind' = FreshState, disk' \in {s, disk, behind, FreshState}
      PROVE  /\ Consistent(disk') /\ Consistent(behind')
             /\ Below(behind', disk') /\ Below(disk', s)
             /\ disk' = s \/ Below(disk', disk)
  <2>1. CASE disk' = s
    BY <1>1, <1>f, <1>b, <2>1
  <2>2. CASE disk' = disk
    BY <1>1, <1>f, <1>b, <2>2
  <2>3. CASE disk' = behind
    BY <1>1, <1>f, <1>b, <2>3
  <2>4. CASE disk' = FreshState
    BY <1>1, <1>f, <1>b, <2>4
  <2> QED BY <1>1, <2>1, <2>2, <2>3, <2>4
<1>2. CASE UNCHANGED store
  BY <1>2, <1>b DEF store
<1>3. CASE Store!Save(s)
  <2>1. disk' \in {s, disk, behind, FreshState} /\ behind' = FreshState
    BY <1>t, <1>3 DEF Store!TypeOK, Store!Save, Store!Tails
  <2> QED BY <2>1, <1>1
<1>4. CASE Store!TornSave(s)
  <2>1. \/ disk' \in {s, disk, behind, FreshState} /\ behind' = FreshState
        \/ behind' = disk /\ disk' = s
        \/ behind' = behind /\ disk' = disk
    BY <1>t, <1>4 DEF Store!TypeOK, Store!TornSave, Store!Tails, Store!vars
  <2>2. CASE disk' \in {s, disk, behind, FreshState} /\ behind' = FreshState
    BY <2>2, <1>1
  <2>3. CASE behind' = disk /\ disk' = s
    BY <2>3, <1>b
  <2>4. CASE behind' = behind /\ disk' = disk
    BY <2>4, <1>b
  <2> QED BY <2>1, <2>2, <2>3, <2>4
<1> QED BY <1>2, <1>3, <1>4

LEMMA OutcomesConsistent ==
    ASSUME NEW s \in States, NEW t \in Tasks, Consistent(s), s.current = t,
           t \notin s.completed \cup s.failed
    PROVE  /\ Consistent(CompleteBatch(s, t, TRUE)) /\ Below(s, CompleteBatch(s, t, TRUE))
           /\ t \notin repo.marks =>
                 /\ Consistent(CompleteBatch(s, t, FALSE))
                 /\ Below(s, CompleteBatch(s, t, FALSE))
                 /\ Consistent(SkipBatch(s, t)) /\ Below(s, SkipBatch(s, t))
<1>1. CompleteBatch(s, t, TRUE) =
         [s EXCEPT !.current = NoBatch, !.merged = {}, !.completed = @ \cup {t}]
  BY DEF CompleteBatch, CompleteCurrent, NoCurrent, Consistent, States
<1>2. CompleteBatch(s, t, FALSE) =
         [s EXCEPT !.current = NoBatch, !.merged = {}, !.failed = @ \cup {t}]
  BY DEF CompleteBatch, CompleteCurrent, NoCurrent, Consistent, States
<1>3. LET q == SkipBatch(s, t)
      IN  q.merged = {} /\ q.completed = s.completed /\ q.failed \in {s.failed, s.failed \cup {t}}
  BY DEF SkipBatch, NoCurrent, States
<1>4. Consistent(CompleteBatch(s, t, TRUE)) /\ Below(s, CompleteBatch(s, t, TRUE))
  <2> DEFINE q == CompleteBatch(s, t, TRUE)
  <2>1. q.merged = {} /\ q.completed = s.completed \cup {t} /\ q.failed = s.failed
    BY <1>1 DEF States
  <2> QED BY <2>1 DEF Consistent, Below
<1>5. t \notin repo.marks => /\ Consistent(CompleteBatch(s, t, FALSE))
                             /\ Below(s, CompleteBatch(s, t, FALSE))
  <2> DEFINE q == CompleteBatch(s, t, FALSE)
  <2>1. q.merged = {} /\ q.completed = s.completed /\ q.failed = s.failed \cup {t}
    BY <1>2 DEF States
  <2> QED BY <2>1 DEF Consistent, Below
<1>6. t \notin repo.marks => Consistent(SkipBatch(s, t)) /\ Below(s, SkipBatch(s, t))
  BY <1>3 DEF Consistent, Below
<1> QED BY <1>4, <1>5, <1>6

\* The parts of a step that returns, dies or goes on.
LEMMA OutcomeEnds ==
    ASSUME OutcomeInv, repo'.marks = repo.marks, NEW r, Exit(r) \/ Return(r),
           Consistent(disk'), Consistent(behind'), Below(behind', disk')
    PROVE  OutcomeInv'
<1>1. mem' = FreshState /\ group' = {} /\ pc' \in {"idle", "loop"}
  BY DEF Exit, Return
<1>2. Consistent(FreshState)
  BY DEF Consistent, FreshState
<1> QED BY <1>1, <1>2 DEF OutcomeInv, Consistent, Undecided, Unlanded

\* A step that changes neither the state file nor what the process remembers.
LEMMA OutcomeGoesOn ==
    ASSUME OutcomeInv, UNCHANGED <<store, mem, group, id>>, repo'.marks = repo.marks,
           pc' \in Undecided => pc \in Undecided,
           pc' \in Unlanded => pc \in Unlanded
    PROVE  OutcomeInv'
BY DEF OutcomeInv, Consistent, Below, store

\* What the git steps do to the markers.
LEMMA MarksStay ==
    ASSUME NEW r, Repos(r), NEW b
    PROVE  /\ CommitAll(r).marks = r.marks /\ EnsureOnMain(r).marks = r.marks
           /\ Checkout(r, b).marks = r.marks /\ DeleteBranch(r, b).marks = r.marks
           /\ CreateBranch(r, b).marks = r.marks
           /\ \A reuse \in BOOLEAN : SetupBranch(r, b, reuse).marks = r.marks
<1>1. \A x : DeleteBranch(r, x).marks = r.marks /\ DOMAIN DeleteBranch(r, x) = DOMAIN r
             /\ Checkout(r, x).marks = r.marks
  BY DEF DeleteBranch, Checkout, Repos
<1>2. CreateBranch(r, b).marks = r.marks
  BY DEF CreateBranch, Repos
<1>3. CreateBranch(DeleteBranch(r, b), b).marks = r.marks
  BY <1>1 DEF CreateBranch, Repos
<1>4. CommitAll(r).marks = r.marks /\ EnsureOnMain(r).marks = r.marks
  BY CommitAllIsRepo, EnsureOnMainIsRepo
<1> QED BY <1>1, <1>2, <1>3, <1>4 DEF SetupBranch

\* Only a merge of the batch's own branch writes a marker.
LEMMA MarkersComeFromLand ==
    ASSUME TypeInv, Next
    PROVE  \/ repo'.marks = repo.marks
           \/ Land /\ repo'.marks \subseteq repo.marks \cup {id}
<1>t. Repos(repo) /\ (pc \notin {"idle", "loop"} => id \in Tasks /\ Branch \in Branches)
  BY RunBatchConstants DEF TypeInv, TypeOK, ProcessTypeOK, Branch
<1>k. Repos(CommitAll(repo)) /\ CommitAll(repo).marks = repo.marks
      /\ DOMAIN CommitAll(repo).br = DOMAIN repo.br
  BY <1>t, CommitAllIsRepo
<1>e. Repos(EnsureOnMain(repo)) /\ EnsureOnMain(repo).marks = repo.marks
  BY <1>t, EnsureOnMainIsRepo
<1>1. CASE Invocation
  <2>1. CASE PruneFailed
    BY <1>t, <2>1 DEF PruneFailed, Repos
  <2>2. CASE UNCHANGED repo
    BY <2>2
  <2> QED BY <1>1, <2>1, <2>2 DEF Invocation, NextBatch, Retry, RunSpecific, Resume
<1>2. CASE Land
  BY <1>2, <1>t, MergeBranchIsRepo DEF Land, TypeInv, PlaceOK
<1>3. CASE UNCHANGED repo
  BY <1>3
<1>4. CASE EnterMain \/ EnterBranch
  <2>1. Reuse \in BOOLEAN
    BY DEF Reuse
  <2>2. /\ SetupBranch(repo, Branch, Reuse).marks = repo.marks
        /\ DeleteBranch(repo, Branch).marks = repo.marks
    BY <1>t, <2>1, MarksStay
  <2>3. CASE EnterMain
    BY <1>k, <1>e, <2>3 DEF EnterMain
  <2> QED BY <1>4, <2>2, <2>3 DEF EnterBranch
<1>5. CASE Attempt
  <2>1. PICK how \in AgentModes, new \in SUBSET ({id} \cup group) :
           repo' = AgentWork(repo, Branch, how, new)
    BY <1>5 DEF Attempt
  <2>2. new \in SUBSET Tasks
    BY <1>5, <1>t DEF Attempt, TypeInv, TypeOK, ProcessTypeOK
  <2>3. Branch \in Branches
    BY <1>5, <1>t DEF Attempt
  <2> QED BY <1>t, <2>1, <2>2, <2>3, AgentWorkIsRepo
<1>6. CASE BranchMissing \/ CommitLeftovers \/ MergeFails \/ DeleteMerged \/ Abandon
  BY <1>6, <1>t, <1>k, MarksStay
     DEF BranchMissing, CommitLeftovers, MergeFails, DeleteMerged, Abandon
<1>7. CASE EnterReview
  <2>1. \A reuse \in BOOLEAN :
           SetupBranch(EnsureOnMain(repo), Review, reuse).marks = repo.marks
    BY <1>e, MarksStay
  <2>2. DeleteBranch(EnsureOnMain(repo), Review).marks = repo.marks
    BY <1>e, MarksStay
  <2> QED BY <1>7, <2>1, <2>2 DEF EnterReview
<1>8. CASE ReviewWork
  <2>1. PICK how \in ReviewModes : repo' = AgentWork(repo, Review, how, {})
    BY <1>8 DEF ReviewWork
  <2>2. Review \in Branches
    BY <1>8, RunBatchConstants DEF ReviewWork, Review, TypeInv, PlaceOK
  <2> QED BY <1>t, <2>1, <2>2, AgentWorkIsRepo
<1>9. CASE FinishReview
  <2> DEFINE q == MergeBranch(CommitAll(repo), Review, {})
  <2>1. ASSUME Review \in DOMAIN repo.br PROVE DeleteBranch(q, Review).marks = repo.marks
    <3>1. Repos(q) /\ q.marks = repo.marks
      BY <1>k, <2>1, MergeBranchIsRepo
    <3> HIDE DEF q
    <3> QED BY <3>1, MarksStay
  <2> QED BY <1>9, <1>k, <2>1, MarksStay DEF FinishReview
<1> QED BY <1>1, <1>2, <1>3, <1>4, <1>5, <1>6, <1>7, <1>8, <1>9
        DEF Next, Step, Crash, LeaveLoop, Recheck, SaveCurrent, OpenTrajectory,
            RecordCompleted, RecordRefused, RecordSkipped, RecordFailed, NoReview,
            RecordReview

\* A step of --next or --loop that takes the next batch.
LEMMA NextBatchOutcome ==
    ASSUME ~MergeFile, TypeInv, OutcomeInv, pc \in {"idle", "loop"},
           NEW c \in {"next", "loop"}, NextBatch(c)
    PROVE  /\ OutcomeInv'
           /\ \A t \in disk'.failed \ disk.failed :
                 \E u \in Tasks : /\ Implementation(u) /\ Subtree[u] = Subtree[t]
                                  /\ u \notin disk'.completed
<1> DEFINE s == AfterScan(disk, repo.marks)
           t == Pick(disk, repo.marks)
<1>t. disk \in States /\ repo.marks \in SUBSET Tasks
  BY DEF TypeInv, TypeOK, Repos, Store!TypeOK
<1>s. s \in States /\ t \in Tasks \cup {NoBatch}
  BY <1>t, AfterScanIsState, PickIsTask
<1>d. disk.merged = {} /\ disk.completed \cap disk.failed = {}
      /\ disk.failed \cap repo.marks = {}
  BY DEF OutcomeInv, Consistent
<1>1. /\ s.completed \cap s.failed = {} /\ s.failed \cap repo.marks = {}
      /\ s.merged = disk.merged /\ Below(disk, s)
      /\ t # NoBatch => t \notin s.completed \cup s.failed \cup repo.marks
      /\ \A u \in s.failed \ disk.failed : HasFailedImplDependencies(disk, u)
  BY <1>t, <1>d, ScanDecides
<1>2. /\ \/ /\ UNCHANGED store \/ Store!Save(s)
            /\ Exit("complete") \/ (t # NoBatch /\ Dispatch(c, t, {}, s))
         \/ Store!TornSave(s) /\ Exit("crash")
      /\ repo' = repo
  BY DEF NextBatch, CutShort
<1> HIDE DEF s, t
<1>3. Consistent(s)
  BY <1>1, <1>d DEF Consistent
<1>4. UNCHANGED store \/ Store!Save(s) \/ Store!TornSave(s)
  BY <1>2
<1>5. /\ Consistent(disk') /\ Consistent(behind')
      /\ Below(behind', disk') /\ Below(disk', s)
      /\ disk' = s \/ Below(disk', disk)
  BY <1>1, <1>3, <1>4, <1>s, SaveKeepsOrder
<1>6. OutcomeInv'
  <2>1. CASE Exit("complete") \/ Exit("crash")
    BY <1>2, <1>5, <2>1, OutcomeEnds
  <2>2. CASE t # NoBatch /\ Dispatch(c, t, {}, s)
    BY <1>1, <1>2, <1>3, <1>5, <2>2 DEF Dispatch, OutcomeInv, Consistent
  <2> QED BY <1>2, <2>1, <2>2
<1>7. ASSUME NEW x \in disk'.failed \ disk.failed
      PROVE  \E u \in Tasks : /\ Implementation(u) /\ Subtree[u] = Subtree[x]
                              /\ u \notin disk'.completed
  <2>1. disk' = s
    BY <1>5, <1>7 DEF Below
  <2>2. PICK u \in disk.failed : Implementation(u) /\ Subtree[u] = Subtree[x]
    BY <1>1, <1>7, <2>1 DEF HasFailedImplDependencies
  <2>3. u \in Tasks /\ u \in s.failed
    BY <1>1, <1>t DEF States, Below
  <2> QED BY <1>1, <2>1, <2>2, <2>3
<1> QED BY <1>6, <1>7

\* The record of an outcome, on the state just loaded.
LEMMA RecordOutcome ==
    ASSUME TypeInv, OutcomeInv, pc \in Undecided, repo' = repo, NEW s, NEW r,
           \/ s = CompleteBatch(disk, id, TRUE)
           \/ /\ pc \in Unlanded
              /\ s = CompleteBatch(disk, id, FALSE) \/ s = SkipBatch(disk, id),
           Record(s, Return(r) \/ Goto("review"))
    PROVE  OutcomeInv'
<1>t. disk \in States /\ id \in Tasks /\ Store!TypeOK
  BY DEF TypeInv, TypeOK, ProcessTypeOK, Store!TypeOK, Undecided
<1>1. Consistent(disk) /\ Below(disk, mem) /\ id \notin mem.completed \cup mem.failed
      /\ (pc \in Unlanded => id \notin repo.marks)
  BY DEF OutcomeInv
<1>2. id \notin disk.completed \cup disk.failed
  BY <1>1 DEF Below
<1>3. CASE disk.current = id
  <2>1. s \in States
    BY <1>t, CompleteBatchIsState, SkipBatchIsState
  <2>2. Consistent(s) /\ Below(disk, s)
    BY <1>t, <1>1, <1>2, <1>3, OutcomesConsistent
  <2>3. Store!Save(s) \/ Store!TornSave(s)
    BY <1>3 DEF Record, CutShort
  <2>4. Consistent(disk') /\ Consistent(behind') /\ Below(behind', disk')
    BY <2>1, <2>2, <2>3, SaveKeepsOrder
  <2>5. CASE Return(r) \/ Exit("crash")
    BY <2>4, <2>5, OutcomeEnds
  <2>6. CASE Goto("review")
    BY <2>4, <2>6 DEF Goto, OutcomeInv, Consistent, Undecided, Unlanded
  <2> QED BY <1>3, <2>5, <2>6 DEF Record, CutShort
<1>4. CASE disk.current # id
  <2>1. UNCHANGED store /\ (Return(r) \/ Goto("review"))
    BY <1>4 DEF Record
  <2>2. Consistent(disk') /\ Consistent(behind') /\ Below(behind', disk')
    BY <2>1 DEF OutcomeInv, store
  <2>3. CASE Return(r)
    BY <2>2, <2>3, OutcomeEnds
  <2>4. CASE Goto("review")
    BY <2>1, <2>2, <2>4 DEF Goto, OutcomeInv, Consistent, Undecided, Unlanded
  <2> QED BY <2>1, <2>3, <2>4
<1> QED BY <1>3, <1>4

LEMMA OutcomeInvIsInductive ==
    ASSUME Unattended, ~MergeFile, TypeInv, OutcomeInv, [Next]_vars
    PROVE  OutcomeInv'
<1>t. /\ mem \in States /\ id \in Tasks \cup {NoBatch}
      /\ (pc \notin {"idle", "loop"} => id \in Tasks)
  BY DEF TypeInv, TypeOK, ProcessTypeOK
<1>u. /\ Commands \cap {"resume", "retry", "batch-id", "prune"} = {} /\ ~MergeFile
  BY DEF Unattended
<1>m. ASSUME Next, ~Land PROVE repo'.marks = repo.marks
  BY <1>m, MarkersComeFromLand
<1>d. Consistent(disk) /\ Consistent(behind) /\ Consistent(mem) /\ Below(behind, disk)
  BY DEF OutcomeInv
<1>1. ASSUME NEW c \in {"next", "loop"}, NextBatch(c) PROVE OutcomeInv'
  <2>1. pc \in {"idle", "loop"}
    BY <1>1 DEF NextBatch
  <2> QED BY <1>1, <1>u, <2>1, NextBatchOutcome
<1>2. ASSUME NEW t \in Tasks, Retry(t) \/ RunSpecific(t) PROVE OutcomeInv'
  BY <1>2, <1>u DEF Retry, RunSpecific
<1>3. CASE Resume \/ PruneFailed
  BY <1>3, <1>u DEF Resume, PruneFailed
<1>4. CASE LeaveLoop \/ Crash \/ NoReview
  <2>1. /\ (\E r : Exit(r) \/ Return(r)) /\ UNCHANGED store /\ repo' = repo
    BY <1>4 DEF LeaveLoop, Crash, NoReview
  <2> QED BY <1>d, <2>1, OutcomeEnds DEF store
<1>5. CASE EnterMain \/ EnterBranch
  <2>1. UNCHANGED store /\ pc \in {"main", "branch"}
        /\ (Return("error") \/ Goto("branch") \/ Goto("recheck") \/ Goto("save"))
    BY <1>5 DEF EnterMain, EnterBranch
  <2>2. repo'.marks = repo.marks
    BY <1>5, <1>m DEF Next, Step, EnterMain, EnterBranch, Land
  <2>3. CASE Return("error")
    BY <1>d, <2>1, <2>2, <2>3, OutcomeEnds DEF store
  <2>4. CASE Goto("branch") \/ Goto("recheck") \/ Goto("save")
    BY <2>1, <2>2, <2>4, OutcomeGoesOn DEF Goto, Undecided, Unlanded, Locations
  <2> QED BY <2>1, <2>3, <2>4
<1>6. CASE Recheck \/ Attempt \/ BranchMissing \/ CommitLeftovers \/ MergeFails \/ Abandon
  <2>1. /\ UNCHANGED <<store, mem, group, id>>
        /\ pc \in {"recheck", "attempt", "merge", "land", "abandon"}
        /\ pc' \in {"merge", "save", "attempt", "abandon", "skip", "land", "refuse", "fail"}
    BY <1>6 DEF Recheck, Attempt, BranchMissing, CommitLeftovers, MergeFails, Abandon, Goto
  <2>2. repo'.marks = repo.marks
    <3>1. CASE MergeFails
      BY <1>t, <3>1, MarksStay DEF MergeFails, TypeInv, TypeOK
    <3>2. CASE ~MergeFails
      BY <1>6, <1>m, <3>2
         DEF Next, Step, Recheck, Attempt, BranchMissing, CommitLeftovers, Abandon, Land
    <3> QED BY <3>1, <3>2
  <2> QED BY <2>1, <2>2, OutcomeGoesOn DEF Undecided, Unlanded, Locations
<1>7. CASE DeleteMerged
  <2>1. repo'.marks = repo.marks
    BY <1>7, <1>m DEF Next, Step, DeleteMerged, Land
  <2> QED BY <1>7, <2>1, OutcomeGoesOn
          DEF DeleteMerged, Goto, Undecided, Unlanded, Locations
<1>8. CASE EnterReview \/ ReviewWork \/ FinishReview
  <2>1. /\ UNCHANGED <<store, mem, group, id>>
        /\ pc' \in {"file", "reviewing", "reviewed"}
    BY <1>8 DEF EnterReview, ReviewWork, FinishReview, Goto
  <2>2. repo'.marks = repo.marks
    BY <1>8, <1>m DEF Next, Step, EnterReview, ReviewWork, FinishReview, Land
  <2> QED BY <2>1, <2>2, OutcomeGoesOn DEF Undecided, Unlanded
<1>9. CASE Land
  <2>1. /\ repo'.marks \subseteq repo.marks \cup {id}
        /\ pc = "land" /\ pc' = "delete" /\ UNCHANGED <<store, mem, group, id>>
    BY <1>9, <1>t, MarkersComeFromLand DEF Next, Step, Land, Goto
  <2>2. /\ id \notin mem.completed \cup mem.failed
        /\ Below(disk, mem) /\ Below(behind, disk) /\ group = {}
    BY <2>1 DEF OutcomeInv, Undecided, Locations
  <2> QED BY <1>d, <2>1, <2>2
          DEF OutcomeInv, Consistent, Below, Undecided, Unlanded, store
<1>10. CASE SaveCurrent
  <2> DEFINE s == SetCurrent(mem, id, group)
  <2>1. /\ pc = "save" /\ repo' = repo /\ id \in Tasks /\ group = {}
        /\ Below(disk, mem) /\ id \notin mem.completed \cup mem.failed \cup repo.marks
    BY <1>10, <1>t DEF SaveCurrent, OutcomeInv, Undecided, Unlanded, Locations
  <2>2. /\ s \in States /\ s.merged = {}
        /\ s.completed = mem.completed /\ s.failed = mem.failed
    BY <1>t, <2>1 DEF SetCurrent, States
  <2>3. /\ \/ /\ Store!Save(s) /\ mem' = s /\ pc' = "trajectory"
              /\ UNCHANGED <<id, group>>
           \/ Store!TornSave(s) /\ Exit("crash")
    BY <1>10 DEF SaveCurrent, CutShort
  <2> HIDE DEF s
  <2>4. Consistent(s) /\ Below(disk, s)
    BY <1>d, <2>1, <2>2 DEF Consistent, Below
  <2>5. Consistent(disk') /\ Consistent(behind') /\ Below(behind', disk') /\ Below(disk', s)
    BY <2>2, <2>3, <2>4, SaveKeepsOrder
  <2>6. CASE Exit("crash")
    BY <2>1, <2>5, <2>6, OutcomeEnds
  <2>7. CASE mem' = s /\ pc' = "trajectory" /\ UNCHANGED <<id, group>>
    BY <2>1, <2>2, <2>4, <2>5, <2>7 DEF OutcomeInv, Consistent
  <2> QED BY <2>3, <2>6, <2>7
<1>11. CASE OpenTrajectory
  <2>1. /\ pc = "trajectory" /\ repo' = repo
        /\ Below(disk, mem) /\ id \notin mem.completed \cup mem.failed \cup repo.marks
        /\ group = {}
    BY <1>11 DEF OpenTrajectory, OutcomeInv, Undecided, Unlanded, Locations
  <2>2. /\ \/ /\ UNCHANGED store \/ Store!Save(mem)
              /\ pc' = "attempt" /\ UNCHANGED <<id, group, mem>>
           \/ Store!TornSave(mem) /\ Exit("crash")
    BY <1>11 DEF OpenTrajectory, CutShort
  <2>3. /\ Consistent(disk') /\ Consistent(behind')
        /\ Below(behind', disk') /\ Below(disk', mem)
    BY <1>d, <1>t, <2>1, <2>2, SaveKeepsOrder
  <2>4. CASE Exit("crash")
    BY <2>1, <2>3, <2>4, OutcomeEnds
  <2>5. CASE pc' = "attempt" /\ UNCHANGED <<id, group, mem>>
    BY <1>d, <2>1, <2>3, <2>5 DEF OutcomeInv, Consistent
  <2> QED BY <2>2, <2>4, <2>5
<1>12. CASE RecordCompleted
  <2>1. /\ Record(CompleteBatch(disk, id, TRUE), Return("batch_complete") \/ Goto("review"))
        /\ pc \in Undecided /\ repo' = repo
    BY <1>12 DEF RecordCompleted, Record, Undecided, Locations
  <2> QED BY <2>1, RecordOutcome
<1>13. CASE RecordRefused \/ RecordSkipped
  <2>1. /\ \/ Record(CompleteBatch(disk, id, FALSE), Return("error") \/ Goto("review"))
           \/ Record(SkipBatch(disk, id), Return("error") \/ Goto("review"))
        /\ pc \in Undecided /\ pc \in Unlanded /\ repo' = repo
    BY <1>13 DEF RecordRefused, RecordSkipped, Record, Undecided, Unlanded, Locations
  <2> QED BY <2>1, RecordOutcome
<1>14. CASE RecordFailed
  <2>1. /\ Record(CompleteBatch(disk, id, FALSE), Return("batch_failed") \/ Goto("review"))
        /\ pc \in Undecided /\ pc \in Unlanded /\ repo' = repo
    BY <1>14 DEF RecordFailed, Record, Undecided, Unlanded, Locations
  <2> QED BY <2>1, RecordOutcome
<1>15. CASE RecordReview
  <2> DEFINE s == [disk EXCEPT !.reviewed = @ \cup {Subtree[id]}]
  <2>0. disk \in States /\ Subtree[id] \in Subtrees
    BY <1>15, <1>t, TaskPickerConstants
       DEF RecordReview, TypeInv, TypeOK, Store!TypeOK
  <2>1. /\ s \in States /\ s.merged = disk.merged
        /\ s.completed = disk.completed /\ s.failed = disk.failed
    BY <2>0 DEF States
  <2>2. /\ repo' = repo
        /\ Store!Save(s) \/ Store!TornSave(s)
        /\ Return("batch_complete") \/ Exit("crash")
    BY <1>15 DEF RecordReview, CutShort
  <2> HIDE DEF s
  <2>3. Consistent(s) /\ Below(disk, s)
    BY <1>d, <2>1 DEF Consistent, Below
  <2>4. Consistent(disk') /\ Consistent(behind') /\ Below(behind', disk')
    BY <2>1, <2>2, <2>3, SaveKeepsOrder
  <2> QED BY <2>2, <2>4, OutcomeEnds
<1>16. CASE UNCHANGED vars
  BY <1>16, OutcomeGoesOn DEF vars, store
<1> QED BY <1>1, <1>2, <1>3, <1>4, <1>5, <1>6, <1>7, <1>8, <1>9, <1>10, <1>11,
           <1>12, <1>13, <1>14, <1>15, <1>16 DEF Next, Invocation, Step

LEMMA InitIsConsistent == Init => OutcomeInv
BY DEF Init, Store!Init, OutcomeInv, Consistent, Below, FreshState, EmptyRepo,
       Undecided, Unlanded

-----------------------------------------------------------------------------
(* The same with merged batches, when saves are whole.                     *)

\* What a lost record leaves to be recovered: the tasks with a marker come
\* before every open implementation task without one, so that none of them is
\* ever put into the batch of such a task and fails with it.
MarkInv ==
    /\ disk.completed \cap disk.failed = {} /\ disk.failed \cap repo.marks = {}
    /\ \A i \in DOMAIN TaskOrder :
          Implementation(TaskOrder[i]) /\ Open(disk, i) /\ TaskOrder[i] \in repo.marks
             => NoneLeftBefore(disk, repo.marks, i)
    /\ pc \in Undecided => ({id} \cup group) \cap disk.failed = {}
    /\ pc \in Unlanded =>
          /\ ({id} \cup group) \cap repo.marks = {}
          /\ \A i \in DOMAIN TaskOrder :
                TaskOrder[i] = id => NoneLeftBefore(disk, repo.marks, i)

LEMMA InitHasNoMark == Init => MarkInv
BY DEF Init, Store!Init, MarkInv, FreshState, EmptyRepo, Undecided, Unlanded

\* Recording an outcome, or recovering a marked task, leaves the order intact.
LEMMA StaysFirst ==
    ASSUME NEW s, NEW q, NEW marks, NEW more, Below(s, q), marks \subseteq more,
           NEW i \in DOMAIN TaskOrder, NoneLeftBefore(s, marks, i)
    PROVE  NoneLeftBefore(q, more, i)
BY DEF Below, NoneLeftBefore, Open, Settled

\* A step that records more outcomes, without new markers and without a new
\* batch.
LEMMA MarkGoesOn ==
    ASSUME MarkInv, repo'.marks = repo.marks, Below(disk, disk'),
           disk'.completed \cap disk'.failed = {}, disk'.failed \cap repo.marks = {},
           \/ pc' \notin Undecided
           \/ /\ disk'.failed = disk.failed /\ UNCHANGED <<id, group>> /\ pc \in Undecided
              /\ pc' \in Unlanded => pc \in Unlanded
    PROVE  MarkInv'
<1>1. ASSUME NEW i \in DOMAIN TaskOrder, NoneLeftBefore(disk, repo.marks, i)
      PROVE  NoneLeftBefore(disk', repo'.marks, i)
  BY <1>1, StaysFirst
<1>2. \A i \in DOMAIN TaskOrder : Open(disk', i) => Open(disk, i)
  BY DEF Below, Open, Settled
<1>3. \A i \in DOMAIN TaskOrder :
          Implementation(TaskOrder[i]) /\ Open(disk', i) /\ TaskOrder[i] \in repo'.marks
             => NoneLeftBefore(disk', repo'.marks, i)
  BY <1>1, <1>2 DEF MarkInv
<1>4. pc' \in Undecided => ({id'} \cup group') \cap disk'.failed = {}
  BY DEF MarkInv
<1>5. pc' \in Unlanded =>
          /\ ({id'} \cup group') \cap repo'.marks = {}
          /\ \A i \in DOMAIN TaskOrder :
                TaskOrder[i] = id' => NoneLeftBefore(disk', repo'.marks, i)
  BY <1>1 DEF MarkInv, Unlanded
<1> QED BY <1>3, <1>4, <1>5 DEF MarkInv

\* The next batch, taken over the state the scan saved.
LEMMA NextBatchMarks ==
    ASSUME WholeSaves, TypeInv, BatchInv, MarkInv, NEW c \in {"next", "loop"}, NextBatch(c)
    PROVE  /\ MarkInv'
           /\ \A t \in disk'.failed \ disk.failed :
                 \E u \in Tasks : /\ Implementation(u) /\ Subtree[u] = Subtree[t]
                                  /\ u \notin disk'.completed
<1> DEFINE s == AfterScan(disk, repo.marks)
           t == Pick(disk, repo.marks)
           ids == MergedGroup(s, t)
           many == IF MergeFile /\ Cardinality(ids) > 1 THEN ids ELSE {}
<1>t. disk \in States /\ repo.marks \in SUBSET Tasks /\ tail = "clean"
  BY DEF TypeInv, TypeOK, Repos, Store!TypeOK, BatchInv
<1>1. s \in States
  BY <1>t, AfterScanIsState
<1>2. /\ s.completed \cap s.failed = {} /\ s.failed \cap repo.marks = {}
      /\ Below(disk, s)
      /\ \A u \in s.failed \ disk.failed : HasFailedImplDependencies(disk, u)
  BY <1>t, ScanDecides DEF MarkInv
<1>3. many # {} => many = MergedGroup(s, t) /\ Cardinality(many) > 1
  OBVIOUS
<1>4. t # NoBatch =>
         /\ \A u \in {t} \cup many : ~Settled(s, u)
         /\ \A u \in many : Implementation(u)
         /\ FirstOf(t, many) /\ t \notin repo.marks
         /\ \A i \in DOMAIN TaskOrder : TaskOrder[i] = t => NoneLeftBefore(disk, repo.marks, i)
  <2> HIDE DEF many
  <2> QED BY <1>t, <1>3, PickedBatch
<1>5. /\ \/ /\ (s = disk /\ UNCHANGED store) \/ Store!Save(s)
            /\ Exit("complete") \/ (t # NoBatch /\ Dispatch(c, t, many, s))
         \/ Store!TornSave(s) /\ Exit("crash")
      /\ repo' = repo
  BY DEF NextBatch, CutShort
<1> HIDE DEF s, t, many
<1>6. disk' = s \/ (disk' = disk /\ Exit("crash"))
  BY <1>t, <1>1, <1>5, WholeSave DEF store
<1>7. Below(disk, disk') /\ disk'.completed \cap disk'.failed = {}
      /\ disk'.failed \cap repo.marks = {}
  BY <1>2, <1>6 DEF MarkInv, Below
<1>8. MarkInv'
  <2>1. CASE \E r : Exit(r)
    BY <1>5, <1>7, <2>1, MarkGoesOn DEF Exit, Undecided
  <2>2. CASE t # NoBatch /\ Dispatch(c, t, many, s) /\ disk' = s
    <3>1. id' = t /\ group' = many /\ pc' = "main"
      BY <2>2 DEF Dispatch
    <3>2. ASSUME NEW i \in DOMAIN TaskOrder, NoneLeftBefore(disk, repo.marks, i)
          PROVE  NoneLeftBefore(disk', repo'.marks, i)
      BY <1>5, <1>7, <3>2, StaysFirst
    <3>3. \A i \in DOMAIN TaskOrder : Open(disk', i) => Open(disk, i)
      BY <1>7 DEF Below, Open, Settled
    <3>4. many \cap repo.marks = {}
      <4> SUFFICES ASSUME NEW u \in many, u \in repo.marks PROVE FALSE
        OBVIOUS
      <4>1. PICK i, j \in DOMAIN TaskOrder : TaskOrder[i] = t /\ TaskOrder[j] = u /\ i <= j
        BY <1>4, <2>2 DEF FirstOf
      <4>2. Implementation(u) /\ Implementation(t) /\ Open(disk, j) /\ Open(disk, i)
            /\ t \notin repo.marks
        BY <1>4, <2>2, <3>3, <4>1 DEF FirstOf, Open
      <4>3. NoneLeftBefore(disk, repo.marks, j) /\ i \in Nat /\ j \in Nat
        BY <4>1, <4>2, Positions DEF MarkInv
      <4>4. i # j
        BY <4>1, <4>2
      <4> QED BY <4>1, <4>2, <4>3, <4>4 DEF NoneLeftBefore
    <3>5. ({t} \cup many) \cap disk'.failed = {}
      BY <1>4, <2>2 DEF Settled
    <3>6. \A i \in DOMAIN TaskOrder :
              Implementation(TaskOrder[i]) /\ Open(disk', i) /\ TaskOrder[i] \in repo'.marks
                 => NoneLeftBefore(disk', repo'.marks, i)
      BY <1>5, <3>2, <3>3 DEF MarkInv
    <3>7. \A i \in DOMAIN TaskOrder : TaskOrder[i] = t => NoneLeftBefore(disk', repo'.marks, i)
      BY <1>4, <2>2, <3>2
    <3>8. ({t} \cup many) \cap repo.marks = {}
      BY <1>4, <2>2, <3>4
    <3> QED BY <1>5, <1>7, <3>1, <3>5, <3>6, <3>7, <3>8 DEF MarkInv
  <2> QED BY <1>5, <1>6, <2>1, <2>2
<1>9. ASSUME NEW x \in disk'.failed \ disk.failed
      PROVE  \E u \in Tasks : /\ Implementation(u) /\ Subtree[u] = Subtree[x]
                              /\ u \notin disk'.completed
  <2>1. disk' = s
    BY <1>6, <1>9
  <2>2. PICK u \in disk.failed : Implementation(u) /\ Subtree[u] = Subtree[x]
    BY <1>2, <1>9, <2>1 DEF HasFailedImplDependencies
  <2>3. u \in Tasks /\ u \in s.failed
    BY <1>2, <1>t DEF States, Below
  <2> QED BY <1>2, <2>1, <2>2, <2>3
<1> QED BY <1>8, <1>9

\* The record of an outcome.
LEMMA RecordMarks ==
    ASSUME WholeSaves, TypeInv, BatchInv, MarkInv, repo' = repo, id \in Tasks,
           pc \in {"complete", "refuse", "skip", "fail"}, NEW s,
           \/ s = CompleteBatch(disk, id, TRUE)
           \/ /\ pc \in Unlanded
              /\ s = CompleteBatch(disk, id, FALSE) \/ s = SkipBatch(disk, id),
           Store!Save(s) \/ Store!TornSave(s), pc' \notin Undecided
    PROVE  MarkInv'
<1>t. disk \in States /\ tail = "clean"
  BY DEF TypeInv, TypeOK, Store!TypeOK, BatchInv
<1>p. pc \in Undecided /\ Named /\ group \subseteq Tasks
  BY DEF Undecided, Named, Locations, TypeInv, TypeOK, ProcessTypeOK
<1>1. /\ disk.current = id /\ disk.merged = group
      /\ ({id} \cup group) \cap disk.completed = {}
      /\ ({id} \cup group) \cap disk.failed = {}
      /\ disk.completed \cap disk.failed = {} /\ disk.failed \cap repo.marks = {}
      /\ pc \in Unlanded => ({id} \cup group) \cap repo.marks = {}
  BY <1>p DEF BatchInv, MarkInv
<1>2. s \in States
  BY <1>t, CompleteBatchIsState, SkipBatchIsState
<1>3. disk' = s \/ disk' = disk
  BY <1>t, <1>2, WholeSave DEF store
<1>4. \/ s.completed = disk.completed \cup {id} \cup group /\ s.failed = disk.failed
      \/ /\ pc \in Unlanded /\ s.completed = disk.completed
         /\ s.failed \in {disk.failed, disk.failed \cup {id}, disk.failed \cup {id} \cup group}
  <2>1. CASE s = CompleteBatch(disk, id, TRUE)
    BY <1>t, <1>1, <2>1, RecordedOutcome
  <2>2. CASE pc \in Unlanded /\ s = CompleteBatch(disk, id, FALSE)
    BY <1>t, <1>1, <2>2, RecordedOutcome
  <2>3. CASE pc \in Unlanded /\ s = SkipBatch(disk, id)
    <3>1. /\ SkipBatch(disk, id).completed = disk.completed
          /\ SkipBatch(disk, id).failed \in {disk.failed, disk.failed \cup {id}}
      BY <1>t, <1>1, RecordedOutcome
    <3> QED BY <2>3, <3>1
  <2> QED BY <2>1, <2>2, <2>3
<1>5. Below(disk, s) /\ s.completed \cap s.failed = {} /\ s.failed \cap repo.marks = {}
  BY <1>1, <1>4 DEF Below
<1>6. Below(disk, disk') /\ disk'.completed \cap disk'.failed = {}
      /\ disk'.failed \cap repo.marks = {}
  BY <1>1, <1>3, <1>5 DEF Below
<1> QED BY <1>6, MarkGoesOn

LEMMA MarkInvIsInductive ==
    ASSUME Unattended, WholeSaves, TypeInv, BatchInv, MarkInv, [Next]_vars
    PROVE  MarkInv'
<1>t. /\ disk \in States /\ mem \in States /\ Repos(repo) /\ tail = "clean"
      /\ group \subseteq Tasks /\ (pc \notin {"idle", "loop"} => id \in Tasks)
  BY DEF TypeInv, TypeOK, ProcessTypeOK, Store!TypeOK, BatchInv
<1>u. Commands \cap {"resume", "retry", "batch-id", "prune"} = {}
  BY DEF Unattended
<1>m. ASSUME Next, ~Land PROVE repo'.marks = repo.marks
  BY <1>m, MarkersComeFromLand
\* A step that records nothing.
<1>q. ASSUME disk'.completed = disk.completed, disk'.failed = disk.failed,
             repo'.marks = repo.marks,
             \/ pc' \notin Undecided
             \/ /\ UNCHANGED <<id, group>> /\ pc \in Undecided
                /\ pc' \in Unlanded => pc \in Unlanded
      PROVE  MarkInv'
  <2>1. Below(disk, disk') /\ disk'.completed \cap disk'.failed = {}
        /\ disk'.failed \cap repo.marks = {}
    BY <1>q DEF Below, MarkInv
  <2> QED BY <1>q, <2>1, MarkGoesOn
<1>1. ASSUME NEW c \in {"next", "loop"}, NextBatch(c) PROVE MarkInv'
  BY <1>1, NextBatchMarks
<1>2. ASSUME NEW t \in Tasks, Retry(t) \/ RunSpecific(t) PROVE MarkInv'
  BY <1>2, <1>u DEF Retry, RunSpecific
<1>3. CASE Resume \/ PruneFailed
  BY <1>3, <1>u DEF Resume, PruneFailed
<1>4. CASE LeaveLoop \/ Crash \/ NoReview
  <2>1. pc' \notin Undecided /\ disk' = disk /\ repo' = repo
    BY <1>4 DEF LeaveLoop, Crash, NoReview, Exit, Return, Undecided, store
  <2> QED BY <1>q, <2>1
<1>5. CASE EnterMain \/ EnterBranch
  <2>1. disk' = disk /\ repo'.marks = repo.marks /\ pc \in {"main", "branch"}
    BY <1>5, <1>m DEF Next, Step, EnterMain, EnterBranch, Land, store
  <2>2. \/ pc' \notin Undecided
        \/ UNCHANGED <<id, group>> /\ pc' \in {"branch", "recheck", "save"}
    BY <1>5 DEF EnterMain, EnterBranch, Goto, Return, Exit, Undecided
  <2> QED BY <1>q, <2>1, <2>2 DEF Undecided, Unlanded, Locations
<1>6. CASE Recheck \/ Attempt \/ BranchMissing \/ CommitLeftovers \/ Abandon \/ DeleteMerged
  <2>1. /\ disk' = disk /\ UNCHANGED <<group, id>>
        /\ pc \in {"recheck", "attempt", "merge", "abandon", "delete"}
        /\ pc' \in {"merge", "save", "attempt", "abandon", "skip", "land", "fail", "complete"}
        /\ pc = "delete" => pc' = "complete"
    BY <1>6 DEF Recheck, Attempt, BranchMissing, CommitLeftovers, Abandon, DeleteMerged,
          Goto, store
  <2>2. repo'.marks = repo.marks
    <3>1. pc # "land"
      BY <2>1
    <3> QED BY <1>6, <1>m, <3>1
            DEF Next, Step, Recheck, Attempt, BranchMissing, CommitLeftovers, Abandon,
                DeleteMerged, Land
  <2> QED BY <1>q, <2>1, <2>2 DEF Undecided, Unlanded, Locations
<1>7. CASE MergeFails
  <2>1. repo'.marks = repo.marks
    BY <1>7, <1>t, MarksStay DEF MergeFails
  <2> QED BY <1>7, <1>q, <2>1
          DEF MergeFails, Goto, Undecided, Unlanded, Locations, store
<1>8. CASE EnterReview \/ ReviewWork \/ FinishReview
  <2>1. disk' = disk /\ pc' \in {"file", "reviewing", "reviewed"} /\ pc # "land"
    BY <1>8 DEF EnterReview, ReviewWork, FinishReview, Goto, store
  <2>2. repo'.marks = repo.marks
    BY <1>8, <1>m, <2>1 DEF Next, Step, Land
  <2> QED BY <1>q, <2>1, <2>2 DEF Undecided
<1>9. CASE Land
  <2>1. /\ repo'.marks \subseteq repo.marks \cup {id} /\ repo.marks \subseteq repo'.marks
        /\ pc = "land" /\ pc' = "delete" /\ UNCHANGED <<id, group>> /\ disk' = disk
    BY <1>9, <1>t, MergeBranchIsRepo DEF Land, Goto, TypeInv, PlaceOK, store
  <2>2. pc \in Undecided /\ pc \in Unlanded
    BY <2>1 DEF Undecided, Unlanded, Locations
  <2>3. ASSUME NEW i \in DOMAIN TaskOrder, NoneLeftBefore(disk, repo.marks, i)
        PROVE  NoneLeftBefore(disk', repo'.marks, i)
    BY <2>1, <2>3, StaysFirst DEF Below
  <2>4. \A i \in DOMAIN TaskOrder :
            Implementation(TaskOrder[i]) /\ Open(disk', i) /\ TaskOrder[i] \in repo'.marks
               => NoneLeftBefore(disk', repo'.marks, i)
    BY <2>1, <2>2, <2>3 DEF MarkInv
  <2>5. disk'.completed \cap disk'.failed = {} /\ disk'.failed \cap repo'.marks = {}
        /\ ({id'} \cup group') \cap disk'.failed = {}
    BY <2>1, <2>2 DEF MarkInv
  <2>6. pc' \notin Unlanded
    BY <2>1 DEF Unlanded
  <2> QED BY <2>4, <2>5, <2>6 DEF MarkInv
<1>10. CASE SaveCurrent
  <2> DEFINE s == SetCurrent(mem, id, group)
  <2>1. /\ s \in States /\ s.completed = mem.completed /\ s.failed = mem.failed
        /\ mem.completed = disk.completed /\ mem.failed = disk.failed
    BY <1>10, <1>t DEF SetCurrent, States, SaveCurrent, BatchInv, Loaded
  <2>2. /\ \/ Store!Save(s) /\ pc' = "trajectory" /\ UNCHANGED <<id, group>>
           \/ Store!TornSave(s) /\ pc' = "idle"
        /\ repo' = repo /\ pc = "save"
    BY <1>10 DEF SaveCurrent, CutShort, Exit
  <2> HIDE DEF s
  <2>3. disk'.completed = disk.completed /\ disk'.failed = disk.failed
    BY <1>t, <2>1, <2>2, WholeSave DEF store
  <2> QED BY <1>q, <2>2, <2>3 DEF Undecided, Unlanded, Locations
<1>11. CASE OpenTrajectory
  <2>1. /\ \/ UNCHANGED store \/ Store!Save(mem) \/ Store!TornSave(mem)
        /\ (pc' = "attempt" /\ UNCHANGED <<id, group>>) \/ pc' = "idle"
        /\ repo' = repo /\ pc = "trajectory"
    BY <1>11 DEF OpenTrajectory, CutShort, Exit
  <2>2. disk'.completed = disk.completed /\ disk'.failed = disk.failed
    <3>1. mem.completed = disk.completed /\ mem.failed = disk.failed
      BY <2>1 DEF BatchInv, Loaded
    <3> QED BY <1>t, <2>1, <3>1, WholeSave DEF store
  <2> QED BY <1>q, <2>1, <2>2 DEF Undecided, Unlanded, Locations
<1>12. CASE RecordCompleted \/ RecordRefused \/ RecordSkipped \/ RecordFailed
  <2>1. /\ pc \in {"complete", "refuse", "skip", "fail"} /\ repo' = repo /\ id \in Tasks
        /\ pc' \notin Undecided
    BY <1>12, <1>t DEF RecordCompleted, RecordRefused, RecordSkipped, RecordFailed,
       Record, CutShort, Exit, Return, Goto, Undecided
  <2>2. disk.current = id
    BY <2>1 DEF BatchInv, Named, Undecided, Locations
  <2>3. CASE RecordCompleted
    <3>1. \/ Store!Save(CompleteBatch(disk, id, TRUE))
          \/ Store!TornSave(CompleteBatch(disk, id, TRUE))
      BY <2>2, <2>3 DEF RecordCompleted, Record, CutShort
    <3> QED BY <2>1, <3>1, RecordMarks
  <2>4. CASE RecordRefused \/ RecordFailed
    <3>1. /\ \/ Store!Save(CompleteBatch(disk, id, FALSE))
             \/ Store!TornSave(CompleteBatch(disk, id, FALSE))
          /\ pc \in Unlanded
      BY <2>2, <2>4 DEF RecordRefused, RecordFailed, Record, CutShort, Undecided,
         Unlanded, Locations
    <3> QED BY <2>1, <3>1, RecordMarks
  <2>5. CASE RecordSkipped
    <3>1. /\ Store!Save(SkipBatch(disk, id)) \/ Store!TornSave(SkipBatch(disk, id))
          /\ pc \in Unlanded
      BY <2>2, <2>5 DEF RecordSkipped, Record, CutShort, Undecided, Unlanded, Locations
    <3> QED BY <2>1, <3>1, RecordMarks
  <2> QED BY <1>12, <2>3, <2>4, <2>5
<1>13. CASE RecordReview
  <2> DEFINE s == [disk EXCEPT !.reviewed = @ \cup {Subtree[id]}]
  <2>0. Subtree[id] \in Subtrees
    BY <1>13, <1>t, TaskPickerConstants DEF RecordReview
  <2>1. s \in States /\ s.completed = disk.completed /\ s.failed = disk.failed
    BY <1>t, <2>0 DEF States
  <2>2. /\ repo' = repo /\ pc' \notin Undecided
        /\ Store!Save(s) \/ Store!TornSave(s)
    BY <1>13 DEF RecordReview, CutShort, Return, Exit, Undecided
  <2> HIDE DEF s
  <2>3. disk'.completed = disk.completed /\ disk'.failed = disk.failed
    BY <1>t, <2>1, <2>2, WholeSave DEF store
  <2> QED BY <1>q, <2>2, <2>3
<1>14. CASE UNCHANGED vars
  BY <1>14 DEF vars, MarkInv
<1> QED BY <1>1, <1>2, <1>3, <1>4, <1>5, <1>6, <1>7, <1>8, <1>9, <1>10, <1>11,
           <1>12, <1>13, <1>14 DEF Next, Invocation, Step

\* As long as nobody intervenes, no task is both completed and failed, whatever
\* is lost between the steps and recovered from git: for every plan, agent and
\* fault, with merged batches when saves are whole, and for every cut of a save
\* without them.
THEOREM OutcomesDoNotOverlap ==
    ASSUME Unattended, WholeSaves \/ ~MergeFile
    PROVE  Spec => []OneOutcome
<1>1. CASE ~MergeFile
  <2>1. TypeInv /\ OutcomeInv /\ [Next]_vars => OutcomeInv'
    BY <1>1, OutcomeInvIsInductive
  <2>2. OutcomeInv => OneOutcome
    BY DEF OutcomeInv, Consistent, OneOutcome
  <2> QED BY InitIsTyped, InitIsConsistent, TypeInvIsInductive, <2>1, <2>2, PTL DEF Spec
<1>2. CASE WholeSaves
  <2>1. TypeInv /\ BatchInv /\ [Next]_vars => BatchInv'
    BY <1>2, BatchInvIsInductive
  <2>2. TypeInv /\ BatchInv /\ MarkInv /\ [Next]_vars => MarkInv'
    BY <1>2, MarkInvIsInductive
  <2>3. MarkInv => OneOutcome
    BY DEF MarkInv, OneOutcome
  <2> QED BY InitIsTyped, InitHasNoBatch, InitHasNoMark, TypeInvIsInductive, <2>1, <2>2,
             <2>3, PTL DEF Spec
<1> QED BY <1>1, <1>2

\* Nor is a task recorded as failed whose merge git log finds: after a crash
\* between the merge and its record the next round completes it.
THEOREM MergedTasksAreNotFailed ==
    ASSUME Unattended, WholeSaves \/ ~MergeFile
    PROVE  Spec => []MergedIsNotFailed
<1>1. CASE ~MergeFile
  <2>1. TypeInv /\ OutcomeInv /\ [Next]_vars => OutcomeInv'
    BY <1>1, OutcomeInvIsInductive
  <2>2. OutcomeInv => MergedIsNotFailed
    BY DEF OutcomeInv, Consistent, MergedIsNotFailed
  <2> QED BY InitIsTyped, InitIsConsistent, TypeInvIsInductive, <2>1, <2>2, PTL DEF Spec
<1>2. CASE WholeSaves
  <2>1. TypeInv /\ BatchInv /\ [Next]_vars => BatchInv'
    BY <1>2, BatchInvIsInductive
  <2>2. TypeInv /\ BatchInv /\ MarkInv /\ [Next]_vars => MarkInv'
    BY <1>2, MarkInvIsInductive
  <2>3. MarkInv => MergedIsNotFailed
    BY DEF MarkInv, MergedIsNotFailed
  <2> QED BY InitIsTyped, InitHasNoBatch, InitHasNoMark, TypeInvIsInductive, <2>1, <2>2,
             <2>3, PTL DEF Spec
<1> QED BY <1>1, <1>2

\* A step from between two batches fails tasks only while it looks for the
\* next one.
LEMMA OnlyTheScanFails ==
    ASSUME Unattended, Next, pc \in {"idle", "loop"}, disk' # disk
    PROVE  \E c \in {"next", "loop"} : NextBatch(c)
<1>1. \A t : ~Retry(t)
  BY DEF Unattended, Retry
<1> QED BY <1>1
        DEF Next, Invocation, RunSpecific, Resume, PruneFailed, Step, Crash, store,
            LeaveLoop, EnterMain, EnterBranch, Recheck, SaveCurrent, OpenTrajectory,
            Attempt, BranchMissing, CommitLeftovers, Land, MergeFails, DeleteMerged,
            RecordCompleted, RecordRefused, RecordSkipped, Abandon, RecordFailed,
            NoReview, EnterReview, ReviewWork, FinishReview, RecordReview

\* An integration test that the picker fails without running it belongs to a
\* subtree with an implementation task that is not completed.
THEOREM SkippedTestsAreDoomed ==
    ASSUME Unattended, WholeSaves \/ ~MergeFile
    PROVE  Spec => IntegrationSkipIsJustified
<1> DEFINE Justified ==
       \A t \in disk'.failed \ disk.failed :
          pc \in {"idle", "loop"} =>
              \E u \in Tasks : /\ Implementation(u) /\ Subtree[u] = Subtree[t]
                               /\ u \notin disk'.completed
<1>1. CASE ~MergeFile
  <2>1. TypeInv /\ OutcomeInv /\ [Next]_vars => OutcomeInv'
    BY <1>1, OutcomeInvIsInductive
  <2>2. TypeInv /\ OutcomeInv /\ [Next]_vars => [Justified]_vars
    <3> SUFFICES ASSUME TypeInv, OutcomeInv, Next, pc \in {"idle", "loop"}, disk' # disk
                 PROVE  Justified
      OBVIOUS
    <3> QED BY <1>1, OnlyTheScanFails, NextBatchOutcome
  <2> QED BY InitIsTyped, InitIsConsistent, TypeInvIsInductive, <2>1, <2>2, PTL
          DEF Spec, IntegrationSkipIsJustified
<1>2. CASE WholeSaves
  <2>1. TypeInv /\ BatchInv /\ [Next]_vars => BatchInv'
    BY <1>2, BatchInvIsInductive
  <2>2. TypeInv /\ BatchInv /\ MarkInv /\ [Next]_vars => MarkInv'
    BY <1>2, MarkInvIsInductive
  <2>3. TypeInv /\ BatchInv /\ MarkInv /\ [Next]_vars => [Justified]_vars
    <3> SUFFICES ASSUME TypeInv, BatchInv, MarkInv, Next, pc \in {"idle", "loop"}, disk' # disk
                 PROVE  Justified
      OBVIOUS
    <3> QED BY <1>2, OnlyTheScanFails, NextBatchMarks
  <2> QED BY InitIsTyped, InitHasNoBatch, InitHasNoMark, TypeInvIsInductive, <2>1, <2>2,
             <2>3, PTL DEF Spec, IntegrationSkipIsJustified
<1> QED BY <1>1, <1>2

-----------------------------------------------------------------------------
(* A round of --loop records what became of its batch.                     *)

LEMMA LoopRoundStep ==
    ASSUME WholeSaves, TypeInv, BatchInv, Next, pc' = "loop", pc # "loop",
           NEW t \in {id} \cup group
    PROVE  Settled(disk', t)
<1>t. /\ disk \in States /\ tail = "clean" /\ (pc \notin {"idle", "loop"} => id \in Tasks)
  BY DEF TypeInv, TypeOK, ProcessTypeOK, Store!TypeOK, BatchInv
<1>1. \/ NoReview \/ RecordReview \/ RecordCompleted \/ RecordFailed
  BY DEF Next, Invocation, NextBatch, Retry, RunSpecific, Resume, PruneFailed, Dispatch,
         CutShort, Step, LeaveLoop, EnterMain, EnterBranch, Recheck, SaveCurrent,
         OpenTrajectory, Attempt, BranchMissing, CommitLeftovers, Land, MergeFails,
         DeleteMerged, RecordRefused, RecordSkipped, Record, Abandon, EnterReview,
         ReviewWork, FinishReview, Crash, Goto, Return, Exit
<1>2. CASE NoReview
  BY <1>2 DEF NoReview, BatchInv, Settled, store
<1>3. CASE RecordReview
  <2> DEFINE s == [disk EXCEPT !.reviewed = @ \cup {Subtree[id]}]
  <2>0. Subtree[id] \in Subtrees
    BY <1>3, <1>t, TaskPickerConstants DEF RecordReview
  <2>1. s \in States /\ s.completed = disk.completed
    BY <1>t, <2>0 DEF States
  <2>2. Store!Save(s)
    BY <1>3 DEF RecordReview, CutShort, Exit
  <2> HIDE DEF s
  <2>3. disk' = s
    BY <1>t, <2>1, <2>2, WholeSave
  <2> QED BY <1>3, <2>1, <2>3 DEF RecordReview, BatchInv, Settled
<1>4. CASE RecordCompleted \/ RecordFailed
  <2>1. pc \in Undecided /\ Named /\ id \in Tasks
    BY <1>4, <1>t DEF RecordCompleted, RecordFailed, Undecided, Named, Locations
  <2>2. disk.current = id /\ disk.merged = group
    BY <2>1 DEF BatchInv
  <2>3. PICK ok \in BOOLEAN : Store!Save(CompleteBatch(disk, id, ok))
    BY <1>4, <2>2 DEF RecordCompleted, RecordFailed, Record, CutShort, Exit
  <2>4. disk' = CompleteBatch(disk, id, ok)
    BY <1>t, <2>1, <2>3, CompleteBatchIsState, WholeSave
  <2>5. CASE ok = TRUE
    <3>1. CompleteBatch(disk, id, TRUE).completed = disk.completed \cup {id} \cup disk.merged
      BY <1>t, <2>1, <2>2, RecordedOutcome
    <3> QED BY <2>2, <2>4, <2>5, <3>1 DEF Settled
  <2>6. CASE ok = FALSE
    <3>1. CompleteBatch(disk, id, FALSE).failed = disk.failed \cup {id} \cup disk.merged
      BY <1>t, <2>1, <2>2, RecordedOutcome
    <3> QED BY <2>2, <2>4, <2>6, <3>1 DEF Settled
  <2> QED BY <2>5, <2>6
<1> QED BY <1>1, <1>2, <1>3, <1>4

\* When saves are whole, no round of --loop goes on to the next one before the
\* outcome of every task of its batch is in the state file, for every plan,
\* agent and fault, so that no batch is taken twice for a record that was
\* skipped because the state named another batch.
THEOREM LoopRoundsSettleTheirBatch ==
    ASSUME WholeSaves
    PROVE  Spec => LoopRoundSettles
<1>1. TypeInv /\ BatchInv /\ [Next]_vars => BatchInv'
  BY BatchInvIsInductive
<1>2. TypeInv /\ BatchInv /\ [Next]_vars =>
         [pc' = "loop" /\ pc # "loop" => \A t \in {id} \cup group : Settled(disk', t)]_vars
  BY LoopRoundStep
<1> QED BY InitIsTyped, InitHasNoBatch, TypeInvIsInductive, <1>1, <1>2, PTL
        DEF Spec, LoopRoundSettles

-----------------------------------------------------------------------------
(* The orchestrator implements the ledger, when saves are whole and the    *)
(* agent keeps to its branch.                                              *)

\* What one scan adds to a state.
LEMMA ScanSettles ==
    ASSUME NEW s \in States, NEW marks \in SUBSET Tasks
    PROVE  \E done, lost \in SUBSET Tasks :
              /\ done \subseteq marks /\ lost \cap (s.completed \cup done) = {}
              /\ AfterScan(s, marks).completed = s.completed \cup done
              /\ AfterScan(s, marks).failed = s.failed \cup lost
              /\ Pick(s, marks) # NoBatch => Pick(s, marks) \notin s.completed \cup done
<1> DEFINE done == {TaskOrder[i] : i \in {k \in Scanned(s, marks) : Recovered(s, marks, k)}}
           lost == {TaskOrder[i] : i \in {k \in Scanned(s, marks) : Doomed(s, marks, k)}}
<1>1. done \subseteq marks
  BY DEF Recovered
<1>2. lost \cap marks = {} /\ lost \cap s.completed = {}
  BY DEF Doomed, Recovered, Open, Settled
<1>3. lost \subseteq Tasks
  BY Positions DEF Scanned
<1>4. Pick(s, marks) # NoBatch => Pick(s, marks) \notin s.completed \cup marks
  BY PickIsRunnable DEF Runnable, Recovered, Open, Settled
<1> HIDE DEF done, lost
<1>5. AfterScan(s, marks) = [s EXCEPT !.completed = @ \cup done, !.failed = @ \cup lost]
  BY DEF AfterScan, done, lost
<1>6. /\ AfterScan(s, marks).completed = s.completed \cup done
      /\ AfterScan(s, marks).failed = s.failed \cup lost
  BY <1>5 DEF States
<1>7. done \in SUBSET Tasks /\ lost \in SUBSET Tasks
  BY <1>1, <1>3
<1>8. lost \cap (s.completed \cup done) = {}
  BY <1>1, <1>2
<1>9. Pick(s, marks) # NoBatch => Pick(s, marks) \notin s.completed \cup done
  BY <1>1, <1>4
<1> QED BY <1>1, <1>6, <1>7, <1>8, <1>9

\* Steps that record nothing: work may land, and none is lost.
LEMMA Lands ==
    ASSUME disk'.completed = disk.completed, disk'.failed = disk.failed,
           Landed \subseteq Landed', Landed' \subseteq Tasks
    PROVE  [Ledger!Next]_Ledger!vars
<1>1. Ledger!Land(Landed')
  BY DEF Ledger!Land, Landed
<1> QED BY <1>1 DEF Ledger!Next

LEMMA MainGrows ==
    ASSUME TypeInv, Next
    PROVE  repo.main \subseteq repo'.main /\ riders \subseteq riders'
<1>t. Repos(repo) /\ (pc \notin {"idle", "loop"} => id \in Tasks /\ Branch \in Branches)
  BY RunBatchConstants DEF TypeInv, TypeOK, ProcessTypeOK, Branch
<1>k. /\ Repos(CommitAll(repo)) /\ repo.main \subseteq CommitAll(repo).main
      /\ DOMAIN CommitAll(repo).br = DOMAIN repo.br
      /\ \A b : Checkout(CommitAll(repo), b).main = CommitAll(repo).main
      /\ Checkout(repo, Main).main = repo.main
  BY <1>t, CommitAllIsRepo DEF Checkout, Repos
<1>e. /\ Repos(EnsureOnMain(repo)) /\ repo.main \subseteq EnsureOnMain(repo).main
      /\ EnsureOnMain(repo).head = Main
  BY <1>t, EnsureOnMainIsRepo
<1>b. \A r, b : Repos(r) => DeleteBranch(r, b).main = r.main
  BY DEF DeleteBranch, Repos
<1>0. riders \subseteq riders'
  BY DEF Next, Invocation, NextBatch, Retry, RunSpecific, Resume, PruneFailed, Step,
        Crash, LeaveLoop, EnterMain, EnterBranch, Recheck, SaveCurrent, OpenTrajectory,
        Attempt, BranchMissing, CommitLeftovers, Land, MergeFails, DeleteMerged,
        RecordCompleted, RecordRefused, RecordSkipped, Abandon, RecordFailed,
        NoReview, EnterReview, ReviewWork, FinishReview, RecordReview
<1>1. CASE UNCHANGED repo
  BY <1>0, <1>1
<1>2. CASE PruneFailed
  BY <1>t, <1>2 DEF PruneFailed, Repos
<1>3. CASE EnterMain
  BY <1>3, <1>k, <1>e DEF EnterMain
<1>4. CASE EnterBranch
  <2>1. Reuse \in BOOLEAN /\ repo.head = Main /\ Branch \in Branches /\ Branch # Main
    BY <1>4, <1>t, RunBatchConstants DEF Reuse, EnterBranch, TypeInv, PlaceOK
  <2>2. SetupBranch(repo, Branch, Reuse).main = repo.main
    BY <1>t, <2>1, SetupBranchIsRepo
  <2> QED BY <1>4, <1>t, <1>b, <2>2 DEF EnterBranch
<1>5. CASE Attempt
  <2>1. PICK how \in AgentModes, new \in SUBSET ({id} \cup group) :
           repo' = AgentWork(repo, Branch, how, new)
    BY <1>5 DEF Attempt
  <2>2. new \in SUBSET Tasks /\ Branch \in Branches
    BY <1>5, <1>t DEF Attempt, TypeInv, TypeOK, ProcessTypeOK
  <2> QED BY <1>0, <1>t, <2>1, <2>2, AgentWorkIsRepo
<1>6. CASE BranchMissing
  <2>1. CommitAll(repo).main \subseteq EnsureOnMain(CommitAll(repo)).main
    BY <1>k, EnsureOnMainIsRepo
  <2> QED BY <1>6, <1>k, <2>1 DEF BranchMissing
<1>7. CASE CommitLeftovers \/ MergeFails \/ DeleteMerged \/ Abandon
  BY <1>7, <1>t, <1>k, <1>b DEF CommitLeftovers, MergeFails, DeleteMerged, Abandon
<1>8. CASE Land
  BY <1>8, <1>t, MergeBranchIsRepo DEF Land, TypeInv, PlaceOK
<1>9. CASE EnterReview
  <2>1. ASSUME Subtree[id] \in Reviewable
        PROVE  SetupBranch(EnsureOnMain(repo), Review, FALSE).main = EnsureOnMain(repo).main
    <3>1. Review \in Branches /\ Review # Main
      BY <2>1, RunBatchConstants DEF Review
    <3> QED BY <1>e, <3>1, SetupBranchIsRepo
  <2> QED BY <1>9, <1>e, <1>b, <2>1 DEF EnterReview, IsSubtreeJustCompleted
<1>10. CASE ReviewWork
  <2>1. PICK how \in ReviewModes : repo' = AgentWork(repo, Review, how, {})
    BY <1>10 DEF ReviewWork
  <2>2. Review \in Branches
    BY <1>10, RunBatchConstants DEF ReviewWork, Review, TypeInv, PlaceOK
  <2> QED BY <1>0, <1>t, <2>1, <2>2, AgentWorkIsRepo
<1>11. CASE FinishReview
  <2> DEFINE q == MergeBranch(CommitAll(repo), Review, {})
  <2>1. ASSUME Review \in DOMAIN repo.br
        PROVE  repo.main \subseteq DeleteBranch(q, Review).main
    <3>1. Repos(q) /\ repo.main \subseteq q.main
      BY <1>k, <2>1, MergeBranchIsRepo
    <3> HIDE DEF q
    <3> QED BY <1>b, <3>1
  <2> QED BY <1>11, <1>k, <2>1 DEF FinishReview
<1> QED BY <1>0, <1>1, <1>2, <1>3, <1>4, <1>5, <1>6, <1>7, <1>8, <1>9, <1>10, <1>11
        DEF Next, Invocation, NextBatch, Retry, RunSpecific, Resume, Step, Crash,
            LeaveLoop, Recheck, SaveCurrent, OpenTrajectory, RecordCompleted,
            RecordRefused, RecordSkipped, RecordFailed, NoReview, RecordReview

\* A step that leaves the state file alone.
LEMMA QuietStepLands ==
    ASSUME TypeInv, Next, disk' = disk
    PROVE  [Ledger!Next]_Ledger!vars
<1>1. repo.main \subseteq repo'.main /\ riders \subseteq riders'
  BY MainGrows
<1>2. repo'.main \subseteq Tasks /\ riders' \subseteq Tasks
  BY TypeInvIsInductive DEF TypeInv, TypeOK, Repos
<1> QED BY <1>1, <1>2, Lands DEF Landed

\* A step that saves an outcome, or nothing new.
LEMMA SavedStep ==
    ASSUME UNCHANGED <<repo, riders>>, NEW done \in SUBSET Tasks, NEW lost \in SUBSET Tasks,
           done \subseteq Landed, lost \cap (disk.completed \cup done) = {},
           disk'.completed = disk.completed \cup done, disk'.failed = disk.failed \cup lost
    PROVE  [Ledger!Next]_Ledger!vars
<1>1. Ledger!Settle(done, lost)
  BY DEF Ledger!Settle, Landed
<1> QED BY <1>1 DEF Ledger!Next

\* A record that is made of the batch the state names, or not at all.
LEMMA RecordedStep ==
    ASSUME WholeSaves, TypeInv, tail = "clean", NEW s \in States,
           NEW done \in SUBSET Tasks, NEW lost \in SUBSET Tasks,
           done \subseteq Landed, lost \cap (disk.completed \cup done) = {},
           s.completed = disk.completed \cup done, s.failed = disk.failed \cup lost,
           Store!Save(s) \/ Store!TornSave(s) \/ UNCHANGED store, UNCHANGED <<repo, riders>>
    PROVE  [Ledger!Next]_Ledger!vars
<1>1. disk' = s \/ disk' = disk
  BY WholeSave DEF store
<1>2. CASE disk' = disk
  BY <1>2 DEF Ledger!vars
<1>3. CASE disk' = s
  BY <1>3, SavedStep
<1> QED BY <1>1, <1>2, <1>3

LEMMA LedgerStep ==
    ASSUME WholeSaves, TypeInv, LandInv, BatchInv, Next
    PROVE  [Ledger!Next]_Ledger!vars
<1>t. /\ disk \in States /\ mem \in States /\ repo.marks \in SUBSET Tasks
      /\ group \subseteq Tasks /\ (pc \notin {"idle", "loop"} => id \in Tasks)
  BY DEF TypeInv, TypeOK, ProcessTypeOK, Store!TypeOK, Repos
<1>l. /\ repo.marks \subseteq Landed /\ tail = "clean"
      /\ pc = "complete" => {id} \cup group \subseteq Landed
  BY DEF LandInv, CompletedOK, BatchOK, Landed, BatchInv
<1>1. ASSUME NEW c \in {"next", "loop"}, NextBatch(c) PROVE [Ledger!Next]_Ledger!vars
  <2> DEFINE s == AfterScan(disk, repo.marks)
  <2>1. PICK done \in SUBSET Tasks, lost \in SUBSET Tasks :
           /\ done \subseteq repo.marks /\ lost \cap (disk.completed \cup done) = {}
           /\ s.completed = disk.completed \cup done
           /\ s.failed = disk.failed \cup lost
           /\ Pick(disk, repo.marks) # NoBatch =>
                 Pick(disk, repo.marks) \notin disk.completed \cup done
    BY <1>t, ScanSettles
  <2>2. s \in States
    BY <1>t, AfterScanIsState
  <2>3. /\ Store!Save(s) \/ Store!TornSave(s) \/ UNCHANGED store
        /\ UNCHANGED <<repo, riders>>
    BY <1>1 DEF NextBatch, CutShort
  <2> HIDE DEF s
  <2> QED BY <1>l, <2>1, <2>2, <2>3, RecordedStep
<1>2. ASSUME NEW t \in Tasks, Retry(t) PROVE [Ledger!Next]_Ledger!vars
  <2> DEFINE s == ClearFailed(disk, t)
  <2>1. s \in States /\ s.completed = disk.completed /\ s.failed = disk.failed \ {t}
    BY <1>t DEF ClearFailed, States
  <2>2. /\ Store!Save(s) \/ Store!TornSave(s) \/ UNCHANGED store
        /\ UNCHANGED <<repo, riders>>
    BY <1>2 DEF Retry, CutShort
  <2> HIDE DEF s
  <2>3. disk' = s \/ disk' = disk
    BY <1>l, <2>1, <2>2, WholeSave DEF store
  <2>4. CASE disk' = s
    <3>1. Ledger!Reopen(t)
      BY <2>1, <2>2, <2>4 DEF Ledger!Reopen
    <3> QED BY <3>1 DEF Ledger!Next
  <2>5. CASE disk' = disk
    BY <2>2, <2>5 DEF Ledger!vars
  <2> QED BY <2>3, <2>4, <2>5
<1>3. ASSUME disk' = disk PROVE [Ledger!Next]_Ledger!vars
  BY <1>3, QuietStepLands
<1>4. CASE SaveCurrent
  <2> DEFINE s == SetCurrent(mem, id, group)
  <2>1. s \in States /\ s.completed = mem.completed /\ s.failed = mem.failed
    BY <1>4, <1>t DEF SetCurrent, States, SaveCurrent
  <2>2. mem.completed = disk.completed /\ mem.failed = disk.failed
    BY <1>4 DEF SaveCurrent, BatchInv, Loaded
  <2>3. (Store!Save(s) \/ Store!TornSave(s)) /\ UNCHANGED <<repo, riders>>
    BY <1>4 DEF SaveCurrent, CutShort
  <2> HIDE DEF s
  <2>4. /\ s.completed = disk.completed \cup {} /\ s.failed = disk.failed \cup {}
        /\ {} \in SUBSET Tasks /\ {} \subseteq Landed
        /\ {} \cap (disk.completed \cup {}) = {}
    BY <2>1, <2>2
  <2> QED BY <1>l, <2>1, <2>3, <2>4, RecordedStep
<1>5. CASE OpenTrajectory
  <2>1. /\ mem.completed = disk.completed \cup {} /\ mem.failed = disk.failed \cup {}
        /\ {} \in SUBSET Tasks /\ {} \subseteq Landed
        /\ {} \cap (disk.completed \cup {}) = {}
    BY <1>5 DEF OpenTrajectory, BatchInv, Loaded
  <2>2. /\ Store!Save(mem) \/ Store!TornSave(mem) \/ UNCHANGED store
        /\ UNCHANGED <<repo, riders>>
    BY <1>5 DEF OpenTrajectory, CutShort
  <2> QED BY <1>l, <1>t, <2>1, <2>2, RecordedStep
<1>6. CASE RecordCompleted \/ RecordRefused \/ RecordSkipped \/ RecordFailed
  <2>1. /\ pc \in {"complete", "refuse", "skip", "fail"} /\ UNCHANGED <<repo, riders>>
        /\ id \in Tasks /\ pc \in Undecided \ Loaded
    BY <1>6, <1>t DEF RecordCompleted, RecordRefused, RecordSkipped, RecordFailed,
       Undecided, Loaded, Locations
  <2>2. /\ disk.current = id /\ disk.merged = group
        /\ ({id} \cup group) \cap disk.completed = {}
    BY <2>1 DEF BatchInv, Named, Loaded
  <2>3. CASE RecordCompleted
    <3> DEFINE s == CompleteBatch(disk, id, TRUE)
    <3>1. s.completed = disk.completed \cup {id} \cup group /\ s.failed = disk.failed
      BY <1>t, <2>1, <2>2, RecordedOutcome
    <3>2. (Store!Save(s) \/ Store!TornSave(s)) /\ s \in States
      BY <1>t, <2>1, <2>2, <2>3, CompleteBatchIsState DEF RecordCompleted, Record, CutShort
    <3>3. {id} \cup group \subseteq Landed
      BY <1>l, <2>3 DEF RecordCompleted
    <3> HIDE DEF s
    <3>4. /\ s.completed = disk.completed \cup ({id} \cup group)
          /\ s.failed = disk.failed \cup {}
          /\ {id} \cup group \in SUBSET Tasks /\ {} \in SUBSET Tasks
          /\ {} \cap (disk.completed \cup ({id} \cup group)) = {}
      BY <1>t, <2>1, <3>1
    <3> QED BY <1>l, <1>t, <2>1, <3>2, <3>3, <3>4, RecordedStep
  <2>4. CASE RecordRefused \/ RecordFailed
    <3> DEFINE s == CompleteBatch(disk, id, FALSE)
    <3>1. s.completed = disk.completed /\ s.failed = disk.failed \cup {id} \cup group
      BY <1>t, <2>1, <2>2, RecordedOutcome
    <3>2. (Store!Save(s) \/ Store!TornSave(s)) /\ s \in States
      BY <1>t, <2>1, <2>2, <2>4, CompleteBatchIsState
         DEF RecordRefused, RecordFailed, Record, CutShort
    <3> HIDE DEF s
    <3>3. /\ s.completed = disk.completed \cup {}
          /\ s.failed = disk.failed \cup ({id} \cup group)
          /\ {id} \cup group \in SUBSET Tasks /\ {} \in SUBSET Tasks /\ {} \subseteq Landed
          /\ ({id} \cup group) \cap (disk.completed \cup {}) = {}
      BY <1>t, <2>1, <2>2, <3>1
    <3> QED BY <1>l, <1>t, <2>1, <3>2, <3>3, RecordedStep
  <2>5. CASE RecordSkipped
    <3> DEFINE s == SkipBatch(disk, id)
    <3>1. /\ s.completed = disk.completed
          /\ s.failed \in {disk.failed, disk.failed \cup {id}}
      BY <1>t, <2>1, <2>2, RecordedOutcome
    <3>2. (Store!Save(s) \/ Store!TornSave(s)) /\ s \in States
      BY <1>t, <2>1, <2>2, <2>5, SkipBatchIsState DEF RecordSkipped, Record, CutShort
    <3> HIDE DEF s
    <3>3. PICK lost \in {{}, {id}} : s.failed = disk.failed \cup lost
      BY <3>1
    <3>4. /\ s.completed = disk.completed \cup {}
          /\ lost \in SUBSET Tasks /\ lost \cap (disk.completed \cup {}) = {}
      BY <2>1, <2>2, <3>1, <3>3
    <3> QED BY <1>l, <2>1, <3>2, <3>3, <3>4, RecordedStep
  <2> QED BY <1>6, <2>3, <2>4, <2>5
<1>7. CASE RecordReview
  <2> DEFINE s == [disk EXCEPT !.reviewed = @ \cup {Subtree[id]}]
  <2>0. Subtree[id] \in Subtrees
    BY <1>7, <1>t, TaskPickerConstants DEF RecordReview
  <2>1. /\ s \in States
        /\ s.completed = disk.completed \cup {} /\ s.failed = disk.failed \cup {}
        /\ {} \in SUBSET Tasks /\ {} \subseteq Landed
        /\ {} \cap (disk.completed \cup {}) = {}
    BY <1>t, <2>0 DEF States
  <2>2. (Store!Save(s) \/ Store!TornSave(s)) /\ UNCHANGED <<repo, riders>>
    BY <1>7 DEF RecordReview, CutShort
  <2> HIDE DEF s
  <2> QED BY <1>l, <2>1, <2>2, RecordedStep
<1> QED BY <1>1, <1>2, <1>3, <1>4, <1>5, <1>6, <1>7
        DEF Next, Invocation, Step, RunSpecific, Resume, PruneFailed, LeaveLoop, Crash,
            EnterMain, EnterBranch, Recheck, Attempt, BranchMissing, CommitLeftovers,
            Land, MergeFails, DeleteMerged, Abandon, NoReview, EnterReview, ReviewWork,
            FinishReview, store

\* For every plan, every agent that keeps to its branch and every fault between
\* the steps, merged batches included: the state file, the repository and the
\* process together behave like one ledger, in which tasks are completed after
\* their work has landed, stay completed, and fail only while they are not.
THEOREM OrchestratorImplementsLedger ==
    ASSUME KeepsToBranch, WholeSaves
    PROVE  Spec => ImplementsLedger
<1>1. Init => Ledger!Init
  BY DEF Init, Ledger!Init, Store!Init, FreshState, EmptyRepo
<1>2. TypeInv /\ BatchInv /\ [Next]_vars => BatchInv'
  BY BatchInvIsInductive
<1>3. TypeInv /\ LandInv /\ BatchInv /\ [Next]_vars => [Ledger!Next]_Ledger!vars
  <2>1. CASE Next
    BY <2>1, LedgerStep
  <2>2. CASE UNCHANGED vars
    BY <2>2 DEF vars, store, Ledger!vars
  <2> QED BY <2>1, <2>2
<1>4. TypeInv /\ LandInv /\ [Next]_vars => LandInv'
  BY LandInvIsInductive
<1> QED BY InitIsTyped, InitHasLanded, InitHasNoBatch, TypeInvIsInductive, <1>1, <1>2,
           <1>3, <1>4, PTL
        DEF Spec, ImplementsLedger, Ledger!Spec
=============================================================================
