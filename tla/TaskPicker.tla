----------------------------- MODULE TaskPicker -----------------------------
(***************************************************************************)
(* The task pickers of code_gen/task_loader.py.  Both scan tasks.json in   *)
(* order; on the way they complete tasks whose marker is in the git        *)
(* history, put off integration tests while implementation work is         *)
(* pending, and fail integration tests of a subtree with a failed          *)
(* implementation task.  The scan stops at the first task to run.          *)
(*                                                                         *)
(* The operators give what the scan does to each position; PickerScan runs *)
(* the loops one iteration at a time and is checked to agree.              *)
(***************************************************************************)
EXTENDS ExecutionState, Sequences, FiniteSets

CONSTANTS
    TaskOrder,    \* load_tasks_from_tasks_json: the tasks, in order
    Kind,         \* task_type: "implementation", "integration_test" or "other"
    Subtree,      \* the subtree of a task
    File,         \* file_path
    Units,        \* len(units_key)
    MaxUnits      \* --max-units, 0 for no limit

ASSUME TaskPickerConstants ==
    /\ TaskOrder \in Seq(Tasks)
    /\ \A t \in Tasks : \E i \in DOMAIN TaskOrder : TaskOrder[i] = t
    /\ \A i, j \in DOMAIN TaskOrder : TaskOrder[i] = TaskOrder[j] => i = j
    /\ Subtree \in [Tasks -> Subtrees]
    /\ Kind \in [Tasks -> {"implementation", "integration_test", "other"}]
    /\ Units \in [Tasks -> Nat \ {0}]
    /\ MaxUnits \in Nat

Implementation(t) == Kind[t] = "implementation"
Integration(t) == Kind[t] = "integration_test"

\* Seeded fault: the outcome of the dependencies is not looked at.
HasImplDependencies(s, t) ==
    \E u \in Tasks : Implementation(u) /\ Subtree[u] = Subtree[t]

\* _has_failed_impl_dependencies
HasFailedImplDependencies(s, t) ==
    \E u \in s.failed : Implementation(u) /\ Subtree[u] = Subtree[t]

-----------------------------------------------------------------------------
(* One position of the scan, over the state s the scan starts from and the *)
(* set of tasks whose "batch_completed" marker git log finds.              *)

\* Seeded fault: failed tasks are picked again.
NotCompleted(s, i) == TaskOrder[i] \notin s.completed

Open(s, i) == ~Settled(s, TaskOrder[i])

\* Seeded fault: no recovery from the git history.
NeverRecovered(s, marks, i) == FALSE

Recovered(s, marks, i) == Open(s, i) /\ TaskOrder[i] \in marks

\* Seeded fault: _pending_impl_ids is not updated during recovery.
ImplPendingAtStart(s, marks, i) ==
    \E j \in DOMAIN TaskOrder : Open(s, j) /\ Implementation(TaskOrder[j])

\* _pending_impl_ids when the scan reaches position i: recovery has removed
\* the marked tasks before i, not those after it.
ImplPendingAt(s, marks, i) ==
    \E j \in DOMAIN TaskOrder :
        /\ Open(s, j) /\ Implementation(TaskOrder[j])
        /\ j < i => TaskOrder[j] \notin marks

Deferred(s, marks, i) ==
    Integration(TaskOrder[i]) /\ ImplPendingAt(s, marks, i)

Doomed(s, marks, i) ==
    /\ Open(s, i) /\ ~Recovered(s, marks, i)
    /\ Integration(TaskOrder[i]) /\ ~ImplPendingAt(s, marks, i)
    /\ HasFailedImplDependencies(s, TaskOrder[i])

Runnable(s, marks, i) ==
    /\ Open(s, i) /\ ~Recovered(s, marks, i)
    /\ ~Deferred(s, marks, i) /\ ~Doomed(s, marks, i)

-----------------------------------------------------------------------------
(* The whole scan. *)

RunnableAt(s, marks) == {i \in DOMAIN TaskOrder : Runnable(s, marks, i)}

\* The task found, or NoBatch.
Pick(s, marks) ==
    LET at == RunnableAt(s, marks)
    IN  IF at = {} THEN NoBatch
        ELSE TaskOrder[CHOOSE i \in at : \A j \in at : i <= j]

\* The positions the scan passed over.
Scanned(s, marks) ==
    {i \in DOMAIN TaskOrder : \A j \in RunnableAt(s, marks) : i < j}

\* The state it leaves.
AfterScan(s, marks) ==
    LET passed == Scanned(s, marks)
    IN  [s EXCEPT
           !.completed = @ \cup
              {TaskOrder[i] : i \in {k \in passed : Recovered(s, marks, k)}},
           !.failed = @ \cup
              {TaskOrder[i] : i \in {k \in passed : Doomed(s, marks, k)}}]

\* get_next_merged_tasks, parts 2 to 4: the pending implementation tasks of
\* the file of t, in order, as long as they fit into MaxUnits.
SameFile(s, t) ==
    {i \in DOMAIN TaskOrder :
        /\ Open(s, i) /\ Implementation(TaskOrder[i])
        /\ File[TaskOrder[i]] = File[t]}

\* unit_count after the first i tasks of the list, were all of them taken.
UnitsUpTo(s, t) ==
    LET sum[i \in 0..Len(TaskOrder)] ==
            IF i = 0 THEN 0
            ELSE sum[i - 1] + (IF i \in SameFile(s, t) THEN Units[TaskOrder[i]] ELSE 0)
    IN  sum

Fits(s, t, i) == MaxUnits = 0 \/ UnitsUpTo(s, t)[i] <= MaxUnits

MergedGroup(s, t) ==
    IF ~Implementation(t) THEN {t}
    ELSE LET all == {TaskOrder[i] : i \in {k \in SameFile(s, t) : Fits(s, t, k)}}
         IN  IF all = {} THEN {t} ELSE all
=============================================================================
