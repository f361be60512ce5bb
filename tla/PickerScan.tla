----------------------------- MODULE PickerScan -----------------------------
(***************************************************************************)
(* get_next_merged_tasks of code_gen/task_loader.py, one iteration of its  *)
(* loops at a time; its first loop is also get_next_pending_task_id.  The  *)
(* operators of TaskPicker, which RunBatch is built on, say at once what   *)
(* these loops compute; here the two are compared on every input.          *)
(***************************************************************************)
EXTENDS TaskPicker

VARIABLES
    given,        \* the state the picker is called with
    marks,        \* tasks whose marker git log finds
    s,            \* the state, as updated so far
    pendingImpl,  \* _pending_impl_ids
    modified,     \* state_modified
    at,           \* the loop index
    found,        \* first_pending
    selected,     \* the group collected so far, in order
    count,        \* unit_count
    pc

vars == <<given, marks, s, pendingImpl, modified, at, found, selected, count, pc>>

\* A picker is called with any mixture of outcomes: a task can be in both
\* lists, and a marker can belong to a task of any outcome.
Inputs ==
    {[FreshState EXCEPT !.completed = ids.completed, !.failed = ids.failed] :
        ids \in [completed : SUBSET Tasks, failed : SUBSET Tasks]}

Init ==
    /\ given \in Inputs /\ marks \in SUBSET Tasks /\ s = given
    /\ pendingImpl = {t \in Pending(given) : Implementation(t)}
    /\ modified = FALSE /\ at = 1 /\ found = NoBatch
    /\ selected = <<>> /\ count = 0 /\ pc = "scan"

-----------------------------------------------------------------------------
(* The first loop. *)

Task == TaskOrder[at]

Scanning == pc = "scan" /\ at <= Len(TaskOrder)

Continue == at' = at + 1 /\ UNCHANGED <<given, marks, found, selected, count, pc>>

SkipSettled ==
    /\ Scanning /\ Settled(s, Task)
    /\ Continue
    /\ UNCHANGED <<s, pendingImpl, modified>>

Recover ==
    /\ Scanning /\ ~Settled(s, Task) /\ Task \in marks
    /\ s' = [s EXCEPT !.completed = @ \cup {Task}]
    /\ pendingImpl' = pendingImpl \ {Task} /\ modified' = TRUE
    /\ Continue

\* Seeded fault: an integration test waits for its own subtree only.
WaitsForSubtree ==
    Integration(Task) /\ \E t \in pendingImpl : Subtree[t] = Subtree[Task]

MustWait == Integration(Task) /\ pendingImpl # {}

Defer ==
    /\ Scanning /\ ~Settled(s, Task) /\ Task \notin marks
    /\ MustWait
    /\ Continue
    /\ UNCHANGED <<s, pendingImpl, modified>>

IsDoomed ==
    Integration(Task) /\ ~MustWait /\ HasFailedImplDependencies(s, Task)

SkipDoomed ==
    /\ Scanning /\ ~Settled(s, Task) /\ Task \notin marks
    /\ IsDoomed
    /\ s' = [s EXCEPT !.failed = @ \cup {Task}] /\ modified' = TRUE
    /\ Continue
    /\ UNCHANGED pendingImpl

Find ==
    /\ Scanning /\ ~Settled(s, Task) /\ Task \notin marks
    /\ ~MustWait /\ ~IsDoomed
    /\ found' = Task
    /\ IF Implementation(Task) THEN pc' = "collect" /\ selected' = <<>>
                               ELSE pc' = "done" /\ selected' = <<Task>>
    /\ at' = 1
    /\ UNCHANGED <<given, marks, s, pendingImpl, modified, count>>

FindNothing ==
    /\ pc = "scan" /\ at > Len(TaskOrder)
    /\ pc' = "done"
    /\ UNCHANGED <<given, marks, s, pendingImpl, modified, at, found, selected, count>>

-----------------------------------------------------------------------------
(* The second loop: the tasks of the file, as long as they fit. *)

Collecting == pc = "collect" /\ at <= Len(TaskOrder)

InFile ==
    File[Task] = File[found] /\ Implementation(Task) /\ ~Settled(s, Task)

\* Seeded fault: the limit is noticed one task too late.
TooManyAlready == MaxUnits > 0 /\ count > MaxUnits

TooMany == MaxUnits > 0 /\ count + Units[Task] > MaxUnits

SkipOther ==
    /\ Collecting /\ ~InFile
    /\ at' = at + 1
    /\ UNCHANGED <<given, marks, s, pendingImpl, modified, found, selected, count, pc>>

Take ==
    /\ Collecting /\ InFile /\ ~TooMany
    /\ selected' = Append(selected, Task) /\ count' = count + Units[Task]
    /\ at' = at + 1
    /\ UNCHANGED <<given, marks, s, pendingImpl, modified, found, pc>>

\* break, or the end of the list; at least one task is returned.
Stop ==
    /\ pc = "collect"
    /\ IF at > Len(TaskOrder) THEN TRUE ELSE InFile /\ TooMany
    /\ selected' = IF selected = <<>> THEN <<found>> ELSE selected
    /\ pc' = "done"
    /\ UNCHANGED <<given, marks, s, pendingImpl, modified, at, found, count>>

Next ==
    \/ SkipSettled \/ Recover \/ Defer \/ SkipDoomed \/ Find \/ FindNothing
    \/ SkipOther \/ Take \/ Stop

Spec == Init /\ [][Next]_vars

-----------------------------------------------------------------------------
(* Properties. *)

\* What the loops return and leave behind is what TaskPicker says: the task
\* found, the state, whether it has to be saved, and the group.
LoopsComputeOperators ==
    pc = "done" =>
        /\ found = Pick(given, marks)
        /\ s = AfterScan(given, marks)
        /\ modified = (s # given)
        /\ found # NoBatch =>
              {selected[i] : i \in DOMAIN selected} = MergedGroup(s, found)

\* An integration test is handed out only when every implementation task has
\* an outcome and none of its own subtree has failed.
IntegrationRunsLast ==
    (pc = "done" /\ found # NoBatch /\ Integration(found)) =>
        \A t \in Tasks : Implementation(t) =>
            Settled(s, t) /\ (Subtree[t] = Subtree[found] => t \notin s.failed)

\* A group starts with the task found, contains no task that is completed or
\* failed, and exceeds --max-units only if its one task does by itself.
GroupIsWithinLimit ==
    (pc = "done" /\ found # NoBatch) =>
        /\ selected[1] = found
        /\ MaxUnits = 0 \/ Len(selected) = 1 \/ count <= MaxUnits
        /\ \A i \in DOMAIN selected : ~Settled(s, selected[i])
=============================================================================
