--------------------------- MODULE ExecutionState ---------------------------
(***************************************************************************)
(* CodeGenState (common/execution_state.py): the progress of a code        *)
(* generation run, and the operations that change it.  A state is a        *)
(* record; the lists of task ids, which are only tested for membership,    *)
(* are sets.  The counters completed_tasks and failed_tasks, timestamps,   *)
(* prompts and the trajectory path are left out: nothing decides on them.  *)
(***************************************************************************)
EXTENDS Naturals

CONSTANTS
    Tasks,        \* the task ids of tasks.json
    Subtrees,     \* the names of the tasks' subtrees
    NoBatch,      \* current_batch_id = None
    MaxPrepares   \* CodeGenState._MAX_BATCH_PREPARES

ASSUME ExecutionStateConstants ==
    NoBatch \notin Tasks /\ MaxPrepares \in Nat \ {0}

States == [completed : SUBSET Tasks, failed : SUBSET Tasks,
           skipped : SUBSET Tasks, current : Tasks \cup {NoBatch},
           merged : SUBSET Tasks,            \* merged_task_ids of the batch
           prepares : [Tasks -> 0..MaxPrepares],
           reviewed : SUBSET Subtrees]       \* keys of subtree_reviews

FreshState == [completed |-> {}, failed |-> {}, skipped |-> {},
               current |-> NoBatch, merged |-> {},
               prepares |-> [t \in Tasks |-> 0], reviewed |-> {}]

Settled(s, t) == t \in s.completed \cup s.failed

Pending(s) == {t \in Tasks : ~Settled(s, t)}

\* Seeded fault: the merged ids are not recorded.
SetCurrentAlone(s, id, ids) == [s EXCEPT !.current = id]

\* set_current_batch
SetCurrent(s, id, ids) == [s EXCEPT !.current = id, !.merged = ids]

NoCurrent(s) == [s EXCEPT !.current = NoBatch, !.merged = {}]

\* Seeded fault: failures are not recorded.
CompleteSuccess(s, success) ==
    IF success
    THEN [NoCurrent(s) EXCEPT !.completed = @ \cup {s.current} \cup s.merged]
    ELSE NoCurrent(s)

\* complete_current_batch: the ids of a merged batch share one outcome.  The
\* other list is left alone.
CompleteCurrent(s, success) ==
    LET ids == {s.current} \cup s.merged
        t   == NoCurrent(s)
    IN  IF success THEN [t EXCEPT !.completed = @ \cup ids]
                   ELSE [t EXCEPT !.failed = @ \cup ids]

\* complete_batch, on a state just loaded.
CompleteBatch(s, id, success) ==
    IF s.current = id THEN CompleteCurrent(s, success) ELSE s

\* Seeded fault: skips are not counted.
NeverPrepared(s, id) == s.prepares[id]

\* batch_prepare_counts[id] + 1.  A count above the limit acts like the limit.
Prepared(s, id) ==
    IF s.prepares[id] < MaxPrepares THEN s.prepares[id] + 1 ELSE MaxPrepares

\* skip_current_batch, on a state just loaded: at the limit the skip turns
\* into a failure, of the batch id alone.
SkipBatch(s, id) ==
    IF s.current # id THEN s
    ELSE LET t == [NoCurrent(s) EXCEPT !.prepares[id] = Prepared(s, id)]
         IN  IF Prepared(s, id) >= MaxPrepares
             THEN [t EXCEPT !.failed = @ \cup {id}]
             ELSE [t EXCEPT !.skipped = @ \cup {id}]

\* Seeded fault: --retry clears the whole list.
ClearAllFailed(s, id) == [s EXCEPT !.failed = {}]

\* --retry: failed_task_ids.remove(batch_id)
ClearFailed(s, id) == [s EXCEPT !.failed = @ \ {id}]
=============================================================================
