----------------------------- MODULE TaskLedger -----------------------------
(***************************************************************************)
(* What a user of run_batch.py relies on, without processes, branches or   *)
(* files: a task is completed only once its work has landed on main,       *)
(* completed tasks and landed work stay, a task that is completed is never *)
(* newly failed, and a failed task comes back only when it is reopened by  *)
(* name.  RunBatch implements it.                                          *)
(***************************************************************************)
CONSTANT Tasks

VARIABLES landed, completed, failed

vars == <<landed, completed, failed>>

Init == landed = {} /\ completed = {} /\ failed = {}

Land(S) ==
    /\ landed' = landed \cup S
    /\ UNCHANGED <<completed, failed>>

\* One record in the state file: some tasks completed, some failed.
Settle(done, lost) ==
    /\ done \subseteq landed
    /\ lost \cap (completed \cup done) = {}
    /\ completed' = completed \cup done
    /\ failed' = failed \cup lost
    /\ UNCHANGED landed

Reopen(t) ==
    /\ failed' = failed \ {t}
    /\ UNCHANGED <<landed, completed>>

Next ==
    \/ \E S \in SUBSET Tasks : Land(S)
    \/ \E done, lost \in SUBSET Tasks : Settle(done, lost)
    \/ \E t \in Tasks : Reopen(t)

Spec == Init /\ [][Next]_vars
=============================================================================
