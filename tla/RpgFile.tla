------------------------------ MODULE RpgFile -------------------------------
(***************************************************************************)
(* What the users of rpg.json rely on, without temporary files, blocks and *)
(* inodes: the file holds one graph; a save replaces it at once, at some   *)
(* moment before it returns, or, when its process fails or is killed, not  *)
(* at all.  The promise ends when two saves have overlapped: from then on  *)
(* the file may hold anything, or nothing that parses.  RpgStore           *)
(* implements it.                                                          *)
(***************************************************************************)
CONSTANTS Procs, Graphs, NoGraph

VARIABLES
    value,      \* the graph in the file, NoGraph if it does not parse
    pending,    \* the graph each process is saving, NoGraph if it is not
    raced       \* two saves have overlapped

vars == <<value, pending, raced>>

Init ==
    /\ value \in Graphs
    /\ pending = [p \in Procs |-> NoGraph]
    /\ raced = FALSE

Begin(p, g) ==
    /\ pending[p] = NoGraph
    /\ pending' = [pending EXCEPT ![p] = g]
    /\ UNCHANGED <<value, raced>>

Finish(p) ==
    /\ pending[p] # NoGraph
    /\ value' = pending[p]
    /\ pending' = [pending EXCEPT ![p] = NoGraph]
    /\ UNCHANGED raced

Abandon(p) ==
    /\ pending[p] # NoGraph
    /\ pending' = [pending EXCEPT ![p] = NoGraph]
    /\ UNCHANGED <<value, raced>>

Overlap ==
    /\ \E p, q \in Procs : p # q /\ pending[p] # NoGraph /\ pending[q] # NoGraph
    /\ raced' = TRUE
    /\ UNCHANGED <<value, pending>>

Disturb ==
    /\ raced
    /\ value' \in Graphs \cup {NoGraph}
    /\ pending' \in [Procs -> Graphs \cup {NoGraph}]
    /\ UNCHANGED raced

Next ==
    \/ \E p \in Procs : (\E g \in Graphs : Begin(p, g)) \/ Finish(p) \/ Abandon(p)
    \/ Overlap \/ Disturb

Spec == Init /\ [][Next]_vars
=============================================================================
