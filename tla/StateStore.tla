----------------------------- MODULE StateStore -----------------------------
(***************************************************************************)
(* What code_gen_state.jsonl promises its users: load_code_gen_state       *)
(* returns one snapshot, save_code_gen_state replaces it.  The promise is  *)
(* weaker than that of a register, because a save is an append to a text   *)
(* file: a save cut short leaves an unfinished last line, and the next     *)
(* save is glued to it.  The tail of the file decides what a save is       *)
(* worth:                                                                  *)
(*   clean        the file ends in a newline: the save takes effect        *)
(*   torn         the last line is part of a snapshot: the next save is    *)
(*                swallowed by it                                          *)
(*   whole        the last line is a snapshot without its newline: the     *)
(*                next save destroys itself and that snapshot              *)
(*   undecodable  the cut fell inside a multi-byte character: the file can *)
(*                no longer be read as UTF-8, and every load starts afresh *)
(* StateLog implements this module; RunBatch is built on it.               *)
(***************************************************************************)
CONSTANTS
    Snapshots,    \* the states a caller may save
    Fresh,        \* CodeGenState(): what load returns when nothing is readable
    Truncations   \* how an append can be cut short: a subset of Cuts

VARIABLES
    value,        \* what load_code_gen_state returns
    tail,         \* how the file ends
    behind        \* the snapshot before a "whole" last line, Fresh otherwise

vars == <<value, tail, behind>>

Tails == {"clean", "torn", "whole", "undecodable"}
Cuts == {"nothing", "torn", "whole", "undecodable"}

TypeOK ==
    /\ value \in Snapshots
    /\ tail \in Tails
    /\ behind \in Snapshots

Init == value = Fresh /\ tail = "clean" /\ behind = Fresh

\* A save that returns.
Save(s) ==
    /\ value' = [clean |-> s, torn |-> value, whole |-> behind,
                 undecodable |-> Fresh][tail]
    /\ tail' = IF tail = "undecodable" THEN tail ELSE "clean"
    /\ behind' = Fresh

\* A save that does not return: a crash or a write error in the append.
TornSave(s) ==
    \E how \in Truncations :
        \/ how = "nothing" /\ UNCHANGED vars
        \/ /\ how = "undecodable" \/ (how # "nothing" /\ tail = "undecodable")
           /\ value' = Fresh /\ tail' = "undecodable" /\ behind' = Fresh
        \/ /\ how = "whole" /\ tail = "clean"
           /\ value' = s /\ tail' = "whole" /\ behind' = value
        \/ /\ \/ how = "torn" /\ tail # "undecodable"
              \/ how = "whole" /\ tail \in {"torn", "whole"}
           /\ value' = IF tail = "whole" THEN behind ELSE value
           /\ tail' = "torn" /\ behind' = Fresh

Next == \E s \in Snapshots : Save(s) \/ TornSave(s)

Spec == Init /\ [][Next]_vars
=============================================================================
