----------------------------- MODULE MCDepGraph -----------------------------
(* Four paths and one name: a file that defines it, one that imports it from
   the first path, one that imports it from the second, one that is not there
   at first. *)
EXTENDS DepGraph

CONSTANTS n, definer, importer, user

MCDefs == [t \in Texts |-> IF t = definer THEN {n} ELSE {}]
MCRefs == [t \in Texts |-> IF t = importer THEN {<<n, 1>>}
                           ELSE IF t = user THEN {<<n, 2>>} ELSE {}]
MCStart == {<<definer, importer, user, NoFile>>}
=============================================================================
