---------------------------- MODULE MCPickerScan ----------------------------
(***************************************************************************)
(* Two subtrees for PickerScan: three implementation tasks of one file,    *)
(* the integration test of their subtree, and a task of another subtree    *)
(* after it.                                                               *)
(***************************************************************************)
EXTENDS PickerScan

CONSTANTS a1, a2, a3, aInt, b1

PlanOrder == <<a1, a2, a3, aInt, b1>>
PlanTasks == {a1, a2, a3, aInt, b1}
PlanKind ==
    [t \in PlanTasks |-> IF t = aInt THEN "integration_test" ELSE "implementation"]
PlanSubtree == [t \in PlanTasks |-> IF t = b1 THEN "B" ELSE "A"]
PlanSubtrees == {"A", "B"}
PlanFile == [t \in PlanTasks |-> IF t \in {a1, a2, a3} THEN "a.py" ELSE t]
PlanUnits == [t \in PlanTasks |-> IF t = a2 THEN 3 ELSE 1]
=============================================================================
