----------------------------- MODULE MCRunBatch -----------------------------
(***************************************************************************)
(* Small plans for RunBatch: the tasks of one or two subtrees, in the      *)
(* order plan_tasks gives them (implementation tasks of a subtree, then    *)
(* its integration test).                                                  *)
(***************************************************************************)
EXTENDS RunBatch, TLC

CONSTANTS a1, a2, aInt, b1, fin, stray

\* A plan is its task order; everything else follows from the tasks' names.
PlanTasks(order) == {order[i] : i \in DOMAIN order}
PlanKind(order) ==
    [t \in PlanTasks(order) |->
        CASE t = aInt -> "integration_test" [] t = fin -> "other"
          [] OTHER -> "implementation"]
PlanSubtree(order) ==
    [t \in PlanTasks(order) |->
        CASE t = b1 -> "B" [] t = fin -> "FINAL_TASKS" [] OTHER -> "A"]
OwnFile(order) == [t \in PlanTasks(order) |-> t]
OneUnitEach(order) == [t \in PlanTasks(order) |-> 1]
OwnBranch(order) == [t \in PlanTasks(order) |-> <<"batch", t>>]
PlanSubtrees(order) == {PlanSubtree(order)[t] : t \in PlanTasks(order)}
PlanReviewable(order) == PlanSubtrees(order) \ {"FINAL_TASKS"}
PlanReviewOf(order) == [a \in PlanReviewable(order) |-> <<"review", a>>]
OwnBranches(order) ==
    {OwnBranch(order)[t] : t \in PlanTasks(order)} \cup {stray}
        \cup {PlanReviewOf(order)[a] : a \in PlanReviewable(order)}

\* An implementation task and the integration test of its subtree.
PairOrder == <<a1, aInt>>
PairTasks == PlanTasks(PairOrder)
PairKind == PlanKind(PairOrder)
PairSubtree == PlanSubtree(PairOrder)
PairFile == OwnFile(PairOrder)
PairUnits == OneUnitEach(PairOrder)
PairBranchOf == OwnBranch(PairOrder)
PairBranches == OwnBranches(PairOrder)
PairSubtrees == PlanSubtrees(PairOrder)
PairReviewable == PlanReviewable(PairOrder)
PairReviewOf == PlanReviewOf(PairOrder)

\* Two implementation tasks of one file; task ids that differ only past the
\* fiftieth character share their branch.
FileOrder == <<a1, a2>>
FileTasks == PlanTasks(FileOrder)
FileKind == PlanKind(FileOrder)
FileSubtree == PlanSubtree(FileOrder)
FileFile == [t \in FileTasks |-> "file"]
FileUnits == OneUnitEach(FileOrder)
FileBranchOf == OwnBranch(FileOrder)
FileBranches == OwnBranches(FileOrder)
FileSubtrees == PlanSubtrees(FileOrder)
FileReviewable == PlanReviewable(FileOrder)
FileReviewOf == PlanReviewOf(FileOrder)
SharedBranchOf == [t \in FileTasks |-> <<"batch", a1>>]

\* Two implementation tasks and the integration test of their subtree.
TrioOrder == <<a1, a2, aInt>>
TrioTasks == PlanTasks(TrioOrder)
TrioKind == PlanKind(TrioOrder)
TrioSubtree == PlanSubtree(TrioOrder)
TrioFile == OwnFile(TrioOrder)
TrioUnits == OneUnitEach(TrioOrder)
TrioBranchOf == OwnBranch(TrioOrder)
TrioBranches == OwnBranches(TrioOrder)
TrioSubtrees == PlanSubtrees(TrioOrder)
TrioReviewable == PlanReviewable(TrioOrder)
TrioReviewOf == PlanReviewOf(TrioOrder)

\* An integration test, then another subtree, then the final tasks.
TailOrder == <<aInt, b1, fin>>
TailTasks == PlanTasks(TailOrder)
TailKind == PlanKind(TailOrder)
TailSubtree == PlanSubtree(TailOrder)
TailFile == OwnFile(TailOrder)
TailUnits == OneUnitEach(TailOrder)
TailBranchOf == OwnBranch(TailOrder)
TailBranches == OwnBranches(TailOrder)
TailSubtrees == PlanSubtrees(TailOrder)
TailReviewable == PlanReviewable(TailOrder)
TailReviewOf == PlanReviewOf(TailOrder)

NoCuts == {}
AllCuts == {"nothing", "torn", "whole", "undecodable"}
Attended == {"next", "resume", "retry", "batch-id", "prune"}
Unattended == {"next", "loop"}
OnlyNext == {"next"}
NextAndRetry == {"next", "retry"}
NextAndResume == {"next", "resume"}
NextAndBatchId == {"next", "batch-id"}
AllFaults == {"crash", "checkout", "merge"}
CrashOrConflict == {"crash", "merge"}
OnlyCrash == {"crash"}
NoFaults == {}
AnyAgent == {"none", "dirty", "commit", "main", "drop", "stray"}
OnBranchOrMain == AnyAgent \ {"stray"}
Diligent == {"none", "commit"}
Committing == {"commit"}
NoReviews == {}
=============================================================================
