------------------------ MODULE PlanPipeline_proofs -------------------------
(***************************************************************************)
(* For any number of subtrees, feature trees and answers of the model: a   *)
(* run of plan.py that returns 0 leaves five files that agree, and files   *)
(* that are older than their sources only for the two reasons named in     *)
(* DriftHasACause.                                                         *)
(***************************************************************************)
EXTENDS PlanPipeline, TLAPS

\* Where a run is.
Running ==
    pc # "idle" =>
      /\ result = "none" /\ at \in todo
      /\ \A k \in todo, j \in Stages : k <= j => j \in todo
      /\ pc \in {"design", "review", "write"} => at = 4

\* What holds of a stage the run has left behind.
Settled(k) == IF k = 1 THEN ~edited => SkeletonIsCurrent ELSE UpToDate(k)
EarlierAreSettled == pc # "idle" => \A k \in Stages : k < at => Settled(k)

Done == result = "done" => pc = "idle" /\ Readable(ifaces)

Fresh(designs) == \A s \in Subtrees : designs[s] # NoDesign => ~designs[s].old
IfacesAreFinal == Readable(ifaces) => reviewed /\ (~reused => Fresh(ifaces))

\* Between the runs, if none was cut since the last full one.
Between == pc = "idle" /\ ~cut => old = {} /\ IfacesAreFinal

\* During a run that began like that, or that rebuilds everything.
During ==
    pc # "idle" /\ (~cut \/ todo = Stages) =>
      /\ \A k \in old : k > at \/ (k = at /\ pc # "verify")
      /\ at = 5 \/ (at = 4 /\ pc = "verify") => IfacesAreFinal
      /\ pc \in {"design", "review", "write"} /\ ~reused => Fresh(draft)

IInv ==
    /\ TypeOK /\ Running /\ EarlierAreSettled
    /\ Done /\ FinishedPlanAgrees
    /\ Between /\ During

USE DEF Stages

\* The two halves of the type invariant.
FilesOK ==
    /\ tree \in Trees \cup {Missing}
    /\ skeleton \in Skeletons \cup {Missing, Broken}
    /\ dataFlow \in {Missing, Broken} \cup SUBSET Subtrees
    /\ bases \in {Good, Missing, Broken}
    /\ ifaces \in Drafts \cup {Missing, Broken}
    /\ partial \in Drafts \cup {Missing, Broken}
    /\ tasks \in Plans \cup {Missing, Broken}
    /\ old \subseteq {2, 3, 5} /\ reviewed \in BOOLEAN
RunOK ==
    /\ pc \in {"idle", "build", "design", "review", "write", "verify"}
    /\ at \in Stages /\ todo \subseteq Stages /\ draft \in Drafts
    /\ result \in {"none", "done", "failed", "refused"}
    /\ edited \in BOOLEAN /\ cut \in BOOLEAN /\ reused \in BOOLEAN
    /\ edits \in 0 .. MaxEdits /\ faults \in 0 .. MaxFaults
LEMMA TypeParts == TypeOK <=> FilesOK /\ RunOK
BY DEF TypeOK, FilesOK, RunOK

LEMMA InitEstablishes == Init => IInv
<1> SUFFICES ASSUME Init PROVE IInv
  OBVIOUS
<1>1. TypeOK
  <2>1. 0 \in 0 .. MaxEdits /\ 0 \in 0 .. MaxFaults
    BY PlanConstants
  <2>2. Empty \in Drafts
    BY DEF Empty, Drafts
  <2>3. FilesOK
    BY DEF Init, FilesOK
  <2>4. edits \in 0 .. MaxEdits /\ faults \in 0 .. MaxFaults
    BY <2>1 DEF Init
  <2>5. /\ pc = "idle" /\ at = 1 /\ todo = {} /\ draft \in Drafts
        /\ result = "none"
        /\ edited \in BOOLEAN /\ cut \in BOOLEAN /\ reused \in BOOLEAN
    BY <2>2 DEF Init
  <2>6. RunOK
    BY <2>4, <2>5 DEF RunOK
  <2> QED
    BY <2>3, <2>6, TypeParts
<1>2. Between
  BY DEF Init, Between, IfacesAreFinal, Fresh, Readable
<1> QED
  BY <1>1, <1>2 DEF Init, IInv, Running, EarlierAreSettled, Done,
                    FinishedPlanAgrees, During

\* Five settled stages make a consistent plan.
LEMMA SettledIsConsistent ==
    ASSUME \A k \in Stages : Settled(k), ~edited
    PROVE  Consistent
<1>1. SkeletonIsCurrent /\ DataFlowIsCurrent /\ BasesAreCurrent
      /\ InterfacesAreCurrent /\ TasksAreCurrent
  BY DEF Settled, UpToDate
<1> QED
  BY <1>1 DEF Consistent, SkeletonIsCurrent, DataFlowIsCurrent,
              BasesAreCurrent, InterfacesAreCurrent, TasksAreCurrent

\* Designs keep their shape when their sources are rewritten.
LEMMA OutdatedAreDesigns ==
    ASSUME NEW designs \in Drafts PROVE Outdate(designs) \in Drafts
BY DEF Drafts, Designs, Outdate

LEMMA OutdatedFiles ==
    ASSUME TypeOK, InterfacesOutdated
    PROVE  /\ ifaces' \in Drafts \cup {Missing, Broken}
           /\ partial' \in Drafts \cup {Missing, Broken}
BY OutdatedAreDesigns DEF TypeOK, InterfacesOutdated, Readable

LEMMA RewrittenIsSmall ==
    ASSUME TypeOK, NEW stage \in Stages
    PROVE  Rewritten(stage) \subseteq {2, 3, 5}
BY DEF TypeOK, Rewritten

\* The variables of a run that returns early.
LEMMA EndEarlyTypes ==
    ASSUME EndEarly
    PROVE  /\ pc' = "idle" /\ at' \in Stages /\ todo' \subseteq Stages
           /\ draft' \in Drafts /\ result' = "failed" /\ cut' \in BOOLEAN
BY DEF EndEarly, Drafts, Empty

\* A run that returns early leaves nothing to show but well-shaped files.
LEMMA EndEarlyKeeps ==
    ASSUME EndEarly, TypeOK' PROVE IInv'
BY DEF EndEarly, IInv, Running, EarlierAreSettled, Done, FinishedPlanAgrees,
       Between, During

LEMMA EditTreeKeeps == ASSUME IInv, EditTree PROVE IInv'
<1>1. TypeOK'
  BY PlanConstants DEF IInv, TypeOK, EditTree
<1>2. Running' /\ Done' /\ FinishedPlanAgrees' /\ Between' /\ During'
  BY DEF IInv, EditTree, Running, Done, FinishedPlanAgrees, Between, During,
         IfacesAreFinal, Fresh, Readable
<1>3. \A k \in Stages : Settled(k) => Settled(k)'
  BY DEF EditTree, Settled, UpToDate, DataFlowIsCurrent, BasesAreCurrent,
         InterfacesAreCurrent, TasksAreCurrent, Readable, FeaturesOf,
         PlacesOf, UnitsOf,
         Empty, Components
<1>4. EarlierAreSettled'
  BY <1>3 DEF IInv, EditTree, EarlierAreSettled
<1> QED
  BY <1>1, <1>2, <1>4 DEF IInv

\* A run starts at the first stage that is not up to date, or finds nothing.
LEMMA PlanKeeps ==
    ASSUME IInv, NEW force \in BOOLEAN, Plan(force) PROVE IInv'
<1>1. pc = "idle" /\ edited' = FALSE
      /\ UNCHANGED <<files, old, reviewed, draft, cut, reused, edits, faults>>
  BY DEF Plan
<1>2. TypeOK'
  <2>1. todo' \subseteq Stages
    BY DEF Plan, Decide
  <2>2. pc' \in {"idle", "build"} /\ at' \in Stages
    BY <2>1 DEF Plan, Enter
  <2>3. result' \in {"none", "done", "refused"}
    BY DEF Plan
  <2>4. FilesOK'
    BY <1>1, TypeParts DEF IInv, FilesOK, files
  <2>5. RunOK'
    BY <1>1, <2>1, <2>2, <2>3, TypeParts DEF IInv, RunOK
  <2> QED
    BY <2>4, <2>5 DEF FilesOK, RunOK, TypeOK
<1>3. \A k \in Stages : UpToDate(k) => Settled(k)'
  BY <1>1 DEF Settled, UpToDate, SkeletonIsCurrent, DataFlowIsCurrent,
              BasesAreCurrent, InterfacesAreCurrent, TasksAreCurrent, Readable,
              FeaturesOf, PlacesOf, UnitsOf, Empty, Components, files
<1>4. CASE todo' = {}
  <2>1. pc' = "idle" /\ (result' = "done" => tree # Missing)
    BY <1>4 DEF Plan
  <2>2. result' = "done" => \A k \in Stages : UpToDate(k)
    <3> SUFFICES ASSUME result' = "done", NEW k \in Stages PROVE UpToDate(k)
      OBVIOUS
    <3>1. k \notin Decide(force)
      BY <1>4, <2>1 DEF Plan
    <3> QED
      BY <3>1 DEF Decide
  <2>3. FinishedPlanAgrees'
    <3> SUFFICES ASSUME result' = "done" PROVE Consistent'
      BY DEF FinishedPlanAgrees
    <3>1. \A k \in Stages : UpToDate(k)
      BY <2>2
    <3>2. SkeletonIsCurrent /\ DataFlowIsCurrent /\ BasesAreCurrent
          /\ InterfacesAreCurrent /\ TasksAreCurrent
      BY <3>1 DEF UpToDate
    <3>3. Consistent
      BY <3>2 DEF Consistent, SkeletonIsCurrent, DataFlowIsCurrent,
                  BasesAreCurrent, InterfacesAreCurrent, TasksAreCurrent
    <3> QED
      BY <1>1, <3>3 DEF Consistent, Readable, FeaturesOf,
                        PlacesOf, UnitsOf, Components,
                        files
  <2>4. Done'
    <3> SUFFICES ASSUME result' = "done" PROVE Readable(ifaces')
      BY <2>1 DEF Done, Readable
    <3>1. InterfacesAreCurrent
      BY <2>2 DEF UpToDate
    <3> QED
      BY <1>1, <3>1 DEF InterfacesAreCurrent, files, Readable
  <2>5. Between'
    BY <1>1 DEF IInv, Between, IfacesAreFinal, Fresh, Readable, files
  <2> QED
    BY <1>2, <2>1, <2>3, <2>4, <2>5
       DEF IInv, Running, EarlierAreSettled, During
<1>5. CASE todo' # {}
  <2>1. /\ pc' = "build" /\ result' = "none" /\ todo' = Decide(force)
        /\ at' \in todo' /\ \A j \in todo' : at' <= j
    BY <1>5 DEF Plan, Enter
  <2>2. Running'
    BY <2>1 DEF Running, Decide
  <2>3. \A k \in Stages : k < at' => UpToDate(k)
    <3> SUFFICES ASSUME NEW k \in Stages, k < at' PROVE UpToDate(k)
      OBVIOUS
    <3>1. k \notin Decide(force)
      BY <2>1 DEF Decide
    <3> QED
      BY <3>1 DEF Decide
  <2>4. EarlierAreSettled'
    BY <1>3, <2>3 DEF EarlierAreSettled
  <2>5. During'
    <3>1. CASE ~cut
      BY <1>1, <2>1, <3>1 DEF IInv, Between, During, IfacesAreFinal, Fresh,
                              Readable, files
    <3>2. CASE todo' = Stages
      <4>1. at' = 1
        BY <2>1, <3>2
      <4> QED
        BY <1>1, <2>1, <4>1 DEF IInv, TypeOK, During
    <3> QED
      BY <1>1, <3>1, <3>2 DEF During
  <2> QED
    BY <1>2, <2>1, <2>2, <2>4, <2>5
       DEF IInv, Done, FinishedPlanAgrees, Between
<1> QED
  BY <1>4, <1>5

\* Building a stage leaves the stages before it as they were.
LEMMA BuildSkeletonKeeps ==
    ASSUME IInv, NEW shape \in Skeletons, BuildSkeleton(shape) PROVE IInv'
<1>1. TypeOK'
  BY OutdatedFiles, RewrittenIsSmall DEF BuildSkeleton, Building, IInv, TypeOK
<1>2. pc = "build" /\ at = 1 /\ pc' = "verify" /\ at' = 1 /\ result' = "none"
      /\ UNCHANGED <<todo, result>>
  BY DEF BuildSkeleton, Building, IInv, Running
<1>3. Running' /\ EarlierAreSettled'
  BY <1>2 DEF IInv, Running, EarlierAreSettled
<1>4. During'
  BY <1>2 DEF IInv, TypeOK, During, BuildSkeleton, Rewritten
<1> QED
  BY <1>1, <1>2, <1>3, <1>4 DEF IInv, Done, FinishedPlanAgrees, Between

LEMMA BuildDataFlowKeeps ==
    ASSUME IInv, NEW left \in Lost, BuildDataFlow(left) PROVE IInv'
<1>1. TypeOK'
  BY OutdatedFiles, RewrittenIsSmall
     DEF BuildDataFlow, Building, IInv, TypeOK, Components
<1>2. pc = "build" /\ at = 2 /\ pc' = "verify" /\ at' = 2 /\ result' = "none"
      /\ UNCHANGED <<todo, result, tree, skeleton, edited>>
  BY DEF BuildDataFlow, Building, IInv, Running
<1>3. Running'
  BY <1>2 DEF IInv, Running
<1>4. EarlierAreSettled'
  BY <1>2 DEF IInv, EarlierAreSettled, Settled, SkeletonIsCurrent, Readable
<1>5. During'
  BY <1>2 DEF IInv, TypeOK, During, BuildDataFlow, Rewritten
<1> QED
  BY <1>1, <1>2, <1>3, <1>4, <1>5 DEF IInv, Done, FinishedPlanAgrees, Between

LEMMA BuildBasesKeeps == ASSUME IInv, BuildBases PROVE IInv'
<1>1. TypeOK'
  BY OutdatedFiles, RewrittenIsSmall DEF BuildBases, Building, IInv, TypeOK
<1>2. pc = "build" /\ at = 3 /\ pc' = "verify" /\ at' = 3 /\ result' = "none"
      /\ UNCHANGED <<todo, result, tree, skeleton, dataFlow, edited>>
  BY DEF BuildBases, Building, IInv, Running
<1>3. Running'
  BY <1>2 DEF IInv, Running
<1>4. EarlierAreSettled'
  BY <1>2 DEF IInv, EarlierAreSettled, Settled, UpToDate, SkeletonIsCurrent,
              DataFlowIsCurrent, Readable, Components
<1>5. During'
  BY <1>2 DEF IInv, TypeOK, During, BuildBases, Rewritten
<1> QED
  BY <1>1, <1>2, <1>3, <1>4, <1>5 DEF IInv, Done, FinishedPlanAgrees, Between

LEMMA BuildTasksKeeps ==
    ASSUME IInv, NEW left \in Lost, BuildTasks(left) PROVE IInv'
<1>1. tasks' \in Plans
  <2>1. ifaces \in Drafts
    BY DEF IInv, TypeOK, BuildTasks, Readable
  <2>2. \A s \in Subtrees : UnitsOf(ifaces)[s] \in Units \cup {NoDesign}
    BY <2>1 DEF UnitsOf, Drafts, Designs
  <2> QED
    BY <2>2 DEF BuildTasks, Plans
<1>2. TypeOK'
  BY <1>1, RewrittenIsSmall DEF BuildTasks, Building, IInv, TypeOK
<1>3. /\ pc = "build" /\ at = 5 /\ pc' = "verify" /\ at' = 5 /\ result' = "none"
      /\ UNCHANGED <<todo, result, tree, skeleton, dataFlow, bases, ifaces,
                     edited, cut, reviewed, reused>>
  BY DEF BuildTasks, Building, IInv, Running
<1>4. Running'
  BY <1>3 DEF IInv, Running
<1>5. EarlierAreSettled'
  <2>1. \A k \in 1 .. 4 : Settled(k) => Settled(k)'
    BY <1>3 DEF Settled, UpToDate, SkeletonIsCurrent, DataFlowIsCurrent,
                BasesAreCurrent, InterfacesAreCurrent, Readable, FeaturesOf,
                PlacesOf,
                Components, Empty
  <2> QED
    BY <1>3, <2>1 DEF IInv, EarlierAreSettled
<1>6. During'
  BY <1>3 DEF IInv, TypeOK, During, IfacesAreFinal, Fresh, Readable,
              BuildTasks, Rewritten
<1> QED
  BY <1>2, <1>3, <1>4, <1>5, <1>6 DEF IInv, Done, FinishedPlanAgrees, Between

\* The interface stage touches nothing that an earlier stage is judged by.
LEMMA InterfaceStageKeepsEarlier ==
    ASSUME IInv, at = 4, pc # "idle", at' = 4,
           UNCHANGED <<tree, skeleton, dataFlow, bases, edited>>
    PROVE  EarlierAreSettled'
<1>1. \A k \in 1 .. 3 : Settled(k) => Settled(k)'
  BY DEF Settled, UpToDate, SkeletonIsCurrent, DataFlowIsCurrent,
         BasesAreCurrent, Readable, Components
<1> QED
  BY <1>1 DEF IInv, EarlierAreSettled

LEMMA StartDesignKeeps == ASSUME IInv, StartDesign PROVE IInv'
<1>1. /\ pc = "build" /\ at = 4 /\ pc' = "design" /\ at' = 4 /\ result' = "none"
      /\ UNCHANGED <<files, old, reviewed, at, todo, result, edited, cut>>
  BY DEF StartDesign, Building, IInv, Running
<1>2. draft' \in Drafts
  <2>1. CASE Readable(Existing)
    <3>1. Existing \in Drafts
      BY <2>1 DEF Existing, IInv, TypeOK, Readable
    <3> QED
      BY <3>1 DEF StartDesign, Drafts
  <2>2. CASE ~Readable(Existing)
    BY <2>2 DEF StartDesign, Drafts, Restored
  <2> QED
    BY <2>1, <2>2
<1>3. TypeOK'
  <2>1. reused' \in BOOLEAN
    BY DEF StartDesign
  <2> QED
    BY <1>1, <1>2, <2>1 DEF StartDesign, IInv, TypeOK, files
<1>4. Running'
  BY <1>1 DEF IInv, Running
<1>5. EarlierAreSettled'
  BY <1>1, InterfaceStageKeepsEarlier DEF files
<1>6. ~reused' => Fresh(draft')
  <2>1. \A s \in Subtrees : draft'[s] # NoDesign =>
          s \in Restored /\ draft'[s] = Existing[s]
    BY DEF StartDesign
  <2> QED
    BY <2>1 DEF StartDesign, Fresh
<1>7. During'
  BY <1>1, <1>6 DEF IInv, During, Fresh, Readable
<1> QED
  BY <1>1, <1>3, <1>4, <1>5, <1>7 DEF IInv, Done, FinishedPlanAgrees, Between

LEMMA DesignSubtreeKeeps ==
    ASSUME IInv, NEW s \in Subtrees, NEW places \in Answers, NEW units \in Units,
           DesignSubtree(s, places, units)
    PROVE  IInv'
<1>1. /\ pc = "design" /\ at = 4 /\ result = "none" /\ draft \in Drafts
      /\ UNCHANGED <<tree, skeleton, dataFlow, bases, ifaces, tasks, old,
                     reviewed, pc, at, todo, result, edited, cut, reused>>
  BY DEF DesignSubtree, IInv, TypeOK, Running
<1> DEFINE new == [places |-> places, units |-> units, old |-> FALSE]
<1>2. new \in Designs /\ new.old = FALSE
  BY DEF Designs
<1>3. draft' = [draft EXCEPT ![s] = new] /\ partial' = draft'
  BY DEF DesignSubtree
<1>4. draft' \in Drafts
  BY <1>1, <1>2, <1>3 DEF Drafts
<1>5. TypeOK'
  BY <1>1, <1>3, <1>4 DEF DesignSubtree, IInv, TypeOK
<1>6. Fresh(draft) => Fresh(draft')
  <2> HIDE DEF new
  <2>1. \A t \in Subtrees : draft'[t] = IF t = s THEN new ELSE draft[t]
    BY <1>1, <1>3 DEF Drafts
  <2> QED
    BY <1>2, <2>1 DEF Fresh
<1>7. During'
  BY <1>1, <1>6 DEF IInv, During
<1>8. EarlierAreSettled'
  BY <1>1, InterfaceStageKeepsEarlier
<1> QED
  BY <1>1, <1>5, <1>7, <1>8
     DEF IInv, Running, Done, FinishedPlanAgrees, Between

LEMMA FinishDesignKeeps == ASSUME IInv, FinishDesign PROVE IInv'
<1>1. pc = "design" /\ at = 4 /\ result = "none" /\ draft \in Drafts
  BY DEF FinishDesign, IInv, TypeOK, Running
<1>2. ifaces' = draft /\ partial' = Missing /\ old' \subseteq {2, 3, 5}
      /\ reviewed' = FALSE
  BY RewrittenIsSmall DEF FinishDesign, IInv
<1>3. CASE Covered
  <2>1. /\ pc' = "review"
        /\ UNCHANGED <<at, todo, draft, result, cut, tree, skeleton, dataFlow,
                       bases, tasks, edited, reused, edits, faults>>
    BY <1>3 DEF FinishDesign
  <2>2. TypeOK'
    BY <1>1, <1>2, <2>1 DEF IInv, TypeOK
  <2>3. EarlierAreSettled'
    BY <1>1, <2>1, InterfaceStageKeepsEarlier
  <2>4. During'
    BY <1>1, <2>1 DEF IInv, During, FinishDesign, Rewritten, Fresh, Readable
  <2> QED
    BY <1>1, <2>1, <2>2, <2>3, <2>4
       DEF IInv, Running, Done, FinishedPlanAgrees, Between
<1>4. CASE ~Covered
  <2>1. EndEarly
        /\ UNCHANGED <<tree, skeleton, dataFlow, bases, tasks, edited, reused,
                       edits, faults>>
    BY <1>4 DEF FinishDesign
  <2>2. TypeOK'
    BY <1>1, <1>2, <2>1, EndEarlyTypes DEF IInv, TypeOK
  <2> QED
    BY <2>1, <2>2, EndEarlyKeeps
<1> QED
  BY <1>3, <1>4

LEMMA ReviewKeepsInv ==
    ASSUME IInv, NEW s \in Subtrees, NEW places \in Answers, NEW units \in Units,
           Review(s, places, units)
    PROVE  IInv'
<1>1. /\ pc = "review" /\ pc' = "write" /\ at = 4 /\ result = "none"
      /\ draft \in Drafts /\ draft[s] # NoDesign
      /\ UNCHANGED <<files, history, at, todo, result>>
  BY DEF Review, IInv, TypeOK, Running
<1>2. draft[s] \in Designs
  BY <1>1 DEF Drafts
<1> DEFINE new == [[draft[s] EXCEPT !.places = places] EXCEPT !.units = units]
<1>3. new \in Designs /\ new.old = draft[s].old
  BY <1>2 DEF Designs
<1>4. draft' = [draft EXCEPT ![s] = new]
  BY <1>1, <1>2 DEF Review, Drafts, Designs
<1>5. draft' \in Drafts /\ \A t \in Subtrees :
        draft'[t] = IF t = s THEN new ELSE draft[t]
  BY <1>1, <1>3, <1>4 DEF Drafts
<1>6. TypeOK'
  BY <1>1, <1>5 DEF IInv, TypeOK, files, history
<1>7. Fresh(draft) => Fresh(draft')
  <2> HIDE DEF new
  <2> QED
    BY <1>1, <1>3, <1>5 DEF Fresh
<1>8. During'
  BY <1>1, <1>7 DEF IInv, During, history
<1>9. EarlierAreSettled'
  BY <1>1, InterfaceStageKeepsEarlier DEF files, history
<1> QED
  BY <1>1, <1>6, <1>8, <1>9
     DEF IInv, Running, Done, FinishedPlanAgrees, Between

LEMMA WriteInterfacesKeeps == ASSUME IInv, WriteInterfaces PROVE IInv'
<1>1. /\ pc = "write" /\ pc' = "verify" /\ at = 4 /\ result = "none"
      /\ ifaces' = draft /\ reviewed' = TRUE /\ draft \in Drafts
      /\ UNCHANGED <<tree, skeleton, dataFlow, bases, partial, tasks, at, todo,
                     result, edited, cut, reused, edits, faults>>
  BY DEF WriteInterfaces, IInv, TypeOK, Running
<1>2. TypeOK'
  <2>1. old' \subseteq {2, 3, 5}
    BY RewrittenIsSmall DEF WriteInterfaces, IInv
  <2>2. draft' \in Drafts
    BY DEF WriteInterfaces, Drafts, Empty
  <2> QED
    BY <1>1, <2>1, <2>2 DEF IInv, TypeOK
<1>3. EarlierAreSettled'
  BY <1>1, InterfaceStageKeepsEarlier
<1>4. During'
  BY <1>1 DEF IInv, During, WriteInterfaces, Rewritten, IfacesAreFinal, Fresh,
              Readable, TypeOK
<1> QED
  BY <1>1, <1>2, <1>3, <1>4
     DEF IInv, Running, Done, FinishedPlanAgrees, Between

\* The stage that was verified joins the settled ones.
LEMMA VerifyKeeps == ASSUME IInv, Verify PROVE IInv'
<1>1. /\ pc = "verify" /\ UpToDate(at) /\ at \in todo /\ at \in Stages
      /\ UNCHANGED <<files, old, reviewed, draft, edited, reused, edits, faults>>
      /\ todo \subseteq Stages /\ result = "none"
      /\ \A k \in todo, j \in Stages : k <= j => j \in todo
  BY DEF Verify, IInv, Running, TypeOK
<1>2. \A k \in Stages : k <= at => Settled(k)
  BY <1>1 DEF IInv, EarlierAreSettled, Settled, UpToDate
<1>3. \A k \in Stages : Settled(k) => Settled(k)'
  BY <1>1 DEF Settled, UpToDate, SkeletonIsCurrent, DataFlowIsCurrent,
              BasesAreCurrent, InterfacesAreCurrent, TasksAreCurrent, Readable,
              FeaturesOf, PlacesOf, UnitsOf, Empty, Components, files
<1>4. CASE Later # {}
  <2>1. /\ pc' = "build" /\ at' \in Later /\ \A j \in Later : at' <= j
        /\ UNCHANGED <<todo, result, cut>>
    BY <1>4 DEF Verify, Enter
  <2>2. at' = at + 1
    BY <1>1, <2>1 DEF Later
  <2>3. TypeOK'
    BY <1>1, <2>1 DEF IInv, TypeOK, files, Later
  <2>4. Running'
    BY <1>1, <2>1, <2>2 DEF Running, Later
  <2>5. EarlierAreSettled'
    BY <1>1, <1>2, <1>3, <2>2 DEF EarlierAreSettled
  <2>6. During'
    BY <1>1, <2>1, <2>2 DEF IInv, TypeOK, During, IfacesAreFinal, Fresh,
                            Readable, files
  <2> QED
    BY <1>1, <2>1, <2>3, <2>4, <2>5, <2>6
       DEF IInv, Done, FinishedPlanAgrees, Between
<1>5. CASE Later = {}
  <2>1. /\ pc' = "idle" /\ at' = 1 /\ todo' = {} /\ result' = "done"
        /\ cut' = (cut /\ todo # Stages)
    BY <1>5 DEF Verify
  <2>2. at = 5
    BY <1>1, <1>5 DEF Later
  <2>3. TypeOK'
    BY <1>1, <2>1 DEF IInv, TypeOK, files
  <2>4. \A k \in Stages : Settled(k) /\ Settled(k)'
    BY <1>2, <1>3, <2>2
  <2>5. ~edited => Consistent
    BY <2>4, SettledIsConsistent
  <2>6. FinishedPlanAgrees'
    BY <1>1, <2>5 DEF FinishedPlanAgrees, Consistent, Readable, FeaturesOf,
                      PlacesOf,
                      UnitsOf, Components, files
  <2>7. Done'
    <3>1. InterfacesAreCurrent
      BY <2>4 DEF Settled, UpToDate
    <3> QED
      BY <1>1, <2>1, <3>1 DEF Done, InterfacesAreCurrent, Readable, files
  <2>8. Between'
    BY <1>1, <2>1, <2>2 DEF IInv, TypeOK, During, Between, IfacesAreFinal,
                            Fresh, Readable, files
  <2> QED
    BY <2>1, <2>3, <2>6, <2>7, <2>8
       DEF IInv, Running, EarlierAreSettled, During
<1> QED
  BY <1>4, <1>5

\* The three ways a run ends early.
LEMMA EarlyEndsKeep ==
    ASSUME IInv, VerifyFails \/ BuildFails \/ Interrupt PROVE IInv'
<1>1. EndEarly
  BY DEF VerifyFails, BuildFails, Interrupt
<1>2. FilesOK /\ RunOK
  BY TypeParts DEF IInv
<1>3. /\ skeleton' \in {skeleton, Broken} /\ dataFlow' \in {dataFlow, Broken}
      /\ bases' \in {bases, Broken} /\ tasks' \in {tasks, Broken}
      /\ partial' \in {partial, Broken} /\ ifaces' \in {ifaces, Broken}
      /\ UNCHANGED <<tree, old, reviewed, edited, reused, edits>>
  BY DEF VerifyFails, BuildFails, Interrupt, files
<1>4. faults' \in 0 .. MaxFaults
  BY <1>2, PlanConstants DEF VerifyFails, BuildFails, Interrupt, RunOK
<1>5. FilesOK'
  BY <1>2, <1>3 DEF FilesOK
<1>6. RunOK'
  BY <1>1, <1>2, <1>3, <1>4, EndEarlyTypes DEF RunOK
<1>7. TypeOK'
  BY <1>5, <1>6 DEF FilesOK, RunOK, TypeOK
<1> QED
  BY <1>1, <1>7, EndEarlyKeeps

LEMMA StutterKeeps == ASSUME IInv, UNCHANGED vars PROVE IInv'
BY DEF IInv, vars, TypeOK, Running, EarlierAreSettled, Settled, UpToDate,
       SkeletonIsCurrent, DataFlowIsCurrent, BasesAreCurrent,
       InterfacesAreCurrent, TasksAreCurrent, Done, FinishedPlanAgrees,
       Consistent, Between, During, IfacesAreFinal, Fresh, Readable,
       FeaturesOf, PlacesOf, UnitsOf, Empty, Components

LEMMA NextKeeps == IInv /\ [Next]_vars => IInv'
<1> SUFFICES ASSUME IInv, [Next]_vars PROVE IInv'
  OBVIOUS
<1>1. CASE EditTree
  BY <1>1, EditTreeKeeps
<1>2. ASSUME NEW force \in BOOLEAN, Plan(force) PROVE IInv'
  BY <1>2, PlanKeeps
<1>3. ASSUME NEW shape \in Skeletons, BuildSkeleton(shape) PROVE IInv'
  BY <1>3, BuildSkeletonKeeps
<1>4. ASSUME NEW left \in Lost, BuildDataFlow(left) \/ BuildTasks(left)
      PROVE  IInv'
  BY <1>4, BuildDataFlowKeeps, BuildTasksKeeps
<1>5. CASE BuildBases
  BY <1>5, BuildBasesKeeps
<1>6. CASE StartDesign \/ FinishDesign \/ WriteInterfaces
  BY <1>6, StartDesignKeeps, FinishDesignKeeps, WriteInterfacesKeeps
<1>7. ASSUME NEW s \in Subtrees, NEW places \in Answers, NEW units \in Units,
             DesignSubtree(s, places, units) \/ Review(s, places, units)
      PROVE  IInv'
  BY <1>7, DesignSubtreeKeeps, ReviewKeepsInv
<1>8. CASE Verify
  BY <1>8, VerifyKeeps
<1>9. CASE VerifyFails \/ BuildFails \/ Interrupt
  BY <1>9, EarlyEndsKeep
<1>10. CASE UNCHANGED vars
  BY <1>10, StutterKeeps
<1> QED
  BY <1>1, <1>2, <1>3, <1>4, <1>5, <1>6, <1>7, <1>8, <1>9, <1>10 DEF Next

LEMMA IInvHolds == Spec => []IInv
BY InitEstablishes, NextKeeps, PTL DEF Spec

\* Every file and every variable of a run keeps its shape, for any number of
\* subtrees, changes and interruptions.
THEOREM TypeCorrect == Spec => []TypeOK
<1>1. IInv => TypeOK
  BY DEF IInv
<1> QED
  BY <1>1, IInvHolds, PTL

\* A run of plan.py that returns 0 leaves files that agree from end to end
\* with the feature tree it began with, wherever earlier runs were cut off.
THEOREM FinishedPlansAgree == Spec => []FinishedPlanAgrees
<1>1. IInv => FinishedPlanAgrees
  BY DEF IInv
<1> QED
  BY <1>1, IInvHolds, PTL

\* A file is older than its sources after a run that returned 0 only if a run
\* was cut off before it or the interface stage restored an outdated design.
THEOREM DriftHasTwoCauses == Spec => []DriftHasACause
<1>1. IInv => DriftHasACause
  BY DEF IInv, Done, Between, IfacesAreFinal, Fresh, DriftHasACause, InSync
<1> QED
  BY <1>1, IInvHolds, PTL
=============================================================================
