---------------------------- MODULE PlanPipeline ----------------------------
(***************************************************************************)
(* The planning pipeline (scripts/plan.py): five stages, each a build      *)
(* script that reads the files of the stages before it and writes one of   *)
(* its own, and a check script that says whether that file may stay.  A    *)
(* run probes every stage, rebuilds from the first that is not up to date  *)
(* and checks each stage again after building it.  The fourth stage        *)
(* (design_interfaces.py, InterfaceOrchestrator) works subtree by subtree  *)
(* and restores from its file, or from the .partial one, the subtrees that *)
(* it finds complete there.                                                *)
(*                                                                         *)
(* Kept of each file is what the checks and the builders compare (the      *)
(* features of each subtree and the files they are in, subtrees, units)    *)
(* and whether it is older than a file it is built from, which no check    *)
(* knows.  repo_rpg.json, whose paths check_interfaces reads too and which *)
(* the first stage already fills in, is left out.                          *)
(***************************************************************************)
EXTENDS Naturals

CONSTANTS
    N,           \* subtrees are 1 .. N, in the order of the data flow
    Features,    \* features a subtree can have
    Files,       \* files of a subtree
    Trees,       \* feature trees the user has
    Skeletons,   \* skeletons the model drafts: the places of each subtree
    Answers,     \* places that the design of a subtree can cover
    Lost,        \* sets of subtrees that a data flow or a plan can leave out
    Units,       \* interface units of a subtree, as a whole
    Missing,     \* there is no such file
    Broken,      \* the file is cut off, or holds an "error" field
    Good,        \* base_classes.json passes its own check
    NoDesign,    \* a subtree without interfaces
    MaxEdits,    \* bound: changes of the feature tree
    MaxFaults    \* bound: interrupted or killed runs

Subtrees == 1 .. N
Places == Features \X Files  \* a feature, in the file that holds it

ASSUME PlanConstants ==
    /\ N \in Nat /\ MaxEdits \in Nat /\ MaxFaults \in Nat
    /\ Trees \subseteq [Subtrees -> SUBSET Features]
    /\ Skeletons \subseteq [Subtrees -> SUBSET Places]
    /\ Answers \subseteq SUBSET Places /\ Lost \subseteq SUBSET Subtrees
    /\ \A file \in {Missing, Broken} :
         file \notin Skeletons /\ \A c \in SUBSET Subtrees : file # c
    /\ NoDesign \notin Units /\ Good \notin {Missing, Broken}

VARIABLES
    tree,      \* feature_tree.json
    skeleton,  \* skeleton.json: the features in each subtree's files
    dataFlow,  \* data_flow.json: its subtrees
    bases,     \* base_classes.json
    ifaces,    \* interfaces.json: the design of each subtree
    partial,   \* interfaces.json.partial
    tasks,     \* tasks.json: the units it plans, per subtree
    old,       \* history: stages whose file is older than an earlier stage's
    reviewed,  \* history: interfaces.json went through the global review
    pc, at,    \* what the run does, and the stage it does it in
    todo,      \* stages with will_run
    draft,     \* designs the interface stage has in memory
    result,    \* how the last run ended
    edited,    \* history: the feature tree changed since the run began
    cut,       \* history: a run ended early, and no full one finished since
    reused,    \* history: the interface stage restored an outdated design
    edits, faults

files == <<tree, skeleton, dataFlow, bases, ifaces, partial, tasks>>
history == <<old, reviewed, edited, cut, reused, edits, faults>>
vars == <<tree, skeleton, dataFlow, bases, ifaces, partial, tasks, old,
          reviewed, pc, at, todo, draft, result, edited, cut, reused, edits,
          faults>>

Stages == 1 .. 5
Designs == [places : Answers, units : Units, old : BOOLEAN]
Drafts == [Subtrees -> Designs \cup {NoDesign}]
Plans == [Subtrees -> Units \cup {NoDesign}]
Empty == [s \in Subtrees |-> NoDesign]

Readable(file) == file \notin {Missing, Broken}

Components(shape) == {s \in Subtrees : shape[s] # {}}
FeaturesIn(places) == {place[1] : place \in places}
FeaturesOf(shape) == [s \in Subtrees |-> FeaturesIn(shape[s])]
PlacesOf(designs) ==
    [s \in Subtrees |-> IF designs[s] = NoDesign THEN {} ELSE designs[s].places]
UnitsOf(designs) ==
    [s \in Subtrees |-> IF designs[s] = NoDesign THEN NoDesign
                                                 ELSE designs[s].units]

(***************************************************************************)
(* The check scripts: the stages whose type is "update".                   *)
(***************************************************************************)
SkeletonIsCurrent ==
    tree # Missing /\ Readable(skeleton) /\ FeaturesOf(skeleton) = tree
DataFlowIsCurrent ==
    /\ Readable(dataFlow)
    /\ Readable(skeleton) => dataFlow = Components(skeleton)
BasesAreCurrent == bases = Good
InterfacesAreCurrent ==
    /\ Readable(skeleton) /\ Readable(ifaces) /\ ifaces # Empty
    /\ FeaturesOf(PlacesOf(ifaces)) = FeaturesOf(skeleton)
TasksAreCurrent ==
    /\ Readable(ifaces) /\ ifaces # Empty
    /\ Readable(tasks) /\ tasks = UnitsOf(ifaces)

UpToDate(stage) ==
    \/ stage = 1 /\ SkeletonIsCurrent
    \/ stage = 2 /\ DataFlowIsCurrent
    \/ stage = 3 /\ BasesAreCurrent
    \/ stage = 4 /\ InterfacesAreCurrent
    \/ stage = 5 /\ TasksAreCurrent

\* seeded fault: only the stages that are out of date themselves
DecideWithoutCascade(force) == {stage \in Stages : force \/ ~UpToDate(stage)}

\* decide: will_run from the first stage that is not up to date
Decide(force) ==
    {stage \in Stages : force \/ \E k \in 1 .. stage : ~UpToDate(k)}

(***************************************************************************)
(* What a rewritten file does to the age of the ones after it.             *)
(***************************************************************************)
Outdate(designs) ==
    [s \in Subtrees |-> IF designs[s] = NoDesign THEN NoDesign
                        ELSE [designs[s] EXCEPT !.old = TRUE]]
Rewritten(stage) == (old \ {stage}) \cup {k \in {2, 3, 5} : k > stage}
InterfacesOutdated ==
    /\ ifaces' = IF Readable(ifaces) THEN Outdate(ifaces) ELSE ifaces
    /\ partial' = IF Readable(partial) THEN Outdate(partial) ELSE partial

Init ==
    /\ tree \in Trees \cup {Missing}
    /\ skeleton = Missing /\ dataFlow = Missing /\ bases = Missing
    /\ ifaces = Missing /\ partial = Missing /\ tasks = Missing
    /\ old = {} /\ reviewed = FALSE
    /\ pc = "idle" /\ at = 1 /\ todo = {} /\ draft = Empty
    /\ result = "none"
    /\ edited = FALSE /\ cut = FALSE /\ reused = FALSE
    /\ edits = 0 /\ faults = 0

(***************************************************************************)
(* The user writes another feature tree, between runs or during one.       *)
(***************************************************************************)
EditTree ==
    /\ edits < MaxEdits
    /\ tree' \in Trees \ {tree}
    /\ edits' = edits + 1 /\ edited' = TRUE
    /\ UNCHANGED <<skeleton, dataFlow, bases, ifaces, partial, tasks, old,
                   reviewed, pc, at, todo, draft, result, cut, reused, faults>>

\* the loop comes to the first of these stages
Enter(stages) ==
    /\ pc' = "build"
    /\ at' \in {k \in stages : \A j \in stages : k <= j}

\* main up to the loop: exit 2 without a feature tree, 0 with nothing to do
Plan(force) ==
    /\ pc = "idle"
    /\ todo' = IF tree = Missing THEN {} ELSE Decide(force)
    /\ IF todo' = {}
       THEN /\ pc' = "idle" /\ at' = 1
            /\ result' = IF tree = Missing THEN "refused" ELSE "done"
       ELSE Enter(todo') /\ result' = "none"
    /\ edited' = FALSE
    /\ UNCHANGED <<files, old, reviewed, draft, cut, reused, edits, faults>>

\* a run that returns early
EndEarly ==
    /\ pc' = "idle" /\ at' = 1 /\ todo' = {} /\ draft' = Empty
    /\ result' = "failed" /\ cut' = TRUE

(***************************************************************************)
(* The build scripts.  What the language model answers is arbitrary; a     *)
(* build that gives up exits with an error, and the data flow and base     *)
(* class stages then leave a file with an "error" field.                   *)
(***************************************************************************)
Building(stage) == pc = "build" /\ at = stage

BuildSkeleton(shape) ==
    /\ Building(1)
    /\ skeleton' = shape
    /\ old' = Rewritten(1) /\ InterfacesOutdated
    /\ pc' = "verify"
    /\ UNCHANGED <<tree, dataFlow, bases, tasks, reviewed, at, todo, draft,
                   result, edited, cut, reused, edits, faults>>

BuildDataFlow(left) ==
    /\ Building(2) /\ Readable(skeleton)
    /\ dataFlow' = Components(skeleton) \ left
    /\ old' = Rewritten(2) /\ InterfacesOutdated
    /\ pc' = "verify"
    /\ UNCHANGED <<tree, skeleton, bases, tasks, reviewed, at, todo, draft,
                   result, edited, cut, reused, edits, faults>>

BuildBases ==
    /\ Building(3) /\ Readable(skeleton)
    /\ bases' = Good
    /\ old' = Rewritten(3) /\ InterfacesOutdated
    /\ pc' = "verify"
    /\ UNCHANGED <<tree, skeleton, dataFlow, tasks, reviewed, at, todo, draft,
                   result, edited, cut, reused, edits, faults>>

\* plan_tasks refuses interfaces that miss a feature of the skeleton; the plan
\* can leave subtrees out
BuildTasks(left) ==
    /\ Building(5)
    /\ Readable(ifaces) /\ Readable(dataFlow)
    /\ Readable(skeleton) =>
         \A s \in Subtrees : FeaturesIn(skeleton[s])
                             \subseteq FeaturesOf(PlacesOf(ifaces))[s]
    /\ tasks' = [s \in Subtrees |-> IF s \in left THEN NoDesign
                                                  ELSE UnitsOf(ifaces)[s]]
    /\ old' = Rewritten(5)
    /\ pc' = "verify"
    /\ UNCHANGED <<tree, skeleton, dataFlow, bases, ifaces, partial, reviewed,
                   at, todo, draft, result, edited, cut, reused, edits, faults>>

(***************************************************************************)
(* The interface stage.                                                    *)
(***************************************************************************)
\* _subtree_interfaces_complete: the features of all files, put together
Complete(designs, s) ==
    /\ designs[s] # NoDesign
    /\ FeaturesIn(skeleton[s]) \subseteq FeaturesIn(designs[s].places)

\* _load_existing_interfaces: the .partial file is preferred
Existing == IF partial # Missing THEN partial ELSE ifaces

\* seeded fault: an incomplete design is restored as well
RestoredAlways == IF Readable(Existing)
                  THEN {s \in dataFlow : Existing[s] # NoDesign} ELSE {}

\* _restore_completed_subtrees: a prefix of the order
Restored ==
    IF Readable(Existing)
    THEN {s \in dataFlow : \A t \in dataFlow : t <= s => Complete(Existing, t)}
    ELSE {}

StartDesign ==
    /\ Building(4) /\ Readable(skeleton) /\ Readable(dataFlow)
    /\ draft' = [s \in Subtrees |-> IF s \in Restored THEN Existing[s]
                                                      ELSE NoDesign]
    /\ reused' = \E s \in Restored : Existing[s].old
    /\ pc' = "design"
    /\ UNCHANGED <<files, old, reviewed, at, todo, result, edited, cut, edits,
                   faults>>

\* subtrees are designed in order; one without files in the skeleton is skipped
ToDesign == {s \in dataFlow : draft[s] = NoDesign /\ skeleton[s] # {}}

DesignSubtree(s, places, units) ==
    /\ pc = "design" /\ s \in ToDesign
    /\ \A t \in ToDesign : s <= t
    /\ draft' = [draft EXCEPT ![s] =
                   [places |-> places, units |-> units, old |-> FALSE]]
    /\ partial' = draft'
    /\ UNCHANGED <<tree, skeleton, dataFlow, bases, ifaces, tasks, old,
                   reviewed, pc, at, todo, result, edited, cut, reused, edits,
                   faults>>

\* _record_file_coverage: every file's features in that very file
Covered == \A s \in dataFlow :
    draft[s] # NoDesign /\ skeleton[s] \subseteq draft[s].places

\* seeded fault: an interfaces.json without review
FinishWithoutReview ==
    /\ pc = "design" /\ ToDesign = {}
    /\ ifaces' = draft /\ partial' = Missing
    /\ old' = Rewritten(4) /\ reviewed' = FALSE
    /\ IF Covered THEN /\ pc' = "verify" /\ draft' = Empty
                       /\ UNCHANGED <<at, todo, result, cut>>
                  ELSE EndEarly
    /\ UNCHANGED <<tree, skeleton, dataFlow, bases, tasks, edited, reused,
                   edits, faults>>

\* The final save of the orchestrator, before the review; the stage exits with
\* an error when a file lacks one of its features.
FinishDesign ==
    /\ pc = "design" /\ ToDesign = {}
    /\ ifaces' = draft /\ partial' = Missing
    /\ old' = Rewritten(4) /\ reviewed' = FALSE
    /\ IF Covered THEN /\ pc' = "review"
                       /\ UNCHANGED <<at, todo, draft, result, cut>>
                  ELSE EndEarly
    /\ UNCHANGED <<tree, skeleton, dataFlow, bases, tasks, edited, reused,
                   edits, faults>>

\* The review prunes or adds units of a subtree, in memory; features can go
\* with the units.
Review(s, places, units) ==
    /\ pc = "review"
    /\ s \in dataFlow /\ draft[s] # NoDesign /\ places \subseteq draft[s].places
    /\ draft' = [draft EXCEPT ![s].places = places, ![s].units = units]
    /\ pc' = "write"
    /\ UNCHANGED <<files, history, at, todo, result>>

WriteInterfaces ==
    /\ pc = "write"
    /\ ifaces' = draft /\ old' = Rewritten(4) /\ reviewed' = TRUE
    /\ pc' = "verify" /\ draft' = Empty
    /\ UNCHANGED <<tree, skeleton, dataFlow, bases, partial, tasks, at, todo,
                   result, edited, cut, reused, edits, faults>>

(***************************************************************************)
(* The end of a stage and of a run.                                        *)
(***************************************************************************)
\* seeded fault: the stage after the last one
LaterOneMore == {k \in 1 .. 6 : k > at}

Later == {k \in todo : k > at}

Verify ==
    /\ pc = "verify" /\ UpToDate(at)
    /\ IF Later # {}
       THEN Enter(Later) /\ UNCHANGED <<todo, result, cut>>
       ELSE /\ pc' = "idle" /\ at' = 1 /\ todo' = {} /\ result' = "done"
            /\ cut' = (cut /\ todo # Stages)
    /\ UNCHANGED <<files, old, reviewed, draft, edited, reused, edits, faults>>

\* a check or a build that did not succeed; the loop returns its exit code
VerifyFails ==
    /\ pc = "verify" /\ ~UpToDate(at)
    /\ EndEarly
    /\ UNCHANGED <<files, old, reviewed, edited, reused, edits, faults>>

BuildFails ==
    /\ \/ pc = "build" /\ at # 4
       \/ pc = "design" /\ ToDesign # {}
       \/ pc = "review"
    /\ EndEarly
    /\ \E flagged \in BOOLEAN :
         /\ dataFlow' = IF flagged /\ Building(2) THEN Broken ELSE dataFlow
         /\ bases' = IF flagged /\ Building(3) THEN Broken ELSE bases
    /\ UNCHANGED <<tree, skeleton, ifaces, partial, tasks, old, reviewed,
                   edited, reused, edits, faults>>

\* Ctrl-C or a kill, which may cut off the file that is being written
Interrupt ==
    /\ pc # "idle" /\ faults < MaxFaults
    /\ faults' = faults + 1
    /\ EndEarly
    /\ \E torn \in BOOLEAN :
         /\ skeleton' = IF torn /\ Building(1) THEN Broken ELSE skeleton
         /\ dataFlow' = IF torn /\ Building(2) THEN Broken ELSE dataFlow
         /\ bases' = IF torn /\ Building(3) THEN Broken ELSE bases
         /\ tasks' = IF torn /\ Building(5) THEN Broken ELSE tasks
         /\ partial' = IF torn /\ pc = "design" /\ ToDesign # {}
                       THEN Broken ELSE partial
         /\ ifaces' = IF torn /\ \/ pc = "design" /\ ToDesign = {}
                                 \/ pc = "write"
                      THEN Broken ELSE ifaces
    /\ UNCHANGED <<tree, old, reviewed, edited, reused, edits>>

Next ==
    \/ EditTree
    \/ \E force \in BOOLEAN : Plan(force)
    \/ \E shape \in Skeletons : BuildSkeleton(shape)
    \/ \E left \in Lost : BuildDataFlow(left) \/ BuildTasks(left)
    \/ BuildBases
    \/ StartDesign
    \/ \E s \in Subtrees, places \in Answers, units \in Units :
         DesignSubtree(s, places, units) \/ Review(s, places, units)
    \/ FinishDesign
    \/ WriteInterfaces
    \/ Verify
    \/ VerifyFails
    \/ BuildFails
    \/ Interrupt

Spec == Init /\ [][Next]_vars

(***************************************************************************)
(* Fairness: the command is run again after it ended, and the model does   *)
(* not answer wrongly for ever: a step that is possible again and again,   *)
(* each in a new run, comes out right at some time.                        *)
(***************************************************************************)
SkeletonRight == \E shape \in Skeletons :
    FeaturesOf(shape) = tree /\ BuildSkeleton(shape)
DesignRight(s) == \E units \in Units :
    Readable(skeleton) /\ DesignSubtree(s, skeleton[s], units)
ReviewKeeps == \E s \in Subtrees : Review(s, draft[s].places, draft[s].units)

\* steps of the program itself, the user's next run included
Proceed ==
    \/ \E force \in BOOLEAN : Plan(force)
    \/ StartDesign \/ FinishDesign \/ WriteInterfaces
    \/ Verify \/ VerifyFails

Fairness ==
    /\ WF_vars(Proceed)
    /\ SF_vars(SkeletonRight)
    /\ SF_vars(BuildDataFlow({}))
    /\ SF_vars(BuildBases)
    /\ \A s \in Subtrees : SF_vars(DesignRight(s))
    /\ SF_vars(ReviewKeeps)
    /\ SF_vars(BuildTasks({}))

FairSpec == Spec /\ Fairness

-----------------------------------------------------------------------------
\* Every file and every variable of a run keeps its shape.
TypeOK ==
    /\ tree \in Trees \cup {Missing}
    /\ skeleton \in Skeletons \cup {Missing, Broken}
    /\ dataFlow \in {Missing, Broken} \cup SUBSET Subtrees
    /\ bases \in {Good, Missing, Broken}
    /\ ifaces \in Drafts \cup {Missing, Broken}
    /\ partial \in Drafts \cup {Missing, Broken}
    /\ tasks \in Plans \cup {Missing, Broken}
    /\ old \subseteq {2, 3, 5} /\ reviewed \in BOOLEAN
    /\ pc \in {"idle", "build", "design", "review", "write", "verify"}
    /\ at \in Stages /\ todo \subseteq Stages /\ draft \in Drafts
    /\ result \in {"none", "done", "failed", "refused"}
    /\ edited \in BOOLEAN /\ cut \in BOOLEAN /\ reused \in BOOLEAN
    /\ edits \in 0 .. MaxEdits /\ faults \in 0 .. MaxFaults

Consistent ==
    /\ Readable(skeleton) /\ Readable(dataFlow) /\ bases = Good
    /\ Readable(ifaces) /\ Readable(tasks)
    /\ FeaturesOf(skeleton) = tree
    /\ dataFlow = Components(skeleton)
    /\ FeaturesOf(PlacesOf(ifaces)) = FeaturesOf(skeleton)
    /\ tasks = UnitsOf(ifaces)

\* A run of plan.py that returns 0 leaves five files that agree with each
\* other from end to end and with the feature tree it began with: that each
\* stage is checked right after it is built, and that a rebuilt stage has all
\* later ones rebuilt, is enough, whatever the skipped stages held.
FinishedPlanAgrees == result = "done" /\ ~edited => Consistent

InSync ==
    /\ old = {}
    /\ Readable(ifaces) =>
         \A s \in Subtrees : ifaces[s] # NoDesign => ~ifaces[s].old

\* After a run that returned 0 no file is older than one it is built from and
\* the interfaces have been reviewed, except in two cases: an earlier run
\* ended half-way, for the next one no longer knows what was still to be
\* rebuilt; or the interface stage took over subtrees that were designed for
\* files since rewritten.
DriftHasACause ==
    result = "done" /\ ~cut /\ ~reused => InSync /\ reviewed

\* The design contract of plan.py: "Once any stage gets (re)built, all
\* downstream stages are forced to rebuild too, so up- and down-stream
\* artifacts never drift apart."
NeverDrift == result = "done" => InSync

\* a design has a feature that the skeleton does not give its subtree
Excess(designs) ==
    /\ Readable(designs) /\ Readable(skeleton)
    /\ \E s \in Subtrees : ~ (FeaturesOf(PlacesOf(designs))[s]
                                \subseteq FeaturesIn(skeleton[s]))

\* a design has all features of its subtree, but not in the skeleton's files:
\* the feature is in another file, or a new skeleton moved it
Misplaced(designs) ==
    /\ Readable(designs) /\ Readable(skeleton)
    /\ \E s \in Subtrees : /\ Complete(designs, s)
                           /\ ~ (skeleton[s] \subseteq designs[s].places)

\* from some time on, no run is forced
ForcingStops == <>[][Plan(TRUE) => Plan(FALSE)]_vars

\* Running plan.py again and again comes to a run that returns 0, after
\* failures, interruptions and changes of the feature tree, unless the
\* interface stage restores a subtree as complete and then fails it, every
\* time: because the design keeps a feature that the skeleton does not have,
\* or, as long as runs are forced, because it has a feature in another file
\* than the skeleton.
RerunsFinish ==
    \/ []<>(tree = Missing \/ Excess(ifaces) \/ Excess(partial))
    \/ []<>(Misplaced(ifaces) \/ Misplaced(partial)) /\ ~ForcingStops
    \/ []<>(result = "done")

\* Without the second exception the claim is false of the code: every forced
\* run restores a design whose feature is in another file and then fails it.
ForcedRerunsFinish ==
    \/ []<>(tree = Missing \/ Excess(ifaces) \/ Excess(partial))
    \/ []<>(result = "done")
=============================================================================
