--------------------------- MODULE MCPlanPipeline ---------------------------
(* Two subtrees, two features, two files: the user adds a feature, removes it,
   or removes a subtree; a skeleton has the first subtree's feature in either
   file, and so has a design. *)
EXTENDS PlanPipeline, TLC

CONSTANTS a, b, f, g

MCFeatures == {a, b}
MCFiles == {f, g}
Layout(shape, file) ==
    [s \in Subtrees |->
       {<<x, IF x = a /\ s = 1 THEN file ELSE f>> : x \in shape[s]}]
Layouts(trees) == {Layout(shape, f) : shape \in trees}
                  \cup {Layout([s \in Subtrees |-> {a}], g)}

MCTrees == {[s \in Subtrees |-> {a}],
            [s \in Subtrees |-> IF s = 1 THEN {a, b} ELSE {a}],
            [s \in Subtrees |-> IF s = 1 THEN {a} ELSE {}]}
MCSkeletons == {Layout(shape, f) : shape \in MCTrees}
MCSymmetry == Permutations(Units)
MCAnswers == {{<<a, f>>}, {<<a, g>>}, {<<a, f>>, <<b, f>>}}
\* enough for a change of the feature tree
MCTwoTrees == {[s \in Subtrees |-> {a}],
               [s \in Subtrees |-> IF s = 1 THEN {a, b} ELSE {a}]}
MCTwoTreeSkeletons == Layouts(MCTwoTrees)
=============================================================================
