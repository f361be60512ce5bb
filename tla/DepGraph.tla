------------------------------ MODULE DepGraph ------------------------------
(***************************************************************************)
(* The dependency graph of rpg.json and its incremental update             *)
(* (rpg/dep_graph.py, update_files), as `update_graphs.py sync` calls it:  *)
(* each sync is a process of its own that loads the graph, takes from git  *)
(* the paths that changed since the commit the graph names, replaces their *)
(* nodes one by one, infers the edges anew and saves.                      *)
(*                                                                         *)
(* A file's text is what it defines and what it takes from other files.    *)
(* Imports, calls and base classes are all resolved through the same alias *)
(* maps, so there is one kind of edge: <<f, n, g>>, file f refers to the   *)
(* unit n of file g, possibly imported by way of other files.  The text    *)
(* also stands for its hash.  Syncs that overlap with others or with the   *)
(* user are the subject of RpgSync; directories, fuzzy matches of method   *)
(* names and languages other than Python are left out.                     *)
(***************************************************************************)
EXTENDS Naturals

CONSTANTS
    N,         \* paths are 1 .. N, in git's order
    Names,     \* names of units
    Texts,     \* texts of files
    Defs,      \* the units a text defines
    Refs,      \* the names a text takes, with the files it takes them from
    NoFile,    \* the path does not exist
    Start,     \* trees the workspace can be encoded with at first
    MaxEdits   \* bound: changes of the working tree

Files == 1 .. N
Trees == [Files -> Texts \cup {NoFile}]

ASSUME DepGraphConstants ==
    /\ N \in Nat /\ MaxEdits \in Nat
    /\ NoFile \notin Texts /\ NoFile \notin Files
    /\ Start \subseteq Trees
    /\ Defs \in [Texts -> SUBSET Names]
    /\ Refs \in [Texts -> SUBSET (Names \X Files)]

VARIABLES
    disk,      \* the working tree
    head,      \* the tree of HEAD
    last,      \* the tree of the commit rpg.json names
    nodes,     \* file nodes with their units
    edges,     \* semantic edges
    pc,        \* what the sync does
    queue,     \* paths update_files has yet to look at: those git diff lists,
               \* those that are not committed, the old paths of renames
    renames,   \* its renames argument
    parsed,    \* files whose syntax tree is in memory
    touched,   \* a file was renamed, deleted, modified or added
    seen,      \* history: the working tree of the last sync
    inferred,  \* history: `parsed` when the edges were inferred
    astray,    \* history: files the updates so far did not deal with rightly
    uncounted, \* history: a node went, with no file counted as changed
    edits

repo == <<disk, head, last, edits>>
graph == <<nodes, edges>>
vars == <<disk, head, last, nodes, edges, pc, queue, renames, parsed, touched,
          seen, inferred, astray, uncounted, edits>>

NoNode == [text |-> NoFile, units |-> {}]
Nodes == [text : Texts \cup {NoFile}, units : SUBSET Names]

NodeFor(text) ==
    IF text = NoFile THEN NoNode ELSE [text |-> text, units |-> Defs[text]]
Built(tree) == [f \in Files |-> NodeFor(tree[f])]

(***************************************************************************)
(* The semantic passes: a reference of a file whose syntax tree is there   *)
(* leads to a unit if every file on the way passes the name on by an       *)
(* import of its own.                                                      *)
(***************************************************************************)
Takes(g, f, n, from) ==
    g[f].text # NoFile /\ <<n, from>> \in Refs[g[f].text]

\* a way of no more than N files, from f over `via` to the target
LeadsTo(g, asts, f, n, target) ==
    /\ n \in g[target].units
    /\ \E k \in 0 .. N - 2 : \E via \in [1 .. k -> Files] :
         LET way == [i \in 0 .. k + 1 |-> IF i = 0 THEN f
                                          ELSE IF i > k THEN target ELSE via[i]]
         IN \A i \in 0 .. k : way[i] \in asts /\ Takes(g, way[i], n, way[i + 1])

EdgesOf(g, asts) ==
    {e \in Files \X Names \X Files : LeadsTo(g, asts, e[1], e[2], e[3])}

FullEdges(tree) == EdgesOf(Built(tree), Files)

(***************************************************************************)
(* Git.                                                                    *)
(***************************************************************************)
Changed(from, to) == {f \in Files : from[f] # to[f]}
Deleted(from, to) == {f \in Files : from[f] # NoFile /\ to[f] = NoFile}
Added(from, to) == {f \in Files : from[f] = NoFile /\ to[f] # NoFile}

\* git diff -M: which deletions and additions it pairs depends on how similar
\* they are
Pairings(from, to) ==
    {r \in [Files -> Files \cup {NoFile}] :
        /\ \A f \in Files : r[f] # NoFile =>
             f \in Deleted(from, to) /\ r[f] \in Added(from, to)
        /\ \A f, g \in Files : r[f] = r[g] /\ f # g => r[f] = NoFile}
NoRenames == [f \in Files |-> NoFile]
NoPaths == [i \in 1 .. 3 |-> {}]

Sources(r) == {f \in Files : r[f] # NoFile}
Targets(r) == {r[f] : f \in Sources(r)}

Init ==
    /\ disk \in Start /\ head = disk /\ last = disk
    /\ nodes = Built(disk) /\ edges = FullEdges(disk)
    /\ pc = "idle" /\ queue = NoPaths /\ renames = NoRenames
    /\ parsed = {} /\ touched = FALSE
    /\ seen = disk /\ inferred = Files
    /\ astray = {} /\ uncounted = FALSE
    /\ edits = 0

\* The user writes, removes or moves a file.
Edit(tree) ==
    /\ pc = "idle" /\ edits < MaxEdits /\ edits' = edits + 1
    /\ disk' = tree /\ tree # disk
    /\ UNCHANGED <<head, last, graph, pc, queue, renames, parsed, touched,
                   seen, inferred, astray, uncounted>>

Commit(paths) ==
    /\ pc = "idle" /\ paths # {} /\ paths \subseteq Changed(head, disk)
    /\ head' = [f \in Files |-> IF f \in paths THEN disk[f] ELSE head[f]]
    /\ UNCHANGED <<disk, last, edits, graph, pc, queue, renames, parsed,
                   touched, seen, inferred, astray, uncounted>>

(***************************************************************************)
(* sync_from_commit_diff.  The graph is loaded without syntax trees.       *)
(***************************************************************************)
Listed(q) == UNION {q[i] : i \in 1 .. 3}

\* git reports nothing of them, though their node is that of another text: an
\* edit that was synced before it was committed, and then undone
Missed(q) == {f \in Files \ Listed(q) : f \in astray \/ seen[f] # disk[f]}

\* the old path of a rename, with a new file at it: the node is dropped, and
\* only a rename that comes later brings the file in
Dropped(r, q) ==
    {f \in Sources(r) : /\ disk[f] # NoFile
                        /\ f \in q[3] \/ \A g \in q[3] : r[g] # f}

\* the new path of a rename, with a node from an earlier update: it is not
\* removed, so the units of its older text stay
Kept(r) ==
    {f \in Targets(r) \ Sources(r) :
        nodes[f] # NoNode /\ (f \in astray \/ nodes[f].text # disk[f])}

\* the hash is that of the disk already, though the units are not
Unmended(r, q) ==
    {f \in (astray \cap Listed(q)) \ (Sources(r) \cup Targets(r)) :
        disk[f] # NoFile /\ nodes[f].text = disk[f]}

\* The dirty part is paired if it is staged; the dict keeps one target a path,
\* that of the working tree.
StartUpdate(between, dirty) ==
    /\ pc = "idle" /\ (last # head \/ head # disk)
    /\ LET both == [f \in Files |-> IF dirty[f] # NoFile THEN dirty[f] ELSE between[f]]
           committed == Changed(last, head) \ Sources(between)
           uncommitted == Changed(head, disk) \ Sources(dirty)
       IN /\ renames' = both
          /\ queue' = [i \in 1 .. 3 |->
                CASE i = 1 -> committed
                  [] i = 2 -> uncommitted \ committed
                  [] i = 3 -> Sources(both) \ (committed \cup uncommitted)]
    /\ astray' = Missed(queue') \cup Dropped(renames', queue')
                 \cup Kept(renames') \cup Unmended(renames', queue')
    /\ pc' = "files" /\ parsed' = {} /\ touched' = FALSE /\ seen' = disk
    /\ UNCHANGED <<repo, graph, inferred, uncounted>>

(***************************************************************************)
(* update_files: one turn of its loop.                                     *)
(***************************************************************************)
Removed(g, f) == [g EXCEPT ![f] = NoNode]
EdgesWithout(f) == {e \in edges : e[1] # f /\ e[3] # f}

\* add_file; units of a node that is there already stay
AddedTo(g, f) ==
    IF disk[f] = NoFile THEN g
    ELSE [g EXCEPT ![f] = [text |-> disk[f], units |-> @.units \cup Defs[disk[f]]]]
ParsedAlso(files, f) == IF disk[f] = NoFile THEN files ELSE files \cup {f}

\* The diffs are in the order of the paths, the renames in that of their targets.
Turn(f) ==
    /\ pc = "files"
    /\ \E i \in 1 .. 3 :
          /\ f \in queue[i] /\ \A j \in 1 .. i - 1 : queue[j] = {}
          /\ i < 3 => \A g \in queue[i] : f <= g
          /\ queue' = [queue EXCEPT ![i] = @ \ {f}]
    /\ UNCHANGED <<repo, pc, renames, seen, inferred, astray>>

\* seeded fault: renamed files are not counted among the changed ones
RenameQuietly(f) ==
    /\ Turn(f) /\ f \in Sources(renames)
    /\ nodes' = AddedTo(Removed(nodes, f), renames[f])
    /\ edges' = EdgesWithout(f)
    /\ parsed' = ParsedAlso(parsed \ {f}, renames[f])
    /\ uncounted' = (uncounted \/ (disk[renames[f]] = NoFile /\ nodes[f] # NoNode))
    /\ UNCHANGED touched

Rename(f) ==
    /\ Turn(f) /\ f \in Sources(renames)
    /\ nodes' = AddedTo(Removed(nodes, f), renames[f])
    /\ edges' = EdgesWithout(f)
    /\ parsed' = ParsedAlso(parsed \ {f}, renames[f])
    /\ touched' = (touched \/ disk[renames[f]] # NoFile)
    /\ uncounted' = (uncounted \/ (disk[renames[f]] = NoFile /\ nodes[f] # NoNode))

Skip(f) ==
    /\ Turn(f) /\ f \notin Sources(renames)
    /\ \/ f \in Targets(renames)
       \/ disk[f] # NoFile /\ nodes[f].text = disk[f]
    /\ UNCHANGED <<nodes, edges, parsed, touched, uncounted>>

Delete(f) ==
    /\ Turn(f) /\ f \notin Sources(renames) \cup Targets(renames)
    /\ disk[f] = NoFile
    /\ nodes' = Removed(nodes, f) /\ edges' = EdgesWithout(f)
    /\ parsed' = parsed \ {f}
    /\ touched' = (touched \/ nodes[f] # NoNode)
    /\ UNCHANGED uncounted

\* seeded fault: the old nodes of a modified file are not removed first
ModifyInPlace(f) ==
    /\ Turn(f) /\ f \notin Sources(renames) \cup Targets(renames)
    /\ disk[f] # NoFile /\ nodes[f].text # disk[f]
    /\ nodes' = AddedTo(nodes, f) /\ edges' = EdgesWithout(f)
    /\ parsed' = ParsedAlso(parsed, f)
    /\ touched' = TRUE /\ UNCHANGED uncounted

Modify(f) ==
    /\ Turn(f) /\ f \notin Sources(renames) \cup Targets(renames)
    /\ disk[f] # NoFile /\ nodes[f].text # disk[f]
    /\ nodes' = AddedTo(Removed(nodes, f), f) /\ edges' = EdgesWithout(f)
    /\ parsed' = ParsedAlso(parsed, f)
    /\ touched' = TRUE /\ UNCHANGED uncounted

\* seeded fault: the semantic edges are not wiped before they are inferred
FinishAdding ==
    /\ pc = "files" /\ queue = NoPaths
    /\ IF touched THEN edges' = edges \cup EdgesOf(nodes, parsed) /\ inferred' = parsed
                  ELSE UNCHANGED <<edges, inferred>>
    /\ uncounted' = (uncounted /\ ~touched)
    /\ pc' = "idle" /\ last' = head
    /\ parsed' = {} /\ touched' = FALSE /\ renames' = NoRenames
    /\ UNCHANGED <<disk, head, nodes, queue, seen, astray, edits>>

\* seeded fault: syntax trees outlive the process
FinishAlive ==
    /\ pc = "files" /\ queue = NoPaths
    /\ IF touched THEN edges' = EdgesOf(nodes, parsed) /\ inferred' = parsed
                  ELSE UNCHANGED <<edges, inferred>>
    /\ uncounted' = (uncounted /\ ~touched)
    /\ pc' = "idle" /\ last' = head
    /\ UNCHANGED <<disk, head, nodes, queue, renames, parsed, touched, seen,
                   astray, edits>>

\* _wipe_semantic_edges and _rerun_semantic_passes, then save; the process
\* ends and its syntax trees with it
Finish ==
    /\ pc = "files" /\ queue = NoPaths
    /\ IF touched THEN edges' = EdgesOf(nodes, parsed) /\ inferred' = parsed
                  ELSE UNCHANGED <<edges, inferred>>
    /\ uncounted' = (uncounted /\ ~touched)
    /\ pc' = "idle" /\ last' = head
    /\ parsed' = {} /\ touched' = FALSE /\ renames' = NoRenames
    /\ UNCHANGED <<disk, head, nodes, queue, seen, astray, edits>>

\* refresh_dep_graph: build and parse; the background update of RpgSync, a
\* diverged history, too many files and --force all come to it
Rebuild ==
    /\ pc = "idle"
    /\ nodes' = Built(disk) /\ edges' = FullEdges(disk) /\ last' = head
    /\ seen' = disk /\ inferred' = Files /\ astray' = {} /\ uncounted' = FALSE
    /\ UNCHANGED <<disk, head, edits, pc, queue, renames, parsed, touched>>

Next ==
    \/ \E f \in Files, text \in Texts \cup {NoFile} :
         Edit([disk EXCEPT ![f] = text])
    \/ \E f, g \in Files : Edit([disk EXCEPT ![f] = NoFile, ![g] = disk[f]])
    \/ \E paths \in SUBSET Files : Commit(paths)
    \/ \E between \in Pairings(last, head),
          dirty \in Pairings(head, disk) : StartUpdate(between, dirty)
    \/ \E f \in Files : Rename(f) \/ Skip(f) \/ Delete(f) \/ Modify(f)
    \/ Finish
    \/ Rebuild

Spec == Init /\ [][Next]_vars

-----------------------------------------------------------------------------
\* Every variable has its type, and what update_files keeps in memory ends
\* with its process.
TypeOK ==
    /\ disk \in Trees /\ head \in Trees /\ last \in Trees /\ seen \in Trees
    /\ nodes \in [Files -> Nodes] /\ edges \subseteq Files \X Names \X Files
    /\ pc \in {"idle", "files"} /\ queue \in [1 .. 3 -> SUBSET Files]
    /\ renames \in [Files -> Files \cup {NoFile}]
    /\ parsed \subseteq Files /\ inferred \subseteq Files
    /\ touched \in BOOLEAN /\ astray \subseteq Files /\ uncounted \in BOOLEAN
    /\ edits \in 0 .. MaxEdits
    /\ pc = "idle" => queue = NoPaths /\ parsed = {} /\ ~touched

\* After an incremental update every file node is the one a full rebuild would
\* make: the hash check, the deletions, the renames and their order lose no
\* file and leave no unit of an older text, but for the paths that update_files
\* gets wrong (Dropped, Kept, and Unmended afterwards) or is not told of
\* (Missed).
NodesMatchDisk ==
    pc = "idle" => \A f \in Files \ astray : nodes[f] = NodeFor(seen[f])

\* the file nodes without those of the files gone astray
Sound == [f \in Files |-> IF f \in astray THEN NoNode ELSE nodes[f]]

\* No edge outlives the code it was inferred from: one that a full rebuild
\* would not have leads through a file gone astray, and the nodes have it
\* still.  The exception is a rename whose new file is gone again: nothing
\* counts as changed, and the edges by way of the old file stay.
NoStaleEdges ==
    pc = "idle" /\ ~uncounted =>
        edges \ FullEdges(seen)
          \subseteq EdgesOf(nodes, Files) \ EdgesOf(Sound, Files)

\* An edge that a full rebuild would have is missing only if on every way that
\* leads to its unit there is a file gone astray or one that was not parsed by
\* the process that inferred the edges: a loaded graph has no syntax trees,
\* and update_files parses only what changed.
LossHasACause ==
    pc = "idle" =>
        \A e \in FullEdges(seen) \ edges :
            ~LeadsTo(Sound, inferred, e[1], e[2], e[3])

\* "Semantic correctness contract: after update_files returns, the graph must
\* be byte-equivalent to what a full build() + parse() cycle would have
\* produced."
UpdateEqualsRebuild ==
    pc = "idle" /\ astray = {} => nodes = Built(seen) /\ edges = FullEdges(seen)

\* "Already handled when we processed the corresponding old path": what the
\* code does of both paths of a rename would be right if this were so.
RenamesAreHandled ==
    pc = "files" /\ queue = NoPaths =>
        \A f \in Sources(renames) \cup Targets(renames) :
            nodes[f] = NodeFor(disk[f])
=============================================================================
