--------------------------- MODULE DepGraph_proofs ---------------------------
(***************************************************************************)
(* Proofs about DepGraph, for every number of files, every set of texts    *)
(* and every answer git may give about renames.                            *)
(***************************************************************************)
EXTENDS DepGraph, TLAPS

\* f is still to be looked at by update_files.
Queued(f) == \E i \in 1 .. 3 : f \in queue[i]

Settled(f) == nodes[f] = NodeFor(disk[f])

\* f is left to a rename to it: of a path that comes after f's own turn, if f
\* is renamed as well.
LeftToRename(f) ==
    \/ /\ f \notin Sources(renames) /\ nodes[f] = NoNode
       /\ \E s \in Sources(renames) : renames[s] = f /\ Queued(s)
    \/ /\ f \in Sources(renames) /\ f \notin queue[3]
       /\ Queued(f) \/ nodes[f] = NoNode
       /\ \E s \in queue[3] : s \in Sources(renames) /\ renames[s] = f

\* f has the node of the working tree and keeps it, or will get it.
OnTrack(f) ==
    \/ Settled(f) /\ (f \in Sources(renames) /\ disk[f] # NoFile => ~Queued(f))
    \/ /\ f \notin Sources(renames) \cup Targets(renames) /\ Queued(f)
       /\ disk[f] = NoFile \/ nodes[f].text # disk[f]
    \/ f \in Sources(renames) /\ disk[f] = NoFile /\ Queued(f)
    \/ disk[f] # NoFile /\ LeftToRename(f)

\* What holds while update_files works.
Working ==
    /\ seen = disk
    /\ \A i, j \in 1 .. 3 : i # j => queue[i] \cap queue[j] = {}
    /\ \A s \in Sources(renames) : renames[s] # s
    /\ \A f \in Files \ astray : OnTrack(f)

\* The edges are those of the nodes, without those that rest on a file whose
\* syntax tree was not in memory.
Inferred ==
    /\ ~uncounted => edges \subseteq EdgesOf(nodes, Files)
    /\ \A e \in EdgesOf(nodes, Files) \ edges : ~LeadsTo(nodes, inferred, e[1], e[2], e[3])

IInv ==
    /\ TypeOK /\ NodesMatchDisk
    /\ pc = "idle" => Inferred
    /\ pc = "files" => Working /\ (~touched => Inferred)

-----------------------------------------------------------------------------
\* Facts about nodes, paths and edges.

LEMMA NodeForType ==
    ASSUME NEW text \in Texts \cup {NoFile}
    PROVE  NodeFor(text) \in Nodes /\ NodeFor(text).text = text
  BY DepGraphConstants DEF NodeFor, Nodes, NoNode

LEMMA BuiltType ==
    ASSUME NEW tree \in Trees
    PROVE  Built(tree) \in [Files -> Nodes]
  BY NodeForType DEF Built, Trees

LEMMA AddedToType ==
    ASSUME NEW g \in [Files -> Nodes], NEW f \in Files, disk \in Trees
    PROVE  AddedTo(g, f) \in [Files -> Nodes]
  <1>1. CASE disk[f] = NoFile
    BY <1>1 DEF AddedTo
  <1>2. CASE disk[f] # NoFile
    <2>1. [text |-> disk[f], units |-> g[f].units \cup Defs[disk[f]]] \in Nodes
      <3>1. disk[f] \in Texts /\ Defs[disk[f]] \subseteq Names
        BY <1>2, DepGraphConstants DEF Trees
      <3>2. g[f].units \subseteq Names
        BY DEF Nodes
      <3> QED
        BY <3>1, <3>2 DEF Nodes
    <2> QED
      BY <1>2, <2>1 DEF AddedTo
  <1> QED
    BY <1>1, <1>2

LEMMA RemovedType ==
    ASSUME NEW g \in [Files -> Nodes], NEW f \in Files
    PROVE  Removed(g, f) \in [Files -> Nodes]
  <1>1. NoNode \in Nodes
    BY NodeForType DEF NodeFor
  <1> QED
    BY <1>1 DEF Removed

\* A file that has no node yet gets the one a full build would make.
LEMMA AddedToAbsent ==
    ASSUME NEW g \in [Files -> Nodes], NEW f \in Files, disk \in Trees,
           g[f] = NoNode
    PROVE  AddedTo(g, f)[f] = NodeFor(disk[f])
  <1>1. g[f].units \cup Defs[disk[f]] = Defs[disk[f]]
    BY DEF NoNode
  <1> QED
    BY <1>1 DEF AddedTo, NodeFor

\* A file that has that node already keeps it.
LEMMA AddedToPresent ==
    ASSUME NEW g \in [Files -> Nodes], NEW f \in Files, disk \in Trees,
           g[f] = NodeFor(disk[f])
    PROVE  AddedTo(g, f)[f] = NodeFor(disk[f])
  BY DepGraphConstants DEF AddedTo, NodeFor, NoNode, Trees, Nodes

\* The more syntax trees there are, the more edges are inferred.
LEMMA MoreTreesMoreEdges ==
    ASSUME NEW g, NEW A, NEW B, A \subseteq B
    PROVE  EdgesOf(g, A) \subseteq EdgesOf(g, B)
  BY DEF EdgesOf, LeadsTo

LEMMA EdgeOfTrees ==
    ASSUME NEW g, NEW A, NEW e \in Files \X Names \X Files
    PROVE  e \in EdgesOf(g, A) <=> LeadsTo(g, A, e[1], e[2], e[3])
  BY DEF EdgesOf

\* The more nodes there are, the more edges are inferred.
LEMMA MoreNodesMoreEdges ==
    ASSUME NEW g, NEW h, NEW A,
           \A f \in Files : g[f] = NoNode \/ g[f] = h[f]
    PROVE  EdgesOf(g, A) \subseteq EdgesOf(h, A)
  <1>1. ASSUME NEW f \in Files, NEW n, NEW from, Takes(g, f, n, from)
        PROVE  Takes(h, f, n, from)
    BY <1>1 DEF Takes, NoNode
  <1>2. ASSUME NEW e \in Files \X Names \X Files, LeadsTo(g, A, e[1], e[2], e[3])
        PROVE  LeadsTo(h, A, e[1], e[2], e[3])
    <2>1. e[3] \in Files /\ e[1] \in Files
      OBVIOUS
    <2>2. e[2] \in g[e[3]].units => e[2] \in h[e[3]].units
      BY <2>1 DEF NoNode
    <2>3. PICK k \in 0 .. N - 2 : \E via \in [1 .. k -> Files] :
            LET way == [i \in 0 .. k + 1 |-> IF i = 0 THEN e[1]
                                             ELSE IF i > k THEN e[3] ELSE via[i]]
            IN \A i \in 0 .. k : way[i] \in A /\ Takes(g, way[i], e[2], way[i + 1])
      BY <1>2 DEF LeadsTo
    <2>7. PICK via \in [1 .. k -> Files] :
            LET way == [i \in 0 .. k + 1 |-> IF i = 0 THEN e[1]
                                             ELSE IF i > k THEN e[3] ELSE via[i]]
            IN \A i \in 0 .. k : way[i] \in A /\ Takes(g, way[i], e[2], way[i + 1])
      BY <2>3
    <2> DEFINE way == [i \in 0 .. k + 1 |-> IF i = 0 THEN e[1]
                                            ELSE IF i > k THEN e[3] ELSE via[i]]
    <2>4. \A i \in 0 .. k : way[i] \in Files
      BY <2>1, DepGraphConstants
    <2>5. \A i \in 0 .. k : way[i] \in A /\ Takes(g, way[i], e[2], way[i + 1])
      BY <2>7
    <2>6. \A i \in 0 .. k : way[i] \in A /\ Takes(h, way[i], e[2], way[i + 1])
      <3> HIDE DEF way
      <3> QED
        BY <2>4, <2>5, <1>1
    <2> QED
      BY <1>2, <2>2, <2>6 DEF LeadsTo
  <1> QED
    BY <1>2 DEF EdgesOf

\* An edge has a file with a text at one end and a unit at the other.
LEMMA EdgesNeedNodes ==
    ASSUME NEW g, NEW A, NEW f \in Files, NEW n \in Names, NEW t \in Files,
           LeadsTo(g, A, f, n, t)
    PROVE  g[f].text # NoFile /\ g[t].units # {}
  <1>1. PICK k \in 0 .. N - 2 : \E via \in [1 .. k -> Files] :
          LET way == [i \in 0 .. k + 1 |-> IF i = 0 THEN f
                                           ELSE IF i > k THEN t ELSE via[i]]
          IN \A i \in 0 .. k : way[i] \in A /\ Takes(g, way[i], n, way[i + 1])
    BY DEF LeadsTo
  <1>2. k \in Nat /\ 0 \in 0 .. k /\ 0 \in 0 .. k + 1
    BY DepGraphConstants
  <1>3. \E h : Takes(g, f, n, h)
    BY <1>1, <1>2
  <1> QED
    BY <1>3 DEF Takes, LeadsTo

\* An edge that ends in a file without a node is no edge.
LEMMA NoEdgeWithoutNode ==
    ASSUME NEW g, NEW f \in Files, g[f] = NoNode
    PROVE  \A e \in EdgesOf(g, Files) : e[1] # f /\ e[3] # f
  BY EdgeOfTrees, EdgesNeedNodes DEF EdgesOf, NoNode

-----------------------------------------------------------------------------
\* The steps of update_files, for the type invariant.

LEMMA TurnType ==
    ASSUME TypeOK, NEW f \in Files, Turn(f)
    PROVE  /\ queue' \in [1 .. 3 -> SUBSET Files]
           /\ \A g \in Files : Queued(g) /\ g # f => Queued(g)'
           /\ pc = "files" /\ UNCHANGED <<repo, pc, renames, seen, inferred, astray>>
  BY DEF Turn, TypeOK, Queued

LEMMA InitType == Init => TypeOK
  <1> SUFFICES ASSUME Init PROVE TypeOK
    OBVIOUS
  <1>1. disk \in Trees
    BY DepGraphConstants DEF Init
  <1>2. nodes \in [Files -> Nodes] /\ edges \subseteq Files \X Names \X Files
    BY <1>1, BuiltType DEF Init, FullEdges, EdgesOf
  <1>3. renames \in [Files -> Files \cup {NoFile}] /\ queue \in [1 .. 3 -> SUBSET Files]
    BY DEF Init, NoRenames, NoPaths
  <1>4. edits \in 0 .. MaxEdits
    BY DepGraphConstants DEF Init
  <1> QED
    BY <1>1, <1>2, <1>3, <1>4 DEF Init, TypeOK

LEMMA TypeStep ==
    ASSUME TypeOK, [Next]_vars
    PROVE  TypeOK'
  <1> USE DEF TypeOK
  <1>1. ASSUME NEW f \in Files, NEW text \in Texts \cup {NoFile},
               Edit([disk EXCEPT ![f] = text])
        PROVE  TypeOK'
    <2>1. disk' \in Trees
      BY <1>1 DEF Edit, Trees
    <2>2. edits' \in 0 .. MaxEdits
      BY <1>1, DepGraphConstants DEF Edit
    <2>3. UNCHANGED <<head, last, graph, pc, queue, renames, parsed, touched,
                      seen, inferred, astray, uncounted>>
      BY <1>1 DEF Edit
    <2> QED
      BY <2>1, <2>2, <2>3 DEF graph
  <1>2. ASSUME NEW f \in Files, NEW g \in Files,
               Edit([disk EXCEPT ![f] = NoFile, ![g] = disk[f]])
        PROVE  TypeOK'
    <2>1. disk' \in Trees
      BY <1>2 DEF Edit, Trees
    <2> QED
      BY <1>2, <2>1, DepGraphConstants DEF Edit, graph
  <1>3. ASSUME NEW paths \in SUBSET Files, Commit(paths) PROVE TypeOK'
    BY <1>3 DEF Commit, graph, Trees
  <1>4. ASSUME NEW between \in Pairings(last, head),
               NEW dirty \in Pairings(head, disk), StartUpdate(between, dirty)
        PROVE  TypeOK'
    <2>1. renames' \in [Files -> Files \cup {NoFile}]
      BY <1>4 DEF StartUpdate, Pairings
    <2>2. queue' \in [1 .. 3 -> SUBSET Files]
      BY <1>4 DEF StartUpdate, Changed, Sources
    <2>3. astray' \subseteq Files
      <3>1. Targets(renames') \subseteq Files
        BY <2>1, DepGraphConstants DEF Targets, Sources
      <3> QED
        BY <1>4, <3>1 DEF StartUpdate, Missed, Dropped, Kept, Unmended, Sources
    <2>4. pc' = "files" /\ parsed' = {} /\ touched' = FALSE /\ seen' = disk
          /\ UNCHANGED <<repo, graph, inferred, uncounted>>
      BY <1>4 DEF StartUpdate
    <2> QED
      BY <2>1, <2>2, <2>3, <2>4 DEF repo, graph
  <1>5. ASSUME NEW f \in Files, Rename(f) PROVE TypeOK'
    <2>1. renames[f] \in Files
      BY <1>5 DEF Rename, Sources
    <2>2. nodes' \in [Files -> Nodes]
      BY <1>5, <2>1, RemovedType, AddedToType DEF Rename
    <2>3. uncounted' \in BOOLEAN /\ touched' \in BOOLEAN
      BY <1>5 DEF Rename
    <2> QED
      BY <1>5, <2>1, <2>2, <2>3, TurnType DEF Rename, EdgesWithout, ParsedAlso, repo
  <1>6. ASSUME NEW f \in Files, Skip(f) PROVE TypeOK'
    BY <1>6, TurnType DEF Skip, repo
  <1>7. ASSUME NEW f \in Files, Delete(f) PROVE TypeOK'
    BY <1>7, TurnType, RemovedType DEF Delete, EdgesWithout, repo
  <1>8. ASSUME NEW f \in Files, Modify(f) PROVE TypeOK'
    <2>1. nodes' \in [Files -> Nodes]
      BY <1>8, RemovedType, AddedToType DEF Modify
    <2> QED
      BY <1>8, <2>1, TurnType DEF Modify, EdgesWithout, ParsedAlso, repo
  <1>9. CASE Finish
    BY <1>9, DepGraphConstants DEF Finish, EdgesOf, NoRenames
  <1>10. CASE Rebuild
    BY <1>10, BuiltType DEF Rebuild, FullEdges, EdgesOf
  <1>11. CASE UNCHANGED vars
    BY <1>11 DEF vars
  <1> QED
    BY <1>1, <1>2, <1>3, <1>4, <1>5, <1>6, <1>7, <1>8, <1>9, <1>10, <1>11 DEF Next

-----------------------------------------------------------------------------
\* What the actions keep of the rest of IInv.

LEMMA InitIInv == Init => IInv
  <1> SUFFICES ASSUME Init PROVE IInv
    OBVIOUS
  <1>1. nodes = Built(seen) /\ pc = "idle"
    BY DEF Init
  <1>2. Inferred
    BY <1>1 DEF Init, Inferred, FullEdges
  <1>3. NodesMatchDisk
    BY <1>1 DEF NodesMatchDisk, Built
  <1> QED
    BY <1>1, <1>2, <1>3, InitType DEF IInv

\* The first step: what is not listed has the node it should have, and what is
\* listed will get it, or is counted as astray.
LEMMA StartIsWorking ==
    ASSUME IInv, TypeOK',
           NEW between \in Pairings(last, head), NEW dirty \in Pairings(head, disk),
           StartUpdate(between, dirty)
    PROVE  Working' /\ Inferred'
  <1> USE DEF IInv
  <1> DEFINE both == [f \in Files |-> IF dirty[f] # NoFile THEN dirty[f] ELSE between[f]]
             committed == Changed(last, head) \ Sources(between)
             uncommitted == Changed(head, disk) \ Sources(dirty)
  <1>1. /\ pc = "idle" /\ renames' = both
        /\ queue' = [i \in 1 .. 3 |-> CASE i = 1 -> committed
                                        [] i = 2 -> uncommitted \ committed
                                        [] i = 3 -> Sources(both) \ (committed \cup uncommitted)]
        /\ astray' = Missed(queue') \cup Dropped(renames', queue')
                       \cup Kept(renames') \cup Unmended(renames', queue')
    BY DEF StartUpdate
  <1>2. seen' = disk /\ disk' = disk /\ nodes' = nodes /\ edges' = edges
        /\ inferred' = inferred /\ uncounted' = uncounted
    BY DEF StartUpdate, repo, graph
  <1>3. \A f \in Files \ astray : nodes[f] = NodeFor(seen[f]) /\ nodes[f].text = seen[f]
    BY <1>1, NodeForType DEF NodesMatchDisk, TypeOK, Trees
  <1>4. /\ queue'[1] = committed /\ queue'[2] = uncommitted \ committed
        /\ queue'[3] = Sources(both) \ (committed \cup uncommitted)
    BY <1>1
  <1>5. /\ \A f : Queued(f)' <=> f \in Listed(queue')
        /\ \A f \in Sources(both) : Queued(f)'
    <2>1. \A f : Queued(f)' <=> f \in Listed(queue')
      BY DEF Queued, Listed
    <2>2. \A f \in Sources(both) : f \in queue'[1] \/ f \in queue'[2] \/ f \in queue'[3]
      BY <1>4
    <2>3. 1 \in 1 .. 3 /\ 2 \in 1 .. 3 /\ 3 \in 1 .. 3
      OBVIOUS
    <2>4. \A f \in Sources(both) : Queued(f)'
      BY <2>2, <2>3 DEF Queued
    <2> QED
      BY <2>1, <2>4
  <1>6. ASSUME NEW f \in Files \ astray' PROVE OnTrack(f)'
    <2> HIDE DEF both
    <2>0. /\ f \notin Missed(queue') /\ f \notin Dropped(both, queue')
          /\ f \notin Kept(both) /\ f \notin Unmended(both, queue')
      BY <1>1, <1>6
    <2>s. f \notin astray /\ nodes[f].text = disk[f] => Settled(f)'
      BY <1>2, <1>3 DEF Settled
    <2>1. CASE f \notin Listed(queue')
      <3>1. f \notin astray /\ seen[f] = disk[f]
        BY <2>0, <2>1 DEF Missed
      <3> QED
        BY <3>1, <2>1, <2>s, <1>3, <1>5 DEF OnTrack
    <2>2. CASE f \in Sources(both) /\ disk[f] = NoFile
      BY <2>2, <1>1, <1>2, <1>5 DEF OnTrack
    <2>3. CASE f \in Sources(both) /\ disk[f] # NoFile
      <3>1. f \notin queue'[3] /\ \E g \in queue'[3] : both[g] = f
        BY <2>0, <2>3 DEF Dropped
      <3>2. \A g \in queue'[3] : g \in Sources(both)
        BY <1>4
      <3>3. LeftToRename(f)'
        BY <3>1, <3>2, <2>3, <1>1, <1>5 DEF LeftToRename
      <3> QED
        BY <3>3, <2>3, <1>2 DEF OnTrack
    <2>4. CASE f \in Listed(queue') /\ f \in Targets(both) \ Sources(both)
      <3>1. CASE nodes[f] # NoNode
        BY <3>1, <2>0, <2>4, <2>s, <1>1 DEF Kept, OnTrack
      <3>2. CASE nodes[f] = NoNode /\ disk[f] # NoFile
        <4>1. PICK s \in Sources(both) : both[s] = f
          BY <2>4 DEF Targets
        <4>2. LeftToRename(f)'
          BY <4>1, <3>2, <2>4, <1>1, <1>2, <1>5 DEF LeftToRename
        <4> QED
          BY <4>2, <3>2, <1>2 DEF OnTrack
      <3>3. CASE nodes[f] = NoNode /\ disk[f] = NoFile
        BY <3>3, <2>4, <1>1, <1>2 DEF OnTrack, Settled, NodeFor
      <3> QED
        BY <3>1, <3>2, <3>3
    <2>5. CASE f \in Listed(queue') /\ f \notin Targets(both) \cup Sources(both)
      <3>1. CASE disk[f] = NoFile \/ nodes[f].text # disk[f]
        BY <3>1, <2>5, <1>1, <1>2, <1>5 DEF OnTrack
      <3>2. CASE ~(disk[f] = NoFile \/ nodes[f].text # disk[f])
        <4>1. f \notin astray
          BY <3>2, <2>0, <2>5 DEF Unmended
        <4> QED
          BY <4>1, <3>2, <2>5, <2>s, <1>1 DEF OnTrack
      <3> QED
        BY <3>1, <3>2
    <2> QED
      BY <2>1, <2>2, <2>3, <2>4, <2>5
  <1>7. \A s \in Sources(both) : both[s] # s
    <2> SUFFICES ASSUME NEW s \in Sources(both) PROVE both[s] # s
      OBVIOUS
    <2>1. s \in Files /\ both[s] # NoFile
      BY DEF Sources
    <2>2. CASE dirty[s] # NoFile
      <3>1. s \in Deleted(head, disk) /\ dirty[s] \in Added(head, disk)
        BY <2>1, <2>2 DEF Pairings
      <3> QED
        BY <3>1, <2>1, <2>2 DEF Deleted, Added
    <2>3. CASE dirty[s] = NoFile
      <3>1. s \in Deleted(last, head) /\ between[s] \in Added(last, head)
        BY <2>1, <2>3 DEF Pairings
      <3> QED
        BY <3>1, <2>1, <2>3 DEF Deleted, Added
    <2> QED
      BY <2>2, <2>3
  <1>8. \A i, j \in 1 .. 3 : i # j => queue'[i] \cap queue'[j] = {}
    <2> SUFFICES ASSUME NEW i \in 1 .. 3, NEW j \in 1 .. 3, i # j
                 PROVE  queue'[i] \cap queue'[j] = {}
      OBVIOUS
    <2> DEFINE old == Sources(both)
               c == committed
               u == uncommitted
    <2>1. /\ queue'[1] = c /\ queue'[2] = u \ c /\ queue'[3] = old \ (c \cup u)
      BY <1>4
    <2> HIDE DEF old, c, u
    <2>2. /\ queue'[1] \cap queue'[2] = {} /\ queue'[1] \cap queue'[3] = {}
          /\ queue'[2] \cap queue'[3] = {}
      BY <2>1
    <2>3. (i = 1 \/ i = 2 \/ i = 3) /\ (j = 1 \/ j = 2 \/ j = 3)
      OBVIOUS
    <2> QED
      BY <2>2, <2>3
  <1>9. Working'
    BY <1>1, <1>2, <1>6, <1>7, <1>8 DEF Working
  <1>10. Inferred'
    BY <1>1, <1>2 DEF Inferred
  <1> QED
    BY <1>9, <1>10

\* One turn takes one path off the list.
LEMMA TurnQueue ==
    ASSUME TypeOK, Working, NEW f \in Files, Turn(f)
    PROVE  /\ Queued(f) /\ ~Queued(f)'
           /\ \A g \in Files : g # f => (Queued(g)' <=> Queued(g))
           /\ \A g : g # f => (g \in queue'[3] <=> g \in queue[3])
           /\ queue'[3] \subseteq queue[3]
           /\ f \in queue[3] => \A g \in Files : Queued(g) => g \in queue[3]
           /\ \A i, j \in 1 .. 3 : i # j => queue'[i] \cap queue'[j] = {}
  <1>1. PICK k \in 1 .. 3 : /\ f \in queue[k] /\ \A j \in 1 .. k - 1 : queue[j] = {}
                            /\ queue' = [queue EXCEPT ![k] = @ \ {f}]
    BY DEF Turn
  <1>2. \A i \in 1 .. 3 : queue'[i] = IF i = k THEN queue[i] \ {f} ELSE queue[i]
    BY <1>1 DEF TypeOK
  <1>3. \A i, j \in 1 .. 3 : i # j => queue[i] \cap queue[j] = {}
    BY DEF Working
  <1>4. \A i \in 1 .. 3 : f \notin queue'[i]
    BY <1>1, <1>2, <1>3
  <1>5. 3 \in 1 .. 3
    OBVIOUS
  <1>6. Queued(f) /\ ~Queued(f)'
    BY <1>1, <1>4 DEF Queued
  <1>7. \A g \in Files : g # f => (Queued(g)' <=> Queued(g))
    BY <1>2 DEF Queued
  <1>8. /\ \A g : g # f => (g \in queue'[3] <=> g \in queue[3])
        /\ queue'[3] \subseteq queue[3]
    BY <1>2, <1>5
  <1>9. ASSUME f \in queue[3], NEW g \in Files, Queued(g) PROVE g \in queue[3]
    <2>1. k = 3
      BY <1>1, <1>3, <1>5, <1>9
    <2>2. PICK i \in 1 .. 3 : g \in queue[i]
      BY <1>9 DEF Queued
    <2>3. i \in 1 .. k - 1 \/ i = 3
      BY <2>1
    <2> QED
      BY <2>2, <2>3, <1>1
  <1>10. \A i, j \in 1 .. 3 : i # j => queue'[i] \cap queue'[j] = {}
    BY <1>2, <1>3
  <1> QED
    BY <1>6, <1>7, <1>8, <1>9, <1>10

\* A path that a turn is not about stays on track.
LEMMA OthersStay ==
    ASSUME IInv, pc = "files", NEW f \in Files, Turn(f),
           NEW g \in Files, g # f, nodes'[g] = nodes[g], OnTrack(g),
           f \in Sources(renames) => renames[f] # g
    PROVE  OnTrack(g)'
  <1>1. Working /\ TypeOK
    BY DEF IInv
  <1>2. UNCHANGED <<disk, renames>>
    BY <1>1, TurnType DEF repo
  <1>3. (Queued(g)' <=> Queued(g)) /\ (g \in queue'[3] <=> g \in queue[3])
    BY <1>1, TurnQueue
  <1>4. Settled(g) <=> Settled(g)'
    BY <1>2 DEF Settled
  <1>5. LeftToRename(g) => LeftToRename(g)'
    <2>1. \A s \in Sources(renames) : renames[s] = g =>
            /\ s # f /\ s \in Files
            /\ (Queued(s)' <=> Queued(s)) /\ (s \in queue'[3] <=> s \in queue[3])
      BY <1>1, TurnQueue DEF Sources
    <2> QED
      BY <2>1, <1>2, <1>3 DEF LeftToRename
  <1> QED
    BY <1>2, <1>3, <1>4, <1>5 DEF OnTrack

LEMMA RenameKeeps ==
    ASSUME IInv, TypeOK', NEW f \in Files, Rename(f)
    PROVE  Working' /\ (~touched' => Inferred')
  <1> USE DEF IInv
  <1>1. pc = "files" /\ Working /\ Turn(f)
    BY DEF Rename, Turn
  <1>t. PICK t \in Files : t = renames[f] /\ t # f
    BY <1>1 DEF Rename, Sources, Working, TypeOK
  <1>2. f \in Sources(renames) /\ t \in Files /\ t # f /\ t \in Targets(renames)
    BY <1>1, <1>t DEF Rename, Sources, Targets
  <1>3. /\ nodes' = AddedTo(Removed(nodes, f), t) /\ UNCHANGED <<disk, seen, renames, astray, inferred>>
        /\ edges' = EdgesWithout(f)
        /\ touched' = (touched \/ disk[t] # NoFile)
        /\ uncounted' = (uncounted \/ (disk[t] = NoFile /\ nodes[f] # NoNode))
    BY <1>t, TurnType DEF Rename, repo
  <1>4. /\ Queued(f) /\ ~Queued(f)'
        /\ \A g \in Files : g # f => (Queued(g)' <=> Queued(g))
        /\ \A g : g # f => (g \in queue'[3] <=> g \in queue[3])
        /\ f \in queue[3] => \A g \in Files : Queued(g) => g \in queue[3]
        /\ queue'[3] \subseteq queue[3]
        /\ \A i, j \in 1 .. 3 : i # j => queue'[i] \cap queue'[j] = {}
    BY <1>1, TurnQueue
  <1>5. Removed(nodes, f) \in [Files -> Nodes]
        /\ Removed(nodes, f)[f] = NoNode
        /\ \A g \in Files : g # f => Removed(nodes, f)[g] = nodes[g]
    BY <1>2, RemovedType DEF Removed, TypeOK
  <1>6. \A g \in Files : g # t => nodes'[g] = Removed(nodes, f)[g]
    BY <1>3, <1>5 DEF AddedTo
  <1>7. nodes'[f] = NoNode
    BY <1>2, <1>5, <1>6
  <1>8. nodes[t] \in {NoNode, NodeFor(disk[t])} => Settled(t)'
    <2>1. Removed(nodes, f)[t] = nodes[t]
      BY <1>2, <1>5
    <2> QED
      BY <2>1, <1>2, <1>3, <1>5, AddedToAbsent, AddedToPresent DEF Settled, TypeOK
  <1>9. ASSUME f \notin astray PROVE OnTrack(f)'
    <2>1. CASE disk[f] = NoFile
      BY <2>1, <1>3, <1>7 DEF OnTrack, Settled, NodeFor
    <2>2. CASE disk[f] # NoFile
      <3>1. LeftToRename(f)
        BY <1>9, <1>1, <1>2, <1>4, <2>2 DEF Working, OnTrack
      <3>2. PICK s \in queue[3] : s \in Sources(renames) /\ renames[s] = f
        BY <3>1, <1>2 DEF LeftToRename
      <3>3. f \notin queue'[3] /\ s \in queue'[3]
        BY <3>1, <3>2, <1>2, <1>4 DEF LeftToRename, Working
      <3>4. LeftToRename(f)'
        BY <3>2, <3>3, <1>2, <1>3, <1>7 DEF LeftToRename
      <3> QED
        BY <3>4, <2>2, <1>3 DEF OnTrack
    <2> QED
      BY <2>1, <2>2
  <1>10. ASSUME t \notin astray PROVE OnTrack(t)'
    <2>1. OnTrack(t)
      BY <1>1, <1>2, <1>10 DEF Working
    <2>2. CASE disk[t] = NoFile
      <3>1. nodes'[t] = nodes[t]
        BY <2>2, <1>2, <1>3, <1>5 DEF AddedTo
      <3>2. Settled(t) \/ (t \in Sources(renames) /\ Queued(t))
        BY <2>1, <2>2, <1>2 DEF OnTrack
      <3> QED
        BY <3>1, <3>2, <2>2, <1>2, <1>3, <1>4 DEF OnTrack, Settled
    <2>3. CASE disk[t] # NoFile /\ LeftToRename(t)
      <3>1. CASE t \notin Sources(renames)
        <4>1. Settled(t)'
          BY <3>1, <2>3, <1>8 DEF LeftToRename
        <4> QED
          BY <4>1, <3>1, <1>3 DEF OnTrack
      <3>2. CASE t \in Sources(renames) /\ ~Queued(t)
        <4>1. Settled(t)' /\ ~Queued(t)'
          BY <3>2, <2>3, <1>2, <1>4, <1>8 DEF LeftToRename
        <4> QED
          BY <4>1 DEF OnTrack
      <3>3. CASE t \in Sources(renames) /\ Queued(t)
        <4>1. PICK s \in queue[3] : s \in Sources(renames) /\ renames[s] = t
          BY <3>3, <2>3 DEF LeftToRename
        <4>2. t \notin queue[3] /\ f \notin queue[3]
          BY <3>3, <2>3, <1>2, <1>4 DEF LeftToRename
        <4>3. s \in queue'[3] /\ t \notin queue'[3] /\ Queued(t)'
          BY <3>3, <4>1, <4>2, <1>2, <1>4
        <4>4. LeftToRename(t)'
          BY <3>3, <4>1, <4>3, <1>3 DEF LeftToRename
        <4> QED
          BY <4>4, <2>3, <1>3 DEF OnTrack
      <3> QED
        BY <3>1, <3>2, <3>3
    <2>4. CASE disk[t] # NoFile /\ ~LeftToRename(t)
      <3>1. Settled(t) /\ (t \in Sources(renames) => ~Queued(t))
        BY <2>1, <2>4, <1>2 DEF OnTrack
      <3>2. Settled(t)'
        BY <3>1, <1>8 DEF Settled
      <3> QED
        BY <3>1, <3>2, <1>2, <1>3, <1>4 DEF OnTrack
    <2> QED
      BY <2>2, <2>3, <2>4
  <1>11. ASSUME NEW g \in Files \ astray PROVE OnTrack(g)'
    <2>1. CASE g # f /\ g # t
      <3>1. nodes'[g] = nodes[g] /\ OnTrack(g)
        BY <2>1, <1>1, <1>5, <1>6 DEF Working
      <3> QED
        BY <3>1, <2>1, <1>1, <1>t, OthersStay
    <2> QED
      BY <2>1, <1>9, <1>10, <1>11
  <1>12. Working'
    BY <1>1, <1>3, <1>4, <1>11 DEF Working
  <1>13. ASSUME ~touched' PROVE Inferred'
    <2>1. ~touched /\ disk[t] = NoFile /\ Inferred
      BY <1>1, <1>3, <1>13
    <2>2. nodes' = Removed(nodes, f)
      BY <2>1, <1>3 DEF AddedTo
    <2>3. \A g \in Files : nodes'[g] = NoNode \/ nodes'[g] = nodes[g]
      BY <2>2, <1>5
    <2>4. /\ EdgesOf(nodes', Files) \subseteq EdgesOf(nodes, Files)
          /\ EdgesOf(nodes', inferred) \subseteq EdgesOf(nodes, inferred)
      BY <2>3, MoreNodesMoreEdges
    <2>5. \A e \in EdgesOf(nodes', Files) : e[1] # f /\ e[3] # f
      BY <1>7, NoEdgeWithoutNode
    <2>6. ASSUME NEW e \in EdgesOf(nodes', Files) \ edges'
          PROVE  ~LeadsTo(nodes', inferred', e[1], e[2], e[3])
      <3>1. e \in Files \X Names \X Files /\ e \notin edges
        BY <2>5, <2>6, <1>3 DEF EdgesOf, EdgesWithout
      <3>2. ~LeadsTo(nodes, inferred, e[1], e[2], e[3])
        BY <3>1, <2>1, <2>4, <2>6 DEF Inferred
      <3> QED
        BY <3>1, <3>2, <2>4, <1>3, EdgeOfTrees
    <2>7. ASSUME ~uncounted' PROVE edges' \subseteq EdgesOf(nodes', Files)
      <3>1. ~uncounted /\ nodes[f] = NoNode
        BY <2>1, <2>7, <1>3
      <3>2. nodes' = nodes
        BY <3>1, <2>2 DEF Removed, TypeOK
      <3> QED
        BY <3>1, <3>2, <2>1, <1>3 DEF Inferred, EdgesWithout
    <2> QED
      BY <2>6, <2>7 DEF Inferred
  <1> QED
    BY <1>12, <1>13

\* A turn for a path that is renamed to no other leaves it settled, or leaves
\* it to the rename it is the target of.
LEMMA TurnKeeps ==
    ASSUME IInv, TypeOK', NEW f \in Files, Turn(f),
           f \notin Sources(renames),
           \A g \in Files : g # f => nodes'[g] = nodes[g],
           f \notin astray =>
             Settled(f)' \/ (f \in Targets(renames) /\ nodes'[f] = nodes[f])
    PROVE  Working'
  <1> USE DEF IInv
  <1>1. pc = "files" /\ Working /\ UNCHANGED <<disk, seen, renames, astray>>
    BY TurnType DEF Turn, repo
  <1>2. /\ \A g \in Files : g # f => (Queued(g)' <=> Queued(g))
        /\ \A i, j \in 1 .. 3 : i # j => queue'[i] \cap queue'[j] = {}
    BY <1>1, TurnQueue
  <1>3. ASSUME f \notin astray, ~Settled(f)' PROVE OnTrack(f)'
    <2>1. f \in Targets(renames) /\ nodes'[f] = nodes[f] /\ OnTrack(f)
      BY <1>1, <1>3 DEF Working
    <2>2. ~Settled(f)
      BY <2>1, <1>1, <1>3 DEF Settled
    <2>3. disk[f] # NoFile /\ LeftToRename(f)
      BY <2>1, <2>2 DEF OnTrack
    <2>4. PICK s \in Sources(renames) : renames[s] = f /\ Queued(s)
      BY <2>3 DEF LeftToRename
    <2>5. Queued(s)'
      BY <2>4, <1>2 DEF Sources
    <2>6. LeftToRename(f)'
      BY <2>1, <2>3, <2>4, <2>5, <1>1 DEF LeftToRename
    <2> QED
      BY <2>3, <2>6, <1>1 DEF OnTrack
  <1>4. ASSUME NEW g \in Files \ astray PROVE OnTrack(g)'
    <2>1. CASE g # f
      BY <2>1, <1>1, <1>4, OthersStay DEF Working
    <2>2. CASE g = f /\ Settled(f)'
      BY <2>2, <1>1 DEF OnTrack
    <2>3. CASE g = f /\ ~Settled(f)'
      BY <2>3, <1>3, <1>4
    <2> QED
      BY <2>1, <2>2, <2>3
  <1> QED
    BY <1>1, <1>2, <1>4 DEF Working

LEMMA SkipKeeps ==
    ASSUME IInv, TypeOK', NEW f \in Files, Skip(f)
    PROVE  Working' /\ (~touched' => Inferred')
  <1> USE DEF IInv
  <1>1. Turn(f) /\ f \notin Sources(renames)
        /\ UNCHANGED <<nodes, edges, parsed, touched, uncounted>>
    BY DEF Skip
  <1>2. pc = "files" /\ Working /\ UNCHANGED <<disk, renames, inferred>>
    BY <1>1, TurnType DEF repo, Turn, Skip
  <1>3. ASSUME f \notin astray PROVE Settled(f)' \/ f \in Targets(renames)
    <2>1. OnTrack(f)
      BY <1>2, <1>3 DEF Working
    <2>2. CASE f \notin Targets(renames)
      <3>1. disk[f] # NoFile /\ nodes[f].text = disk[f]
        BY <2>2 DEF Skip
      <3>2. ~LeftToRename(f)
        BY <2>2, <1>1 DEF LeftToRename, Targets
      <3>3. Settled(f)
        BY <2>1, <3>1, <3>2, <1>1 DEF OnTrack
      <3> QED
        BY <3>3, <1>1, <1>2 DEF Settled
    <2> QED
      BY <2>2
  <1>4. Inferred => Inferred'
    BY <1>1, <1>2 DEF Inferred
  <1> QED
    BY <1>1, <1>2, <1>3, <1>4, TurnKeeps

LEMMA DeleteKeeps ==
    ASSUME IInv, TypeOK', NEW f \in Files, Delete(f)
    PROVE  Working' /\ (~touched' => Inferred')
  <1> USE DEF IInv
  <1>1. /\ Turn(f) /\ f \notin Sources(renames) /\ disk[f] = NoFile
        /\ nodes' = Removed(nodes, f) /\ edges' = EdgesWithout(f)
        /\ touched' = (touched \/ nodes[f] # NoNode) /\ uncounted' = uncounted
    BY DEF Delete
  <1>2. pc = "files" /\ Working /\ UNCHANGED <<disk, inferred>>
    BY <1>1, TurnType DEF repo, Turn, Delete
  <1>3. nodes'[f] = NoNode /\ \A g \in Files : g # f => nodes'[g] = nodes[g]
    BY <1>1 DEF Removed, TypeOK
  <1>4. Settled(f)'
    BY <1>1, <1>2, <1>3 DEF Settled, NodeFor
  <1>5. ASSUME ~touched' PROVE Inferred'
    <2>1. ~touched /\ nodes[f] = NoNode /\ Inferred
      BY <1>1, <1>2, <1>5
    <2>2. nodes' = nodes
      BY <2>1, <1>1 DEF Removed, TypeOK
    <2>3. \A e \in EdgesOf(nodes, Files) : e[1] # f /\ e[3] # f
      BY <2>1, NoEdgeWithoutNode
    <2>4. edges' \subseteq edges
          /\ EdgesOf(nodes, Files) \ edges' = EdgesOf(nodes, Files) \ edges
      BY <2>3, <1>1 DEF EdgesWithout
    <2> QED
      BY <2>1, <2>2, <2>4, <1>1, <1>2 DEF Inferred
  <1> QED
    BY <1>1, <1>3, <1>4, <1>5, TurnKeeps

LEMMA ModifyKeeps ==
    ASSUME IInv, TypeOK', NEW f \in Files, Modify(f)
    PROVE  Working' /\ touched'
  <1> USE DEF IInv
  <1>1. /\ Turn(f) /\ f \notin Sources(renames) /\ disk[f] # NoFile
        /\ nodes' = AddedTo(Removed(nodes, f), f) /\ touched'
    BY DEF Modify
  <1>2. disk' = disk
    BY <1>1, TurnType DEF repo
  <1>3. /\ Removed(nodes, f) \in [Files -> Nodes] /\ Removed(nodes, f)[f] = NoNode
        /\ \A g \in Files : g # f => Removed(nodes, f)[g] = nodes[g]
    BY RemovedType DEF Removed, TypeOK
  <1>4. \A g \in Files : g # f => nodes'[g] = nodes[g]
    BY <1>1, <1>3 DEF AddedTo
  <1>5. nodes'[f] = NodeFor(disk[f])
    BY <1>1, <1>3, AddedToAbsent DEF TypeOK
  <1>6. Settled(f)'
    BY <1>2, <1>5 DEF Settled
  <1> QED
    BY <1>1, <1>4, <1>6, TurnKeeps

\* When nothing is left to look at, every node is that of the working tree.
LEMMA FinishKeeps ==
    ASSUME IInv, TypeOK', Finish
    PROVE  NodesMatchDisk' /\ Inferred'
  <1> USE DEF IInv
  <1>1. pc = "files" /\ Working /\ UNCHANGED <<disk, nodes, seen, astray>>
    BY DEF Finish
  <1>2. \A f : ~Queued(f) /\ f \notin queue[3]
    <2>1. \A i \in 1 .. 3 : queue[i] = {}
      BY DEF Finish, NoPaths
    <2>2. 3 \in 1 .. 3
      OBVIOUS
    <2> QED
      BY <2>1, <2>2 DEF Queued
  <1>3. \A f \in Files \ astray : Settled(f)
    BY <1>1, <1>2 DEF Working, OnTrack, LeftToRename
  <1>4. NodesMatchDisk'
    BY <1>1, <1>3 DEF NodesMatchDisk, Settled, Working
  <1>5. CASE touched
    <2>1. edges' = EdgesOf(nodes, parsed) /\ inferred' = parsed
      BY <1>5 DEF Finish
    <2>2. EdgesOf(nodes, parsed) \subseteq EdgesOf(nodes, Files)
      BY MoreTreesMoreEdges DEF TypeOK
    <2>3. \A e \in EdgesOf(nodes, Files) \ EdgesOf(nodes, parsed) :
             ~LeadsTo(nodes, parsed, e[1], e[2], e[3])
      BY DEF EdgesOf
    <2> QED
      BY <2>1, <2>2, <2>3, <1>1, <1>4 DEF Inferred
  <1>6. CASE ~touched
    <2>1. UNCHANGED <<edges, inferred>> /\ (~uncounted' => ~uncounted)
      BY <1>6 DEF Finish, TypeOK
    <2> QED
      BY <2>1, <1>1, <1>4, <1>6 DEF Inferred
  <1> QED
    BY <1>5, <1>6

LEMMA Inductive == IInv /\ [Next]_vars => IInv'
  <1> SUFFICES ASSUME IInv, [Next]_vars PROVE IInv'
    OBVIOUS
  <1>t. TypeOK'
    BY TypeStep DEF IInv
  <1>1. ASSUME UNCHANGED <<nodes, edges, pc, seen, inferred, astray, uncounted>>,
               pc = "idle"
        PROVE  IInv'
    BY <1>1, <1>t DEF IInv, Inferred, NodesMatchDisk
  <1>2. ASSUME NEW tree, Edit(tree) PROVE IInv'
    BY <1>1, <1>2 DEF Edit, graph
  <1>3. ASSUME NEW paths, Commit(paths) PROVE IInv'
    BY <1>1, <1>3 DEF Commit, graph
  <1>w. ASSUME pc' = "files", Working', ~touched' => Inferred' PROVE IInv'
    BY <1>w, <1>t DEF IInv, NodesMatchDisk
  <1>4. ASSUME NEW between \in Pairings(last, head),
               NEW dirty \in Pairings(head, disk), StartUpdate(between, dirty)
        PROVE  IInv'
    <2>1. pc' = "files"
      BY <1>4 DEF StartUpdate
    <2> QED
      BY <1>4, <1>t, <1>w, <2>1, StartIsWorking
  <1>5. ASSUME NEW f \in Files, Rename(f) PROVE IInv'
    <2>1. pc' = "files"
      BY <1>5 DEF Rename, Turn
    <2> QED
      BY <1>5, <1>t, <1>w, <2>1, RenameKeeps
  <1>6. ASSUME NEW f \in Files, Skip(f) PROVE IInv'
    <2>1. pc' = "files"
      BY <1>6 DEF Skip, Turn
    <2> QED
      BY <1>6, <1>t, <1>w, <2>1, SkipKeeps
  <1>7. ASSUME NEW f \in Files, Delete(f) PROVE IInv'
    <2>1. pc' = "files"
      BY <1>7 DEF Delete, Turn
    <2> QED
      BY <1>7, <1>t, <1>w, <2>1, DeleteKeeps
  <1>8. ASSUME NEW f \in Files, Modify(f) PROVE IInv'
    <2>1. pc' = "files"
      BY <1>8 DEF Modify, Turn
    <2> QED
      BY <1>8, <1>t, <1>w, <2>1, ModifyKeeps
  <1>9. CASE Finish
    BY <1>9, <1>t, FinishKeeps DEF IInv, Finish
  <1>10. CASE Rebuild
    <2>1. /\ nodes' = Built(seen') /\ edges' = EdgesOf(nodes', Files)
          /\ pc' = "idle" /\ astray' = {}
      BY <1>10 DEF Rebuild, FullEdges
    <2>2. Inferred' /\ NodesMatchDisk'
      BY <2>1 DEF Inferred, NodesMatchDisk, Built
    <2> QED
      BY <2>1, <2>2, <1>t DEF IInv
  <1>11. CASE UNCHANGED vars
    BY <1>11 DEF IInv, TypeOK, NodesMatchDisk, Working, OnTrack, LeftToRename,
                 Settled, Queued, Inferred, vars
  <1> QED
    BY <1>2, <1>3, <1>4, <1>5, <1>6, <1>7, <1>8, <1>9, <1>10, <1>11 DEF Next

-----------------------------------------------------------------------------
LEMMA IInvHolds == Spec => []IInv
  BY InitIInv, Inductive, PTL DEF Spec

\* TypeOK of DepGraph: types, and nothing of an update outlives it.
THEOREM TypeCorrect == Spec => []TypeOK
  <1>1. IInv => TypeOK
    BY DEF IInv
  <1> QED
    BY <1>1, IInvHolds, PTL

\* An incremental update leaves the file nodes of a full build, whatever git
\* pairs as renames and in whatever order the paths come, for every path but
\* those update_files is not told of and those of renames it gets wrong.
THEOREM NodesAreThoseOfARebuild == Spec => []NodesMatchDisk
  <1>1. IInv => NodesMatchDisk
    BY DEF IInv
  <1> QED
    BY <1>1, IInvHolds, PTL

\* What the sound nodes lead to, a full rebuild has as well.
LEMMA SoundEdges ==
    ASSUME IInv, pc = "idle", NEW A
    PROVE  /\ EdgesOf(Sound, A) \subseteq EdgesOf(Built(seen), A)
           /\ EdgesOf(Sound, A) \subseteq EdgesOf(nodes, A)
  <1>1. \A f \in Files : Sound[f] = NoNode \/ Sound[f] = nodes[f]
    BY DEF Sound
  <1>2. \A f \in Files : Sound[f] = NoNode \/ Sound[f] = Built(seen)[f]
    BY DEF Sound, IInv, NodesMatchDisk, Built
  <1> HIDE DEF Sound
  <1> QED
    BY <1>1, <1>2, MoreNodesMoreEdges

\* An edge rests on code that is there or on a file gone astray, unless the
\* new file of a rename is gone again.
THEOREM EdgesAreNotStale == Spec => []NoStaleEdges
  <1>1. IInv => NoStaleEdges
    <2> SUFFICES ASSUME IInv, pc = "idle", ~uncounted
                 PROVE  edges \ FullEdges(seen)
                          \subseteq EdgesOf(nodes, Files) \ EdgesOf(Sound, Files)
      BY DEF NoStaleEdges
    <2>1. edges \subseteq EdgesOf(nodes, Files)
      BY DEF IInv, Inferred
    <2>2. EdgesOf(Sound, Files) \subseteq FullEdges(seen)
      BY SoundEdges DEF FullEdges
    <2> QED
      BY <2>1, <2>2
  <1> QED
    BY <1>1, IInvHolds, PTL

\* An edge is missing only because on each way to its unit a file has gone
\* astray or was not parsed by the process that inferred the edges.
THEOREM LostEdgesWereNotParsed == Spec => []LossHasACause
  <1>1. IInv => LossHasACause
    <2> SUFFICES ASSUME IInv, pc = "idle", NEW e \in FullEdges(seen) \ edges,
                        LeadsTo(Sound, inferred, e[1], e[2], e[3])
                 PROVE  FALSE
      BY DEF LossHasACause
    <2>1. e \in Files \X Names \X Files
      BY DEF FullEdges, EdgesOf
    <2>2. e \in EdgesOf(nodes, inferred)
      BY <2>1, SoundEdges, EdgeOfTrees
    <2>3. e \in EdgesOf(nodes, Files)
      BY <2>2, MoreTreesMoreEdges DEF IInv, TypeOK
    <2>4. LeadsTo(nodes, inferred, e[1], e[2], e[3])
      BY <2>1, <2>2, EdgeOfTrees
    <2> QED
      BY <2>3, <2>4 DEF IInv, Inferred
  <1> QED
    BY <1>1, IInvHolds, PTL
=============================================================================
