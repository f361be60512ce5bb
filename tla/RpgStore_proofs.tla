-------------------------- MODULE RpgStore_proofs ---------------------------
(***************************************************************************)
(* For any number of processes, graphs and blocks: as long as no two       *)
(* processes have been in atomic_write_rpg at once, rpg.json parses,       *)
(* whichever of them were killed or failed, and wherever, and the file     *)
(* behaves like the one graph of RpgFile.                                  *)
(***************************************************************************)
EXTENDS RpgStore, TLAPS

\* What an undisturbed writer has left in the temporary file so far.
Prefix(n, g) == [i \in 1..n |-> g]

\* The invariant behind PartialOnlyAfterOverlap: the temporary file of the only
\* writer is not rpg.json, is the file it has open, and holds the blocks it has
\* written.  A temporary file left behind by a killed process may hold
\* anything: the next writer empties it.
Alone ==
    /\ Parses(content[path])
    /\ path \notin tmp
    /\ \A p, q \in Procs : Active(p) /\ Active(q) => p = q
    /\ \A p \in Procs : pc[p] = "dump" =>
          /\ tmp = {file[p]}
          /\ content[file[p]] = Prefix(offset[p], graph[p])

IInv == TypeOK /\ (~overlapped => Alone)

\* A block written at the end of the writer's own file extends what it wrote.
LEMMA PutExtends ==
    ASSUME NEW n \in Nat, NEW g \in Graphs
    PROVE  Put(Prefix(n, g), n + 1, g) = Prefix(n + 1, g)
<1>1. Prefix(n, g) \in Seq(Graphs) /\ Len(Prefix(n, g)) = n
      /\ DOMAIN Prefix(n, g) = 1..n
  BY DEF Prefix
<1>2. (IF n + 1 > Len(Prefix(n, g)) THEN n + 1 ELSE Len(Prefix(n, g))) = n + 1
  BY <1>1
<1>3. \A i \in 1..(n + 1) :
        (IF i = n + 1 THEN g
         ELSE IF i \in DOMAIN Prefix(n, g) THEN Prefix(n, g)[i] ELSE Hole) = g
  BY <1>1 DEF Prefix
<1> QED
  BY <1>2, <1>3 DEF Put, Prefix

\* Whatever the file holds and wherever the writer is, a write leaves blocks.
LEMMA PutIsContent ==
    ASSUME NEW c \in Contents, NEW k \in Nat, NEW g \in Graphs
    PROVE  Put(c, k, g) \in Contents
<1> DEFINE m == IF k > Len(c) THEN k ELSE Len(c)
<1>1. Len(c) \in Nat /\ DOMAIN c = 1..Len(c)
      /\ \A i \in DOMAIN c : c[i] \in Graphs \cup {Hole}
  BY DEF Contents
<1>2. m \in Nat
  BY <1>1
<1>3. \A i \in 1..m : (IF i = k THEN g ELSE IF i \in DOMAIN c THEN c[i] ELSE Hole)
                        \in Graphs \cup {Hole}
  BY <1>1
<1>4. Put(c, k, g) \in [1..m -> Graphs \cup {Hole}]
  BY <1>3 DEF Put
<1> HIDE DEF m
<1> QED
  BY <1>2, <1>4 DEF Contents

\* A commit that parses is the whole of some graph, and its first block says which.
LEMMA GoodIsWhole ==
    ASSUME TypeOK, NEW k \in Good
    PROVE  history[k][1] \in Graphs
<1>1. PICK g \in Graphs : history[k] = Whole(g)
  BY DEF Good, Parses
<1>2. 1 \in 1..Blocks[g]
  BY RpgStoreConstants
<1> QED
  BY <1>1, <1>2 DEF Whole

LEMMA InitEstablishes == Init => IInv
<1> SUFFICES ASSUME Init PROVE IInv
  OBVIOUS
<1>1. PICK g \in Graphs : /\ content = [i \in Inodes |-> IF i = path THEN Whole(g) ELSE <<>>]
                          /\ graph = [p \in Procs |-> g]
  BY DEF Init
<1>2. Whole(g) \in Contents /\ <<>> \in Contents
  BY RpgStoreConstants DEF Whole, Contents
<1>3. content \in [Inodes -> Contents]
  BY <1>1, <1>2
<1>4. TypeOK
  <2>1. <<>> \in Seq(Contents)
    OBVIOUS
  <2>2. path \in Inodes /\ tmp \in SUBSET Inodes
    BY DEF Init
  <2>3. graph \in [Procs -> Graphs] /\ file \in [Procs -> Inodes]
    BY <1>1, <2>2 DEF Init
  <2> QED
    BY <1>3, <2>1, <2>2, <2>3 DEF Init, TypeOK
<1>5. Parses(content[path])
  BY <1>1 DEF Init, Parses
<1> QED
  BY <1>4, <1>5 DEF Init, IInv, Alone, Active

LEMMA SaveKeeps ==
    ASSUME IInv, NEW p \in Procs, NEW g \in Graphs, Save(p, g) PROVE IInv'
<1>1. TypeOK'
  BY DEF IInv, TypeOK, Save, disk
<1>2. ASSUME ~overlapped PROVE Alone'
  BY <1>2 DEF IInv, TypeOK, Alone, Save, Active, disk
<1> QED
  BY <1>1, <1>2 DEF IInv, Save

LEMMA RecoverKeeps ==
    ASSUME IInv, NEW p \in Procs, Recover(p) PROVE IInv'
<1>1. PICK k \in Good : graph' = [graph EXCEPT ![p] = history[k][1]]
  BY DEF Recover
<1>2. history[k][1] \in Graphs
  BY GoodIsWhole DEF IInv
<1>3. TypeOK'
  BY <1>1, <1>2 DEF IInv, TypeOK, Recover, disk
<1>4. ASSUME ~overlapped PROVE Alone'
  BY <1>1, <1>4 DEF IInv, TypeOK, Alone, Recover, Active, disk
<1> QED
  BY <1>3, <1>4 DEF IInv, Recover

LEMMA OpenKeeps ==
    ASSUME IInv, NEW p \in Procs, Open(p) PROVE IInv'
<1>1. PICK i \in IF tmp = {} THEN Unused ELSE tmp :
          /\ tmp' = {i}
          /\ content' = [content EXCEPT ![i] = <<>>]
          /\ file' = [file EXCEPT ![p] = i]
  BY DEF Open
<1>2. i \in Inodes
  BY <1>1 DEF IInv, TypeOK, Unused
<1>3. <<>> \in Contents
  BY DEF Contents
<1>4. TypeOK'
  <2>1. \A q \in Procs : pc'[q] = "dump" => offset'[q] <= Blocks[graph'[q]]
    BY RpgStoreConstants DEF IInv, TypeOK, Open
  <2> QED
    BY <1>1, <1>2, <1>3, <2>1 DEF IInv, TypeOK, Open
<1>5. ASSUME ~overlapped' PROVE Alone'
  <2>1. Alone /\ \A q \in Procs : ~Active(q)
    BY <1>5 DEF IInv, Open
  <2>2. i # path
    BY <2>1 DEF Alone, Unused
  <2>3. \A q \in Procs : Active(q)' => q = p
    BY <2>1 DEF Open, Active, IInv, TypeOK
  <2>4. content'[path'] = content[path] /\ path' \notin tmp'
    BY <1>1, <1>2, <2>2 DEF Open, IInv, TypeOK
  <2>5. Prefix(0, graph[p]) = <<>>
    BY DEF Prefix
  <2>6. content'[file'[p]] = Prefix(offset'[p], graph'[p]) /\ tmp' = {file'[p]}
    BY <1>1, <1>2, <2>5 DEF Open, IInv, TypeOK
  <2> QED
    BY <2>1, <2>3, <2>4, <2>6 DEF Alone, Active, Parses
<1> QED
  BY <1>4, <1>5 DEF IInv

LEMMA DumpKeeps ==
    ASSUME IInv, NEW p \in Procs, Dump(p) PROVE IInv'
<1>1. /\ offset[p] \in Nat /\ graph[p] \in Graphs /\ file[p] \in Inodes
      /\ content[file[p]] \in Contents /\ Blocks[graph[p]] \in Nat
  BY RpgStoreConstants DEF IInv, TypeOK
<1>2. Put(content[file[p]], offset[p] + 1, graph[p]) \in Contents
  BY <1>1, PutIsContent
<1>3. TypeOK'
  <2>1. content' \in [Inodes -> Contents]
    BY <1>1, <1>2 DEF IInv, TypeOK, Dump
  <2>2. offset' \in [Procs -> Nat]
    BY <1>1 DEF IInv, TypeOK, Dump
  <2>3. \A q \in Procs : pc'[q] = "dump" => offset'[q] <= Blocks[graph'[q]]
    BY <1>1 DEF IInv, TypeOK, Dump
  <2> QED
    BY <2>1, <2>2, <2>3 DEF IInv, TypeOK, Dump
<1>4. ASSUME ~overlapped PROVE Alone'
  <2>1. Alone
    BY <1>4 DEF IInv
  <2>2. content[file[p]] = Prefix(offset[p], graph[p]) /\ tmp = {file[p]}
        /\ file[p] # path
    BY <2>1 DEF Alone, Dump
  <2>3. content'[file[p]] = Prefix(offset[p] + 1, graph[p])
    BY <1>1, <2>2, PutExtends DEF Dump, IInv, TypeOK
  <2>4. content'[path] = content[path]
    BY <2>2 DEF Dump, IInv, TypeOK
  <2>5. \A q \in Procs : pc[q] = "dump" => q = p
    BY <2>1 DEF Alone, Dump, Active
  <2>6. offset'[p] = offset[p] + 1
    BY DEF Dump, IInv, TypeOK
  <2> QED
    BY <2>1, <2>2, <2>3, <2>4, <2>5, <2>6 DEF Alone, Dump, Active, Parses
<1> QED
  BY <1>3, <1>4 DEF IInv, Dump

LEMMA RenameKeeps ==
    ASSUME IInv, NEW p \in Procs, Rename(p) PROVE IInv'
<1>1. TypeOK'
  BY DEF IInv, TypeOK, Rename
<1>2. ASSUME ~overlapped PROVE Alone'
  <2>1. Alone
    BY <1>2 DEF IInv
  <2>2. path' = file[p] /\ content[file[p]] = Prefix(Blocks[graph[p]], graph[p])
    BY <2>1 DEF Alone, Rename
  <2>3. graph[p] \in Graphs
    BY DEF IInv, TypeOK
  <2>4. Parses(content'[path'])
    BY <2>2, <2>3 DEF Rename, Parses, Whole, Prefix
  <2>5. \A q \in Procs : ~Active(q)'
    BY <2>1 DEF Alone, Rename, Active, IInv, TypeOK
  <2> QED
    BY <2>4, <2>5 DEF Alone, Rename, Active, Parses
<1> QED
  BY <1>1, <1>2 DEF IInv, Rename

LEMMA OthersKeep ==
    ASSUME IInv, NEW p \in Procs,
           DumpFails(p) \/ RenameFails(p) \/ Clean(p) \/ Kill(p)
    PROVE  IInv'
<1>1. CASE DumpFails(p) \/ RenameFails(p)
  <2>1. TypeOK'
    BY <1>1 DEF IInv, TypeOK, DumpFails, RenameFails, disk
  <2>2. ASSUME ~overlapped PROVE Alone'
    BY <1>1, <2>2 DEF IInv, TypeOK, Alone, DumpFails, RenameFails, Active, disk, Parses
  <2> QED
    BY <1>1, <2>1, <2>2 DEF IInv, DumpFails, RenameFails
<1>2. CASE Clean(p)
  <2>1. TypeOK'
    BY <1>2 DEF IInv, TypeOK, Clean
  <2>2. ASSUME ~overlapped PROVE Alone'
    BY <1>2, <2>2 DEF IInv, TypeOK, Alone, Clean, Active, Parses
  <2> QED
    BY <1>2, <2>1, <2>2 DEF IInv, Clean
<1>3. CASE Kill(p)
  <2>1. TypeOK'
    BY <1>3 DEF IInv, TypeOK, Kill, disk
  <2>2. ASSUME ~overlapped PROVE Alone'
    BY <1>3, <2>2 DEF IInv, TypeOK, Alone, Kill, Active, disk, Parses
  <2> QED
    BY <1>3, <2>1, <2>2 DEF IInv, Kill
<1> QED
  BY <1>1, <1>2, <1>3

LEMMA CommitKeeps == ASSUME IInv, Commit PROVE IInv'
<1>1. content[path] \in Contents
  BY DEF IInv, TypeOK
<1>2. TypeOK'
  BY <1>1 DEF IInv, TypeOK, Commit, disk
<1>3. ASSUME ~overlapped PROVE Alone'
  BY <1>3 DEF IInv, Alone, Commit, disk, Active, Parses
<1> QED
  BY <1>2, <1>3 DEF IInv, Commit

LEMMA Inductive == IInv /\ [Next]_vars => IInv'
<1> SUFFICES ASSUME IInv, [Next]_vars PROVE IInv'
  OBVIOUS
<1>1. CASE Next
  BY <1>1, SaveKeeps, RecoverKeeps, OpenKeeps, DumpKeeps, RenameKeeps, OthersKeep,
     CommitKeeps DEF Next
<1>2. CASE UNCHANGED vars
  BY <1>2 DEF IInv, TypeOK, Alone, Active, Parses, vars
<1> QED
  BY <1>1, <1>2

\* The variables stay in their types, and no writer gets past its last block.
THEOREM TypeCorrect == Spec => []TypeOK
<1>1. IInv => TypeOK
  BY DEF IInv
<1> QED
  BY InitEstablishes, Inductive, <1>1, PTL DEF Spec

\* One writer at a time never exposes a partial rpg.json, whatever is killed.
THEOREM SerialWritesAreAtomic == Spec => []PartialOnlyAfterOverlap
<1>1. IInv => PartialOnlyAfterOverlap
  BY DEF IInv, Alone, PartialOnlyAfterOverlap
<1> QED
  BY InitEstablishes, Inductive, <1>1, PTL DEF Spec

(***************************************************************************)
(* RpgStore implements RpgFile.  While saves do not overlap, the invariant *)
(* above says that rpg.json parses and that the writer's file is another   *)
(* one, so that only the rename changes the graph rpg.json holds.          *)
(***************************************************************************)

\* What the refinement mapping puts for RpgFile's pending.
Pending == [p \in Procs |-> IF pc[p] = "idle" THEN Hole ELSE graph[p]]

\* A file that holds the whole of a graph holds that graph.
LEMMA HeldIsWhole ==
    ASSUME NEW g \in Graphs, content[path] = Whole(g)
    PROVE  Held = g
<1>1. 1 \in 1..Blocks[g]
  BY RpgStoreConstants
<1> QED
  BY <1>1 DEF Held, Parses, Whole

\* It is a graph, or there is none.
LEMMA HeldType == Held \in Graphs \cup {Hole}
<1>1. CASE Parses(content[path])
  BY <1>1, HeldIsWhole DEF Parses
<1>2. CASE ~Parses(content[path])
  BY <1>2 DEF Held
<1> QED
  BY <1>1, <1>2

LEMMA HeldTypeNext == Held' \in Graphs \cup {Hole}
<1>1. ASSUME NEW g \in Graphs, content'[path'] = Whole(g) PROVE Held' = g
  <2>1. 1 \in 1..Blocks[g]
    BY RpgStoreConstants
  <2> QED
    BY <1>1, <2>1 DEF Held, Parses, Whole
<1>2. CASE Parses(content'[path'])
  BY <1>1, <1>2 DEF Parses
<1>3. CASE ~Parses(content'[path'])
  BY <1>3 DEF Held
<1> QED
  BY <1>2, <1>3

\* A step that leaves the file rpg.json names as it was leaves its graph.
LEMMA SameContentSameGraph ==
    ASSUME content'[path'] = content[path] PROVE Held' = Held
BY DEF Held, Parses

\* A process that is saving has a graph to save.
LEMMA PendingOf ==
    ASSUME TypeOK, NEW p \in Procs
    PROVE  pc[p] # "idle" => Pending[p] = graph[p] /\ Pending[p] # Hole
BY RpgStoreConstants DEF TypeOK, Pending

LEMMA InitRefines == Init => File!Init
<1> SUFFICES ASSUME Init PROVE File!Init
  OBVIOUS
<1>1. PICK g \in Graphs : content = [i \in Inodes |-> IF i = path THEN Whole(g) ELSE <<>>]
  BY DEF Init
<1>2. content[path] = Whole(g)
  BY <1>1 DEF Init
<1>3. Held \in Graphs
  BY <1>2, HeldIsWhole
<1>4. Pending = [p \in Procs |-> Hole] /\ overlapped = FALSE
  BY DEF Init, Pending
<1> QED
  BY <1>3, <1>4 DEF File!Init, Pending

\* Once saves have overlapped every step is one the promise does not cover.
LEMMA OverlappedRefines ==
    ASSUME IInv, IInv', [Next]_vars, overlapped PROVE File!Disturb
<1>1. overlapped' = overlapped
  BY DEF Next, vars, Save, Recover, Open, Dump, Rename, DumpFails, RenameFails, Clean,
         Kill, Commit, IInv, TypeOK
<1>2. graph' \in [Procs -> Graphs]
  BY DEF IInv, TypeOK
<1>3. Pending' \in [Procs -> Graphs \cup {Hole}]
  BY <1>2 DEF Pending
<1> QED
  BY <1>1, <1>3, HeldTypeNext DEF File!Disturb, Pending

\* Asking for a save.
LEMMA SaveRefines ==
    ASSUME IInv, NEW p \in Procs, NEW g \in Graphs, Save(p, g) PROVE File!Begin(p, g)
<1>1. Pending[p] = Hole
  BY DEF Save, Pending
<1>2. Pending' = [Pending EXCEPT ![p] = g]
  BY DEF Save, Pending, IInv, TypeOK
<1>3. Held' = Held
  BY SameContentSameGraph DEF Save, disk
<1> QED
  BY <1>1, <1>2, <1>3 DEF File!Begin, Pending, Save

\* Opening the temporary file does not touch rpg.json; a second writer that
\* opens it is the overlap.
LEMMA OpenRefines ==
    ASSUME IInv, NEW p \in Procs, Open(p), ~overlapped
    PROVE  File!Overlap \/ UNCHANGED <<Held, Pending, overlapped>>
<1>1. PICK i \in IF tmp = {} THEN Unused ELSE tmp : content' = [content EXCEPT ![i] = <<>>]
  BY DEF Open
<1>2. i # path
  BY <1>1 DEF IInv, Alone, Unused
<1>3. Held' = Held
  <2>1. content'[path'] = content[path]
    BY <1>1, <1>2 DEF Open, IInv, TypeOK
  <2> QED
    BY <2>1, SameContentSameGraph
<1>4. Pending' = Pending
  BY DEF Open, Pending, IInv, TypeOK
<1>5. CASE \E q \in Procs : Active(q)
  <2>1. PICK q \in Procs : Active(q)
    BY <1>5
  <2>2. q # p /\ pc[q] # "idle" /\ pc[p] # "idle"
    BY <2>1 DEF Open, Active
  <2>3. Pending[p] # Hole /\ Pending[q] # Hole
    BY <2>2, PendingOf DEF IInv
  <2>4. overlapped' = TRUE
    BY <1>5 DEF Open
  <2> QED
    BY <1>3, <1>4, <2>2, <2>3, <2>4 DEF File!Overlap, Pending
<1>6. CASE ~\E q \in Procs : Active(q)
  BY <1>3, <1>4, <1>6 DEF Open, IInv, TypeOK
<1> QED
  BY <1>5, <1>6

\* A block goes to the temporary file.
LEMMA DumpRefines ==
    ASSUME IInv, NEW p \in Procs, Dump(p), ~overlapped
    PROVE  UNCHANGED <<Held, Pending, overlapped>>
<1>1. file[p] # path
  BY DEF IInv, Alone, Dump
<1>2. content'[path'] = content[path]
  BY <1>1 DEF Dump, IInv, TypeOK
<1> QED
  BY <1>2, SameContentSameGraph DEF Dump, Pending

\* The rename is the moment at which the save takes effect.
LEMMA RenameRefines ==
    ASSUME IInv, NEW p \in Procs, Rename(p), ~overlapped
    PROVE  File!Finish(p)
<1>1. graph[p] \in Graphs
  BY DEF IInv, TypeOK
<1>2. content'[path'] = Whole(graph[p])
  BY DEF IInv, Alone, Rename, Whole, Prefix
<1>3. Held' = graph[p]
  <2>1. 1 \in 1..Blocks[graph[p]]
    BY <1>1, RpgStoreConstants
  <2> QED
    BY <1>1, <1>2, <2>1 DEF Held, Parses, Whole
<1>4. Pending[p] = graph[p] /\ Pending[p] # Hole
  BY PendingOf DEF Rename, IInv
<1>5. Pending' = [Pending EXCEPT ![p] = Hole]
  BY DEF Rename, Pending, IInv, TypeOK
<1> QED
  BY <1>3, <1>4, <1>5 DEF File!Finish, Pending, Rename

\* A save that fails is still under way until the handler has cleaned up.
LEMMA FailureRefines ==
    ASSUME NEW p \in Procs, IInv, DumpFails(p) \/ RenameFails(p)
    PROVE  UNCHANGED <<Held, Pending, overlapped>>
<1>1. Held' = Held
  BY SameContentSameGraph DEF DumpFails, RenameFails, disk
<1>2. Pending' = Pending
  BY DEF DumpFails, RenameFails, Pending, IInv, TypeOK
<1> QED
  BY <1>1, <1>2 DEF DumpFails, RenameFails

\* The save ends without an effect.
LEMMA EndRefines ==
    ASSUME NEW p \in Procs, IInv, Clean(p) \/ Kill(p)
    PROVE  File!Abandon(p)
<1>1. Held' = Held
  BY SameContentSameGraph DEF Clean, Kill, disk
<1>2. pc[p] # "idle"
  BY DEF Clean, Kill
<1>3. Pending[p] # Hole
  BY <1>2, PendingOf DEF IInv
<1>4. Pending' = [Pending EXCEPT ![p] = Hole]
  BY DEF Clean, Kill, Pending, IInv, TypeOK
<1> QED
  BY <1>1, <1>3, <1>4 DEF File!Abandon, Pending, Clean, Kill

LEMMA StepRefines == IInv /\ IInv' /\ [Next]_vars => [File!Next]_(File!vars)
<1> SUFFICES ASSUME IInv, IInv', [Next]_vars PROVE [File!Next]_(File!vars)
  OBVIOUS
<1>0. UNCHANGED <<Held, Pending, overlapped>> => UNCHANGED File!vars
  BY DEF File!vars, Pending
<1>1. CASE overlapped
  BY <1>1, OverlappedRefines DEF File!Next
<1>2. CASE ~overlapped /\ Next
  <2>1. ASSUME NEW p \in Procs, NEW g \in Graphs, Save(p, g) PROVE File!Next
    BY <2>1, SaveRefines DEF File!Next
  <2>2. ASSUME NEW p \in Procs, Recover(p) PROVE FALSE
    BY <1>2, <2>2 DEF Recover, IInv, Alone
  <2>3. ASSUME NEW p \in Procs, Open(p) PROVE [File!Next]_(File!vars)
    BY <1>0, <1>2, <2>3, OpenRefines DEF File!Next
  <2>4. ASSUME NEW p \in Procs, Dump(p) PROVE UNCHANGED File!vars
    BY <1>0, <1>2, <2>4, DumpRefines
  <2>5. ASSUME NEW p \in Procs, Rename(p) PROVE File!Next
    BY <1>2, <2>5, RenameRefines DEF File!Next
  <2>6. ASSUME NEW p \in Procs, DumpFails(p) \/ RenameFails(p) PROVE UNCHANGED File!vars
    BY <1>0, <2>6, FailureRefines
  <2>7. ASSUME NEW p \in Procs, Clean(p) \/ Kill(p) PROVE File!Next
    BY <2>7, EndRefines DEF File!Next
  <2>8. ASSUME Commit PROVE UNCHANGED File!vars
    <3>1. Held' = Held
      BY <2>8, SameContentSameGraph DEF Commit, disk
    <3> QED
      BY <1>0, <2>8, <3>1 DEF Commit, Pending
  <2> QED
    BY <1>2, <2>1, <2>2, <2>3, <2>4, <2>5, <2>6, <2>7, <2>8 DEF Next
<1>3. CASE UNCHANGED vars
  <2>1. Held' = Held
    BY <1>3, SameContentSameGraph DEF vars
  <2> QED
    BY <1>0, <1>3, <2>1 DEF vars, Pending
<1> QED
  BY <1>1, <1>2, <1>3

\* While saves do not overlap, each of them replaces rpg.json at once or not
\* at all, whoever is killed and wherever, and nothing else changes it.
THEOREM StoreImplementsRpgFile == Spec => ImplementsRpgFile
<1>1. IInv /\ IInv' /\ [Next]_vars => [File!Next]_(File!vars)
  BY StepRefines
<1> QED
  BY InitEstablishes, Inductive, InitRefines, <1>1, PTL DEF Spec, ImplementsRpgFile, File!Spec

=============================================================================
