------------------------------ MODULE RpgStore ------------------------------
(***************************************************************************)
(* rpg.json on disk: atomic_write_rpg and safe_load_rpg of                 *)
(* common/rpg_io.py, and the snapshots _inner_git.py takes of the file.    *)
(*                                                                         *)
(* Every process that saves the graph opens rpg.json.tmp (one name for all *)
(* of them) for writing, which empties the file of that name if there is   *)
(* one, dumps the graph in several blocks, and renames the name over       *)
(* rpg.json.  A name and the file behind it are different things here: an  *)
(* open file follows its inode, a rename moves the name, so two processes  *)
(* that save at once can write into the file that rpg.json already names.  *)
(* A content is the sequence of the blocks of a file, each named by the    *)
(* graph it is part of; it parses when it is all of one graph.             *)
(***************************************************************************)
EXTENDS Naturals, Sequences

CONSTANTS
    Procs,         \* processes that save or load the graph
    Readers,       \* those of them that load it with safe_load_rpg
    Graphs,        \* what they save
    Blocks,        \* the number of blocks a graph is written in
    Splits,        \* graphs whose block boundary is inside a UTF-8 character
    Inodes,        \* the files of the directory
    Hole,          \* a block that was never written
    MaxSaves,      \* bound: saves that begin
    MaxFaults,     \* bound: writes that fail and processes that are killed
    MaxSnapshots   \* bound: commits of the inner repository

ASSUME RpgStoreConstants ==
    /\ Readers \subseteq Procs
    /\ Blocks \in [Graphs -> Nat \ {0}]
    /\ Splits \subseteq Graphs
    /\ Hole \notin Graphs
    /\ MaxSaves \in Nat /\ MaxFaults \in Nat /\ MaxSnapshots \in Nat

VARIABLES
    path,       \* the inode rpg.json names
    tmp,        \* the inodes rpg.json.tmp names: none or one
    content,    \* the blocks of every inode
    pc,         \* where each process is in atomic_write_rpg
    graph,      \* the graph it saves
    file,       \* the inode it has open
    offset,     \* the blocks it has written
    history,    \* the inner repository: rpg.json at every commit, oldest first
    saves,      \* saves that began
    faults,     \* failures so far
    overlapped  \* history: two processes have been in atomic_write_rpg at once

vars == <<path, tmp, content, pc, graph, file, offset, history, saves, faults, overlapped>>
disk == <<path, tmp, content>>

Contents == Seq(Graphs \cup {Hole})

TypeOK ==
    /\ path \in Inodes /\ tmp \in SUBSET Inodes
    /\ content \in [Inodes -> Contents]
    /\ pc \in [Procs -> {"idle", "open", "dump", "clean"}]
    /\ graph \in [Procs -> Graphs] /\ file \in [Procs -> Inodes]
    /\ offset \in [Procs -> Nat]
    /\ \A p \in Procs : pc[p] = "dump" => offset[p] <= Blocks[graph[p]]
    /\ history \in Seq(Contents)
    /\ saves \in Nat /\ faults \in Nat /\ overlapped \in BOOLEAN

\* The file json.dump leaves when nobody disturbs it.
Whole(g) == [i \in 1..Blocks[g] |-> g]

\* json.load succeeds.
Parses(c) == \E g \in Graphs : c = Whole(g)

\* The text breaks off inside a character: reading it raises
\* UnicodeDecodeError, which is no JSONDecodeError.
Undecodable(c) ==
    \E i \in DOMAIN c : c[i] \in Splits /\ i < Blocks[c[i]]
                        /\ (i = Len(c) \/ c[i + 1] # c[i])

Active(p) == pc[p] \in {"dump", "clean"}
Unused == {i \in Inodes : i # path /\ i \notin tmp
                          /\ \A p \in Procs : Active(p) => file[p] # i}

Init ==
    /\ path \in Inodes /\ tmp = {}
    /\ \E g \in Graphs :
          /\ content = [i \in Inodes |-> IF i = path THEN Whole(g) ELSE <<>>]
          /\ graph = [p \in Procs |-> g]
    /\ pc = [p \in Procs |-> "idle"] /\ file = [p \in Procs |-> path]
    /\ offset = [p \in Procs |-> 0]
    /\ history = <<>> /\ saves = 0 /\ faults = 0 /\ overlapped = FALSE

\* A caller asks for a save.
Save(p, g) ==
    /\ pc[p] = "idle" /\ saves < MaxSaves
    /\ pc' = [pc EXCEPT ![p] = "open"]
    /\ graph' = [graph EXCEPT ![p] = g]
    /\ saves' = saves + 1
    /\ UNCHANGED <<disk, file, offset, history, faults, overlapped>>

\* The commits whose rpg.json parses.
Good == {k \in DOMAIN history : Parses(history[k])}

\* git show decodes a commit strictly, and a UnicodeDecodeError ends the walk
\* (rpg_io.py 245-258 catch other errors only): no good commit is reached when
\* one that breaks off inside a character is newer than all of them.
Blocked == \A k \in Good : \E j \in DOMAIN history : k < j /\ Undecodable(history[j])


\* safe_load_rpg meets a file that does not parse, walks back from the newest
\* commit and writes back the first that parses; reading a file that parses
\* changes nothing.
Recover(p) ==
    /\ pc[p] = "idle"
    /\ ~Parses(content[path]) /\ ~Undecodable(content[path]) /\ ~Blocked
    /\ \E k \in Good :
          /\ \A j \in Good : j <= k
          /\ graph' = [graph EXCEPT ![p] = history[k][1]]
    /\ pc' = [pc EXCEPT ![p] = "open"]
    /\ UNCHANGED <<disk, file, offset, history, saves, faults, overlapped>>

\* Seeded fault: the writer goes on at the position of its last save.
OpenResuming(p) ==
    /\ pc[p] = "open"
    /\ \E i \in IF tmp = {} THEN Unused ELSE tmp :
          /\ tmp' = {i} /\ content' = [content EXCEPT ![i] = <<>>]
          /\ file' = [file EXCEPT ![p] = i]
    /\ pc' = [pc EXCEPT ![p] = "dump"]
    /\ overlapped' = (overlapped \/ \E q \in Procs : Active(q))
    /\ UNCHANGED <<path, graph, offset, history, saves, faults>>

\* Seeded fault: open(tmp, "r+"), which does not empty the file.
OpenKeeping(p) ==
    /\ pc[p] = "open"
    /\ \E i \in IF tmp = {} THEN Unused ELSE tmp :
          /\ tmp' = {i} /\ file' = [file EXCEPT ![p] = i]
          /\ content' = IF tmp = {} THEN [content EXCEPT ![i] = <<>>] ELSE content
    /\ pc' = [pc EXCEPT ![p] = "dump"]
    /\ offset' = [offset EXCEPT ![p] = 0]
    /\ overlapped' = (overlapped \/ \E q \in Procs : Active(q))
    /\ UNCHANGED <<path, graph, history, saves, faults>>

\* open(tmp, "w"): the file of that name, emptied, or a new one.
Open(p) ==
    /\ pc[p] = "open"
    /\ \E i \in IF tmp = {} THEN Unused ELSE tmp :
          /\ tmp' = {i}
          /\ content' = [content EXCEPT ![i] = <<>>]
          /\ file' = [file EXCEPT ![p] = i]
    /\ pc' = [pc EXCEPT ![p] = "dump"]
    /\ offset' = [offset EXCEPT ![p] = 0]
    /\ overlapped' = (overlapped \/ \E q \in Procs : Active(q))
    /\ UNCHANGED <<path, graph, history, saves, faults>>

\* The content with one more block at the writer's own position.
Put(c, k, g) ==
    [i \in 1..(IF k > Len(c) THEN k ELSE Len(c)) |->
        IF i = k THEN g ELSE IF i \in DOMAIN c THEN c[i] ELSE Hole]

Dump(p) ==
    /\ pc[p] = "dump" /\ offset[p] < Blocks[graph[p]]
    /\ offset' = [offset EXCEPT ![p] = @ + 1]
    /\ content' = [content EXCEPT ![file[p]] = Put(@, offset[p] + 1, graph[p])]
    /\ UNCHANGED <<path, tmp, pc, graph, file, history, saves, faults, overlapped>>

\* Seeded fault: the rename does not wait for the last block.
RenameEarly(p) ==
    /\ pc[p] = "dump" /\ tmp # {} /\ offset[p] > 0
    /\ path' \in tmp /\ tmp' = {}
    /\ pc' = [pc EXCEPT ![p] = "idle"]
    /\ UNCHANGED <<content, graph, file, offset, history, saves, faults, overlapped>>

\* os.replace renames whatever file the name now stands for.
Rename(p) ==
    /\ pc[p] = "dump" /\ offset[p] = Blocks[graph[p]] /\ tmp # {}
    /\ path' \in tmp /\ tmp' = {}
    /\ pc' = [pc EXCEPT ![p] = "idle"]
    /\ UNCHANGED <<content, graph, file, offset, history, saves, faults, overlapped>>

\* json.dump fails (a full disk).
DumpFails(p) ==
    /\ pc[p] = "dump" /\ offset[p] < Blocks[graph[p]] /\ faults < MaxFaults
    /\ pc' = [pc EXCEPT ![p] = "clean"] /\ faults' = faults + 1
    /\ UNCHANGED <<disk, graph, file, offset, history, saves, overlapped>>

\* os.replace finds no file of that name.
RenameFails(p) ==
    /\ pc[p] = "dump" /\ offset[p] = Blocks[graph[p]] /\ tmp = {}
    /\ pc' = [pc EXCEPT ![p] = "clean"]
    /\ UNCHANGED <<disk, graph, file, offset, history, saves, faults, overlapped>>

\* The exception handler removes the temporary file, whoever wrote it.
Clean(p) ==
    /\ pc[p] = "clean"
    /\ tmp' = {} /\ pc' = [pc EXCEPT ![p] = "idle"]
    /\ UNCHANGED <<path, content, graph, file, offset, history, saves, faults, overlapped>>

\* The process is killed; what it wrote stays.
Kill(p) ==
    /\ pc[p] # "idle" /\ faults < MaxFaults
    /\ pc' = [pc EXCEPT ![p] = "idle"] /\ faults' = faults + 1
    /\ UNCHANGED <<disk, graph, file, offset, history, saves, overlapped>>

\* _commit_all at the end of a cmind script: git add -A and commit, when the
\* file differs from the last commit.  It may be skipped (index.lock).
Commit ==
    /\ Len(history) < MaxSnapshots
    /\ \A k \in DOMAIN history : k = Len(history) => content[path] # history[k]
    /\ history' = Append(history, content[path])
    /\ UNCHANGED <<disk, pc, graph, file, offset, saves, faults, overlapped>>

Next ==
    \/ \E p \in Procs :
          \/ \E g \in Graphs : Save(p, g)
          \/ p \in Readers /\ Recover(p)
          \/ Open(p) \/ Dump(p) \/ Rename(p)
          \/ DumpFails(p) \/ RenameFails(p) \/ Clean(p) \/ Kill(p)
    \/ Commit

Spec == Init /\ [][Next]_vars

\* A process that saves is scheduled until it returns, and a reader keeps
\* loading the graph (the MCP server does so at every query).
FairSpec ==
    /\ Spec
    /\ \A p \in Procs : WF_vars(Open(p) \/ Dump(p) \/ Rename(p)
                                \/ RenameFails(p) \/ Clean(p))
    /\ \A p \in Readers : WF_vars(Recover(p))

(***************************************************************************)
(* Properties                                                              *)
(***************************************************************************)

\* rpg.json never names a file that is half written: rpg_io.py 20-23.  It does
\* when two processes save at once.
NeverPartial == Parses(content[path])

\* One process at a time, killed or failing wherever it may be, with whatever
\* temporary file its predecessors left, never exposes a partial file: the
\* shared temporary name is the only way to a broken rpg.json.
PartialOnlyAfterOverlap == ~overlapped => Parses(content[path])

\* The graph rpg.json holds, Hole if it does not parse.
Held == IF Parses(content[path]) THEN content[path][1] ELSE Hole

File == INSTANCE RpgFile WITH
    NoGraph <- Hole,
    value <- Held,
    pending <- [p \in Procs |-> IF pc[p] = "idle" THEN Hole ELSE graph[p]],
    raced <- overlapped

\* As long as saves do not overlap, each of them replaces the whole graph at
\* once or not at all, and nothing but a save that is under way changes it:
\* what RpgSync takes for granted when it loads and saves in one step.
ImplementsRpgFile == File!Spec


\* "Older snapshot also broken - skip and keep walking" (rpg_io.py 257): the
\* same without the last exception, which the code needs.
BrokenSnapshotsAreSkipped ==
    (Good # {}) ~> (Parses(content[path]) \/ Undecodable(content[path]))

=============================================================================
