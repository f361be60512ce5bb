------------------------------ MODULE RpgSync -------------------------------
(***************************************************************************)
(* How rpg.json follows the user's repository: the git hooks               *)
(* (cmind_cli/__init__.py, `cmind hook`), the sync                         *)
(* (update_graphs.py cmd_sync, RPGService.sync_from_commit_diff) and the   *)
(* background update (cmd_update_rpg, run_update_rpg).                     *)
(*                                                                         *)
(* rpg.json holds a dependency graph and, in meta.git, the commit it       *)
(* describes.  A sync re-parses the files changed between that commit and  *)
(* HEAD, and the uncommitted ones, or everything when the history was      *)
(* rewritten or too much changed.  Each process works on a copy it loaded  *)
(* and writes the whole file back.  Git waits for a hook and the hook for  *)
(* its sync, but no longer than its timeout, which kills `cmind script`    *)
(* and not the Python process under it; and the user may start a sync, too. *)
(*                                                                         *)
(* The graph is abstracted to `dep`, the text of each file its nodes were  *)
(* made from; its edges are DepGraph's subject, loads and saves of the     *)
(* file, atomic here, RpgStore's.  The feature half of the graph, which    *)
(* only the language model changes, is left out.                           *)
(*                                                                         *)
(* Much can go wrong without anybody being told: HEAD moves under a        *)
(* process, git fails and is taken to have found nothing, the update keeps *)
(* its old graph.  `trust` is a history variable that travels with every   *)
(* copy of the graph and says whether any of this is in it.                *)
(***************************************************************************)
EXTENDS Naturals, FiniteSets

CONSTANTS
    Files,       \* source files of the user's repository
    Versions,    \* their contents, and being absent
    Syncs,       \* processes that sync
    Workers,     \* background processes
    Limit,       \* file_limit: changed files beyond which a sync is full
    Commits,     \* names for commits; bounds how many are made
    None,        \* no commit
    NoGraph,     \* a process that has no graph in memory
    MaxExtras    \* bound: uncommitted edits, syncs by hand, and processes
                 \* or git commands that fail, are killed or are too slow,
                 \* taken together

ASSUME RpgSyncConstants ==
    /\ Limit \in Nat /\ MaxExtras \in Nat
    /\ None \notin Commits \cup Syncs \cup Workers
    /\ IsFiniteSet(Workers)

VARIABLES
    made,      \* commits made so far
    tree,      \* the files of each of them
    past,      \* each of them with its ancestors
    parent,    \* HEAD~1 of each
    head,      \* HEAD
    disk,      \* the working tree
    rpg,       \* rpg.json
    hook,      \* where `cmind hook` is
    isCommit,  \* it is the post-commit hook, not post-merge
    awaited,   \* the sync it waits for
    sync,      \* where each sync is
    synced,    \* the graph each has in memory
    todo,      \* the files each is to parse
    lock,      \* the update logs/.update_rpg.lock was made for, None: no lock
    worker,    \* where each background update is
    updated,   \* the graph each has in memory
    extras,    \* of those bounded by MaxExtras, so far
    overruns   \* history: locks removed while the update they were made for ran

vars == <<made, tree, past, parent, head, disk, rpg, hook, isCommit, awaited,
          sync, synced, todo, lock, worker, updated, extras, overruns>>
repo == <<made, tree, past, parent, head, disk>>
fore == <<sync, synced, todo>>
call == <<hook, isCommit, awaited>>
back == <<lock, worker, updated, overruns>>

Trees == [Files -> Versions]
Rpgs == [meta : Commits \cup {None}, dep : Trees, trust : {"sure", "doubtful"}]

TypeOK ==
    /\ made \subseteq Commits /\ head \in made
    /\ tree \in [Commits -> Trees] /\ disk \in Trees
    /\ past \in [Commits -> SUBSET Commits]
    /\ parent \in [Commits -> Commits \cup {None}]
    /\ rpg \in Rpgs
    /\ sync \in [Syncs -> {"none", "load", "diff", "parse", "save"}]
    /\ synced \in [Syncs -> Rpgs \cup {NoGraph}]
    /\ \A s \in Syncs :
          synced[s] \in IF sync[s] \in {"diff", "parse", "save"} THEN Rpgs
                       ELSE {NoGraph}
    /\ todo \in [Syncs -> SUBSET Files]
    /\ updated \in [Workers -> Rpgs \cup {NoGraph}]
    /\ \A w \in Workers :
          updated[w] \in IF worker[w] \in {"parse", "stamp", "save"} THEN Rpgs
                        ELSE {NoGraph}
    /\ hook \in {"idle", "call", "sync", "spawn"}
    /\ hook = "spawn" => isCommit
    /\ awaited \in Syncs \cup {None}
    /\ hook = "sync" => awaited \in Syncs
    /\ isCommit \in BOOLEAN /\ lock \in Workers \cup {None}
    /\ worker \in [Workers -> {"none", "start", "parse", "stamp", "save", "release"}]
    /\ extras \in 0 .. MaxExtras /\ overruns \in Nat

\* The workspace after `cmind init` and an encode at the first commit; a graph
\* from an older version has no meta.git and describes anything.
Init ==
    /\ \E c \in Commits : made = {c} /\ head = c
    /\ \E t \in Trees :
          /\ tree = [c \in Commits |-> t] /\ disk = t
          /\ \/ rpg = [meta |-> head, dep |-> t, trust |-> "sure"]
             \/ \E d \in Trees : rpg = [meta |-> None, dep |-> d, trust |-> "doubtful"]
    /\ past = [c \in Commits |-> IF c \in made THEN {c} ELSE {}]
    /\ parent = [c \in Commits |-> None]
    /\ hook = "idle" /\ isCommit = TRUE /\ awaited = None
    /\ sync = [s \in Syncs |-> "none"] /\ synced = [s \in Syncs |-> NoGraph]
    /\ todo = [s \in Syncs |-> {}]
    /\ lock = None /\ worker = [w \in Workers |-> "none"]
    /\ updated = [w \in Workers |-> NoGraph]
    /\ extras = 0 /\ overruns = 0

(***************************************************************************)
(* The user.  git waits for the hook, so nothing is committed meanwhile.   *)
(***************************************************************************)

Extra == extras < MaxExtras /\ extras' = extras + 1

Doubt(g) == [g EXCEPT !.trust = "doubtful"]

\* HEAD moves between a process's parse and its look at HEAD.
Moves ==
    /\ synced' = [s \in Syncs |-> IF sync[s] = "parse" THEN Doubt(synced[s]) ELSE synced[s]]
    /\ updated' = [w \in Workers |->
                      IF worker[w] = "stamp" THEN Doubt(updated[w]) ELSE updated[w]]
    /\ UNCHANGED <<sync, todo, lock, worker, overruns>>

\* A commit of the tree t on top of base, whose files were written just before.
NewCommit(t, base) ==
    /\ hook = "idle"
    /\ \E c \in Commits \ made :
          /\ made' = made \cup {c} /\ head' = c
          /\ tree' = [tree EXCEPT ![c] = t]
          /\ parent' = [parent EXCEPT ![c] = base]
          /\ past' = [past EXCEPT ![c] = {c} \cup IF base = None THEN {} ELSE past[base]]
    /\ disk' = [f \in Files |-> IF t[f] # tree[head][f] THEN t[f] ELSE disk[f]]
    /\ hook' = "call"
    /\ Moves
    /\ UNCHANGED <<rpg, awaited, extras>>

Commit(t) == NewCommit(t, head) /\ isCommit' = TRUE
Amend(t) == NewCommit(t, parent[head]) /\ isCommit' = TRUE
Pull(t) == NewCommit(t, head) /\ isCommit' = FALSE

\* git checkout or git reset to another commit; no hook of CoderMind's fires.
Checkout(c) ==
    /\ hook = "idle" /\ disk = tree[head] /\ c # head
    /\ head' = c /\ disk' = tree[c]
    /\ Moves
    /\ UNCHANGED <<made, tree, past, parent, rpg, call, extras>>

\* The user changes, or restores, a file without committing it.
Edit(f, v) ==
    /\ disk[f] # v /\ disk' = [disk EXCEPT ![f] = v] /\ Extra
    /\ UNCHANGED <<made, tree, past, parent, head, rpg, call, fore, back>>

(***************************************************************************)
(* A sync.  read_head and the diffs follow each other at once; the parse   *)
(* takes its time.                                                         *)
(***************************************************************************)

SyncAt(s, here, there) == sync[s] = here /\ sync' = [sync EXCEPT ![s] = there]

\* `update_graphs.py sync`, run by hand or by an agent.
SyncByHand(s) ==
    /\ SyncAt(s, "none", "load")
    /\ Extra
    /\ UNCHANGED <<repo, rpg, call, synced, todo, back>>

SyncLoad(s) ==
    /\ SyncAt(s, "load", "diff") /\ synced' = [synced EXCEPT ![s] = rpg]
    /\ UNCHANGED <<repo, rpg, call, todo, back, extras>>

\* working_tree_changes, and changed_files_between(last, HEAD).
Uncommitted == {f \in Files : disk[f] # tree[head][f]}
Committed(last) == {f \in Files : tree[last][f] # tree[head][f]}

\* Seeded fault: the uncommitted files only are looked at when HEAD moved.
ChangedSinceHead(last) == Uncommitted

Changed(last) == Committed(last) \cup Uncommitted

\* sync_from_commit_diff: when git is not asked what changed.  merge_base(last,
\* HEAD) = last says that last is an ancestor of HEAD.
Unrelated(g) == g.meta = None \/ g.meta \notin past[head]

\* The files to parse of those git names: all files when it names too many,
\* none if HEAD is still the commit of the graph and the tree is clean.
ToParse(seen) == IF Cardinality(seen) > Limit THEN Files ELSE seen

\* What a sync has decided: to parse `files` of g and to call it `commit`.
\* Parsing everything leaves nothing of what g was.
Decides(s, files, commit, trust) ==
    /\ SyncAt(s, "diff", "parse")
    /\ todo' = [todo EXCEPT ![s] = files]
    /\ synced' = [synced EXCEPT ![s].meta = commit, ![s].trust = trust]
    /\ UNCHANGED <<repo, rpg, call, back>>

SyncDiff(s) ==
    LET g == synced[s]
        files == IF Unrelated(g) THEN Files ELSE ToParse(Changed(g.meta))
    IN  /\ Decides(s, files, head, IF files = Files THEN "sure" ELSE g.trust)
        /\ UNCHANGED extras

\* A git diff that times out or fails counts as one without changes, and one
\* that succeeds is read without types T and U: some files are not seen, and
\* HEAD goes into meta.git all the same.
SyncMisses(s) ==
    LET g == synced[s]
    IN  /\ sync[s] = "diff" /\ ~Unrelated(g)
        /\ \E seen \in SUBSET Changed(g.meta) :
              /\ seen # Changed(g.meta)
              /\ Decides(s, ToParse(seen), head,
                         IF ToParse(seen) = Files THEN "sure"
                         ELSE IF Committed(g.meta) \subseteq seen THEN g.trust
                         ELSE "doubtful")
        /\ Extra

\* read_head fails: everything is parsed, and meta.git stays what it was.
SyncWithoutHead(s) ==
    /\ Decides(s, Files, synced[s].meta,
               IF synced[s].meta = head THEN "sure" ELSE "doubtful")
    /\ Extra

\* --force-full, or merge_base fails, which counts as a rewritten history.
SyncAll(s) ==
    /\ Decides(s, Files, head, "sure")
    /\ Extra

Parsed(g, files) == [f \in Files |-> IF f \in files THEN disk[f] ELSE g.dep[f]]

\* Files are read as they lie there, committed or not.
SyncParse(s) ==
    /\ SyncAt(s, "parse", "save")
    /\ synced' = [synced EXCEPT
          ![s].dep = Parsed(synced[s], todo[s]),
          ![s].trust = IF Uncommitted \cap todo[s] = {} THEN @ ELSE "doubtful"]
    /\ todo' = [todo EXCEPT ![s] = {}]
    /\ UNCHANGED <<repo, rpg, call, back, extras>>

(***************************************************************************)
(* The hook: a sync, then the background update.                           *)
(***************************************************************************)

HookCalls(s) ==
    /\ hook = "call" /\ hook' = "sync" /\ awaited' = s
    /\ SyncAt(s, "none", "load")
    /\ UNCHANGED <<repo, rpg, isCommit, synced, todo, back, extras>>

\* Seeded fault: a merge starts an update too.
AlwaysSpawn == "spawn"

AfterSync == IF isCommit THEN "spawn" ELSE "idle"

\* The hook goes on when the sync it waits for ends.
SyncEnds(s) ==
    /\ sync' = [sync EXCEPT ![s] = "none"]
    /\ synced' = [synced EXCEPT ![s] = NoGraph]
    /\ todo' = [todo EXCEPT ![s] = {}]
    /\ IF hook = "sync" /\ awaited = s
       THEN hook' = AfterSync /\ awaited' = None
       ELSE UNCHANGED <<hook, awaited>>

\* cmd_sync saves in every mode, noop included.
SyncSave(s) ==
    /\ sync[s] = "save" /\ rpg' = synced[s] /\ SyncEnds(s)
    /\ UNCHANGED <<repo, isCommit, back, extras>>

SyncFails(s) ==
    /\ sync[s] # "none" /\ SyncEnds(s)
    /\ Extra
    /\ UNCHANGED <<repo, rpg, isCommit, back>>

\* After 300 seconds the hook goes on; the sync does not know.
HookGivesUp ==
    /\ hook = "sync" /\ hook' = AfterSync /\ awaited' = None
    /\ Extra
    /\ UNCHANGED <<repo, rpg, isCommit, fore, back>>

\* The lock's update still runs.
Held == lock # None /\ worker[lock] # "none"

\* _hook_spawn_background: a lock is taken by creating its directory; one older
\* than 60 minutes is removed first, for its age alone.
LockTaken ==
    /\ hook = "spawn" /\ hook' = "idle"
    /\ overruns' = IF Held THEN overruns + 1 ELSE overruns

Start(w) == worker[w] = "none" /\ worker' = [worker EXCEPT ![w] = "start"] /\ lock' = w

\* Seeded fault: mkdir(exist_ok=True).
SpawnAnyway ==
    /\ hook = "spawn" /\ hook' = "idle"
    /\ \E w \in Workers : Start(w)
    /\ UNCHANGED <<repo, rpg, isCommit, awaited, fore, updated, extras, overruns>>

Spawn ==
    /\ LockTaken
    /\ \E w \in Workers : Start(w)
    /\ IF Held THEN Extra ELSE UNCHANGED extras
    /\ UNCHANGED <<repo, rpg, isCommit, awaited, fore, updated>>

\* The process cannot be started, and the lock is removed again.
SpawnFails ==
    /\ LockTaken /\ lock' = None
    /\ Extra
    /\ UNCHANGED <<repo, rpg, isCommit, awaited, fore, worker, updated>>

\* Somebody holds the lock.
SpawnSkipped ==
    /\ hook = "spawn" /\ hook' = "idle"
    /\ lock # None
    /\ UNCHANGED <<repo, rpg, isCommit, awaited, fore, back, extras>>

(***************************************************************************)
(* The background update.                                                  *)
(***************************************************************************)

At(w, here, there) == worker[w] = here /\ worker' = [worker EXCEPT ![w] = there]

\* Needs HEAD~1; loads rpg.json.
WorkerLoad(w) ==
    /\ At(w, "start", IF parent[head] = None THEN "release" ELSE "parse")
    /\ updated' = IF parent[head] = None THEN updated ELSE [updated EXCEPT ![w] = rpg]
    /\ UNCHANGED <<repo, rpg, call, fore, lock, extras, overruns>>

\* After the language model's calls, process_diff parses every file.
WorkerParse(w) ==
    /\ At(w, "parse", "stamp")
    /\ updated' = [updated EXCEPT
          ![w].dep = disk,
          ![w].trust = IF Uncommitted = {} THEN "sure" ELSE "doubtful"]
    /\ UNCHANGED <<repo, rpg, call, fore, lock, extras, overruns>>

\* The graph has been left as it was, for which HEAD is the right name only
\* if it was so before.
Kept(g) == IF g.meta = head THEN g ELSE Doubt(g)

\* Its exceptions are logged (_update_dep_graph), and the old graph is kept.
WorkerParseFails(w) ==
    /\ At(w, "parse", "stamp")
    /\ updated' = [updated EXCEPT ![w] = Kept(@)]
    /\ Extra
    /\ UNCHANGED <<repo, rpg, call, fore, lock, overruns>>

\* Then the commit that is HEAD by now goes into meta.git.
WorkerStamp(w) ==
    /\ At(w, "stamp", "save")
    /\ updated' = [updated EXCEPT ![w].meta = head]
    /\ UNCHANGED <<repo, rpg, call, fore, lock, extras, overruns>>

\* read_head fails: the new graph keeps the old name.
WorkerStampFails(w) ==
    /\ At(w, "stamp", "save")
    /\ updated' = [updated EXCEPT ![w] = Kept(@)]
    /\ Extra
    /\ UNCHANGED <<repo, rpg, call, fore, lock, overruns>>

WorkerSave(w) ==
    /\ At(w, "save", "release")
    /\ rpg' = updated[w] /\ updated' = [updated EXCEPT ![w] = NoGraph]
    /\ UNCHANGED <<repo, call, fore, lock, extras, overruns>>

\* run_update_rpg turns any other exception into a result; nothing is saved.
WorkerFails(w) ==
    /\ \E here \in {"parse", "stamp", "save"} : At(w, here, "release")
    /\ updated' = [updated EXCEPT ![w] = NoGraph]
    /\ Extra
    /\ UNCHANGED <<repo, rpg, call, fore, lock, overruns>>

\* The shell around it: rmdir, whatever the exit code was and whoever made the
\* lock that is there.
WorkerRelease(w) ==
    /\ At(w, "release", "none") /\ lock' = None
    /\ UNCHANGED <<repo, rpg, call, fore, updated, extras, overruns>>

\* Shell and all are killed: the lock stays.
WorkerDies(w) ==
    /\ worker[w] # "none" /\ worker' = [worker EXCEPT ![w] = "none"]
    /\ updated' = [updated EXCEPT ![w] = NoGraph]
    /\ Extra
    /\ UNCHANGED <<repo, rpg, call, fore, lock, overruns>>

Next ==
    \/ \E t \in Trees : t # tree[head] /\ (Commit(t) \/ Amend(t) \/ Pull(t))
    \/ \E c \in made : Checkout(c)
    \/ \E f \in Files, v \in Versions : Edit(f, v)
    \/ \E s \in Syncs :
          \/ SyncByHand(s) \/ SyncLoad(s)
          \/ SyncDiff(s) \/ SyncMisses(s) \/ SyncWithoutHead(s) \/ SyncAll(s)
          \/ SyncParse(s) \/ SyncSave(s) \/ SyncFails(s) \/ HookCalls(s)
    \/ HookGivesUp \/ Spawn \/ SpawnFails \/ SpawnSkipped
    \/ \E w \in Workers :
          \/ WorkerLoad(w) \/ WorkerParse(w) \/ WorkerParseFails(w)
          \/ WorkerStamp(w) \/ WorkerStampFails(w) \/ WorkerSave(w)
          \/ WorkerFails(w) \/ WorkerRelease(w) \/ WorkerDies(w)

Spec == Init /\ [][Next]_vars

(***************************************************************************)
(* Properties                                                              *)
(***************************************************************************)

Running == {w \in Workers : worker[w] # "none"}

\* Background updates run side by side only after a lock was removed for its age
\* from an update that still ran, and never more of them than that: not when an
\* overrun update removes its successor's lock, so that a third one starts, nor
\* when killed updates leave locks behind.
OverlapOnlyAfterOverrun == Cardinality(Running) <= 1 + overruns

\* The graph is the one of the commit that meta.git names, through
\* incremental, full and no-op syncs, amended and abandoned commits, pulls
\* nobody synced, syncs that outlive their hook, overlapping saves of all of
\* them and failures of any.  Only five things can make it wrong, and a full
\* parse mends it: HEAD moved between a process's parse and its look at HEAD,
\* uncommitted text was parsed, git failed to name a file that a commit had
\* changed, HEAD could not be read, or a failed refresh kept the old graph.
SyncedUnlessDoubtful == rpg.trust = "sure" => rpg.meta # None /\ rpg.dep = tree[rpg.meta]

\* What `update_graphs.py status` reports as rpg_in_sync_with_head is true once
\* everything has come to rest.
StatusIsRight ==
    (/\ hook = "idle" /\ \A s \in Syncs : sync[s] = "none"
     /\ \A w \in Workers : worker[w] = "none"
     /\ rpg.meta = head)
    => rpg.dep = tree[head]

=============================================================================
