--------------------------- MODULE RpgSync_proofs ---------------------------
(***************************************************************************)
(* For any files, versions, commits and workers: background updates run    *)
(* side by side only after a lock was removed from one that still ran, and *)
(* rpg.json describes the commit it names unless it is doubtful.           *)
(***************************************************************************)
EXTENDS RpgSync, FiniteSetTheorems, TLAPS

\* A graph in memory or on disk that can be trusted.
Sure(g) == g.trust = "sure" => g.meta # None /\ g.dep = tree[g.meta]

\* The commits a graph may name.
Named(g) == g.meta \in made \cup {None}

\* A sync that has looked at HEAD: the files it will not parse are HEAD's.
Prepared(s) ==
    /\ synced[s].meta = head
    /\ \A f \in Files : f \notin todo[s] => synced[s].dep[f] = tree[head][f]

\* Every copy of the graph, with what its process has yet to do to it.
Copies ==
    /\ Sure(rpg)
    /\ \A s \in Syncs :
          /\ sync[s] \in {"diff", "save"} => Sure(synced[s])
          /\ sync[s] = "parse" /\ synced[s].trust = "sure" => Prepared(s)
    /\ \A w \in Workers :
          /\ worker[w] \in {"parse", "save"} => Sure(updated[w])
          /\ worker[w] = "stamp" /\ updated[w].trust = "sure"
                => updated[w].dep = tree[head]

Names ==
    /\ Named(rpg)
    /\ \A s \in Syncs : sync[s] \in {"diff", "parse", "save"} => Named(synced[s])
    /\ \A w \in Workers : worker[w] \in {"parse", "stamp", "save"} => Named(updated[w])

\* The updates that run without the lock, because it was taken from them or
\* from one they had taken it from.
Overrun == Cardinality(Running \ {lock}) <= overruns

IInv == TypeOK /\ Overrun /\ Names /\ Copies

USE DEF Rpgs

LEMMA InitEstablishes == Init => IInv
<1> SUFFICES ASSUME Init PROVE IInv
  OBVIOUS
<1>1. PICK t \in Trees :
        /\ tree = [c \in Commits |-> t] /\ disk = t
        /\ \/ rpg = [meta |-> head, dep |-> t, trust |-> "sure"]
           \/ \E d \in Trees : rpg = [meta |-> None, dep |-> d, trust |-> "doubtful"]
  BY DEF Init
<1>2. head \in Commits /\ made \subseteq Commits /\ head \in made /\ head # None
  BY RpgSyncConstants DEF Init
<1>3. rpg \in Rpgs /\ rpg.meta \in made \cup {None} /\ Sure(rpg)
  BY <1>1, <1>2 DEF Sure
<1>4. past \in [Commits -> SUBSET Commits]
  BY <1>2 DEF Init
<1>5. TypeOK
  <2>1. extras \in 0 .. MaxExtras
    BY RpgSyncConstants DEF Init
  <2>2. sync \in [Syncs -> {"none", "load", "diff", "parse", "save"}]
        /\ synced \in [Syncs -> Rpgs \cup {NoGraph}] /\ todo \in [Syncs -> SUBSET Files]
        /\ \A s \in Syncs : sync[s] = "none" /\ synced[s] = NoGraph
    BY DEF Init
  <2>3. worker \in [Workers -> {"none", "start", "parse", "stamp", "save", "release"}]
        /\ updated \in [Workers -> Rpgs \cup {NoGraph}]
        /\ \A w \in Workers : worker[w] = "none" /\ updated[w] = NoGraph
    BY DEF Init
  <2>4. hook = "idle" /\ isCommit \in BOOLEAN /\ lock = None /\ awaited = None
        /\ overruns = 0 /\ parent \in [Commits -> Commits \cup {None}]
    BY DEF Init
  <2> QED
    BY <1>1, <1>2, <1>3, <1>4, <2>1, <2>2, <2>3, <2>4 DEF TypeOK
<1>6. Overrun
  <2>1. Running \ {lock} = {} /\ overruns = 0
    BY DEF Init, Running
  <2> QED
    BY <2>1, FS_EmptySet DEF Overrun
<1>7. Names
  BY <1>3 DEF Init, Names, Named
<1>8. Copies
  BY <1>3 DEF Init, Copies
<1> QED
  BY <1>5, <1>6, <1>7, <1>8 DEF IInv

\* Nothing about the updates changes.
LEMMA SameUpdates ==
    ASSUME IInv, UNCHANGED <<worker, lock, overruns>> PROVE Overrun'
  BY DEF IInv, Overrun, Running

\* When HEAD moves, a graph keeps its commit and its text, and those that were
\* looked at or parsed before become doubtful.
LEMMA MovesKeeps ==
    ASSUME IInv, Moves
    PROVE  /\ UNCHANGED <<sync, todo, lock, worker, overruns>>
           /\ synced' \in [Syncs -> Rpgs \cup {NoGraph}]
           /\ \A s \in Syncs : synced'[s] \in IF sync[s] \in {"diff", "parse", "save"}
                                             THEN Rpgs ELSE {NoGraph}
           /\ \A s \in Syncs : sync[s] # "parse" => synced'[s] = synced[s]
           /\ \A s \in Syncs : sync[s] = "parse" => /\ synced'[s].trust = "doubtful"
                                                    /\ synced'[s].meta = synced[s].meta
           /\ updated' \in [Workers -> Rpgs \cup {NoGraph}]
           /\ \A w \in Workers : updated'[w] \in IF worker[w] \in {"parse", "stamp", "save"}
                                                THEN Rpgs ELSE {NoGraph}
           /\ \A w \in Workers : worker[w] # "stamp" => updated'[w] = updated[w]
           /\ \A w \in Workers : worker[w] = "stamp" => /\ updated'[w].trust = "doubtful"
                                                        /\ updated'[w].meta = updated[w].meta
<1>1. ASSUME NEW g \in Rpgs
      PROVE  Doubt(g) \in Rpgs /\ Doubt(g).trust = "doubtful" /\ Doubt(g).meta = g.meta
  BY DEF Doubt
<1>2. UNCHANGED <<sync, todo, lock, worker, overruns>>
  BY DEF Moves
<1>3. \A s \in Syncs :
        /\ sync[s] = "parse" => synced'[s] = Doubt(synced[s]) /\ synced[s] \in Rpgs
        /\ sync[s] # "parse" => synced'[s] = synced[s]
  BY DEF Moves, IInv, TypeOK
<1>4. \A w \in Workers :
        /\ worker[w] = "stamp" => updated'[w] = Doubt(updated[w]) /\ updated[w] \in Rpgs
        /\ worker[w] # "stamp" => updated'[w] = updated[w]
  BY DEF Moves, IInv, TypeOK
<1>5. ASSUME NEW s \in Syncs
      PROVE  synced'[s] \in IF sync[s] \in {"diff", "parse", "save"} THEN Rpgs ELSE {NoGraph}
  <2>1. CASE sync[s] = "parse"
    <3>1. synced'[s] = Doubt(synced[s]) /\ synced[s] \in Rpgs
      BY <1>3, <2>1
    <3>2. Doubt(synced[s]) \in Rpgs
      BY <1>1, <3>1
    <3> QED
      BY <2>1, <3>1, <3>2
  <2>2. CASE sync[s] # "parse"
    BY <1>3, <2>2 DEF IInv, TypeOK
  <2> QED
    BY <2>1, <2>2
<1>6. ASSUME NEW w \in Workers
      PROVE  updated'[w] \in IF worker[w] \in {"parse", "stamp", "save"} THEN Rpgs ELSE {NoGraph}
  <2>1. CASE worker[w] = "stamp"
    <3>1. updated'[w] = Doubt(updated[w]) /\ updated[w] \in Rpgs
      BY <1>4, <2>1
    <3>2. Doubt(updated[w]) \in Rpgs
      BY <1>1, <3>1
    <3> QED
      BY <2>1, <3>1, <3>2
  <2>2. CASE worker[w] # "stamp"
    BY <1>4, <2>2 DEF IInv, TypeOK
  <2> QED
    BY <2>1, <2>2
<1>7. synced' \in [Syncs -> Rpgs \cup {NoGraph}]
  <2>1. \A s \in Syncs : synced'[s] \in Rpgs \cup {NoGraph}
    BY <1>5
  <2> QED
    BY <2>1 DEF Moves
<1>8. updated' \in [Workers -> Rpgs \cup {NoGraph}]
  <2>1. \A w \in Workers : updated'[w] \in Rpgs \cup {NoGraph}
    BY <1>6
  <2> QED
    BY <2>1 DEF Moves
<1> QED
  BY <1>1, <1>2, <1>3, <1>4, <1>5, <1>6, <1>7, <1>8

\* A new commit takes a name nobody used, so every graph keeps its meaning.
LEMMA NewCommitKeeps ==
    ASSUME IInv, NEW t \in Trees, NEW base \in Commits \cup {None},
           NewCommit(t, base), isCommit' \in BOOLEAN
    PROVE  IInv'
<1>1. PICK c \in Commits \ made :
          /\ made' = made \cup {c} /\ head' = c
          /\ tree' = [tree EXCEPT ![c] = t]
          /\ parent' = [parent EXCEPT ![c] = base]
          /\ past' = [past EXCEPT ![c] = {c} \cup IF base = None THEN {} ELSE past[base]]
  BY DEF NewCommit
<1>2. disk' \in Trees
  <2>1. \A f \in Files : (IF t[f] # tree[head][f] THEN t[f] ELSE disk[f]) \in Versions
    BY DEF IInv, TypeOK, Trees
  <2> QED
    BY <2>1 DEF NewCommit, Trees
<1>3. {c} \cup (IF base = None THEN {} ELSE past[base]) \in SUBSET Commits
  BY DEF IInv, TypeOK
<1>4. past' \in [Commits -> SUBSET Commits] /\ parent' \in [Commits -> Commits \cup {None}]
      /\ tree' \in [Commits -> Trees]
  BY <1>1, <1>3 DEF IInv, TypeOK
<1>m. Moves /\ hook = "idle" /\ hook' = "call" /\ UNCHANGED <<rpg, awaited, extras>>
  BY DEF NewCommit
<1>5. TypeOK'
  BY <1>1, <1>2, <1>4, <1>m, MovesKeeps DEF IInv, TypeOK
<1>6. Overrun'
  BY <1>m, MovesKeeps, SameUpdates
<1>7. Names'
  BY <1>1, <1>m, MovesKeeps DEF IInv, Names, Named
<1>8. Copies'
  <2>1. \A d \in made : tree'[d] = tree[d]
    BY <1>1 DEF IInv, TypeOK
  <2>2. Sure(rpg)'
    BY <1>m, <2>1 DEF Copies, Sure, IInv, Names, Named
  <2>3. \A s \in Syncs : sync'[s] \in {"diff", "save"} => Sure(synced[s])'
    BY <1>m, <2>1, MovesKeeps DEF Copies, Sure, IInv, Names, Named
  <2>4. \A w \in Workers : worker'[w] \in {"parse", "save"} => Sure(updated[w])'
    BY <1>m, <2>1, MovesKeeps DEF Copies, Sure, IInv, Names, Named
  <2> QED
    BY <1>m, <2>2, <2>3, <2>4, MovesKeeps DEF Copies
<1> QED
  BY <1>5, <1>6, <1>7, <1>8 DEF IInv

LEMMA UserKeeps ==
    ASSUME IInv,
           \/ \E t \in Trees : t # tree[head] /\ (Commit(t) \/ Amend(t) \/ Pull(t))
           \/ \E c \in made : Checkout(c)
           \/ \E f \in Files, v \in Versions : Edit(f, v)
    PROVE  IInv'
<1>1. CASE \E t \in Trees : t # tree[head] /\ (Commit(t) \/ Amend(t) \/ Pull(t))
  <2>1. head \in Commits /\ parent[head] \in Commits \cup {None}
    BY DEF IInv, TypeOK
  <2> QED
    BY <1>1, <2>1, NewCommitKeeps DEF Commit, Amend, Pull
<1>2. CASE \E c \in made : Checkout(c)
  <2>1. PICK c \in made : Checkout(c)
    BY <1>2
  <2>m. Moves /\ head' = c /\ disk' = tree[c]
        /\ UNCHANGED <<made, tree, past, parent, rpg, call, extras>>
    BY <2>1 DEF Checkout
  <2>2. TypeOK'
    BY <2>m, MovesKeeps DEF IInv, TypeOK, call
  <2>3. Overrun'
    BY <2>m, MovesKeeps, SameUpdates
  <2>4. Names'
    BY <2>m, MovesKeeps DEF IInv, Names, Named
  <2>5. Copies'
    BY <2>m, MovesKeeps DEF IInv, Copies, Sure
  <2> QED
    BY <2>2, <2>3, <2>4, <2>5 DEF IInv
<1>3. CASE \E f \in Files, v \in Versions : Edit(f, v)
  <2>1. PICK f \in Files, v \in Versions : Edit(f, v)
    BY <1>3
  <2>2. disk' \in Trees
    BY <2>1 DEF IInv, TypeOK, Edit, Trees
  <2>3. TypeOK'
    BY <2>1, <2>2, RpgSyncConstants DEF IInv, TypeOK, Edit, Extra, call, fore, back
  <2>4. Overrun'
    BY <2>1, SameUpdates DEF Edit, back
  <2>5. Names' /\ Copies'
    BY <2>1 DEF IInv, Names, Named, Copies, Prepared, Sure, Edit, fore, back
  <2> QED
    BY <2>3, <2>4, <2>5 DEF IInv
<1> QED
  BY <1>1, <1>2, <1>3

\* Nothing uncommitted: the working tree is HEAD's.
LEMMA CleanTree ==
    ASSUME TypeOK, Uncommitted = {} PROVE disk = tree[head]
<1>1. disk \in [Files -> Versions] /\ tree[head] \in [Files -> Versions]
  BY DEF TypeOK, Trees
<1>2. \A f \in Files : disk[f] = tree[head][f]
  BY DEF Uncommitted
<1> QED
  BY <1>1, <1>2

\* What git names, if it names every committed change, covers what a graph that
\* can be trusted lacks.
LEMMA DiffPrepares ==
    ASSUME TypeOK, NEW g \in Rpgs, Sure(g), g.trust = "sure",
           NEW seen \in SUBSET Files, Committed(g.meta) \subseteq seen, NEW f \in Files,
           f \notin ToParse(seen)
    PROVE  g.dep[f] = tree[head][f]
<1>1. f \notin Committed(g.meta)
  BY DEF ToParse
<1> QED
  BY <1>1 DEF Committed, Sure

LEMMA ParsedIsTree ==
    ASSUME TypeOK, NEW g \in Rpgs, NEW files \in SUBSET Files
    PROVE  Parsed(g, files) \in Trees
  BY DEF TypeOK, Trees, Parsed

LEMMA LoadKeeps ==
    ASSUME IInv, NEW s \in Syncs, SyncByHand(s) \/ HookCalls(s) \/ SyncLoad(s)
    PROVE  IInv'
<1>1. CASE SyncByHand(s) \/ HookCalls(s)
  <2>1. /\ sync[s] = "none" /\ sync' = [sync EXCEPT ![s] = "load"]
        /\ UNCHANGED <<repo, rpg, isCommit, synced, todo, back>>
    BY <1>1 DEF SyncByHand, HookCalls, SyncAt, call
  <2>2. extras' \in 0 .. MaxExtras /\ hook' \in {"idle", "call", "sync", "spawn"}
        /\ (hook' = "spawn" => isCommit) /\ awaited' \in Syncs \cup {None}
        /\ (hook' = "sync" => awaited' \in Syncs)
    BY <1>1, RpgSyncConstants DEF SyncByHand, HookCalls, Extra, call, IInv, TypeOK
  <2>3. TypeOK'
    BY <2>1, <2>2 DEF IInv, TypeOK, repo, back
  <2>4. Overrun'
    BY <2>1, SameUpdates DEF back
  <2>5. Names' /\ Copies'
    BY <2>1 DEF IInv, TypeOK, Names, Named, Copies, Prepared, Sure, repo, back
  <2> QED
    BY <2>3, <2>4, <2>5 DEF IInv
<1>2. CASE SyncLoad(s)
  <2>1. TypeOK'
    BY <1>2 DEF IInv, TypeOK, SyncLoad, SyncAt, repo, call, back
  <2>2. Overrun'
    BY <1>2, SameUpdates DEF SyncLoad, back
  <2>3. Names'
    BY <1>2 DEF IInv, TypeOK, Names, Named, SyncLoad, SyncAt, repo, back
  <2>4. Copies'
    BY <1>2 DEF IInv, TypeOK, Copies, Prepared, Sure, SyncLoad, SyncAt, repo, back
  <2> QED
    BY <2>1, <2>2, <2>3, <2>4 DEF IInv
<1> QED
  BY <1>1, <1>2

\* A step of one sync leaves the other copies alone.
LEMMA OthersCopies ==
    ASSUME IInv, NEW s \in Syncs, UNCHANGED <<repo, rpg, back>>,
           \A r \in Syncs : r # s => /\ sync'[r] = sync[r] /\ synced'[r] = synced[r]
                                     /\ todo'[r] = todo[r],
           sync'[s] \in {"diff", "save"} => Sure(synced[s])',
           sync'[s] = "parse" /\ synced'[s].trust = "sure" => Prepared(s)'
    PROVE  Copies'
<1>1. Copies /\ UNCHANGED <<tree, head, worker, updated>>
  BY DEF IInv, repo, back
<1>2. Sure(rpg)'
  BY <1>1 DEF Copies, Sure
<1>3. ASSUME NEW r \in Syncs, r # s
      PROVE  /\ sync'[r] \in {"diff", "save"} => Sure(synced[r])'
             /\ sync'[r] = "parse" /\ synced'[r].trust = "sure" => Prepared(r)'
  BY <1>1, <1>3 DEF Copies, Sure, Prepared
<1>4. ASSUME NEW w \in Workers
      PROVE  /\ worker'[w] \in {"parse", "save"} => Sure(updated[w])'
             /\ worker'[w] = "stamp" /\ updated'[w].trust = "sure"
                   => updated'[w].dep = tree'[head']
  BY <1>1 DEF Copies, Sure
<1>5. ASSUME NEW r \in Syncs
      PROVE  /\ sync'[r] \in {"diff", "save"} => Sure(synced[r])'
             /\ sync'[r] = "parse" /\ synced'[r].trust = "sure" => Prepared(r)'
  BY <1>3
<1> QED
  BY <1>2, <1>4, <1>5 DEF Copies

\* A sync decides to name a commit, and is sure of it only if it parses the rest.
LEMMA DecidesKeeps ==
    ASSUME IInv, NEW s \in Syncs, NEW files \in SUBSET Files,
           NEW commit \in made \cup {None}, NEW trust \in {"sure", "doubtful"},
           Decides(s, files, commit, trust), extras' \in 0 .. MaxExtras,
           trust = "sure" => commit = head,
           trust = "sure" => \A f \in Files : f \notin files => synced[s].dep[f] = tree[head][f]
    PROVE  IInv'
<1>1. /\ sync[s] = "diff" /\ sync' = [sync EXCEPT ![s] = "parse"]
      /\ todo' = [todo EXCEPT ![s] = files]
      /\ synced' = [synced EXCEPT ![s].meta = commit, ![s].trust = trust]
      /\ UNCHANGED <<repo, rpg, call, back>>
  BY DEF Decides, SyncAt
<1>2. synced[s] \in Rpgs /\ commit \in Commits \cup {None}
  BY <1>1 DEF IInv, TypeOK
<1>3. /\ synced'[s] = [synced[s] EXCEPT !.meta = commit, !.trust = trust]
      /\ todo'[s] = files /\ sync'[s] = "parse"
      /\ \A r \in Syncs : r # s => /\ sync'[r] = sync[r] /\ synced'[r] = synced[r]
                                   /\ todo'[r] = todo[r]
  BY <1>1 DEF IInv, TypeOK
<1>4. synced'[s] \in Rpgs /\ synced'[s].meta = commit /\ synced'[s].trust = trust
      /\ synced'[s].dep = synced[s].dep
  BY <1>2, <1>3
<1>5. TypeOK'
  <2>1. synced' \in [Syncs -> Rpgs \cup {NoGraph}]
    <3>1. \A r \in Syncs : synced'[r] \in Rpgs \cup {NoGraph}
      BY <1>3, <1>4 DEF IInv, TypeOK
    <3>2. DOMAIN synced' = Syncs /\ synced' = [r \in DOMAIN synced' |-> synced'[r]]
      BY <1>1 DEF IInv, TypeOK
    <3> QED
      BY <3>1, <3>2
  <2>2. \A r \in Syncs : synced'[r] \in IF sync'[r] \in {"diff", "parse", "save"} THEN Rpgs
                                       ELSE {NoGraph}
    BY <1>3, <1>4 DEF IInv, TypeOK
  <2> QED
    BY <1>1, <2>1, <2>2 DEF IInv, TypeOK, repo, call, back
<1>6. Overrun'
  BY <1>1, SameUpdates DEF back
<1>7. Names'
  BY <1>1, <1>3, <1>4 DEF IInv, Names, Named, repo, back
<1>8. Copies'
  <2>1. trust = "sure" => Prepared(s)'
    BY <1>1, <1>3, <1>4 DEF Prepared, repo
  <2> QED
    BY <1>1, <1>3, <1>4, <2>1, OthersCopies
<1> QED
  BY <1>5, <1>6, <1>7, <1>8 DEF IInv

LEMMA DiffKeeps ==
    ASSUME IInv, NEW s \in Syncs,
           SyncDiff(s) \/ SyncMisses(s) \/ SyncWithoutHead(s) \/ SyncAll(s)
    PROVE  IInv'
<1> DEFINE g == synced[s]
<1>1. sync[s] = "diff"
  BY DEF SyncDiff, SyncMisses, SyncWithoutHead, SyncAll, Decides, SyncAt
<1>2. g \in Rpgs /\ Named(g) /\ Sure(g) /\ head \in made /\ g.trust \in {"sure", "doubtful"}
  BY <1>1 DEF IInv, TypeOK, Names, Copies
<1>3. Files \in SUBSET Files /\ Changed(g.meta) \in SUBSET Files
      /\ Committed(g.meta) \subseteq Changed(g.meta)
  BY DEF Changed, Committed, Uncommitted
<1>4. ASSUME NEW seen \in SUBSET Files PROVE ToParse(seen) \in SUBSET Files
  BY DEF ToParse
<1>5. CASE SyncDiff(s)
  <2> DEFINE files == IF Unrelated(g) THEN Files ELSE ToParse(Changed(g.meta))
             trust == IF files = Files THEN "sure" ELSE g.trust
  <2>1. Decides(s, files, head, trust) /\ UNCHANGED extras
    BY <1>5 DEF SyncDiff
  <2>2. files \in SUBSET Files /\ trust \in {"sure", "doubtful"}
    BY <1>2, <1>3, <1>4
  <2>3. ASSUME trust = "sure", NEW f \in Files, f \notin files
        PROVE  g.dep[f] = tree[head][f]
    <3>1. files # Files /\ ~Unrelated(g) /\ g.trust = "sure"
      BY <2>3
    <3>2. f \notin ToParse(Changed(g.meta))
      BY <2>3, <3>1
    <3> HIDE DEF g
    <3> QED
      BY <1>2, <1>3, <3>1, <3>2, DiffPrepares DEF IInv
  <2>4. extras' \in 0 .. MaxExtras
    BY <2>1 DEF IInv, TypeOK
  <2> HIDE DEF files, trust
  <2> QED
    BY <1>2, <2>1, <2>2, <2>3, <2>4, DecidesKeeps
<1>6. CASE SyncMisses(s)
  <2> DEFINE trust(seen) == IF ToParse(seen) = Files THEN "sure"
                            ELSE IF Committed(g.meta) \subseteq seen THEN g.trust
                            ELSE "doubtful"
  <2>1. PICK seen \in SUBSET Changed(g.meta) : Decides(s, ToParse(seen), head, trust(seen))
    BY <1>6 DEF SyncMisses
  <2>2. seen \in SUBSET Files
    BY <1>3, <2>1
  <2>3. ToParse(seen) \in SUBSET Files /\ trust(seen) \in {"sure", "doubtful"}
    BY <1>2, <1>4, <2>2
  <2>4. ASSUME trust(seen) = "sure", NEW f \in Files, f \notin ToParse(seen)
        PROVE  g.dep[f] = tree[head][f]
    <3>1. Committed(g.meta) \subseteq seen /\ g.trust = "sure"
      BY <2>4
    <3> HIDE DEF g
    <3> QED
      BY <1>2, <2>2, <2>4, <3>1, DiffPrepares DEF IInv
  <2>5. extras' \in 0 .. MaxExtras
    BY <1>6, RpgSyncConstants DEF SyncMisses, Extra, IInv, TypeOK
  <2> HIDE DEF trust
  <2> QED
    BY <1>2, <2>1, <2>3, <2>4, <2>5, DecidesKeeps
<1>7. CASE SyncWithoutHead(s) \/ SyncAll(s)
  <2>1. PICK commit \in {g.meta, head} :
          Decides(s, Files, commit, IF commit = head THEN "sure" ELSE "doubtful")
    BY <1>7 DEF SyncWithoutHead, SyncAll
  <2>2. extras' \in 0 .. MaxExtras
    BY <1>7, RpgSyncConstants DEF SyncWithoutHead, SyncAll, Extra, IInv, TypeOK
  <2>3. commit \in made \cup {None}
    BY <1>2, <2>1 DEF Named
  <2>4. (IF commit = head THEN "sure" ELSE "doubtful") \in {"sure", "doubtful"}
    OBVIOUS
  <2>5. (IF commit = head THEN "sure" ELSE "doubtful") = "sure" => commit = head
    OBVIOUS
  <2> QED
    BY <1>3, <2>1, <2>2, <2>3, <2>4, <2>5, DecidesKeeps
<1> QED
  BY <1>5, <1>6, <1>7

LEMMA ParseKeeps ==
    ASSUME IInv, NEW s \in Syncs, SyncParse(s)
    PROVE  IInv'
<1> DEFINE files == todo[s]
           dep == Parsed(synced[s], files)
           trust == IF Uncommitted \cap files = {} THEN synced[s].trust ELSE "doubtful"
<1>1. /\ sync[s] = "parse" /\ sync' = [sync EXCEPT ![s] = "save"]
      /\ synced' = [synced EXCEPT ![s].dep = dep, ![s].trust = trust]
      /\ todo' = [todo EXCEPT ![s] = {}]
      /\ UNCHANGED <<repo, rpg, call, back, extras>>
  BY DEF SyncParse, SyncAt
<1>2. synced[s] \in Rpgs /\ Named(synced[s]) /\ files \in SUBSET Files /\ head \in Commits
      /\ head \in made /\ disk \in Trees /\ tree[head] \in Trees
  BY <1>1 DEF IInv, TypeOK, Names
<1>3. dep \in Trees /\ trust \in {"sure", "doubtful"}
  BY <1>2, ParsedIsTree DEF IInv
<1>4. trust = "sure" => synced[s].meta = head /\ dep = tree[head]
  <2> SUFFICES ASSUME trust = "sure" PROVE synced[s].meta = head /\ dep = tree[head]
    OBVIOUS
  <2>1. Uncommitted \cap files = {} /\ Prepared(s)
    BY <1>1 DEF IInv, Copies
  <2>2. \A f \in Files : (IF f \in files THEN disk[f] ELSE synced[s].dep[f]) = tree[head][f]
    BY <2>1 DEF Prepared, Uncommitted
  <2>3. [f \in Files |-> IF f \in files THEN disk[f] ELSE synced[s].dep[f]] = tree[head]
    BY <1>2, <2>2 DEF Trees
  <2> QED
    BY <2>1, <2>3 DEF Prepared, Parsed
<1>5. /\ synced'[s] = [synced[s] EXCEPT !.dep = dep, !.trust = trust]
      /\ todo'[s] = {} /\ sync'[s] = "save"
      /\ \A r \in Syncs : r # s => /\ sync'[r] = sync[r] /\ synced'[r] = synced[r]
                                   /\ todo'[r] = todo[r]
  BY <1>1 DEF IInv, TypeOK
<1> HIDE DEF dep, trust
<1>6. synced'[s] \in Rpgs /\ synced'[s].meta = synced[s].meta /\ synced'[s].trust = trust
      /\ synced'[s].dep = dep
  BY <1>2, <1>3, <1>5
<1>7. TypeOK'
  <2>1. synced' \in [Syncs -> Rpgs \cup {NoGraph}]
    <3>1. \A r \in Syncs : synced'[r] \in Rpgs \cup {NoGraph}
      BY <1>5, <1>6 DEF IInv, TypeOK
    <3>2. DOMAIN synced' = Syncs /\ synced' = [r \in DOMAIN synced' |-> synced'[r]]
      BY <1>1 DEF IInv, TypeOK
    <3> QED
      BY <3>1, <3>2
  <2>2. \A r \in Syncs : synced'[r] \in IF sync'[r] \in {"diff", "parse", "save"} THEN Rpgs
                                       ELSE {NoGraph}
    BY <1>5, <1>6 DEF IInv, TypeOK
  <2> QED
    BY <1>1, <2>1, <2>2 DEF IInv, TypeOK, repo, call, back
<1>8. Overrun'
  BY <1>1, SameUpdates DEF back
<1>9. Names'
  BY <1>1, <1>2, <1>5, <1>6 DEF IInv, Names, Named, repo, back
<1>10. Copies'
  <2>1. Sure(synced[s])'
    BY <1>1, <1>2, <1>4, <1>6, RpgSyncConstants DEF Sure, repo
  <2> QED
    BY <1>1, <1>5, <2>1, OthersCopies
<1> QED
  BY <1>7, <1>8, <1>9, <1>10 DEF IInv

LEMMA SyncEndKeeps ==
    ASSUME IInv, NEW s \in Syncs, SyncSave(s) \/ SyncFails(s)
    PROVE  IInv'
<1>1. SyncEnds(s) /\ UNCHANGED <<repo, isCommit, back>>
  BY DEF SyncSave, SyncFails
<1>2. rpg' = rpg \/ (sync[s] = "save" /\ rpg' = synced[s])
  <2>1. CASE SyncSave(s)
    BY <2>1 DEF SyncSave
  <2>2. CASE SyncFails(s)
    BY <2>2 DEF SyncFails
  <2> QED
    BY <2>1, <2>2
<1>3. rpg' \in Rpgs /\ extras' \in 0 .. MaxExtras
  <2>1. CASE SyncSave(s)
    BY <2>1 DEF SyncSave, IInv, TypeOK
  <2>2. CASE SyncFails(s)
    BY <2>2, RpgSyncConstants DEF SyncFails, Extra, IInv, TypeOK
  <2> QED
    BY <2>1, <2>2
<1>4. /\ hook' \in {"idle", "call", "sync", "spawn"} /\ (hook' = "spawn" => isCommit)
      /\ awaited' \in Syncs \cup {None} /\ (hook' = "sync" => awaited' \in Syncs)
  BY <1>1 DEF SyncEnds, AfterSync, IInv, TypeOK
<1>5. /\ sync' = [sync EXCEPT ![s] = "none"] /\ synced' = [synced EXCEPT ![s] = NoGraph]
      /\ todo' = [todo EXCEPT ![s] = {}]
  BY <1>1 DEF SyncEnds
<1>6. TypeOK'
  BY <1>1, <1>3, <1>4, <1>5 DEF IInv, TypeOK, repo, back
<1>7. Overrun'
  BY <1>1, SameUpdates DEF back
<1>8. Names'
  BY <1>1, <1>2, <1>5 DEF IInv, TypeOK, Names, Named, repo, back
<1>9. Copies'
  <2>1. Sure(rpg)'
    BY <1>1, <1>2 DEF IInv, Copies, Sure, repo
  <2> QED
    BY <1>1, <1>5, <2>1 DEF IInv, TypeOK, Copies, Prepared, Sure, repo, back
<1> QED
  BY <1>6, <1>7, <1>8, <1>9 DEF IInv

LEMMA GiveUpKeeps == ASSUME IInv, HookGivesUp PROVE IInv'
<1>1. TypeOK'
  BY RpgSyncConstants DEF IInv, TypeOK, HookGivesUp, AfterSync, Extra, repo, fore, back
<1>2. Overrun'
  BY SameUpdates DEF HookGivesUp, back
<1>3. Names' /\ Copies'
  BY DEF IInv, Names, Named, Copies, Prepared, Sure, HookGivesUp, repo, fore, back
<1> QED
  BY <1>1, <1>2, <1>3 DEF IInv

\* Any set of updates is finite.
LEMMA UpdatesAreFinite ==
    ASSUME NEW S, S \subseteq Workers
    PROVE  IsFiniteSet(S) /\ Cardinality(S) \in Nat
  BY RpgSyncConstants, FS_Subset, FS_CardinalityType

LEMMA RunningIsFinite == Running \subseteq Workers
  BY DEF Running

\* Fewer updates than some that were counted.
LEMMA Fewer ==
    ASSUME NEW S, NEW T, S \subseteq Workers, T \subseteq S, NEW n \in Nat,
           Cardinality(S) <= n
    PROVE  Cardinality(T) <= n
<1>1. IsFiniteSet(S) /\ Cardinality(S) \in Nat
  BY UpdatesAreFinite
<1>2. Cardinality(T) <= Cardinality(S) /\ Cardinality(T) \in Nat
  BY <1>1, FS_Subset, FS_CardinalityType
<1> QED
  BY <1>1, <1>2

\* One update more.
LEMMA OneMore ==
    ASSUME NEW S, S \subseteq Workers, NEW w, NEW n \in Nat,
           Cardinality(S \ {w}) <= n
    PROVE  Cardinality(S) <= n + 1
<1>1. IsFiniteSet(S) /\ Cardinality(S) \in Nat
  BY UpdatesAreFinite
<1>2. Cardinality(S \ {w}) = IF w \in S THEN Cardinality(S) - 1 ELSE Cardinality(S)
  BY <1>1, FS_RemoveElement
<1> QED
  BY <1>1, <1>2

\* Taking the lock from an update that runs is counted; then whoever runs,
\* runs without the lock.
LEMMA TakingCounts ==
    ASSUME IInv, LockTaken
    PROVE  overruns' \in Nat /\ Cardinality(Running) <= overruns'
<1>1. Running \subseteq Workers /\ overruns \in Nat
      /\ Cardinality(Running \ {lock}) <= overruns
  BY RunningIsFinite DEF IInv, Overrun, TypeOK
<1>2. CASE Held
  <2>1. overruns' = overruns + 1
    BY <1>2 DEF LockTaken
  <2>2. Cardinality(Running) <= overruns + 1
    BY <1>1, OneMore
  <2> QED
    BY <1>1, <2>1, <2>2
<1>3. CASE ~Held
  <2>1. lock \notin Running
    BY <1>3, RpgSyncConstants DEF Held, Running
  <2>2. Running \ {lock} = Running
    BY <2>1
  <2> QED
    BY <1>1, <1>3, <2>2 DEF LockTaken
<1> QED
  BY <1>2, <1>3

LEMMA SpawnKeeps ==
    ASSUME IInv, Spawn \/ SpawnFails \/ SpawnSkipped
    PROVE  IInv'
<1>1. CASE Spawn
  <2>1. PICK w \in Workers : Start(w)
    BY <1>1 DEF Spawn
  <2>2. LockTaken /\ UNCHANGED <<repo, rpg, isCommit, awaited, fore, updated>>
    BY <1>1 DEF Spawn
  <2>3. extras' \in 0 .. MaxExtras
    BY <1>1, RpgSyncConstants DEF Spawn, Extra, IInv, TypeOK
  <2>4. lock' = w /\ worker[w] = "none" /\ worker' = [worker EXCEPT ![w] = "start"]
    BY <2>1 DEF Start
  <2>5. overruns' \in Nat /\ Cardinality(Running) <= overruns'
    BY <2>2, TakingCounts
  <2>6. TypeOK'
    BY <2>2, <2>3, <2>4, <2>5 DEF IInv, TypeOK, LockTaken, repo, fore
  <2>7. Overrun'
    <3>1. Running' \ {lock'} = Running
      BY <2>4 DEF IInv, TypeOK, Running
    <3> QED
      BY <2>5, <3>1 DEF Overrun
  <2>8. \A v \in Workers : worker'[v] # "start" => worker'[v] = worker[v]
    BY <2>4 DEF IInv, TypeOK
  <2>9. Names' /\ Copies'
    BY <2>2, <2>8 DEF IInv, Names, Named, Copies, Prepared, Sure, repo, fore
  <2> QED
    BY <2>6, <2>7, <2>9 DEF IInv
<1>2. CASE SpawnFails
  <2>1. LockTaken /\ lock' = None /\ UNCHANGED <<repo, rpg, isCommit, awaited, fore, worker, updated>>
    BY <1>2 DEF SpawnFails
  <2>2. extras' \in 0 .. MaxExtras
    BY <1>2, RpgSyncConstants DEF SpawnFails, Extra, IInv, TypeOK
  <2>3. overruns' \in Nat /\ Cardinality(Running) <= overruns'
    BY <2>1, TakingCounts
  <2>4. TypeOK'
    BY <2>1, <2>2, <2>3 DEF IInv, TypeOK, LockTaken, repo, fore
  <2>5. Overrun'
    <3>1. Running' \ {lock'} = Running
      BY <2>1, RpgSyncConstants DEF Running
    <3> QED
      BY <2>3, <3>1 DEF Overrun
  <2>6. Names' /\ Copies'
    BY <2>1 DEF IInv, Names, Named, Copies, Prepared, Sure, repo, fore
  <2> QED
    BY <2>4, <2>5, <2>6 DEF IInv
<1>3. CASE SpawnSkipped
  <2>1. TypeOK'
    BY <1>3 DEF IInv, TypeOK, SpawnSkipped, repo, fore, back
  <2>2. Overrun'
    BY <1>3, SameUpdates DEF SpawnSkipped, back
  <2>3. Names' /\ Copies'
    BY <1>3 DEF IInv, Names, Named, Copies, Prepared, Sure, SpawnSkipped, repo, fore, back
  <2> QED
    BY <2>1, <2>2, <2>3 DEF IInv
<1> QED
  BY <1>1, <1>2, <1>3

\* An update at work still runs, so it is counted as before.
LEMMA StillRuns ==
    ASSUME IInv, NEW w \in Workers, NEW here, NEW there, At(w, here, there),
           here # "none", there # "none", UNCHANGED <<lock, overruns>>
    PROVE  Overrun'
<1>1. Running' = Running
  BY DEF At, Running, IInv, TypeOK
<1> QED
  BY <1>1 DEF IInv, Overrun

\* The graph that was left as it was is either HEAD's or doubtful.
LEMMA KeptIsSure ==
    ASSUME NEW g \in Rpgs
    PROVE  /\ Kept(g) \in Rpgs /\ Kept(g).meta = g.meta /\ Kept(g).dep = g.dep
           /\ Kept(g).trust = "sure" => g.trust = "sure" /\ g.meta = head
  BY DEF Kept, Doubt

\* A step of an update on its own copy.
LEMMA UpdateKeeps ==
    ASSUME IInv, NEW w \in Workers, NEW here \in {"parse", "stamp"},
           NEW there \in {"stamp", "save"}, NEW g \in Rpgs,
           At(w, here, there), updated' = [updated EXCEPT ![w] = g],
           extras' \in 0 .. MaxExtras,
           UNCHANGED <<repo, rpg, call, fore, lock, overruns>>,
           Named(g), there = "save" => Sure(g),
           there = "stamp" /\ g.trust = "sure" => g.dep = tree[head]
    PROVE  IInv'
<1>1. /\ worker' = [worker EXCEPT ![w] = there]
      /\ worker'[w] = there /\ updated'[w] = g
      /\ \A v \in Workers : v # w => worker'[v] = worker[v] /\ updated'[v] = updated[v]
  BY DEF At, IInv, TypeOK
<1>2. TypeOK'
  <2>1. updated' \in [Workers -> Rpgs \cup {NoGraph}]
    BY DEF IInv, TypeOK
  <2>2. worker' \in [Workers -> {"none", "start", "parse", "stamp", "save", "release"}]
    BY <1>1 DEF IInv, TypeOK
  <2>3. \A v \in Workers : updated'[v] \in IF worker'[v] \in {"parse", "stamp", "save"}
                                          THEN Rpgs ELSE {NoGraph}
    BY <1>1 DEF IInv, TypeOK
  <2> QED
    BY <2>1, <2>2, <2>3 DEF IInv, TypeOK, repo, call, fore
<1>3. Overrun'
  BY StillRuns
<1>4. Names'
  BY <1>1 DEF IInv, Names, Named, repo, fore
<1>5. Copies'
  BY <1>1 DEF IInv, Copies, Prepared, Sure, repo, fore
<1> QED
  BY <1>2, <1>3, <1>4, <1>5 DEF IInv

LEMMA WorkKeeps ==
    ASSUME IInv, NEW w \in Workers,
           \/ WorkerLoad(w) \/ WorkerParse(w) \/ WorkerParseFails(w)
           \/ WorkerStamp(w) \/ WorkerStampFails(w) \/ WorkerSave(w)
    PROVE  IInv'
<1> DEFINE g == updated[w]
<1>h. head \in made /\ head \in Commits /\ disk \in Trees /\ head # None
  BY RpgSyncConstants DEF IInv, TypeOK
<1>t. ASSUME worker[w] \in {"parse", "stamp", "save"}
      PROVE  g \in Rpgs /\ Named(g) /\ w \in DOMAIN updated
  BY <1>t DEF IInv, TypeOK, Names
<1>e. Extra => extras' \in 0 .. MaxExtras
  BY RpgSyncConstants DEF Extra, IInv, TypeOK
<1>s. UNCHANGED extras => extras' \in 0 .. MaxExtras
  BY DEF IInv, TypeOK
<1>1. CASE WorkerLoad(w)
  <2>1. TypeOK'
    BY <1>1 DEF IInv, TypeOK, WorkerLoad, At, repo, call, fore
  <2>2. Overrun'
    <3>1. PICK there \in {"release", "parse"} : At(w, "start", there)
      BY <1>1 DEF WorkerLoad
    <3> QED
      BY <1>1, <3>1, StillRuns DEF WorkerLoad
  <2>3. Names'
    BY <1>1 DEF IInv, TypeOK, Names, Named, WorkerLoad, At, repo, call, fore
  <2>4. Copies'
    BY <1>1 DEF IInv, TypeOK, Copies, Prepared, Sure, WorkerLoad, At, repo, call, fore
  <2> QED
    BY <2>1, <2>2, <2>3, <2>4 DEF IInv
<1>2. CASE WorkerParse(w)
  <2>1. worker[w] = "parse"
    BY <1>2 DEF WorkerParse, At
  <2> DEFINE new == [g EXCEPT !.dep = disk,
                              !.trust = IF Uncommitted = {} THEN "sure" ELSE "doubtful"]
  <2>2. updated' = [updated EXCEPT ![w] = new]
    BY <1>2, <1>t, <2>1 DEF WorkerParse
  <2>3. new \in Rpgs /\ new.meta = g.meta /\ new.dep = disk
        /\ (new.trust = "sure" => Uncommitted = {})
    BY <1>h, <1>t, <2>1
  <2>4. new.trust = "sure" => new.dep = tree[head]
    BY <2>3, CleanTree DEF IInv
  <2>5. Named(new)
    BY <1>t, <2>1, <2>3 DEF Named
  <2> HIDE DEF new
  <2> QED
    BY <1>2, <1>s, <2>2, <2>3, <2>4, <2>5, UpdateKeeps DEF WorkerParse
<1>3. CASE WorkerParseFails(w)
  <2>1. worker[w] = "parse"
    BY <1>3 DEF WorkerParseFails, At
  <2>2. g \in Rpgs /\ Named(g) /\ Sure(g)
    BY <1>t, <2>1 DEF IInv, Copies
  <2>3. updated' = [updated EXCEPT ![w] = Kept(g)]
    BY <1>3 DEF WorkerParseFails
  <2>4. Named(Kept(g)) /\ Kept(g) \in Rpgs /\ (Kept(g).trust = "sure" => Kept(g).dep = tree[head])
    BY <2>2, KeptIsSure DEF Named, Sure
  <2> QED
    BY <1>3, <1>e, <2>3, <2>4, UpdateKeeps DEF WorkerParseFails
<1>4. CASE WorkerStamp(w)
  <2>1. worker[w] = "stamp"
    BY <1>4 DEF WorkerStamp, At
  <2> DEFINE new == [g EXCEPT !.meta = head]
  <2>2. updated' = [updated EXCEPT ![w] = new]
    BY <1>4, <1>t, <2>1 DEF WorkerStamp
  <2>3. new \in Rpgs /\ new.meta = head /\ new.dep = g.dep /\ new.trust = g.trust
    BY <1>h, <1>t, <2>1
  <2>4. Sure(new) /\ Named(new)
    BY <1>h, <2>1, <2>3 DEF IInv, Copies, Sure, Named
  <2> HIDE DEF new
  <2> QED
    BY <1>4, <1>s, <2>2, <2>3, <2>4, UpdateKeeps DEF WorkerStamp
<1>5. CASE WorkerStampFails(w)
  <2>1. worker[w] = "stamp"
    BY <1>5 DEF WorkerStampFails, At
  <2>2. g \in Rpgs /\ Named(g) /\ (g.trust = "sure" => g.dep = tree[head])
    BY <1>t, <2>1 DEF IInv, Copies
  <2>3. updated' = [updated EXCEPT ![w] = Kept(g)]
    BY <1>5 DEF WorkerStampFails
  <2>4. Named(Kept(g)) /\ Kept(g) \in Rpgs /\ Sure(Kept(g))
    BY <1>h, <2>2, KeptIsSure DEF Named, Sure
  <2> QED
    BY <1>5, <1>e, <2>3, <2>4, UpdateKeeps DEF WorkerStampFails
<1>6. CASE WorkerSave(w)
  <2>0. worker[w] = "save" /\ updated[w] \in Rpgs /\ Named(updated[w]) /\ Sure(updated[w])
    BY <1>6 DEF IInv, TypeOK, Names, Copies, WorkerSave, At
  <2>1. TypeOK'
    BY <1>6, <2>0 DEF IInv, TypeOK, Named, WorkerSave, At, repo, call, fore
  <2>2. Overrun'
    BY <1>6, StillRuns DEF WorkerSave
  <2>3. Names'
    BY <1>6, <2>0 DEF IInv, TypeOK, Names, Named, WorkerSave, At, repo, call, fore
  <2>4. Copies'
    BY <1>6, <2>0 DEF IInv, TypeOK, Copies, Prepared, Sure, WorkerSave, At, repo, call, fore
  <2> QED
    BY <2>1, <2>2, <2>3, <2>4 DEF IInv
<1> QED
  BY <1>1, <1>2, <1>3, <1>4, <1>5, <1>6

LEMMA EndKeeps ==
    ASSUME IInv, NEW w \in Workers,
           WorkerFails(w) \/ WorkerRelease(w) \/ WorkerDies(w)
    PROVE  IInv'
<1>1. PICK there \in {"release", "none"} : worker' = [worker EXCEPT ![w] = there]
  BY DEF WorkerFails, WorkerRelease, WorkerDies, At
<1>2. UNCHANGED <<repo, rpg, call, fore, overruns>> /\ worker[w] # "none"
  BY DEF WorkerFails, WorkerRelease, WorkerDies, At
<1>3. extras' \in 0 .. MaxExtras /\ lock' \in Workers \cup {None}
  BY RpgSyncConstants DEF WorkerFails, WorkerRelease, WorkerDies, Extra, IInv, TypeOK
<1>4. updated' = [updated EXCEPT ![w] = NoGraph]
  <2>1. CASE WorkerRelease(w)
    <3>1. updated[w] = NoGraph /\ updated' = updated
      BY <2>1 DEF WorkerRelease, At, IInv, TypeOK
    <3> QED
      BY <3>1 DEF IInv, TypeOK
  <2>2. CASE WorkerFails(w) \/ WorkerDies(w)
    BY <2>2 DEF WorkerFails, WorkerDies
  <2> QED
    BY <2>1, <2>2
<1>5. TypeOK'
  BY <1>1, <1>2, <1>3, <1>4 DEF IInv, TypeOK, repo, call, fore
<1>6. Overrun'
  <2>1. Running \subseteq Workers /\ overruns \in Nat
        /\ Cardinality(Running \ {lock}) <= overruns
    BY RunningIsFinite DEF IInv, Overrun, TypeOK
  <2>2. CASE WorkerFails(w)
    <3>1. Running' = Running /\ lock' = lock
      BY <2>2 DEF WorkerFails, At, Running, IInv, TypeOK
    <3> QED
      BY <1>2, <2>1, <3>1 DEF Overrun
  <2>3. CASE WorkerDies(w)
    <3>1. Running' \ {lock'} \subseteq Running \ {lock}
      BY <2>3 DEF WorkerDies, Running, IInv, TypeOK
    <3>2. Running \ {lock} \subseteq Workers
      BY <2>1
    <3> QED
      BY <1>2, <2>1, <3>1, <3>2, Fewer DEF Overrun
  <2>4. CASE WorkerRelease(w)
    <3>1. Running' = Running \ {w} /\ lock' = None
      BY <2>4 DEF WorkerRelease, At, Running, IInv, TypeOK
    <3>2. Running' \ {lock'} = Running \ {w}
      BY <3>1, <2>1, RpgSyncConstants
    <3>3. IsFiniteSet(Running) /\ Cardinality(Running) \in Nat
      BY <2>1, UpdatesAreFinite
    <3>4. Cardinality(Running) <= overruns + 1
      BY <2>1, OneMore
    <3>5. w \in Running
      BY <1>2 DEF Running
    <3>6. Cardinality(Running \ {w}) = Cardinality(Running) - 1
      BY <3>3, <3>5, FS_RemoveElement
    <3> QED
      BY <1>2, <2>1, <3>2, <3>3, <3>4, <3>6 DEF Overrun
  <2> QED
    BY <2>2, <2>3, <2>4
<1>7. \A v \in Workers : worker'[v] \in {"parse", "stamp", "save"}
                            => worker'[v] = worker[v] /\ updated'[v] = updated[v]
  BY <1>1, <1>4 DEF IInv, TypeOK
<1>8. Names' /\ Copies'
  BY <1>2, <1>7 DEF IInv, Names, Named, Copies, Prepared, Sure, repo, fore
<1> QED
  BY <1>5, <1>6, <1>8 DEF IInv

LEMMA Inductive == IInv /\ [Next]_vars => IInv'
<1> SUFFICES ASSUME IInv, [Next]_vars PROVE IInv'
  OBVIOUS
<1>1. CASE Next
  BY <1>1, UserKeeps, LoadKeeps, DiffKeeps, ParseKeeps, SyncEndKeeps, GiveUpKeeps,
     SpawnKeeps, WorkKeeps, EndKeeps DEF Next
<1>2. CASE UNCHANGED vars
  BY <1>2 DEF IInv, TypeOK, Overrun, Running, Names, Named, Copies, Prepared, Sure, vars
<1> QED
  BY <1>1, <1>2

\* Commits, graphs in memory and the lock stay in their types.
THEOREM TypeCorrect == Spec => []TypeOK
<1>1. IInv => TypeOK
  BY DEF IInv
<1> QED
  BY InitEstablishes, Inductive, <1>1, PTL DEF Spec

\* Although the lock is removed for its age alone, and an overrun update removes
\* the lock of another: there are never more updates at once than one, and one
\* for every lock that was removed from an update that still ran.
THEOREM UpdatesOverlapOnlyAfterOverruns == Spec => []OverlapOnlyAfterOverrun
<1>1. IInv => OverlapOnlyAfterOverrun
  <2> SUFFICES ASSUME IInv PROVE OverlapOnlyAfterOverrun
    OBVIOUS
  <2>1. Running \subseteq Workers /\ overruns \in Nat
        /\ Cardinality(Running \ {lock}) <= overruns
    BY RunningIsFinite DEF IInv, Overrun, TypeOK
  <2>2. Cardinality(Running) <= overruns + 1
    BY <2>1, OneMore
  <2> QED
    BY <2>1, <2>2 DEF OverlapOnlyAfterOverrun
<1> QED
  BY InitEstablishes, Inductive, <1>1, PTL DEF Spec

\* rpg.json describes the commit it names, unless HEAD moved under a process,
\* uncommitted text was parsed, git or the refresh failed unnoticed, and no full
\* parse has come since.
THEOREM GraphDescribesItsCommit == Spec => []SyncedUnlessDoubtful
<1>1. IInv => SyncedUnlessDoubtful
  BY DEF IInv, Copies, Sure, SyncedUnlessDoubtful
<1> QED
  BY InitEstablishes, Inductive, <1>1, PTL DEF Spec

=============================================================================
