-------------------------- MODULE PickerScan_proofs --------------------------
(***************************************************************************)
(* The loops of the task picker compute the operators of TaskPicker, for   *)
(* every list of tasks, every state, every set of markers and every limit. *)
(* The invariant says what the first loop has done to the positions it has *)
(* passed, and what the second one has collected from them.                *)
(***************************************************************************)
EXTENDS PickerScan, WellFoundedInduction, TLAPS

Positions == 1..Len(TaskOrder)

LEMMA TheList ==
    /\ DOMAIN TaskOrder = Positions /\ Len(TaskOrder) \in Nat
    /\ \A i \in Positions : i \in Nat /\ TaskOrder[i] \in Tasks
    /\ \A i, j \in Positions : TaskOrder[i] = TaskOrder[j] => i = j
    /\ \A t \in Tasks : \E i \in Positions : TaskOrder[i] = t
BY TaskPickerConstants DEF Positions

LEMMA LeastNumber ==
    ASSUME NEW S \in SUBSET Nat, S # {}
    PROVE  \E i \in S : \A j \in S : i <= j
<1>1. PICK i \in S : \A j \in S : ~ (<<j, i>> \in OpToRel(<, Nat))
  BY NatLessThanWellFounded, WFMin, Zenon
<1>2. ASSUME NEW j \in S, j < i
      PROVE  <<j, i>> \in OpToRel(<, Nat)
  BY <1>2 DEF OpToRel
<1>3. \A j \in S : ~(j < i)
  BY <1>1, <1>2, Zenon
<1> QED BY <1>3

-----------------------------------------------------------------------------
(* The units of a file, counted from the start of the list.                *)

\* The recursion that defines UnitsUpTo has a solution, by the least length
\* for which it had none.
LEMMA PrefixSums ==
    ASSUME NEW n \in Nat, NEW w \in [1..n -> Nat]
    PROVE  \E f \in [0..n -> Nat] :
              f[0] = 0 /\ \A i \in 1..n : f[i] = f[i - 1] + w[i]
<1> DEFINE Sums(m, f) == f[0] = 0 /\ \A i \in 1..m : f[i] = f[i - 1] + w[i]
           None == {m \in 0..n : ~ \E f \in [0..m -> Nat] : Sums(m, f)}
<1>1. ASSUME None # {} PROVE FALSE
  <2>1. PICK m \in None : \A k \in None : m <= k
    <3>1. None \in SUBSET Nat
      OBVIOUS
    <3> HIDE DEF None
    <3> QED BY <1>1, <3>1, LeastNumber
  <2>2. m \in 0..n /\ ~ \E f \in [0..m -> Nat] : Sums(m, f)
    OBVIOUS
  <2>3. m # 0
    <3>1. [i \in 0..0 |-> 0] \in [0..0 -> Nat] /\ Sums(0, [i \in 0..0 |-> 0])
      OBVIOUS
    <3> QED BY <2>2, <3>1
  <2>4. m - 1 \in 0..n /\ m - 1 < m /\ m \in 1..n
    BY <2>2, <2>3
  <2>5. m - 1 \notin None
    <3>1. m \in Nat /\ ~ (m <= m - 1)
      BY <2>4
    <3> HIDE DEF None
    <3> QED BY <2>1, <3>1
  <2>6. PICK f \in [0..(m - 1) -> Nat] : Sums(m - 1, f)
    BY <2>4, <2>5
  <2> DEFINE g == [i \in 0..m |-> IF i = m THEN f[m - 1] + w[m] ELSE f[i]]
  <2>7. f[m - 1] \in Nat /\ w[m] \in Nat
    BY <2>4
  <2>8. g \in [0..m -> Nat]
    BY <2>4, <2>7
  <2>9. g[0] = 0
    BY <2>4, <2>6
  <2>10. ASSUME NEW i \in 1..m PROVE g[i] = g[i - 1] + w[i]
    <3>1. i - 1 \in 0..m /\ i \in 0..m /\ i - 1 # m
      BY <2>4
    <3>2. CASE i = m
      BY <3>1, <3>2
    <3>3. CASE i # m
      <4>1. i \in 1..(m - 1)
        BY <2>4, <3>3
      <4> QED BY <2>6, <3>1, <3>3, <4>1
    <3> QED BY <3>2, <3>3
  <2> HIDE DEF g
  <2> QED BY <2>2, <2>8, <2>9, <2>10
<1>2. n \in 0..n /\ n \notin None
  <2>1. n \in 0..n
    OBVIOUS
  <2> HIDE DEF None
  <2> QED BY <1>1, <2>1
<1>3. \E f \in [0..n -> Nat] : Sums(n, f)
  BY <1>2
<1> QED BY <1>3

LEMMA UnitsAddUp ==
    ASSUME NEW q, NEW t
    PROVE  /\ UnitsUpTo(q, t) \in [0..Len(TaskOrder) -> Nat]
           /\ UnitsUpTo(q, t)[0] = 0
           /\ \A i \in Positions :
                 UnitsUpTo(q, t)[i] = UnitsUpTo(q, t)[i - 1]
                    + (IF i \in SameFile(q, t) THEN Units[TaskOrder[i]] ELSE 0)
<1> DEFINE n == Len(TaskOrder)
           w == [i \in 1..n |-> IF i \in SameFile(q, t) THEN Units[TaskOrder[i]] ELSE 0]
           R(f) == f = [i \in 0..n |-> IF i = 0 THEN 0 ELSE f[i - 1] +
                           (IF i \in SameFile(q, t) THEN Units[TaskOrder[i]] ELSE 0)]
<1>1. n \in Nat /\ w \in [1..n -> Nat]
  BY TheList, TaskPickerConstants DEF Positions
<1>2. PICK f \in [0..n -> Nat] : f[0] = 0 /\ \A i \in 1..n : f[i] = f[i - 1] + w[i]
  <2> HIDE DEF w
  <2> QED BY <1>1, PrefixSums
<1>3. R(f)
  BY <1>1, <1>2
<1>4. UnitsUpTo(q, t) = CHOOSE h : R(h)
  BY DEF UnitsUpTo
<1>5. R(UnitsUpTo(q, t))
  <2> HIDE DEF R
  <2> QED BY <1>3, <1>4
<1> DEFINE u == UnitsUpTo(q, t)
<1> HIDE DEF u
<1>6. R(u)
  BY <1>5 DEF u
<1>7. u[0] = 0 /\ \A i \in 1..n : u[i] = u[i - 1] + w[i]
  BY <1>1, <1>6
<1>8. u = f
  <2> DEFINE Differ == {i \in 0..n : u[i] # f[i]}
  <2>1. ASSUME Differ # {} PROVE FALSE
    <3>1. Differ \in SUBSET Nat
      BY <1>1
    <3>2. PICK i \in Differ : \A j \in Differ : i <= j
      <4> HIDE DEF Differ
      <4> QED BY <2>1, <3>1, LeastNumber
    <3>3. i \in 1..n /\ i - 1 \in 0..n /\ i - 1 \notin Differ
      BY <1>1, <1>2, <1>7, <3>2
    <3> QED BY <1>2, <1>7, <3>2, <3>3
  <2>2. DOMAIN u = 0..n /\ u = [i \in 0..n |-> u[i]]
    BY <1>6
  <2> QED BY <2>1, <2>2
<1> QED BY <1>1, <1>2, <1>7, <1>8 DEF u, Positions

LEMMA UnitsGrow ==
    ASSUME NEW q, NEW t, NEW i \in Positions, NEW j \in Positions, i <= j
    PROVE  UnitsUpTo(q, t)[i] <= UnitsUpTo(q, t)[j]
<1> DEFINE u == UnitsUpTo(q, t)
           Less == {k \in i..j : u[k] < u[i]}
<1>0. u \in [0..Len(TaskOrder) -> Nat]
  BY UnitsAddUp
<1>1. ASSUME NEW k \in Positions PROVE u[k - 1] <= u[k]
  <2>1. u[k] = u[k - 1] + (IF k \in SameFile(q, t) THEN Units[TaskOrder[k]] ELSE 0)
    BY UnitsAddUp
  <2>2. Units[TaskOrder[k]] \in Nat
    BY TheList, TaskPickerConstants
  <2> HIDE DEF u
  <2>3. u[k - 1] \in Nat
    BY <1>0, TheList DEF Positions
  <2> QED BY <2>1, <2>2, <2>3 DEF u
<1> HIDE DEF u
<1>2. ASSUME Less # {} PROVE FALSE
  <2>1. Less \in SUBSET Nat
    BY DEF Positions
  <2>2. PICK k \in Less : \A l \in Less : k <= l
    <3> HIDE DEF Less
    <3> QED BY <1>2, <2>1, LeastNumber
  <2>3. k \in i..j /\ u[k] < u[i] /\ i \in 1..Len(TaskOrder) /\ j \in 1..Len(TaskOrder)
    BY DEF Positions
  <2>4. k # i
    BY <1>0, <2>3, TheList
  <2>5. k \in Positions /\ k - 1 \in i..j /\ k - 1 < k
    BY <2>3, <2>4, TheList DEF Positions
  <2>6. u[k - 1] \in Nat /\ u[k] \in Nat /\ u[i] \in Nat
    BY <1>0, <2>3, <2>5, TheList DEF Positions
  <2>7. u[k - 1] < u[i]
    BY <1>1, <2>3, <2>5, <2>6
  <2>8. k - 1 \in Less
    BY <2>5, <2>7
  <2> QED BY <2>2, <2>5, <2>8, <2>3
<1>3. j \in i..j /\ u[i] \in Nat /\ u[j] \in Nat
  BY <1>0, TheList DEF Positions
<1> QED BY <1>2, <1>3 DEF u

-----------------------------------------------------------------------------
(* What the first loop has done when it reaches position n.                *)

DoneBefore(n) ==
    {TaskOrder[k] : k \in {j \in Positions : j < n /\ Recovered(given, marks, j)}}

LostBefore(n) ==
    {TaskOrder[k] : k \in {j \in Positions : j < n /\ Doomed(given, marks, j)}}

StateAt(n) == [given EXCEPT !.completed = @ \cup DoneBefore(n),
                            !.failed = @ \cup LostBefore(n)]

PendingAt(n) ==
    {t \in Pending(given) : Implementation(t) /\ t \notin DoneBefore(n)}

NoneBefore(n) == \A k \in Positions : k < n => ~Runnable(given, marks, k)

LEMMA InputsAreStates == ASSUME given \in Inputs PROVE given \in States
<1>1. PICK ids \in [completed : SUBSET Tasks, failed : SUBSET Tasks] :
          given = [FreshState EXCEPT !.completed = ids.completed, !.failed = ids.failed]
  BY DEF Inputs
<1>2. FreshState \in States
  BY ExecutionStateConstants DEF FreshState, States
<1> QED BY <1>1, <1>2 DEF States

LEMMA FieldsOfStateAt ==
    ASSUME given \in Inputs, NEW n
    PROVE  /\ StateAt(n).completed = given.completed \cup DoneBefore(n)
           /\ StateAt(n).failed = given.failed \cup LostBefore(n)
<1> DEFINE d == DoneBefore(n)
           l == LostBefore(n)
<1> HIDE DEF d, l
<1>1. StateAt(n) = [given EXCEPT !.completed = @ \cup d, !.failed = @ \cup l]
  BY DEF StateAt, d, l
<1> QED BY <1>1, InputsAreStates DEF States, d, l

LEMMA OneMoreDone ==
    ASSUME given \in Inputs, NEW n, NEW m, NEW t,
           DoneBefore(m) = DoneBefore(n) \cup {t}, LostBefore(m) = LostBefore(n)
    PROVE  StateAt(m) = [StateAt(n) EXCEPT !.completed = @ \cup {t}]
<1> DEFINE d == DoneBefore(n)
           l == LostBefore(n)
<1> HIDE DEF d, l
<1>1. StateAt(n) = [given EXCEPT !.completed = @ \cup d, !.failed = @ \cup l]
  BY DEF StateAt, d, l
<1>2. StateAt(m) = [given EXCEPT !.completed = @ \cup (d \cup {t}), !.failed = @ \cup l]
  BY DEF StateAt, d, l
<1> QED BY <1>1, <1>2, InputsAreStates DEF States

LEMMA OneMoreLost ==
    ASSUME given \in Inputs, NEW n, NEW m, NEW t,
           DoneBefore(m) = DoneBefore(n), LostBefore(m) = LostBefore(n) \cup {t}
    PROVE  StateAt(m) = [StateAt(n) EXCEPT !.failed = @ \cup {t}]
<1> DEFINE d == DoneBefore(n)
           l == LostBefore(n)
<1> HIDE DEF d, l
<1>1. StateAt(n) = [given EXCEPT !.completed = @ \cup d, !.failed = @ \cup l]
  BY DEF StateAt, d, l
<1>2. StateAt(m) = [given EXCEPT !.completed = @ \cup d, !.failed = @ \cup (l \cup {t})]
  BY DEF StateAt, d, l
<1> QED BY <1>1, <1>2, InputsAreStates DEF States

LEMMA NextPosition ==
    ASSUME NEW n \in Positions
    PROVE  /\ DoneBefore(n + 1) = DoneBefore(n) \cup
                 (IF Recovered(given, marks, n) THEN {TaskOrder[n]} ELSE {})
           /\ LostBefore(n + 1) = LostBefore(n) \cup
                 (IF Doomed(given, marks, n) THEN {TaskOrder[n]} ELSE {})
           /\ NoneBefore(n) /\ ~Runnable(given, marks, n) => NoneBefore(n + 1)
<1>1. n \in Nat /\ \A k \in Positions : k \in Nat
  BY TheList
<1>2. \A k \in Positions : k < n + 1 <=> k < n \/ k = n
  BY <1>1
<1> QED BY <1>2 DEF DoneBefore, LostBefore, NoneBefore

\* The loop looks at the state as updated so far; the operators look at the
\* state it started from.
LEMMA LoopReadsGiven ==
    ASSUME given \in Inputs, marks \in SUBSET Tasks, NEW n \in Positions
    PROVE  /\ Settled(StateAt(n), TaskOrder[n]) <=> ~Open(given, n)
           /\ PendingAt(n) # {} <=> ImplPendingAt(given, marks, n)
           /\ HasFailedImplDependencies(StateAt(n), TaskOrder[n])
                 <=> HasFailedImplDependencies(given, TaskOrder[n])
<1>1. \A j \in Positions : TaskOrder[j] \in DoneBefore(n)
                              <=> j < n /\ Recovered(given, marks, j)
  BY TheList DEF DoneBefore
<1>2. \A j \in Positions : TaskOrder[j] \in LostBefore(n)
                              <=> j < n /\ Doomed(given, marks, j)
  BY TheList DEF LostBefore
<1>3. ~(n < n)
  BY TheList
<1>4. Settled(StateAt(n), TaskOrder[n]) <=> ~Open(given, n)
  BY <1>1, <1>2, <1>3, FieldsOfStateAt DEF Settled, Open
<1>5. PendingAt(n) # {} <=> ImplPendingAt(given, marks, n)
  <2>1. \A j \in Positions : TaskOrder[j] \in PendingAt(n) <=>
           /\ Open(given, j) /\ Implementation(TaskOrder[j])
           /\ j < n => TaskOrder[j] \notin marks
    BY <1>1, TheList DEF PendingAt, Pending, Open, Recovered
  <2>2. PendingAt(n) \subseteq Tasks
    BY DEF PendingAt, Pending
  <2>3. PendingAt(n) # {} <=> \E j \in Positions : TaskOrder[j] \in PendingAt(n)
    BY <2>2, TheList
  <2> QED BY <2>1, <2>3, TheList DEF ImplPendingAt
<1>6. \A u \in LostBefore(n) : ~Implementation(u)
  BY DEF LostBefore, Doomed, Integration, Implementation
<1>7. HasFailedImplDependencies(StateAt(n), TaskOrder[n])
         <=> HasFailedImplDependencies(given, TaskOrder[n])
  BY <1>6, FieldsOfStateAt DEF HasFailedImplDependencies
<1> QED BY <1>4, <1>5, <1>7

\* Where the first loop ends is what Pick and AfterScan say.
LEMMA LoopFinds ==
    ASSUME given \in Inputs, NEW n \in Positions, NoneBefore(n),
           Runnable(given, marks, n)
    PROVE  Pick(given, marks) = TaskOrder[n] /\ AfterScan(given, marks) = StateAt(n)
<1> DEFINE open == RunnableAt(given, marks)
<1>1. n \in open /\ \A j \in open : j \in Positions /\ j \in Nat /\ ~(j < n)
  BY TheList DEF RunnableAt, NoneBefore
<1>2. n \in Nat /\ \A j \in open : n <= j
  BY <1>1
<1>3. \A i \in open : (\A j \in open : i <= j) <=> i = n
  BY <1>1, <1>2
<1>4. (CHOOSE i \in open : \A j \in open : i <= j) = n
  <2> HIDE DEF open
  <2> QED BY <1>1, <1>3
<1>5. Pick(given, marks) = TaskOrder[n]
  BY <1>1, <1>4 DEF Pick
<1>6. Scanned(given, marks) = {i \in Positions : i < n}
  <2>1. \A i \in Positions : (\A j \in open : i < j) <=> i < n
    BY <1>1, <1>2, TheList
  <2> QED BY <2>1, TheList DEF Scanned
<1>7. /\ {k \in Scanned(given, marks) : Recovered(given, marks, k)}
           = {j \in Positions : j < n /\ Recovered(given, marks, j)}
      /\ {k \in Scanned(given, marks) : Doomed(given, marks, k)}
           = {j \in Positions : j < n /\ Doomed(given, marks, j)}
  BY <1>6
<1>8. AfterScan(given, marks) = StateAt(n)
  BY <1>7, Zenon DEF AfterScan, StateAt, DoneBefore, LostBefore
<1> QED BY <1>5, <1>8

LEMMA LoopFindsNothing ==
    ASSUME given \in Inputs, NoneBefore(Len(TaskOrder) + 1)
    PROVE  /\ Pick(given, marks) = NoBatch
           /\ AfterScan(given, marks) = StateAt(Len(TaskOrder) + 1)
<1> DEFINE n == Len(TaskOrder) + 1
<1>1. \A k \in Positions : k < n
  BY TheList DEF Positions
<1>2. RunnableAt(given, marks) = {}
  BY <1>1, TheList DEF RunnableAt, NoneBefore
<1>3. Pick(given, marks) = NoBatch
  BY <1>2 DEF Pick
<1>4. Scanned(given, marks) = Positions
  BY <1>2, TheList DEF Scanned
<1>5. /\ {k \in Scanned(given, marks) : Recovered(given, marks, k)}
           = {j \in Positions : j < n /\ Recovered(given, marks, j)}
      /\ {k \in Scanned(given, marks) : Doomed(given, marks, k)}
           = {j \in Positions : j < n /\ Doomed(given, marks, j)}
  BY <1>1, <1>4
<1>6. AfterScan(given, marks) = StateAt(n)
  BY <1>5, Zenon DEF AfterScan, StateAt, DoneBefore, LostBefore
<1> QED BY <1>3, <1>6

-----------------------------------------------------------------------------
(* The inductive invariant. *)

TypeInv ==
    /\ given \in Inputs /\ marks \in SUBSET Tasks
    /\ at \in Nat \ {0} /\ at <= Len(TaskOrder) + 1
    /\ pc \in {"scan", "collect", "done"}
    /\ modified = (s # given)

\* The first loop.
ScanInv ==
    pc = "scan" =>
        /\ s = StateAt(at) /\ NoneBefore(at) /\ pendingImpl = PendingAt(at)
        /\ found = NoBatch /\ selected = <<>> /\ count = 0

FoundInv ==
    pc # "scan" => found = Pick(given, marks) /\ s = AfterScan(given, marks)

\* The task found is the first of its file that is still open.
FirstInFile ==
    \E p \in SameFile(s, found) :
        TaskOrder[p] = found /\ \A k \in SameFile(s, found) : p <= k

\* The second loop: the tasks of the file before the index are collected,
\* and they fit.
CollectInv ==
    pc = "collect" =>
        /\ found \in Tasks /\ Implementation(found) /\ FirstInFile
        /\ selected \in Seq(Tasks)
        /\ {selected[i] : i \in DOMAIN selected}
              = {TaskOrder[k] : k \in {j \in SameFile(s, found) : j < at}}
        /\ selected # <<>> => selected[1] = found
        /\ count = UnitsUpTo(s, found)[at - 1]
        /\ MaxUnits = 0 \/ count <= MaxUnits
        /\ \A k \in SameFile(s, found) : k < at => Fits(s, found, k)

PickerInv ==
    /\ TypeInv /\ ScanInv /\ FoundInv /\ CollectInv
    /\ LoopsComputeOperators /\ IntegrationRunsLast /\ GroupIsWithinLimit

LEMMA PickerInit == Init => PickerInv
<1> SUFFICES ASSUME Init PROVE PickerInv
  OBVIOUS
<1>1. \A k \in Positions : ~(k < 1)
  BY TheList DEF Positions
<1>2. DoneBefore(1) = {} /\ LostBefore(1) = {} /\ NoneBefore(1)
  BY <1>1 DEF DoneBefore, LostBefore, NoneBefore
<1>3. StateAt(1) = given
  BY <1>2, InputsAreStates DEF StateAt, Init, States
<1>4. TypeInv
  <2>1. 1 \in Nat \ {0} /\ 1 <= Len(TaskOrder) + 1
    BY TheList
  <2>2. modified = (s # given)
    BY DEF Init
  <2> QED BY <2>1, <2>2, Zenon DEF Init, TypeInv
<1>5. ScanInv
  BY <1>2, <1>3 DEF Init, ScanInv, PendingAt
<1> QED BY <1>4, <1>5 DEF Init, PickerInv, FoundInv, CollectInv,
           LoopsComputeOperators, IntegrationRunsLast, GroupIsWithinLimit

LEMMA ScanStep ==
    ASSUME PickerInv, Scanning,
           given' = given, marks' = marks, found' = found,
           selected' = selected, count' = count, pc' = pc, at' = at + 1,
           s' = StateAt(at + 1), pendingImpl' = PendingAt(at + 1),
           modified' = (s' # given), ~Runnable(given, marks, at)
    PROVE  PickerInv'
<1>1. at \in Positions /\ pc = "scan" /\ NoneBefore(at) /\ given \in Inputs
  BY TheList DEF PickerInv, TypeInv, ScanInv, Scanning, Positions
<1>2. NoneBefore(at + 1)
  BY <1>1, NextPosition
<1>3. at' \in Nat \ {0} /\ at' <= Len(TaskOrder) + 1
  BY <1>1, TheList DEF Positions
<1>4. TypeInv'
  BY <1>3 DEF PickerInv, TypeInv
<1>5. /\ NoneBefore(at)' /\ StateAt(at)' = StateAt(at + 1)
      /\ PendingAt(at)' = PendingAt(at + 1)
  BY <1>2, Zenon DEF NoneBefore, StateAt, DoneBefore, LostBefore, PendingAt
<1>6. ScanInv'
  BY <1>1, <1>5 DEF PickerInv, ScanInv
<1> QED BY <1>1, <1>4, <1>6 DEF PickerInv, FoundInv, CollectInv,
           LoopsComputeOperators, IntegrationRunsLast, GroupIsWithinLimit

LEMMA ScanFacts ==
    ASSUME PickerInv, Scanning
    PROVE  /\ at \in Positions /\ pc = "scan" /\ s = StateAt(at) /\ NoneBefore(at)
           /\ given \in Inputs /\ given \in States /\ marks \in SUBSET Tasks
           /\ pendingImpl = PendingAt(at)
           /\ Settled(s, Task) <=> ~Open(given, at)
           /\ MustWait <=> Deferred(given, marks, at)
           /\ Open(given, at) /\ Task \notin marks =>
                 (IsDoomed <=> Doomed(given, marks, at))
<1>1. /\ at \in Positions /\ pc = "scan" /\ s = StateAt(at) /\ NoneBefore(at)
      /\ given \in Inputs /\ marks \in SUBSET Tasks /\ pendingImpl = PendingAt(at)
  BY TheList DEF PickerInv, TypeInv, ScanInv, Scanning, Positions
<1>2. Settled(s, Task) <=> ~Open(given, at)
  BY <1>1, LoopReadsGiven DEF Task
<1>3. pendingImpl # {} <=> ImplPendingAt(given, marks, at)
  BY <1>1, LoopReadsGiven
<1>4. HasFailedImplDependencies(s, Task) <=> HasFailedImplDependencies(given, Task)
  BY <1>1, LoopReadsGiven DEF Task
<1>5. MustWait <=> Deferred(given, marks, at)
  BY <1>3 DEF MustWait, Deferred, Task
<1>6. Open(given, at) /\ Task \notin marks => (IsDoomed <=> Doomed(given, marks, at))
  BY <1>3, <1>4 DEF IsDoomed, MustWait, Doomed, Recovered, Task
<1> QED BY <1>1, <1>2, <1>5, <1>6, InputsAreStates

LEMMA SkipSettledKeeps == PickerInv /\ SkipSettled => PickerInv'
<1> SUFFICES ASSUME PickerInv, SkipSettled PROVE PickerInv'
  OBVIOUS
<1>1. Scanning
  BY DEF SkipSettled
<1>2. at \in Positions /\ s = StateAt(at) /\ pendingImpl = PendingAt(at)
      /\ given \in Inputs /\ ~Open(given, at)
  BY <1>1, ScanFacts DEF SkipSettled
<1>3. ~Runnable(given, marks, at) /\ ~Recovered(given, marks, at) /\ ~Doomed(given, marks, at)
  BY <1>2 DEF Runnable, Recovered, Doomed
<1>4. DoneBefore(at + 1) = DoneBefore(at) /\ LostBefore(at + 1) = LostBefore(at)
  BY <1>2, <1>3, NextPosition
<1>5. StateAt(at + 1) = s /\ PendingAt(at + 1) = pendingImpl
  BY <1>2, <1>4 DEF PendingAt, StateAt
<1>6. modified = (s # given)
  BY DEF PickerInv, TypeInv
<1> QED BY <1>1, <1>3, <1>5, <1>6, ScanStep DEF SkipSettled, Continue

LEMMA DeferKeeps == PickerInv /\ Defer => PickerInv'
<1> SUFFICES ASSUME PickerInv, Defer PROVE PickerInv'
  OBVIOUS
<1>1. Scanning
  BY DEF Defer
<1>2. /\ at \in Positions /\ s = StateAt(at) /\ pendingImpl = PendingAt(at)
      /\ given \in Inputs /\ Deferred(given, marks, at) /\ Task \notin marks
  BY <1>1, ScanFacts DEF Defer
<1>3. ~Runnable(given, marks, at) /\ ~Recovered(given, marks, at) /\ ~Doomed(given, marks, at)
  BY <1>2 DEF Runnable, Recovered, Doomed, Deferred, Task
<1>4. DoneBefore(at + 1) = DoneBefore(at) /\ LostBefore(at + 1) = LostBefore(at)
  BY <1>2, <1>3, NextPosition
<1>5. StateAt(at + 1) = s /\ PendingAt(at + 1) = pendingImpl
  BY <1>2, <1>4 DEF PendingAt, StateAt
<1>6. modified = (s # given)
  BY DEF PickerInv, TypeInv
<1> QED BY <1>1, <1>3, <1>5, <1>6, ScanStep DEF Defer, Continue

LEMMA RecoverKeeps == PickerInv /\ Recover => PickerInv'
<1> SUFFICES ASSUME PickerInv, Recover PROVE PickerInv'
  OBVIOUS
<1>1. Scanning
  BY DEF Recover
<1>2. /\ at \in Positions /\ s = StateAt(at) /\ pendingImpl = PendingAt(at)
      /\ given \in Inputs /\ given \in States /\ Open(given, at) /\ Task \in marks
  BY <1>1, ScanFacts DEF Recover
<1>3. ~Runnable(given, marks, at) /\ Recovered(given, marks, at) /\ ~Doomed(given, marks, at)
  BY <1>2 DEF Runnable, Recovered, Doomed, Task
<1>4. DoneBefore(at + 1) = DoneBefore(at) \cup {Task} /\ LostBefore(at + 1) = LostBefore(at)
  BY <1>2, <1>3, NextPosition DEF Task
<1>5. StateAt(at + 1) = s'
  <2>1. StateAt(at + 1) = [StateAt(at) EXCEPT !.completed = @ \cup {Task}]
    BY <1>2, <1>4, OneMoreDone
  <2> QED BY <1>2, <2>1 DEF Recover
<1>6. PendingAt(at + 1) = pendingImpl'
  BY <1>2, <1>4 DEF PendingAt, Recover
<1>7. s' # given
  BY <1>2, <1>4, <1>5, FieldsOfStateAt DEF Open, Settled, Task
<1>8. modified' = (s' # given)
  BY <1>7 DEF Recover
<1> QED BY <1>1, <1>3, <1>5, <1>6, <1>8, ScanStep DEF Recover, Continue

LEMMA SkipDoomedKeeps == PickerInv /\ SkipDoomed => PickerInv'
<1> SUFFICES ASSUME PickerInv, SkipDoomed PROVE PickerInv'
  OBVIOUS
<1>1. Scanning
  BY DEF SkipDoomed
<1>2. /\ at \in Positions /\ s = StateAt(at) /\ pendingImpl = PendingAt(at)
      /\ given \in Inputs /\ Open(given, at) /\ Task \notin marks
      /\ Doomed(given, marks, at)
  BY <1>1, ScanFacts DEF SkipDoomed
<1>3. ~Runnable(given, marks, at) /\ ~Recovered(given, marks, at)
  BY <1>2 DEF Runnable, Recovered, Task
<1>4. DoneBefore(at + 1) = DoneBefore(at) /\ LostBefore(at + 1) = LostBefore(at) \cup {Task}
  BY <1>2, <1>3, NextPosition DEF Task
<1>5. StateAt(at + 1) = s'
  <2>1. StateAt(at + 1) = [StateAt(at) EXCEPT !.failed = @ \cup {Task}]
    BY <1>2, <1>4, OneMoreLost
  <2> QED BY <1>2, <2>1 DEF SkipDoomed
<1>6. PendingAt(at + 1) = pendingImpl'
  BY <1>2, <1>4 DEF PendingAt, SkipDoomed
<1>7. s' # given
  BY <1>2, <1>4, <1>5, FieldsOfStateAt DEF Open, Settled, Task
<1>8. modified' = (s' # given)
  BY <1>7 DEF SkipDoomed
<1> QED BY <1>1, <1>3, <1>5, <1>6, <1>8, ScanStep DEF SkipDoomed, Continue

-----------------------------------------------------------------------------
(* The end of the first loop.                                              *)

LEMMA FindFacts ==
    ASSUME PickerInv, Find
    PROVE  /\ at \in Positions /\ Task \in Tasks /\ ~Settled(s, Task)
           /\ Task = Pick(given, marks) /\ s = AfterScan(given, marks)
           /\ \A k \in SameFile(s, Task) : at <= k
<1>1. Scanning
  BY DEF Find
<1>2. /\ at \in Positions /\ s = StateAt(at) /\ NoneBefore(at)
      /\ given \in Inputs /\ Open(given, at) /\ Task \notin marks
      /\ ~Deferred(given, marks, at) /\ ~Doomed(given, marks, at)
  BY <1>1, ScanFacts DEF Find
<1>3. Runnable(given, marks, at)
  BY <1>2 DEF Runnable, Recovered, Task
<1>4. Task = Pick(given, marks) /\ s = AfterScan(given, marks)
  BY <1>2, <1>3, LoopFinds DEF Task
<1>5. ASSUME NEW k \in SameFile(s, Task), k < at PROVE FALSE
  <2>1. k \in Positions /\ Open(s, k) /\ Implementation(TaskOrder[k])
    BY TheList DEF SameFile
  <2>2. Open(given, k) /\ TaskOrder[k] \notin DoneBefore(at)
    BY <1>2, <2>1, FieldsOfStateAt DEF Open, Settled
  <2>3. ~Recovered(given, marks, k)
    BY <1>5, <2>1, <2>2 DEF DoneBefore
  <2>4. ~Integration(TaskOrder[k])
    BY <2>1 DEF Integration, Implementation
  <2>5. Runnable(given, marks, k)
    BY <2>2, <2>3, <2>4 DEF Runnable, Deferred, Doomed
  <2> QED BY <1>2, <1>5, <2>1, <2>5 DEF NoneBefore
<1>6. at \in Nat /\ \A k \in SameFile(s, Task) : k \in Nat
  BY <1>2, TheList DEF SameFile
<1>7. \A k \in SameFile(s, Task) : at <= k
  BY <1>5, <1>6
<1> QED BY <1>2, <1>4, <1>7, TheList DEF Find, Task

LEMMA FindKeeps == PickerInv /\ Find => PickerInv'
<1> SUFFICES ASSUME PickerInv, Find PROVE PickerInv'
  OBVIOUS
<1>1. /\ at \in Positions /\ Task \in Tasks /\ ~Settled(s, Task)
      /\ Task = Pick(given, marks) /\ s = AfterScan(given, marks)
      /\ \A k \in SameFile(s, Task) : at <= k
  BY FindFacts
<1>2. Scanning /\ pc = "scan" /\ count = 0 /\ s = StateAt(at) /\ given \in Inputs
      /\ pendingImpl = PendingAt(at)
  BY ScanFacts DEF Find, Scanning, PickerInv, ScanInv
<1>3. TypeInv' /\ ScanInv' /\ FoundInv'
  <2>1. 1 \in Nat \ {0} /\ 1 <= Len(TaskOrder) + 1
    BY TheList
  <2>2. pc' \in {"collect", "done"}
    BY DEF Find
  <2> QED BY <1>1, <2>1, <2>2 DEF Find, PickerInv, TypeInv, ScanInv, FoundInv
<1>4. CASE Implementation(Task)
  <2>1. pc' = "collect" /\ selected' = <<>> /\ at' = 1 /\ found' = Task
        /\ s' = s /\ count' = 0
    BY <1>2, <1>4 DEF Find
  <2>2. at \in SameFile(s, Task)
    BY <1>1, <1>4, TheList DEF SameFile, Open, Task
  <2>3. FirstInFile'
    BY <1>1, <2>1, <2>2 DEF FirstInFile, Task
  <2>4. \A k \in SameFile(s, Task) : ~(k < 1)
    BY TheList DEF SameFile, Positions
  <2>5. count' = UnitsUpTo(s, Task)[1 - 1]
    BY <2>1, UnitsAddUp
  <2>6. MaxUnits = 0 \/ count' <= MaxUnits
    BY <2>1, TaskPickerConstants
  <2>7. CollectInv'
    BY <1>1, <1>4, <2>1, <2>3, <2>4, <2>5, <2>6 DEF CollectInv
  <2> QED BY <1>3, <2>1, <2>7 DEF PickerInv, LoopsComputeOperators,
             IntegrationRunsLast, GroupIsWithinLimit
<1>5. CASE ~Implementation(Task)
  <2>1. pc' = "done" /\ selected' = <<Task>> /\ found' = Task /\ s' = s
        /\ given' = given /\ marks' = marks /\ modified' = modified
    BY <1>5 DEF Find
  <2>2. {selected'[i] : i \in DOMAIN selected'} = {Task}
    BY <2>1
  <2>3. MergedGroup(s, Task) = {Task}
    BY <1>5 DEF MergedGroup
  <2>4. LoopsComputeOperators'
    BY <1>1, <2>1, <2>2, <2>3 DEF LoopsComputeOperators, PickerInv, TypeInv
  <2>5. ASSUME Integration(Task), NEW t \in Tasks, Implementation(t)
        PROVE  Settled(s, t) /\ (Subtree[t] = Subtree[Task] => t \notin s.failed)
    <3>1. PendingAt(at) = {} /\ ~HasFailedImplDependencies(s, Task)
      BY <1>2, <2>5 DEF Find, MustWait, IsDoomed
    <3>2. Settled(given, t) \/ t \in DoneBefore(at)
      BY <2>5, <3>1 DEF PendingAt, Pending
    <3>3. Settled(s, t)
      BY <1>2, <3>2, FieldsOfStateAt DEF Settled
    <3> QED BY <2>5, <3>1, <3>3 DEF HasFailedImplDependencies
  <2>6. IntegrationRunsLast'
    BY <2>1, <2>5 DEF IntegrationRunsLast
  <2>7. GroupIsWithinLimit'
    BY <1>1, <2>1 DEF GroupIsWithinLimit
  <2> QED BY <1>3, <2>1, <2>4, <2>6, <2>7 DEF PickerInv, CollectInv
<1> QED BY <1>4, <1>5

LEMMA FindNothingKeeps == PickerInv /\ FindNothing => PickerInv'
<1> SUFFICES ASSUME PickerInv, FindNothing PROVE PickerInv'
  OBVIOUS
<1>1. pc = "scan" /\ at = Len(TaskOrder) + 1 /\ given \in Inputs
      /\ s = StateAt(at) /\ NoneBefore(at) /\ found = NoBatch
  BY TheList DEF FindNothing, PickerInv, TypeInv, ScanInv
<1>2. found = Pick(given, marks) /\ s = AfterScan(given, marks)
  BY <1>1, LoopFindsNothing
<1>3. TypeInv' /\ ScanInv' /\ FoundInv' /\ CollectInv'
  BY <1>2 DEF FindNothing, PickerInv, TypeInv, ScanInv, FoundInv, CollectInv
<1>4. LoopsComputeOperators' /\ IntegrationRunsLast' /\ GroupIsWithinLimit'
  BY <1>1, <1>2 DEF FindNothing, PickerInv, TypeInv, LoopsComputeOperators,
     IntegrationRunsLast, GroupIsWithinLimit
<1> QED BY <1>3, <1>4 DEF PickerInv

-----------------------------------------------------------------------------
(* The second loop.                                                        *)

LEMMA CollectFacts ==
    ASSUME PickerInv, Collecting
    PROVE  /\ at \in Positions /\ at \in Nat /\ pc = "collect" /\ Task \in Tasks
           /\ InFile <=> at \in SameFile(s, found)
           /\ count \in Nat /\ MaxUnits \in Nat /\ Units[Task] \in Nat
           /\ UnitsUpTo(s, found)[at]
                 = count + (IF InFile THEN Units[Task] ELSE 0)
           /\ \A k \in SameFile(s, found) : k \in Positions /\ k \in Nat
<1>1. at \in Positions /\ at \in Nat /\ pc = "collect"
  BY TheList DEF PickerInv, TypeInv, Collecting, Positions
<1>2. InFile <=> at \in SameFile(s, found)
  BY <1>1, TheList DEF InFile, SameFile, Open, Task
<1>3. count = UnitsUpTo(s, found)[at - 1]
  BY <1>1 DEF PickerInv, CollectInv
<1>4. count \in Nat
  <2>1. at - 1 \in 0..Len(TaskOrder)
    BY <1>1, TheList DEF Positions
  <2> QED BY <1>3, <2>1, UnitsAddUp
<1>5. UnitsUpTo(s, found)[at] = count + (IF InFile THEN Units[Task] ELSE 0)
  BY <1>1, <1>2, <1>3, UnitsAddUp DEF Task
<1>6. Task \in Tasks /\ Units[Task] \in Nat /\ MaxUnits \in Nat
  BY <1>1, TheList, TaskPickerConstants DEF Task
<1>7. \A k \in SameFile(s, found) : k \in Positions /\ k \in Nat
  BY TheList DEF SameFile
<1> QED BY <1>1, <1>2, <1>4, <1>5, <1>6, <1>7

LEMMA SkipOtherKeeps == PickerInv /\ SkipOther => PickerInv'
<1> SUFFICES ASSUME PickerInv, SkipOther PROVE PickerInv'
  OBVIOUS
<1>1. Collecting
  BY DEF SkipOther
<1>2. /\ at \in Positions /\ at \in Nat /\ pc = "collect" /\ at \notin SameFile(s, found)
      /\ count \in Nat /\ UnitsUpTo(s, found)[at] = count
      /\ \A k \in SameFile(s, found) : k \in Nat
  BY <1>1, CollectFacts DEF SkipOther
<1>3. \A k \in SameFile(s, found) : k < at + 1 <=> k < at
  BY <1>2
<1>4. {j \in SameFile(s, found) : j < at + 1} = {j \in SameFile(s, found) : j < at}
  BY <1>3
<1>5. count = UnitsUpTo(s, found)[(at + 1) - 1]
  BY <1>2
<1>6. at + 1 \in Nat \ {0} /\ at + 1 <= Len(TaskOrder) + 1
  BY <1>2, TheList DEF Positions
<1>7. TypeInv' /\ ScanInv' /\ FoundInv'
  BY <1>2, <1>6 DEF SkipOther, PickerInv, TypeInv, ScanInv, FoundInv
<1>8. CollectInv'
  BY <1>2, <1>3, <1>4, <1>5 DEF SkipOther, PickerInv, CollectInv, FirstInFile
<1> QED BY <1>2, <1>7, <1>8 DEF SkipOther, PickerInv, LoopsComputeOperators,
           IntegrationRunsLast, GroupIsWithinLimit

LEMMA TakeKeeps == PickerInv /\ Take => PickerInv'
<1> SUFFICES ASSUME PickerInv, Take PROVE PickerInv'
  OBVIOUS
<1>1. Collecting /\ InFile
  BY DEF Take
<1>2. /\ at \in Positions /\ at \in Nat /\ pc = "collect" /\ at \in SameFile(s, found)
      /\ count \in Nat /\ Units[Task] \in Nat /\ MaxUnits \in Nat /\ Task \in Tasks
      /\ UnitsUpTo(s, found)[at] = count + Units[Task]
      /\ \A k \in SameFile(s, found) : k \in Nat
  BY <1>1, CollectFacts
<1>3. \A k \in SameFile(s, found) : k < at + 1 <=> k < at \/ k = at
  BY <1>2
<1>4. {TaskOrder[k] : k \in {j \in SameFile(s, found) : j < at + 1}}
        = {TaskOrder[k] : k \in {j \in SameFile(s, found) : j < at}} \cup {Task}
  BY <1>2, <1>3 DEF Task
<1>5. /\ selected \in Seq(Tasks)
      /\ {selected[i] : i \in DOMAIN selected}
           = {TaskOrder[k] : k \in {j \in SameFile(s, found) : j < at}}
      /\ selected # <<>> => selected[1] = found
      /\ FirstInFile /\ found \in Tasks /\ Implementation(found)
      /\ \A k \in SameFile(s, found) : k < at => Fits(s, found, k)
  BY <1>2 DEF PickerInv, CollectInv
<1>6. selected' = Append(selected, Task) /\ selected' \in Seq(Tasks)
  BY <1>2, <1>5 DEF Take
<1>7. {selected'[i] : i \in DOMAIN selected'}
        = {selected[i] : i \in DOMAIN selected} \cup {Task}
  <2>1. DOMAIN selected' = DOMAIN selected \cup {Len(selected) + 1}
        /\ selected'[Len(selected) + 1] = Task
        /\ \A i \in DOMAIN selected : selected'[i] = selected[i]
    BY <1>2, <1>5, <1>6
  <2> QED BY <2>1
<1>8. selected'[1] = found
  <2>1. CASE selected # <<>>
    BY <1>2, <1>5, <1>6, <2>1
  <2>2. CASE selected = <<>>
    <3>1. {selected[i] : i \in DOMAIN selected} = {}
      BY <2>2
    <3>2. \A k \in SameFile(s, found) : ~(k < at)
      BY <1>5, <3>1
    <3>3. Task = found
      BY <1>2, <1>5, <3>2 DEF FirstInFile, Task
    <3> QED BY <1>6, <2>2, <3>3
  <2> QED BY <2>1, <2>2
<1>9. count' = count + Units[Task] /\ (MaxUnits = 0 \/ count' <= MaxUnits)
  BY <1>2 DEF Take, TooMany
<1>10. Fits(s, found, at)
  BY <1>2, <1>9 DEF Fits
<1>11. count' = UnitsUpTo(s, found)[(at + 1) - 1]
  BY <1>2, <1>9
<1>12. at + 1 \in Nat \ {0} /\ at + 1 <= Len(TaskOrder) + 1
  BY <1>2, TheList DEF Positions
<1>13. TypeInv' /\ ScanInv' /\ FoundInv'
  BY <1>2, <1>12 DEF Take, PickerInv, TypeInv, ScanInv, FoundInv
<1>14. \A k \in SameFile(s, found) : k < at + 1 => Fits(s, found, k)
  BY <1>3, <1>5, <1>10
<1>15. CollectInv'
  BY <1>4, <1>5, <1>6, <1>7, <1>8, <1>9, <1>11, <1>14
     DEF Take, CollectInv, FirstInFile
<1> QED BY <1>2, <1>13, <1>15 DEF Take, PickerInv, LoopsComputeOperators,
           IntegrationRunsLast, GroupIsWithinLimit

LEMMA StopKeeps == PickerInv /\ Stop => PickerInv'
<1> SUFFICES ASSUME PickerInv, Stop PROVE PickerInv'
  OBVIOUS
<1> DEFINE all == {TaskOrder[i] : i \in {k \in SameFile(s, found) : Fits(s, found, k)}}
           taken == {selected[i] : i \in DOMAIN selected}
<1>1. /\ pc = "collect" /\ found \in Tasks /\ Implementation(found) /\ FirstInFile
      /\ selected \in Seq(Tasks)
      /\ taken = {TaskOrder[k] : k \in {j \in SameFile(s, found) : j < at}}
      /\ selected # <<>> => selected[1] = found
      /\ MaxUnits = 0 \/ count <= MaxUnits
      /\ \A k \in SameFile(s, found) : k < at => Fits(s, found, k)
      /\ found = Pick(given, marks) /\ s = AfterScan(given, marks)
  BY DEF Stop, PickerInv, CollectInv, FoundInv
<1>2. \A k \in SameFile(s, found) : k \in Positions /\ k \in Nat
  BY TheList DEF SameFile
<1>3. at \in Nat /\ at <= Len(TaskOrder) + 1
  BY DEF PickerInv, TypeInv
<1>4. \A k \in SameFile(s, found) : Fits(s, found, k) <=> k < at
  <2>1. CASE at > Len(TaskOrder)
    <3>1. \A k \in SameFile(s, found) : k < at
      BY <1>2, <1>3, <2>1, TheList DEF Positions
    <3> QED BY <1>1, <3>1
  <2>2. CASE ~(at > Len(TaskOrder))
    <3>1. Collecting /\ InFile /\ TooMany
      BY <1>1, <1>3, <2>2, TheList DEF Stop, Collecting
    <3>2. /\ at \in Positions /\ MaxUnits \in Nat /\ MaxUnits > 0
          /\ UnitsUpTo(s, found)[at] = count + Units[Task]
          /\ count + Units[Task] > MaxUnits /\ count \in Nat /\ Units[Task] \in Nat
      BY <3>1, CollectFacts DEF TooMany
    <3>3. ASSUME NEW k \in SameFile(s, found), at <= k PROVE ~Fits(s, found, k)
      <4>1. UnitsUpTo(s, found)[at] <= UnitsUpTo(s, found)[k]
        BY <1>2, <3>2, <3>3, UnitsGrow
      <4>2. k \in 0..Len(TaskOrder)
        BY <1>2, TheList DEF Positions
      <4>3. UnitsUpTo(s, found)[k] \in Nat
        BY <4>2, UnitsAddUp
      <4> QED BY <3>2, <4>1, <4>3 DEF Fits
    <3>4. \A k \in SameFile(s, found) : k < at \/ at <= k
      BY <1>2, <1>3
    <3> QED BY <1>1, <3>3, <3>4
  <2> QED BY <2>1, <2>2
<1>5. all = taken
  BY <1>1, <1>4
<1>6. MergedGroup(s, found) = IF taken = {} THEN {found} ELSE taken
  BY <1>1, <1>5 DEF MergedGroup
<1>7. taken = {} <=> selected = <<>>
  BY <1>1
<1>8. {selected'[i] : i \in DOMAIN selected'} = MergedGroup(s, found)
  <2>1. CASE selected = <<>>
    <3>1. selected' = <<found>>
      BY <2>1 DEF Stop
    <3> QED BY <1>6, <1>7, <2>1, <3>1
  <2>2. CASE selected # <<>>
    BY <1>6, <1>7, <2>2 DEF Stop
  <2> QED BY <2>1, <2>2
<1>9. TypeInv' /\ ScanInv' /\ FoundInv' /\ CollectInv'
  BY <1>1 DEF Stop, PickerInv, TypeInv, ScanInv, FoundInv, CollectInv
<1>10. LoopsComputeOperators'
  BY <1>1, <1>8 DEF Stop, LoopsComputeOperators, PickerInv, TypeInv
<1>11. IntegrationRunsLast'
  BY <1>1 DEF Stop, IntegrationRunsLast, Integration, Implementation
<1>12. ~Settled(s, found) /\ \A t \in taken : ~Settled(s, t)
  BY <1>1 DEF FirstInFile, SameFile, Open
<1>13. GroupIsWithinLimit'
  <2>1. CASE selected = <<>>
    <3>1. selected' = <<found>>
      BY <2>1 DEF Stop
    <3> QED BY <1>12, <3>1 DEF Stop, GroupIsWithinLimit
  <2>2. CASE selected # <<>>
    BY <1>1, <1>12, <2>2 DEF Stop, GroupIsWithinLimit
  <2> QED BY <2>1, <2>2
<1> QED BY <1>9, <1>10, <1>11, <1>13 DEF PickerInv

LEMMA PickerStutters == PickerInv /\ UNCHANGED vars => PickerInv'
<1> SUFFICES ASSUME PickerInv, UNCHANGED vars PROVE PickerInv'
  OBVIOUS
<1>1. TypeInv' /\ FoundInv'
  BY DEF vars, PickerInv, TypeInv, FoundInv
<1>2. /\ StateAt(at)' = StateAt(at) /\ PendingAt(at)' = PendingAt(at)
      /\ NoneBefore(at)' = NoneBefore(at)
  BY Zenon DEF vars, NoneBefore, StateAt, DoneBefore, LostBefore, PendingAt
<1>3. ScanInv'
  BY <1>2 DEF vars, PickerInv, ScanInv
<1>4. CollectInv'
  BY DEF vars, PickerInv, CollectInv, FirstInFile
<1>5. LoopsComputeOperators' /\ IntegrationRunsLast' /\ GroupIsWithinLimit'
  BY DEF vars, PickerInv, LoopsComputeOperators, IntegrationRunsLast, GroupIsWithinLimit
<1> QED BY <1>1, <1>3, <1>4, <1>5 DEF PickerInv

LEMMA PickerInvariant == Spec => []PickerInv
<1>1. PickerInv /\ [Next]_vars => PickerInv'
  BY SkipSettledKeeps, RecoverKeeps, DeferKeeps, SkipDoomedKeeps, FindKeeps,
     FindNothingKeeps, SkipOtherKeeps, TakeKeeps, StopKeeps, PickerStutters DEF Next
<1> QED BY PickerInit, <1>1, PTL DEF Spec

-----------------------------------------------------------------------------
(* The three properties of the picker.                                     *)

\* The loops of get_next_merged_tasks find the task, leave the state and
\* collect the group that the operators of TaskPicker say.
THEOREM LoopsAreTheOperators == Spec => []LoopsComputeOperators
<1>1. PickerInv => LoopsComputeOperators
  BY DEF PickerInv
<1> QED BY PickerInvariant, <1>1, PTL

\* An integration test is handed out only when every implementation task has
\* an outcome and none of its own subtree has failed.
THEOREM IntegrationTestsRunLast == Spec => []IntegrationRunsLast
<1>1. PickerInv => IntegrationRunsLast
  BY DEF PickerInv
<1> QED BY PickerInvariant, <1>1, PTL

\* A group starts with the task found, holds open tasks only, and exceeds
\* --max-units only if its one task does by itself.
THEOREM GroupsRespectTheLimit == Spec => []GroupIsWithinLimit
<1>1. PickerInv => GroupIsWithinLimit
  BY DEF PickerInv
<1> QED BY PickerInvariant, <1>1, PTL
=============================================================================
