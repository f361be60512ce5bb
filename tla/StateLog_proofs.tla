--------------------------- MODULE StateLog_proofs ---------------------------
(***************************************************************************)
(* Proofs about StateLog: its types, that the second save after one cut    *)
(* short is durable, and that the file implements StateStore, the store    *)
(* RunBatch is built on.                                                   *)
(*                                                                         *)
(* The last needs an assumption.  A compaction keeps KeepLast lines, and   *)
(* what a load returns has to be among them; every interruption can leave  *)
(* one more line that holds nothing after it.                              *)
(***************************************************************************)
EXTENDS StateLog, SequenceTheorems, WellFoundedInduction, TLAPS

Lines == Snapshots \cup {Corrupt, Undecodable}

Valid(f) == {i \in DOMAIN f : f[i] \in Snapshots}

Front(f) == SubSeq(f, 1, Len(f) - 1)

\* What is common to all states: only an append leaves an unterminated line;
\* a save under way may return; the temporary file holds the last lines.
Writing ==
    /\ ~terminated => lines # <<>> /\ streak = 0
    /\ pc = "append" => saves < MaxSaves
    /\ pc \in {"compact", "replace"} => terminated
    /\ pc = "replace" =>
          /\ Readable(lines) /\ Len(lines) > KeepLast
          /\ tmp = SubSeq(lines, Len(lines) - KeepLast + 1, Len(lines))
    /\ streak = 2 => lines # <<>> /\ lines[Len(lines)] = last

IInv == TypeOK /\ Writing

\* No more than c lines without a snapshot follow the last one with one.
Near(f, c) == Valid(f) = {} \/ \E i \in Valid(f) : Len(f) - i <= c

\* A line that is unterminated may yet be lost, with those after its
\* predecessor.
Kept ==
    /\ Near(lines, crashes)
    /\ ~terminated => crashes > 0 /\ Near(Front(lines), crashes - 1)

-----------------------------------------------------------------------------
\* Load, by the last line that holds a snapshot.

\* A set of naturals that is not empty has a least element.
LEMMA LeastElement ==
    ASSUME NEW S, S \subseteq Nat, S # {}
    PROVE  \E i \in S : \A j \in S : i <= j
  <1>1. PICK i \in S : \A j \in S : ~ (<<j, i>> \in OpToRel(<, Nat))
    BY NatLessThanWellFounded, WFMin, Zenon
  <1>2. ASSUME NEW j \in S, j < i
        PROVE  <<j, i>> \in OpToRel(<, Nat)
    BY <1>2 DEF OpToRel
  <1>3. \A j \in S : ~(j < i)
    BY <1>1, <1>2, Zenon
  <1> QED
    BY <1>3

LEMMA LastValid ==
    ASSUME NEW f \in Seq(Lines), Valid(f) # {}
    PROVE  \E i \in Valid(f) : \A j \in Valid(f) : j <= i
  <1> DEFINE S == {Len(f) - j : j \in Valid(f)}
  <1>1. Valid(f) \subseteq 1 .. Len(f) /\ Len(f) \in Nat
    BY DEF Valid
  <1>2. S \subseteq Nat /\ S # {}
    BY <1>1
  <1>3. PICK d \in S : \A e \in S : d <= e
    BY <1>2, LeastElement
  <1>4. PICK i \in Valid(f) : d = Len(f) - i
    BY <1>3
  <1>5. \A j \in Valid(f) : Len(f) - i <= Len(f) - j
    BY <1>3, <1>4
  <1> QED
    BY <1>1, <1>4, <1>5

LEMMA LoadLast ==
    ASSUME NEW f \in Seq(Lines), Readable(f),
           NEW i \in Valid(f), \A j \in Valid(f) : j <= i
    PROVE  Load(f) = f[i]
  <1>1. Valid(f) \subseteq Nat
    BY DEF Valid
  <1>2. Max(Valid(f)) = i
    <2>1. \A x : (x \in Valid(f) /\ \A y \in Valid(f) : x >= y) <=> x = i
      BY <1>1
    <2> QED
      BY <2>1 DEF Max
  <1> QED
    BY <1>2 DEF Load, Valid

LEMMA LoadNothing ==
    ASSUME NEW f, ~Readable(f) \/ Valid(f) = {}
    PROVE  Load(f) = Fresh
  BY DEF Load, Valid

\* Two files whose last snapshots are the same, d lines apart.
LEMMA LoadSame ==
    ASSUME NEW f \in Seq(Lines), NEW g \in Seq(Lines), NEW d \in Nat,
           Readable(f), Readable(g),
           \A i \in Valid(g) : i + d \in Valid(f) /\ f[i + d] = g[i],
           Valid(f) # {} => \E i \in Valid(f) : i - d \in Valid(g),
           \A i \in Valid(f) : i > d => i - d \in Valid(g)
    PROVE  Load(f) = Load(g)
  <1>1. CASE Valid(g) = {}
    BY <1>1, LoadNothing
  <1>2. CASE Valid(g) # {}
    <2>1. PICK i \in Valid(g) : \A j \in Valid(g) : j <= i
      BY <1>2, LastValid
    <2>2. Valid(f) \subseteq Nat /\ Valid(g) \subseteq Nat
      BY DEF Valid
    <2>3. i + d \in Valid(f) /\ f[i + d] = g[i]
      BY <2>1
    <2>4. \A j \in Valid(f) : j <= i + d
      <3>1. SUFFICES ASSUME NEW j \in Valid(f), j > d PROVE j <= i + d
        BY <2>2
      <3>2. j - d <= i
        BY <2>1, <3>1
      <3> QED
        BY <2>2, <3>2
    <2> QED
      BY <2>1, <2>3, <2>4, LoadLast
  <1> QED
    BY <1>1, <1>2

-----------------------------------------------------------------------------
\* A line at the end of a file.

LEMMA AppendLineFacts ==
    ASSUME NEW f \in Seq(Lines), NEW x \in Lines
    PROVE  /\ Append(f, x) \in Seq(Lines)
           /\ Len(Append(f, x)) = Len(f) + 1
           /\ DOMAIN Append(f, x) = 1 .. Len(f) + 1
           /\ \A i \in 1 .. Len(f) : Append(f, x)[i] = f[i]
           /\ Append(f, x)[Len(f) + 1] = x
           /\ Front(Append(f, x)) = f
  <1>1. /\ Append(f, x) \in Seq(Lines) /\ Len(Append(f, x)) = Len(f) + 1
        /\ DOMAIN Append(f, x) = 1 .. Len(f) + 1
        /\ \A i \in 1 .. Len(f) : Append(f, x)[i] = f[i]
        /\ Append(f, x)[Len(f) + 1] = x
    BY AppendProperties
  <1>2. Front(Append(f, x)) = f
    BY <1>1, SMT DEF Front
  <1> QED
    BY <1>1, <1>2

LEMMA LastLineEqual ==
    ASSUME NEW f \in Seq(Lines), NEW g \in Seq(Lines), NEW x \in Lines,
           Len(f) = Len(g) + 1, \A i \in 1 .. Len(g) : f[i] = g[i],
           f[Len(g) + 1] = x
    PROVE  f = Append(g, x)
  <1> DEFINE h == Append(g, x)
  <1>1. h \in Seq(Lines) /\ Len(h) = Len(g) + 1 /\ h[Len(g) + 1] = x
        /\ \A i \in 1 .. Len(g) : h[i] = g[i]
    BY AppendLineFacts
  <1> HIDE DEF h
  <1>2. \A i \in 1 .. Len(f) : f[i] = h[i]
    BY <1>1, LenProperties
  <1>3. f = h
    BY <1>1, <1>2, SeqEqual
  <1> QED
    BY <1>3 DEF h

\* Whatever is written on an unterminated line takes its place.
LEMMA LastLineFacts ==
    ASSUME NEW f \in Seq(Lines), f # <<>>
    PROVE  /\ Front(f) \in Seq(Lines) /\ f[Len(f)] \in Lines
           /\ f = Append(Front(f), f[Len(f)])
           /\ \A x \in Lines : [f EXCEPT ![Len(f)] = x] = Append(Front(f), x)
           /\ Len(Front(f)) = Len(f) - 1
  <1>1. Len(f) \in Nat /\ Len(f) > 0 /\ f[Len(f)] \in Lines
    BY EmptySeq, ElementOfSeq
  <1>2. /\ Front(f) \in Seq(Lines) /\ Len(Front(f)) = Len(f) - 1
        /\ \A i \in 1 .. Len(f) - 1 : Front(f)[i] = f[i]
    <2> DEFINE n == Len(f) - 1
    <2>1. n \in Nat /\ \A i \in 1 .. n : f[i] \in Lines
      BY <1>1, ElementOfSeq
    <2>2. /\ SubSeq(f, 1, n) \in Seq(Lines) /\ Len(SubSeq(f, 1, n)) = n
          /\ \A i \in 1 .. n : SubSeq(f, 1, n)[i] = f[i]
      <3> HIDE DEF n
      <3>1. /\ SubSeq(f, 1, n) \in Seq(Lines)
            /\ Len(SubSeq(f, 1, n)) = IF 1 <= n THEN n - 1 + 1 ELSE 0
            /\ \A i \in 1 .. n - 1 + 1 : SubSeq(f, 1, n)[i] = f[1 + i - 1]
        BY <2>1, SubSeqProperties
      <3>2. \A i \in 1 .. n : i \in 1 .. n - 1 + 1 /\ 1 + i - 1 = i
        BY <2>1
      <3> QED
        BY <2>1, <3>1, <3>2
    <2>3. n = Len(f) - 1 /\ Front(f) = SubSeq(f, 1, n)
      BY DEF Front
    <2> HIDE DEF n
    <2> QED
      BY <2>2, <2>3
  <1>3. f = Append(Front(f), f[Len(f)])
    <2>1. Len(f) = Len(Front(f)) + 1 /\ f[Len(Front(f)) + 1] = f[Len(f)]
          /\ \A i \in 1 .. Len(Front(f)) : f[i] = Front(f)[i]
      BY <1>1, <1>2
    <2> QED
      BY <1>1, <1>2, <2>1, LastLineEqual
  <1>4. ASSUME NEW x \in Lines PROVE [f EXCEPT ![Len(f)] = x] = Append(Front(f), x)
    <2> DEFINE g == [f EXCEPT ![Len(f)] = x]
    <2>1. /\ g \in Seq(Lines) /\ Len(g) = Len(f) /\ g[Len(f)] = x
          /\ \A i \in 1 .. Len(f) - 1 : g[i] = f[i]
      BY <1>1, ExceptSeq
    <2> HIDE DEF g
    <2>2. g = Append(Front(f), x)
      BY <1>1, <1>2, <2>1, LastLineEqual
    <2> QED
      BY <2>2 DEF g
  <1> QED
    BY <1>1, <1>2, <1>3, <1>4

LEMMA ReadableAppend ==
    ASSUME NEW f \in Seq(Lines), NEW x \in Lines
    PROVE  Readable(Append(f, x)) <=> Readable(f) /\ x # Undecodable
  <1>1. DOMAIN f = 1 .. Len(f) /\ Len(f) \in Nat
    BY LenProperties
  <1> QED
    BY <1>1, AppendLineFacts DEF Readable

LEMMA ValidAppend ==
    ASSUME NEW f \in Seq(Lines), NEW x \in Lines
    PROVE  Valid(Append(f, x)) = Valid(f) \cup (IF x \in Snapshots THEN {Len(f) + 1} ELSE {})
  <1>1. DOMAIN f = 1 .. Len(f) /\ Len(f) \in Nat
    BY LenProperties
  <1> QED
    BY <1>1, AppendLineFacts DEF Valid

LEMMA LoadAppend ==
    ASSUME NEW f \in Seq(Lines), NEW x \in Lines, Readable(f), x # Undecodable
    PROVE  Load(Append(f, x)) = IF x \in Snapshots THEN x ELSE Load(f)
  <1>1. /\ Append(f, x) \in Seq(Lines) /\ Readable(Append(f, x))
        /\ \A i \in 1 .. Len(f) : Append(f, x)[i] = f[i]
        /\ Append(f, x)[Len(f) + 1] = x
    BY AppendLineFacts, ReadableAppend
  <1>2. Valid(f) \subseteq 1 .. Len(f) /\ Len(f) \in Nat
    BY LenProperties DEF Valid
  <1>3. CASE x \in Snapshots
    <2>1. Len(f) + 1 \in Valid(Append(f, x))
          /\ \A j \in Valid(Append(f, x)) : j <= Len(f) + 1
      BY <1>2, <1>3, ValidAppend
    <2> QED
      BY <1>1, <1>3, <2>1, LoadLast
  <1>4. CASE x \notin Snapshots
    <2>1. Valid(Append(f, x)) = Valid(f)
      BY <1>4, ValidAppend
    <2>2. CASE Valid(f) = {}
      BY <1>4, <2>1, <2>2, LoadNothing
    <2>3. CASE Valid(f) # {}
      <3>1. PICK i \in Valid(f) : \A j \in Valid(f) : j <= i
        BY <2>3, LastValid
      <3>2. Load(f) = f[i] /\ Load(Append(f, x)) = Append(f, x)[i]
        BY <1>1, <2>1, <3>1, LoadLast
      <3> QED
        BY <1>1, <1>2, <1>4, <3>1, <3>2
    <2> QED
      BY <2>2, <2>3
  <1> QED
    BY <1>3, <1>4

-----------------------------------------------------------------------------
\* A compaction that keeps the last n lines.

LEMMA LastLinesFacts ==
    ASSUME NEW f \in Seq(Lines), NEW n \in Nat \ {0}, Len(f) > n,
           NEW g, g = SubSeq(f, Len(f) - n + 1, Len(f))
    PROVE  /\ g \in Seq(Lines) /\ Len(g) = n /\ DOMAIN g = 1 .. n
           /\ \A i \in 1 .. n : g[i] = f[i + (Len(f) - n)]
           /\ g[Len(g)] = f[Len(f)]
  <1> DEFINE m == Len(f) - n + 1
             l == Len(f)
  <1>1. l \in Nat /\ m \in Nat /\ m <= l /\ DOMAIN f = 1 .. l
        /\ \A i \in m .. l : f[i] \in Lines
    BY LenProperties, ElementOfSeq
  <1>2. /\ SubSeq(f, m, l) \in Seq(Lines) /\ Len(SubSeq(f, m, l)) = l - m + 1
        /\ \A i \in 1 .. l - m + 1 : SubSeq(f, m, l)[i] = f[m + i - 1]
    <2> HIDE DEF m, l
    <2> QED
      BY <1>1, SubSeqProperties
  <1>3. l - m + 1 = n /\ \A i \in 1 .. n : m + i - 1 = i + (l - n)
    BY <1>1
  <1>4. g \in Seq(Lines) /\ Len(g) = n /\ \A i \in 1 .. n : g[i] = f[i + (l - n)]
    <2>1. g = SubSeq(f, m, l)
      OBVIOUS
    <2> HIDE DEF m, l
    <2> QED
      BY <1>2, <1>3, <2>1
  <1>5. DOMAIN g = 1 .. n /\ \A i \in 1 .. n : i + (l - n) \in 1 .. l
    BY <1>1, <1>4, LenProperties
  <1>6. g[n] = f[l]
    BY <1>1, <1>4
  <1> QED
    BY <1>4, <1>5, <1>6

\* It loads the same, as long as the last snapshot is among them.
LEMMA LoadLastLines ==
    ASSUME NEW f \in Seq(Lines), NEW n \in Nat \ {0}, Len(f) > n,
           NEW g, g = SubSeq(f, Len(f) - n + 1, Len(f)),
           Readable(f), NEW c \in Nat, c < n, Near(f, c)
    PROVE  Load(g) = Load(f) /\ Near(g, c) /\ Readable(g)
  <1> DEFINE d == Len(f) - n
  <1>1. d \in Nat /\ Valid(f) \subseteq 1 .. Len(f) /\ Len(f) \in Nat
    BY LenProperties DEF Valid
  <1>2. /\ g \in Seq(Lines) /\ Readable(g) /\ Len(g) = n
        /\ \A i : i \in Valid(g) <=> i \in 1 .. n /\ i + d \in Valid(f)
        /\ \A i \in 1 .. n : g[i] = f[i + d]
    <2>1. g \in Seq(Lines) /\ Len(g) = n
      BY LastLinesFacts
    <2>2. \A i \in 1 .. n : g[i] = f[i + d]
      BY LastLinesFacts
    <2>3. DOMAIN g = 1 .. n /\ DOMAIN f = 1 .. Len(f)
      BY <2>1, LenProperties
    <2>4. \A i \in 1 .. n : i + d \in 1 .. Len(f)
      BY <1>1
    <2> HIDE DEF d
    <2>5. Readable(g)
      BY <2>2, <2>3, <2>4 DEF Readable
    <2>6. \A i : i \in Valid(g) <=> i \in 1 .. n /\ i + d \in Valid(f)
      BY <2>2, <2>3, <2>4 DEF Valid
    <2> QED
      BY <2>1, <2>2, <2>5, <2>6
  <1>3. \A i \in Valid(f) : i > d => i - d \in Valid(g)
    <2>1. SUFFICES ASSUME NEW i \in Valid(f), i > d PROVE i - d \in Valid(g)
      OBVIOUS
    <2>2. i - d \in 1 .. n /\ (i - d) + d = i
      BY <1>1, <2>1
    <2> QED
      BY <1>2, <2>2
  <1>8. \A i \in Valid(g) : i + d \in Valid(f) /\ f[i + d] = g[i]
    BY <1>2
  <1> HIDE DEF d
  <1>4. \A i \in Valid(f) : Len(f) - i <= c => i > d
    BY <1>1 DEF d
  <1>5. Valid(f) # {} => \E i \in Valid(f) : i - d \in Valid(g)
    BY <1>3, <1>4 DEF Near
  <1>6. Load(f) = Load(g)
    BY <1>1, <1>2, <1>3, <1>5, <1>8, LoadSame
  <1>7. Near(g, c)
    <2>1. CASE Valid(f) = {}
      BY <2>1, <1>2 DEF Near
    <2>2. CASE Valid(f) # {}
      <3>1. PICK i \in Valid(f) : Len(f) - i <= c
        BY <2>2 DEF Near
      <3>2. i - d \in Valid(g) /\ Len(g) - (i - d) <= c
        BY <3>1, <1>1, <1>2, <1>3, <1>4 DEF d
      <3> QED
        BY <3>2 DEF Near
    <2> QED
      BY <2>1, <2>2
  <1> QED
    BY <1>2, <1>6, <1>7

-----------------------------------------------------------------------------
\* What is written at the end of the file.

\* The lines that stay as they are, and the line that comes after them.
Base == IF terminated THEN lines ELSE Front(lines)

Glued(x) ==
    IF terminated THEN x
    ELSE IF Undecodable \in {lines[Len(lines)], x} THEN Undecodable ELSE Corrupt

LEMMA WrittenFacts ==
    ASSUME IInv, NEW x \in Lines
    PROVE  /\ Base \in Seq(Lines) /\ Glued(x) \in Lines
           /\ Written(x) = Append(Base, Glued(x))
  <1>1. lines \in Seq(Lines) /\ terminated \in BOOLEAN
    BY DEF IInv, TypeOK, Lines
  <1>2. CASE terminated
    BY <1>1, <1>2 DEF Base, Glued, Written
  <1>3. CASE ~terminated
    <2>1. lines # <<>>
      BY <1>3 DEF IInv, Writing
    <2>2. Front(lines) \in Seq(Lines)
          /\ \A y \in Lines : [lines EXCEPT ![Len(lines)] = y] = Append(Front(lines), y)
      BY <1>1, <2>1, LastLineFacts
    <2>3. Glued(x) \in Lines
      BY <1>3 DEF Glued, Lines
    <2>4. Written(x) = [lines EXCEPT ![Len(lines)] = Glued(x)]
      BY <1>3 DEF Written, Glued
    <2> QED
      BY <1>3, <2>2, <2>3, <2>4 DEF Base
  <1> QED
    BY <1>1, <1>2, <1>3

LEMMA StreakGrows ==
    ASSUME NEW k \in 0 .. 2
    PROVE  Min({2, k + 1}) = IF k = 0 THEN 1 ELSE 2
  <1> DEFINE v == IF k = 0 THEN 1 ELSE 2
  <1>1. \A x : (x \in {2, k + 1} /\ \A y \in {2, k + 1} : x <= y) <=> x = v
    OBVIOUS
  <1> QED
    BY <1>1 DEF Min

-----------------------------------------------------------------------------
\* The inductive invariant.

LEMMA InitIInv == Init => IInv
  BY StateLogConstants DEF Init, IInv, TypeOK, Writing

LEMMA AppendLineIInv == IInv /\ AppendLine => IInv'
  <1> SUFFICES ASSUME IInv, AppendLine PROVE IInv'
    OBVIOUS
  <1>1. buf \in Lines /\ buf \in Snapshots /\ streak \in 0 .. 2 /\ saves < MaxSaves
    BY DEF IInv, TypeOK, Writing, AppendLine, Lines
  <1>2. /\ lines' \in Seq(Lines) /\ lines' # <<>>
        /\ lines'[Len(lines')] = Glued(buf)
    <2>1. /\ Base \in Seq(Lines) /\ Glued(buf) \in Lines
          /\ lines' = Append(Base, Glued(buf))
      BY <1>1, WrittenFacts DEF AppendLine
    <2> QED
      BY <2>1, AppendProperties
  <1>3. streak' = IF streak = 0 THEN 1 ELSE 2
    BY <1>1, StreakGrows DEF AppendLine
  <1>4. streak' = 2 => lines'[Len(lines')] = last'
    BY <1>1, <1>2, <1>3 DEF IInv, Writing, AppendLine, Glued
  <1>5. TypeOK'
    <2>1. streak' \in 0 .. 2 /\ saves' \in 0 .. MaxSaves
      BY <1>1, <1>3, StateLogConstants DEF IInv, TypeOK, AppendLine
    <2> QED
      BY <1>1, <1>2, <2>1 DEF IInv, TypeOK, AppendLine, Lines
  <1> QED
    BY <1>2, <1>4, <1>5 DEF IInv, Writing, AppendLine

LEMMA CutShortIInv ==
    ASSUME IInv, NEW how \in Truncations, CutShort(how)
    PROVE  IInv'
  <1> DEFINE x == [torn |-> Corrupt, whole |-> buf, undecodable |-> Undecodable][how]
  <1>1. x \in Lines /\ crashes < MaxCrashes
    BY StateLogConstants DEF IInv, TypeOK, CutShort, Lines
  <1>2. lines' = Written(x)
    BY DEF CutShort
  <1> HIDE DEF x
  <1>3. lines' \in Seq(Lines) /\ lines' # <<>>
    <2>1. /\ Base \in Seq(Lines) /\ Glued(x) \in Lines
          /\ lines' = Append(Base, Glued(x))
      BY <1>1, <1>2, WrittenFacts
    <2> QED
      BY <2>1, AppendProperties
  <1>4. TypeOK'
    <2>1. streak' \in 0 .. 2 /\ crashes' \in 0 .. MaxCrashes
      BY <1>1, StateLogConstants DEF IInv, TypeOK, CutShort
    <2> QED
      BY <1>3, <2>1, StateLogConstants DEF IInv, TypeOK, CutShort, Lines
  <1> QED
    BY <1>3, <1>4 DEF IInv, Writing, CutShort

\* A compaction writes and installs the last lines.
LEMMA LastLinesKept ==
    ASSUME IInv, Len(lines) > KeepLast
    PROVE  LET g == SubSeq(lines, Len(lines) - KeepLast + 1, Len(lines))
           IN  g \in Seq(Lines) /\ g # <<>> /\ g[Len(g)] = lines[Len(lines)]
  <1> DEFINE g == SubSeq(lines, Len(lines) - KeepLast + 1, Len(lines))
  <1>1. lines \in Seq(Lines) /\ KeepLast \in Nat \ {0}
    BY StateLogConstants DEF IInv, TypeOK, Lines
  <1>2. g \in Seq(Lines) /\ Len(g) = KeepLast /\ g[Len(g)] = lines[Len(lines)]
    BY <1>1, LastLinesFacts
  <1> HIDE DEF g
  <1>3. g # <<>>
    BY <1>1, <1>2, EmptySeq
  <1> QED
    BY <1>2, <1>3 DEF g

LEMMA NextIInv == IInv /\ [Next]_vars => IInv'
  <1> SUFFICES ASSUME IInv, [Next]_vars PROVE IInv'
    OBVIOUS
  <1>1. ASSUME NEW s \in Snapshots, BeginSave(s) PROVE IInv'
    BY <1>1 DEF IInv, TypeOK, Writing, BeginSave
  <1>2. CASE AppendLine
    BY <1>2, AppendLineIInv
  <1>3. CASE NoCompaction
    BY <1>3, StateLogConstants DEF IInv, TypeOK, Writing, NoCompaction
  <1>4. CASE WriteTmp
    <2>1. tmp' \in Seq(Lines)
      BY <1>4, LastLinesKept DEF WriteTmp
    <2> QED
      BY <1>4, <2>1 DEF IInv, TypeOK, Writing, WriteTmp, Lines
  <1>5. CASE Replace
    <2>1. /\ lines' \in Seq(Lines) /\ lines' # <<>>
          /\ lines'[Len(lines')] = lines[Len(lines)]
      BY <1>5, LastLinesKept DEF Replace, IInv, Writing
    <2>2. TypeOK'
      BY <1>5, <2>1, StateLogConstants DEF IInv, TypeOK, Replace, Lines
    <2> QED
      BY <1>5, <2>1, <2>2 DEF IInv, Writing, Replace
  <1>6. CASE Crash
    BY <1>6, StateLogConstants DEF IInv, TypeOK, Writing, Crash
  <1>7. ASSUME NEW how \in Truncations, CutShort(how) PROVE IInv'
    BY <1>7, CutShortIInv
  <1>8. CASE UNCHANGED vars
    BY <1>8 DEF IInv, TypeOK, Writing, vars
  <1> QED
    BY <1>1, <1>2, <1>3, <1>4, <1>5, <1>6, <1>7, <1>8 DEF Next

LEMMA SpecIInv == Spec => []IInv
  BY InitIInv, NextIInv, PTL DEF Spec

\* The writer's steps, in any order and with any interruptions, keep every
\* variable of save_code_gen_state in its type.
THEOREM TypeCorrect == Spec => []TypeOK
  <1>1. IInv => TypeOK
    BY DEF IInv
  <1> QED
    BY <1>1, SpecIInv, PTL

\* Two saves that returned since the last append cut short are enough: the
\* next load of a readable file returns the latest of them.
THEOREM TwoSavesAreDurable == Spec => []SecondSaveIsDurable
  <1>1. ASSUME IInv, streak = 2, Readable(lines) PROVE Load(lines) = last
    <2>1. /\ lines \in Seq(Lines) /\ lines # <<>>
          /\ lines[Len(lines)] = last /\ last \in Snapshots
      BY <1>1 DEF IInv, TypeOK, Writing, Lines
    <2>2. Len(lines) \in Valid(lines) /\ \A j \in Valid(lines) : j <= Len(lines)
      BY <2>1, EmptySeq, LenProperties DEF Valid
    <2> QED
      BY <1>1, <2>1, <2>2, LoadLast
  <1>2. IInv => SecondSaveIsDurable
    BY <1>1 DEF SecondSaveIsDurable
  <1> QED
    BY <1>2, SpecIInv, PTL

-----------------------------------------------------------------------------
\* The last snapshot stays among the lines a compaction keeps.

LEMMA NearGrows ==
    ASSUME NEW f \in Seq(Lines), NEW x \in Lines, NEW c \in Nat, Near(f, c)
    PROVE  /\ Near(f, c + 1) /\ Near(Append(f, x), c + 1)
           /\ x \in Snapshots => Near(Append(f, x), c)
  <1>1. Valid(f) \subseteq 1 .. Len(f) /\ Len(f) \in Nat
    BY LenProperties DEF Valid
  <1>2. Near(f, c + 1)
    BY <1>1 DEF Near
  <1>3. Len(Append(f, x)) = Len(f) + 1
    BY AppendLineFacts
  <1>4. ASSUME x \in Snapshots, NEW d \in Nat PROVE Near(Append(f, x), d)
    <2>1. Len(f) + 1 \in Valid(Append(f, x))
      BY <1>4, ValidAppend
    <2> QED
      BY <1>1, <1>3, <1>4, <2>1 DEF Near
  <1>5. CASE x \notin Snapshots
    <2>1. Valid(Append(f, x)) = Valid(f)
      BY <1>5, ValidAppend
    <2> QED
      BY <1>1, <1>2, <1>3, <1>5, <2>1 DEF Near
  <1> QED
    BY <1>2, <1>4, <1>5

LEMMA NearMonotone ==
    ASSUME NEW f \in Seq(Lines), NEW c \in Nat, NEW d \in Nat, c <= d, Near(f, c)
    PROVE  Near(f, d)
  <1>1. Valid(f) \subseteq Nat /\ Len(f) \in Nat
    BY LenProperties DEF Valid
  <1> QED
    BY <1>1 DEF Near

LEMMA InitKept == Init => Kept
  BY DEF Init, Kept, Near, Valid

LEMMA AppendLineKept == IInv /\ Kept /\ AppendLine => Kept'
  <1> SUFFICES ASSUME IInv, Kept, AppendLine PROVE Kept'
    OBVIOUS
  <1>1. buf \in Lines /\ buf \in Snapshots /\ crashes \in Nat
        /\ terminated \in BOOLEAN
    BY DEF IInv, TypeOK, Lines
  <1>2. /\ Base \in Seq(Lines) /\ Glued(buf) \in Lines
        /\ lines' = Append(Base, Glued(buf)) /\ terminated' /\ crashes' = crashes
    BY <1>1, WrittenFacts DEF AppendLine
  <1>3. Near(lines', crashes)
    <2>1. CASE terminated
      BY <1>1, <1>2, <2>1, NearGrows DEF Kept, Base, Glued
    <2>2. CASE ~terminated
      <3>1. crashes - 1 \in Nat /\ Near(Base, crashes - 1)
            /\ (crashes - 1) + 1 = crashes
        BY <1>1, <2>2 DEF Kept, Base
      <3> QED
        BY <1>2, <3>1, NearGrows
    <2> QED
      BY <1>1, <2>1, <2>2
  <1>4. Near(lines', crashes')
    BY <1>2, <1>3
  <1> QED
    BY <1>2, <1>4 DEF Kept

LEMMA CutShortKept ==
    ASSUME IInv, Kept, NEW how \in Truncations, CutShort(how)
    PROVE  Kept'
  <1> DEFINE x == [torn |-> Corrupt, whole |-> buf, undecodable |-> Undecodable][how]
  <1>1. x \in Lines /\ crashes \in Nat /\ terminated \in BOOLEAN
        /\ lines \in Seq(Lines)
    BY StateLogConstants DEF IInv, TypeOK, CutShort, Lines
  <1>2. lines' = Written(x) /\ terminated' = FALSE /\ crashes' = crashes + 1
    BY DEF CutShort
  <1> HIDE DEF x
  <1>3. /\ Base \in Seq(Lines) /\ Glued(x) \in Lines
        /\ lines' = Append(Base, Glued(x))
    BY <1>1, <1>2, WrittenFacts
  <1>4. Near(Base, crashes)
    <2>1. CASE terminated
      BY <2>1 DEF Kept, Base
    <2>2. CASE ~terminated
      <3>1. crashes - 1 \in Nat /\ crashes - 1 <= crashes /\ Near(Base, crashes - 1)
        BY <1>1, <2>2 DEF Kept, Base
      <3> QED
        BY <1>1, <1>3, <3>1, NearMonotone
    <2> QED
      BY <1>1, <2>1, <2>2
  <1>5. Near(lines', crashes + 1)
    BY <1>1, <1>3, <1>4, NearGrows
  <1>6. Front(lines') = Base
    BY <1>3, AppendLineFacts
  <1>7. Near(lines', crashes') /\ Near(Front(lines'), crashes' - 1)
        /\ crashes' > 0
    BY <1>1, <1>2, <1>4, <1>5, <1>6
  <1> QED
    BY <1>7 DEF Kept

\* What the writer has in mind when it compacts: nothing that counts is lost.
LEMMA ReplaceLoads ==
    ASSUME MaxCrashes < KeepLast, IInv, Kept, Replace
    PROVE  /\ Load(lines') = Load(lines) /\ Near(lines', crashes)
           /\ Readable(lines) /\ Readable(lines')
  <1>1. /\ lines \in Seq(Lines) /\ KeepLast \in Nat \ {0}
        /\ crashes \in Nat /\ crashes < KeepLast
    BY StateLogConstants DEF IInv, TypeOK, Lines
  <1>2. /\ Readable(lines) /\ Len(lines) > KeepLast
        /\ lines' = SubSeq(lines, Len(lines) - KeepLast + 1, Len(lines))
    BY DEF IInv, Writing, Replace
  <1>3. Near(lines, crashes)
    BY DEF Kept
  <1> DEFINE g == SubSeq(lines, Len(lines) - KeepLast + 1, Len(lines))
  <1>4. Load(g) = Load(lines) /\ Near(g, crashes) /\ Readable(g)
    BY <1>1, <1>2, <1>3, LoadLastLines
  <1> QED
    BY <1>2, <1>4

LEMMA NextKept ==
    ASSUME MaxCrashes < KeepLast, IInv, Kept, [Next]_vars
    PROVE  Kept'
  <1>1. CASE AppendLine
    BY <1>1, AppendLineKept
  <1>2. ASSUME NEW how \in Truncations, CutShort(how) PROVE Kept'
    BY <1>2, CutShortKept
  <1>3. CASE Replace
    <2>1. Near(lines', crashes) /\ crashes' = crashes /\ terminated'
      BY <1>3, ReplaceLoads DEF Replace, IInv, Writing
    <2> QED
      BY <2>1 DEF Kept
  <1>4. CASE Crash
    <2>1. /\ lines' = lines /\ terminated' = terminated
          /\ crashes' = crashes + 1 /\ crashes \in Nat
      BY <1>4 DEF Crash, IInv, TypeOK
    <2>2. Near(lines, crashes + 1)
      BY <2>1, NearMonotone DEF Kept, IInv, TypeOK, Lines
    <2>3. ~terminated => Near(Front(lines), crashes)
      <3>1. SUFFICES ASSUME ~terminated PROVE Near(Front(lines), crashes)
        OBVIOUS
      <3>2. Front(lines) \in Seq(Lines)
        BY <3>1, LastLineFacts DEF IInv, TypeOK, Writing, Lines
      <3>3. crashes - 1 \in Nat /\ crashes - 1 <= crashes
            /\ Near(Front(lines), crashes - 1)
        BY <2>1, <3>1 DEF Kept
      <3> QED
        BY <2>1, <3>2, <3>3, NearMonotone
    <2>4. crashes' > 0 /\ crashes' - 1 = crashes
      BY <2>1
    <2> QED
      BY <2>1, <2>2, <2>3, <2>4 DEF Kept
  <1>5. CASE UNCHANGED <<lines, terminated, crashes>>
    BY <1>5 DEF Kept
  <1>6. ASSUME NEW s \in Snapshots, BeginSave(s) PROVE Kept'
    BY <1>5, <1>6 DEF BeginSave
  <1>7. CASE NoCompaction \/ WriteTmp \/ UNCHANGED vars
    BY <1>5, <1>7 DEF NoCompaction, WriteTmp, vars
  <1> QED
    BY <1>1, <1>2, <1>3, <1>4, <1>6, <1>7 DEF Next

-----------------------------------------------------------------------------
\* The refinement.

\* Ending, and what is behind a whole last line, of any file.
EndOf(f, t) ==
    CASE ~Readable(f) -> "undecodable"
      [] Readable(f) /\ t -> "clean"
      [] OTHER -> IF f[Len(f)] = Corrupt THEN "torn" ELSE "whole"

Behind(f, t) == IF EndOf(f, t) = "whole" THEN Load(Front(f)) ELSE Fresh

\* The three values of the store for a file that ends in the line y.
LEMMA StoreOfAppend ==
    ASSUME NEW f \in Seq(Lines), NEW y \in Lines, NEW t \in BOOLEAN
    PROVE  LET g == Append(f, y)
               v == Load(g)
               e == EndOf(g, t)
               h == Behind(g, t)
           IN  /\ ~Readable(f) \/ y = Undecodable =>
                      v = Fresh /\ e = "undecodable" /\ h = Fresh
               /\ Readable(f) /\ t /\ y \in Snapshots =>
                      v = y /\ e = "clean" /\ h = Fresh
               /\ Readable(f) /\ t /\ y = Corrupt =>
                      v = Load(f) /\ e = "clean" /\ h = Fresh
               /\ Readable(f) /\ ~t /\ y = Corrupt =>
                      v = Load(f) /\ e = "torn" /\ h = Fresh
               /\ Readable(f) /\ ~t /\ y \in Snapshots =>
                      v = y /\ e = "whole" /\ h = Load(f)
  <1> DEFINE g == Append(f, y)
  <1>1. /\ Front(g) = f /\ g[Len(g)] = y
        /\ Readable(g) <=> Readable(f) /\ y # Undecodable
    BY AppendLineFacts, ReadableAppend
  <1>2. ~Readable(g) => Load(g) = Fresh
    BY LoadNothing
  <1>3. Readable(g) => Load(g) = IF y \in Snapshots THEN y ELSE Load(f)
    BY <1>1, LoadAppend
  <1>4. Corrupt # Undecodable /\ Corrupt \notin Snapshots /\ Undecodable \notin Snapshots
    BY StateLogConstants DEF Corrupt, Undecodable
  <1> HIDE DEF g
  <1>5. ~Readable(g) => EndOf(g, t) = "undecodable" /\ Behind(g, t) = Fresh
    BY DEF EndOf, Behind
  <1>6. Readable(g) /\ t => EndOf(g, t) = "clean" /\ Behind(g, t) = Fresh
    BY DEF EndOf, Behind
  <1>7. Readable(g) /\ ~t /\ y = Corrupt => EndOf(g, t) = "torn" /\ Behind(g, t) = Fresh
    BY <1>1 DEF EndOf, Behind
  <1>8. Readable(g) /\ ~t /\ y # Corrupt => EndOf(g, t) = "whole" /\ Behind(g, t) = Load(f)
    BY <1>1 DEF EndOf, Behind
  <1> QED
    BY <1>1, <1>2, <1>3, <1>4, <1>5, <1>6, <1>7, <1>8 DEF g

\* What the store's three values say of the file as it is.
LEMMA StoreOfFile ==
    ASSUME IInv
    PROVE  LET v == Load(lines)
               e == EndOf(lines, terminated)
               h == Behind(lines, terminated)
           IN  /\ ~Readable(lines) =>
                      v = Fresh /\ e = "undecodable" /\ h = Fresh
               /\ Readable(lines) =>
                      /\ Readable(Base) /\ (~terminated => lines[Len(lines)] # Undecodable)
                      /\ e \in {"clean", "torn", "whole"} /\ (e = "clean" <=> terminated)
                      /\ e # "whole" => Load(Base) = v /\ h = Fresh
                      /\ e = "whole" => Load(Base) = h
  <1>1. lines \in Seq(Lines) /\ terminated \in BOOLEAN
    BY DEF IInv, TypeOK, Lines
  <1>2. CASE terminated
    BY <1>1, <1>2, LoadNothing DEF Base, EndOf, Behind
  <1>3. CASE ~terminated
    <2> DEFINE z == lines[Len(lines)]
    <2>1. lines # <<>>
      BY <1>3 DEF IInv, Writing
    <2>2. /\ Base \in Seq(Lines) /\ z \in Lines /\ lines = Append(Base, z)
      BY <1>1, <1>3, <2>1, LastLineFacts DEF Base
    <2>3. Readable(lines) <=> Readable(Base) /\ z # Undecodable
      BY <2>2, ReadableAppend
    <2>4. z = Undecodable \/ z = Corrupt \/ z \in Snapshots
      BY <2>2 DEF Lines
    <2> HIDE DEF z
    <2>5. ~Readable(lines) \/ z = Undecodable =>
             /\ Load(lines) = Fresh /\ EndOf(lines, terminated) = "undecodable"
             /\ Behind(lines, terminated) = Fresh
      BY <2>2, <2>3, <1>1, StoreOfAppend
    <2>6. Readable(lines) /\ z = Corrupt =>
             /\ Load(lines) = Load(Base) /\ EndOf(lines, terminated) = "torn"
             /\ Behind(lines, terminated) = Fresh
      BY <2>2, <2>3, <1>1, <1>3, StoreOfAppend
    <2>7. Readable(lines) /\ z \in Snapshots =>
             /\ EndOf(lines, terminated) = "whole"
             /\ Behind(lines, terminated) = Load(Base)
      BY <2>2, <2>3, <1>1, <1>3, StoreOfAppend
    <2> QED
      BY <1>3, <2>3, <2>4, <2>5, <2>6, <2>7 DEF z
  <1> QED
    BY <1>1, <1>2, <1>3

\* The store's variables, now and after a step.
LEMMA StoreVariables ==
    /\ Ending = EndOf(lines, terminated)
    /\ (IF Ending = "whole" THEN Load(SubSeq(lines, 1, Len(lines) - 1)) ELSE Fresh)
           = Behind(lines, terminated)
    /\ Ending' = EndOf(lines', terminated')
    /\ (IF Ending = "whole" THEN Load(SubSeq(lines, 1, Len(lines) - 1)) ELSE Fresh)'
           = Behind(lines', terminated')
    /\ Load(lines)' = Load(lines')
  BY DEF Ending, EndOf, Behind, Front

\* The three values after a write: nothing is readable any more, or the base is.
LEMMA StoreAfterWrite ==
    ASSUME IInv, NEW x \in Lines, lines' = Written(x), terminated' \in BOOLEAN
    PROVE  LET v == Load(lines')
               e == EndOf(lines', terminated')
               h == Behind(lines', terminated')
           IN  /\ ~Readable(lines) \/ x = Undecodable =>
                      v = Fresh /\ e = "undecodable" /\ h = Fresh
               /\ Readable(lines) /\ terminated' /\ x \in Snapshots =>
                      /\ v = IF terminated THEN x ELSE Load(Base)
                      /\ e = "clean" /\ h = Fresh
               /\ Readable(lines) /\ ~terminated' /\ (x = Corrupt \/ (x \in Snapshots /\ ~terminated)) =>
                      v = Load(Base) /\ e = "torn" /\ h = Fresh
               /\ Readable(lines) /\ ~terminated' /\ x \in Snapshots /\ terminated =>
                      v = x /\ e = "whole" /\ h = Load(Base)
  <1> DEFINE y == Glued(x)
  <1>1. Base \in Seq(Lines) /\ y \in Lines /\ lines' = Append(Base, y)
    BY WrittenFacts
  <1>2. terminated \in BOOLEAN /\ Corrupt # Undecodable
        /\ Corrupt \notin Snapshots /\ Undecodable \notin Snapshots
    BY StateLogConstants DEF IInv, TypeOK, Corrupt, Undecodable
  <1>3. x = Undecodable => y = Undecodable
    BY DEF Glued
  <1>4. Readable(lines) /\ x # Undecodable =>
           Readable(Base) /\ y = IF terminated THEN x ELSE Corrupt
    BY StoreOfFile DEF Glued
  <1>5. ~Readable(lines) => ~Readable(Base) \/ y = Undecodable
    <2>1. CASE terminated
      BY <2>1 DEF Base
    <2>2. CASE ~terminated
      <3>1. lines \in Seq(Lines) /\ lines # <<>>
        BY <2>2 DEF IInv, TypeOK, Writing, Lines
      <3>2. /\ Base \in Seq(Lines) /\ lines[Len(lines)] \in Lines
            /\ lines = Append(Base, lines[Len(lines)])
        BY <2>2, <3>1, LastLineFacts DEF Base
      <3>3. ~Readable(lines) => ~Readable(Base) \/ lines[Len(lines)] = Undecodable
        BY <3>2, ReadableAppend
      <3> QED
        BY <2>2, <3>3 DEF Glued
    <2> QED
      BY <1>2, <2>1, <2>2
  <1> HIDE DEF y
  <1>6. ~Readable(Base) \/ y = Undecodable =>
           /\ Load(lines') = Fresh /\ EndOf(lines', terminated') = "undecodable"
           /\ Behind(lines', terminated') = Fresh
    BY <1>1, StoreOfAppend
  <1>7. Readable(Base) /\ terminated' /\ y # Undecodable =>
           /\ Load(lines') = IF y \in Snapshots THEN y ELSE Load(Base)
           /\ EndOf(lines', terminated') = "clean" /\ Behind(lines', terminated') = Fresh
    BY <1>1, <1>2, StoreOfAppend DEF Lines
  <1>8. Readable(Base) /\ ~terminated' /\ y = Corrupt =>
           /\ Load(lines') = Load(Base) /\ EndOf(lines', terminated') = "torn"
           /\ Behind(lines', terminated') = Fresh
    BY <1>1, StoreOfAppend
  <1>9. Readable(Base) /\ ~terminated' /\ y \in Snapshots =>
           /\ Load(lines') = y /\ EndOf(lines', terminated') = "whole"
           /\ Behind(lines', terminated') = Load(Base)
    BY <1>1, StoreOfAppend
  <1> QED
    BY <1>2, <1>3, <1>4, <1>5, <1>6, <1>7, <1>8, <1>9

LEMMA AppendLineSaves == IInv /\ AppendLine => Store!Save(buf)
  <1> SUFFICES ASSUME IInv, AppendLine PROVE Store!Save(buf)
    OBVIOUS
  <1>1. buf \in Lines /\ buf \in Snapshots /\ buf # Undecodable
        /\ terminated \in BOOLEAN
    BY StateLogConstants DEF IInv, TypeOK, Lines
  <1>2. lines' = Written(buf) /\ terminated'
    BY DEF AppendLine
  <1>3. CASE ~Readable(lines)
    <2>1. EndOf(lines, terminated) = "undecodable"
      BY <1>3, StoreOfFile
    <2>2. /\ Load(lines') = Fresh /\ EndOf(lines', terminated') = "undecodable"
          /\ Behind(lines', terminated') = Fresh
      BY <1>1, <1>2, <1>3, StoreAfterWrite
    <2> QED
      BY <2>1, <2>2, StoreVariables DEF Store!Save
  <1>4. CASE Readable(lines)
    <2>1. /\ EndOf(lines, terminated) \in {"clean", "torn", "whole"}
          /\ EndOf(lines, terminated) = "clean" <=> terminated
          /\ EndOf(lines, terminated) # "whole" => Load(Base) = Load(lines)
          /\ EndOf(lines, terminated) = "whole" => Load(Base) = Behind(lines, terminated)
      BY <1>4, StoreOfFile
    <2>2. /\ Load(lines') = (IF terminated THEN buf ELSE Load(Base))
          /\ EndOf(lines', terminated') = "clean"
          /\ Behind(lines', terminated') = Fresh
      BY <1>1, <1>2, <1>4, StoreAfterWrite
    <2> QED
      BY <1>1, <2>1, <2>2, StoreVariables DEF Store!Save
  <1> QED
    BY <1>3, <1>4

LEMMA CutShortTears ==
    ASSUME IInv, NEW how \in Truncations, CutShort(how)
    PROVE  Store!TornSave(buf)
  <1> DEFINE x == [torn |-> Corrupt, whole |-> buf, undecodable |-> Undecodable][how]
             e == EndOf(lines, terminated)
  <1>1. /\ how \in {"torn", "whole", "undecodable"}
        /\ how = "torn" => x = Corrupt
        /\ how = "whole" => x = buf
        /\ how = "undecodable" => x = Undecodable
    BY StateLogConstants DEF CutShort
  <1>2. /\ x \in Lines /\ buf \in Snapshots /\ terminated \in BOOLEAN
        /\ Corrupt # Undecodable
    BY <1>1, StateLogConstants DEF IInv, TypeOK, Lines, Corrupt, Undecodable
  <1>3. lines' = Written(x) /\ terminated' = FALSE
    BY DEF CutShort
  <1> HIDE DEF x
  <1>4. /\ ~Readable(lines) => e = "undecodable"
        /\ Readable(lines) =>
              /\ e \in {"clean", "torn", "whole"} /\ (e = "clean" <=> terminated)
              /\ e # "whole" => Load(Base) = Load(lines)
              /\ e = "whole" => Load(Base) = Behind(lines, terminated)
    BY StoreOfFile
  <1>5. /\ ~Readable(lines) \/ x = Undecodable =>
              /\ Load(lines') = Fresh /\ EndOf(lines', terminated') = "undecodable"
              /\ Behind(lines', terminated') = Fresh
        /\ Readable(lines) /\ (x = Corrupt \/ (x \in Snapshots /\ ~terminated)) =>
              /\ Load(lines') = Load(Base) /\ EndOf(lines', terminated') = "torn"
              /\ Behind(lines', terminated') = Fresh
        /\ Readable(lines) /\ x \in Snapshots /\ terminated =>
              /\ Load(lines') = x /\ EndOf(lines', terminated') = "whole"
              /\ Behind(lines', terminated') = Load(Base)
    BY <1>2, <1>3, StoreAfterWrite
  <1> HIDE DEF e
  <1>6. CASE ~Readable(lines) \/ how = "undecodable"
    <2>1. how = "undecodable" \/ (how # "nothing" /\ e = "undecodable")
      BY <1>1, <1>4, <1>6
    <2>2. /\ Load(lines') = Fresh /\ EndOf(lines', terminated') = "undecodable"
          /\ Behind(lines', terminated') = Fresh
      BY <1>1, <1>5, <1>6
    <2> QED
      BY <2>1, <2>2, StoreVariables DEF Store!TornSave, e
  <1>7. CASE Readable(lines) /\ how = "whole" /\ terminated
    <2>1. /\ e = "clean" /\ Load(lines') = buf
          /\ EndOf(lines', terminated') = "whole"
          /\ Behind(lines', terminated') = Load(lines)
      BY <1>1, <1>2, <1>4, <1>5, <1>7
    <2> QED
      BY <1>7, <2>1, StoreVariables DEF Store!TornSave, e
  <1>8. CASE Readable(lines) /\ (how = "torn" \/ (how = "whole" /\ ~terminated))
    <2>1. \/ how = "torn" /\ e # "undecodable"
          \/ how = "whole" /\ e \in {"torn", "whole"}
      BY <1>4, <1>8
    <2>2. /\ Load(lines') = IF e = "whole" THEN Behind(lines, terminated)
                            ELSE Load(lines)
          /\ EndOf(lines', terminated') = "torn"
          /\ Behind(lines', terminated') = Fresh
      BY <1>1, <1>2, <1>4, <1>5, <1>8
    <2> QED
      BY <2>1, <2>2, StoreVariables DEF Store!TornSave, e
  <1> QED
    BY <1>1, <1>2, <1>6, <1>7, <1>8

\* Every step of save_code_gen_state, and every interruption of it, is one
\* atomic save of the store RunBatch is built on, one save cut short, or
\* nothing, as long as fewer writers are stopped than lines are kept: then no
\* compaction drops the snapshot a load returns.
THEOREM FileImplementsStore ==
    ASSUME MaxCrashes < KeepLast
    PROVE  Spec => ImplementsStore
  <1>1. Init => Store!Init
    <2> SUFFICES ASSUME Init PROVE Store!Init
      OBVIOUS
    <2>1. lines = <<>> /\ terminated = TRUE
      BY DEF Init
    <2>2. Readable(lines) /\ Load(lines) = Fresh
      BY <2>1, LoadNothing DEF Readable, Valid
    <2>3. Ending = "clean"
      BY <2>1, <2>2 DEF Ending
    <2> QED
      BY <2>2, <2>3 DEF Store!Init
  <1>2. IInv /\ Kept /\ [Next]_vars => [Store!Next]_(Store!vars)
    <2> SUFFICES ASSUME IInv, Kept, [Next]_vars PROVE [Store!Next]_(Store!vars)
      OBVIOUS
    <2>1. buf \in Snapshots
      BY DEF IInv, TypeOK
    <2>2. CASE AppendLine
      BY <2>1, <2>2, AppendLineSaves DEF Store!Next
    <2>3. ASSUME NEW how \in Truncations, CutShort(how) PROVE Store!Next
      BY <2>1, <2>3, CutShortTears DEF Store!Next
    <2>4. ASSUME Load(lines') = Load(lines),
                 EndOf(lines', terminated') = EndOf(lines, terminated),
                 Behind(lines', terminated') = Behind(lines, terminated)
          PROVE  UNCHANGED Store!vars
      BY <2>4, StoreVariables DEF Store!vars
    <2>5. CASE Replace
      <3>1. /\ Load(lines') = Load(lines) /\ Readable(lines) /\ Readable(lines')
            /\ terminated /\ terminated'
        BY <2>5, ReplaceLoads DEF Replace, IInv, Writing
      <3> QED
        BY <2>4, <3>1 DEF EndOf, Behind
    <2>6. ASSUME lines' = lines, terminated' = terminated
          PROVE  UNCHANGED Store!vars
      BY <2>4, <2>6
    <2>7. ASSUME NEW s \in Snapshots, BeginSave(s) PROVE UNCHANGED Store!vars
      BY <2>6, <2>7 DEF BeginSave
    <2>8. CASE NoCompaction \/ WriteTmp \/ Crash \/ UNCHANGED vars
      BY <2>6, <2>8 DEF NoCompaction, WriteTmp, Crash, vars
    <2> QED
      BY <2>2, <2>3, <2>5, <2>7, <2>8 DEF Next
  <1>3. Spec => []Kept
    <2>1. Init => Kept
      BY InitKept
    <2>2. IInv /\ Kept /\ [Next]_vars => Kept'
      BY NextKept
    <2> QED
      BY <2>1, <2>2, SpecIInv, PTL DEF Spec
  <1>4. Spec => Store!Spec
    BY <1>1, <1>2, <1>3, SpecIInv, PTL DEF Spec, Store!Spec
  <1> QED
    BY <1>4 DEF ImplementsStore
=============================================================================
