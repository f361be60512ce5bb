------------------------------ MODULE StateLog ------------------------------
(***************************************************************************)
(* code_gen_state.jsonl, line by line: load_code_gen_state and             *)
(* save_code_gen_state of common/execution_state.py.                       *)
(*                                                                         *)
(* The file is a sequence of lines and a flag saying whether the last one  *)
(* is terminated.  A save appends one line, then may compact the file: it  *)
(* archives the old lines, writes the last KeepLast of them to a temporary *)
(* file and renames that over the state file.  The writer can be stopped   *)
(* between any two of these steps and inside the append.  The archive is   *)
(* never read by the program and is left out.                              *)
(***************************************************************************)
EXTENDS Naturals, Sequences, FiniteSetsExt

CONSTANTS
    Snapshots,    \* the states a caller may save
    Fresh,        \* CodeGenState(): what load returns when nothing is readable
    Truncations,  \* how an append can be cut short
    KeepLast,     \* _KEEP_LAST_N
    MaxSaves,     \* bound: saves that return
    MaxCrashes    \* bound: writers that are stopped

\* Lines that hold no snapshot.
Corrupt == "corrupt"           \* json.loads raises JSONDecodeError
Undecodable == "undecodable"   \* reading the file raises UnicodeDecodeError

ASSUME StateLogConstants ==
    /\ Fresh \in Snapshots
    /\ Snapshots \cap {Corrupt, Undecodable} = {}
    /\ Truncations \subseteq {"nothing", "torn", "whole", "undecodable"}
    /\ KeepLast \in Nat \ {0} /\ MaxSaves \in Nat /\ MaxCrashes \in Nat

VARIABLES
    lines,        \* the lines of the state file
    terminated,   \* the last line, if any, ends in a newline
    tmp,          \* the lines of code_gen_state.jsonl.tmp
    pc,           \* where the writer is in save_code_gen_state
    buf,          \* the snapshot being saved
    saves,        \* saves that returned
    crashes,      \* writers stopped so far
    last,         \* history: the snapshot of the last append that completed
    streak        \* history: appends completed since the last one cut short

vars == <<lines, terminated, tmp, pc, buf, saves, crashes, last, streak>>

TypeOK ==
    /\ lines \in Seq(Snapshots \cup {Corrupt, Undecodable})
    /\ tmp \in Seq(Snapshots \cup {Corrupt, Undecodable})
    /\ terminated \in BOOLEAN
    /\ pc \in {"idle", "append", "compact", "replace"}
    /\ {buf, last} \subseteq Snapshots
    /\ saves \in 0..MaxSaves /\ crashes \in 0..MaxCrashes /\ streak \in 0..2

Readable(f) == \A i \in DOMAIN f : f[i] # Undecodable

\* Seeded fault: only the last line is looked at.
LoadLastLineOnly(f) ==
    IF f # <<>> /\ f[Len(f)] \in Snapshots THEN f[Len(f)] ELSE Fresh

\* The last line that parses; a fresh state when there is none, and also when
\* the text cannot be decoded at all (the outer "except Exception").
Load(f) ==
    LET valid == {i \in DOMAIN f : f[i] \in Snapshots}
    IN  IF ~Readable(f) \/ valid = {} THEN Fresh ELSE f[Max(valid)]

\* Text written at the end of the file: a line of its own, or the rest of an
\* unterminated one, which then is no JSON document.
Written(text) ==
    IF terminated
    THEN Append(lines, text)
    ELSE [lines EXCEPT ![Len(lines)] =
             IF Undecodable \in {@, text} THEN Undecodable ELSE Corrupt]

Init ==
    /\ lines = <<>> /\ terminated = TRUE /\ tmp = <<>>
    /\ pc = "idle" /\ buf = Fresh
    /\ saves = 0 /\ crashes = 0 /\ last = Fresh /\ streak = 0

BeginSave(s) ==
    /\ pc = "idle" /\ saves < MaxSaves
    /\ buf' = s /\ pc' = "append"
    /\ UNCHANGED <<lines, terminated, tmp, saves, crashes, last, streak>>

\* Seeded fault: the line written is not a JSON document.
AppendUnserialised ==
    /\ pc = "append"
    /\ lines' = Written(Corrupt) /\ terminated' = TRUE
    /\ pc' = "compact" /\ saves' = saves + 1
    /\ last' = Corrupt /\ streak' = Min({2, streak + 1})
    /\ UNCHANGED <<tmp, buf, crashes>>

\* open(state_path, 'a'); f.write(line + '\n')
AppendLine ==
    /\ pc = "append"
    /\ lines' = Written(buf) /\ terminated' = TRUE
    /\ pc' = "compact" /\ saves' = saves + 1
    /\ last' = buf /\ streak' = Min({2, streak + 1})
    /\ UNCHANGED <<tmp, buf, crashes>>

\* The size is below the threshold, there are too few lines, or reading them
\* back raises and the compaction is given up as non-fatal.
NoCompaction ==
    /\ pc = "compact" /\ pc' = "idle" /\ buf' = Fresh
    /\ UNCHANGED <<lines, terminated, tmp, saves, crashes, last, streak>>

\* Seeded fault: the compaction keeps the first lines instead of the last.
WriteTmpHead ==
    /\ pc = "compact" /\ Readable(lines) /\ Len(lines) > KeepLast
    /\ tmp' = SubSeq(lines, 1, KeepLast)
    /\ pc' = "replace"
    /\ UNCHANGED <<lines, terminated, buf, saves, crashes, last, streak>>

\* The last KeepLast lines, in a file of their own.
WriteTmp ==
    /\ pc = "compact" /\ Readable(lines) /\ Len(lines) > KeepLast
    /\ tmp' = SubSeq(lines, Len(lines) - KeepLast + 1, Len(lines))
    /\ pc' = "replace"
    /\ UNCHANGED <<lines, terminated, buf, saves, crashes, last, streak>>

\* tmp_path.replace(state_path)
Replace ==
    /\ pc = "replace"
    /\ lines' = tmp /\ tmp' = <<>>
    /\ pc' = "idle" /\ buf' = Fresh
    /\ UNCHANGED <<terminated, saves, crashes, last, streak>>

\* The writer dies between two steps.
Crash ==
    /\ pc # "idle" /\ crashes < MaxCrashes
    /\ crashes' = crashes + 1 /\ pc' = "idle" /\ buf' = Fresh
    /\ UNCHANGED <<lines, terminated, tmp, saves, last, streak>>

\* The writer dies, or the disk fills up, inside the append.
CutShort(how) ==
    /\ pc = "append" /\ crashes < MaxCrashes /\ how # "nothing"
    /\ lines' = Written([torn |-> Corrupt, whole |-> buf,
                         undecodable |-> Undecodable][how])
    /\ terminated' = FALSE
    /\ crashes' = crashes + 1 /\ pc' = "idle" /\ buf' = Fresh /\ streak' = 0
    /\ UNCHANGED <<tmp, saves, last>>

Next ==
    \/ \E s \in Snapshots : BeginSave(s)
    \/ AppendLine
    \/ NoCompaction
    \/ WriteTmp
    \/ Replace
    \/ Crash
    \/ \E how \in Truncations : CutShort(how)

Spec == Init /\ [][Next]_vars

-----------------------------------------------------------------------------
(* The state store the file implements. *)

Ending ==
    CASE ~Readable(lines) -> "undecodable"
      [] Readable(lines) /\ terminated -> "clean"
      [] OTHER -> IF lines[Len(lines)] = Corrupt THEN "torn" ELSE "whole"

Store == INSTANCE StateStore WITH
    value <- Load(lines),
    tail <- Ending,
    behind <- IF Ending = "whole" THEN Load(SubSeq(lines, 1, Len(lines) - 1))
                                  ELSE Fresh

\* Every step of the writer is one atomic save of the store, one save cut
\* short, or nothing: in particular no step of a compaction, and no crash in
\* it, changes what load_code_gen_state returns.
ImplementsStore == Store!Spec

\* One swallowed save is the worst a readable file does: once two saves have
\* returned since the last append cut short, a load returns the latest one,
\* whatever compactions and crashes came in between.
SecondSaveIsDurable ==
    (streak = 2 /\ Readable(lines)) => Load(lines) = last

\* The docstring of save_code_gen_state: "if the append fails mid-write, the
\* previous lines remain intact and can be recovered".  An append cut short
\* leaves what load returned before it, or the new snapshot.
CutShortKeepsPreviousLines ==
    [][streak' < streak => Load(lines)' \in {Load(lines), buf}]_vars

\* The same docstring: "Append the global code generation state as a new
\* line".  A save that returns is what the next load sees.
SaveTakesEffect == [][saves' > saves => Load(lines)' = buf]_vars
=============================================================================
