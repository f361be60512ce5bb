----------------------------- MODULE ModelCalls -----------------------------
(***************************************************************************)
(* What a pipeline script may expect of whoever answers its model calls,   *)
(* and what its user may expect of the report at the end: a call is        *)
(* answered only after somebody replied to it, the script ends only when   *)
(* no call is under way (or takes its calls with it), and a report is made *)
(* only of a script that ended.  There are no files, processes, attempts   *)
(* or timeouts in this specification.                                      *)
(***************************************************************************)
CONSTANTS Calls, Hosts

VARIABLES calls,     \* how far each call is
          replied,   \* the calls somebody replied to
          run,       \* "open" until the script ends
          told       \* the hosts that were given the final report

vars == <<calls, replied, run, told>>

Init ==
    /\ calls = [c \in Calls |-> "idle"]
    /\ replied = {}
    /\ run = "open"
    /\ told = {}

Ask(c) ==
    /\ run = "open"
    /\ calls[c] = "idle"
    /\ calls' = [calls EXCEPT ![c] = "open"]
    /\ UNCHANGED <<replied, run, told>>

\* A reply may come late: the call it is for can be over.
Reply(c) ==
    /\ calls[c] # "idle"
    /\ replied' = replied \cup {c}
    /\ UNCHANGED <<calls, run, told>>

Answer(c) ==
    /\ calls[c] = "open"
    /\ c \in replied
    /\ calls' = [calls EXCEPT ![c] = "answered"]
    /\ UNCHANGED <<replied, run, told>>

Fail(c) ==
    /\ calls[c] = "open"
    /\ calls' = [calls EXCEPT ![c] = "failed"]
    /\ UNCHANGED <<replied, run, told>>

Close ==
    /\ run = "open"
    /\ \A c \in Calls : calls[c] # "open"
    /\ run' = "closed"
    /\ UNCHANGED <<calls, replied, told>>

Abort ==
    /\ run = "open"
    /\ run' = "closed"
    /\ calls' = [c \in Calls |-> IF calls[c] = "open" THEN "lost" ELSE calls[c]]
    /\ UNCHANGED <<replied, told>>

Tell(h) ==
    /\ run = "closed"
    /\ told' = told \cup {h}
    /\ UNCHANGED <<calls, replied, run>>

Next ==
    \/ \E c \in Calls : Ask(c) \/ Reply(c) \/ Answer(c) \/ Fail(c)
    \/ \E h \in Hosts : Tell(h)
    \/ Close
    \/ Abort

Spec == Init /\ [][Next]_vars
=============================================================================
