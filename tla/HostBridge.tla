----------------------------- MODULE HostBridge -----------------------------
(***************************************************************************)
(* cmind_cli/host_bridge.py and LLMClient.generate: the model calls of a   *)
(* pipeline script, answered by the coding agent that started it.  They    *)
(* meet in a directory.  For every attempt at a call the client starts a   *)
(* proxy process, which publishes a request file and polls for the         *)
(* response file; the host asks for the next request with `next` and       *)
(* writes the response with `reply`; a worker process runs the script and  *)
(* leaves result.json when it ends.  The client kills a proxy that takes   *)
(* too long and tries again with a new one, hence with a new request:      *)
(* nothing tells the host that nobody waits for the old one any more.      *)
(*                                                                         *)
(* A request is named by its call and attempt (a fresh uuid in the code);  *)
(* what a reply says is abstracted to who wrote it.                        *)
(***************************************************************************)
EXTENDS Naturals, Sequences

CONSTANTS Calls,       \* the model calls the script makes, in threads or in turn
          MaxRetries,  \* the attempts generate makes at each call
          Hosts,       \* agent sessions (or commands of one) that drive the run
          NoOne        \* no response

ASSUME MaxRetriesAssumption == MaxRetries \in [Calls -> Nat \ {0}]
ASSUME NoOneAssumption == NoOne \notin Hosts

VARIABLES script,      \* the script's process
          worker,      \* the process that runs the script
          calls,       \* how far each LLMClient.generate is
          attempt,     \* its attempt
          proxy,       \* the proxy process of that attempt
          requests,    \* requests/: in the order of their time stamps
          responses,   \* responses/: who wrote the answer to each request
          cancelled,   \* the file "cancelled" exists
          result,      \* the status in result.json, "none" when there is none
          looking,     \* the hosts whose `next` is under way
          listed,      \* how many requests that `next` found in the directory
          shown,       \* what `next` last printed to each host
          replying,    \* the hosts whose `reply` passed its checks
          accepted,    \* history: <<request, host>> of the replies accepted
          returned     \* history: <<request, host>> of the answers calls returned

vars == <<script, worker, calls, attempt, proxy, requests, responses,
          cancelled, result, looking, listed, shown, replying, accepted, returned>>
pipeline == <<script, worker, calls, attempt, proxy, cancelled, result, returned>>
hosts == <<looking, listed, shown, replying, accepted>>

Requests == UNION {{c} \X (1..MaxRetries[c]) : c \in Calls}

\* What `next` prints: its status and, for "input_required", the request.
Views == [status : {"none", "running", "completed", "failed"}]
             \cup [status : {"input_required"}, request : Requests]

Final(view) == view.status \in {"completed", "failed"}

TypeOK ==
    /\ script \in {"running", "ok", "error"}
    /\ worker \in {"running", "done", "dead"}
    /\ calls \in [Calls -> {"idle", "open", "answered", "failed", "lost"}]
    /\ attempt \in [Calls -> Nat]
    /\ \A c \in Calls : attempt[c] <= MaxRetries[c]
    /\ proxy \in [Calls -> {"none", "started", "waiting"}]
    /\ requests \in Seq(Requests)
    /\ responses \in [Requests -> Hosts \cup {NoOne}]
    /\ cancelled \in BOOLEAN
    /\ result \in {"none", "completed", "failed"}
    /\ looking \subseteq Hosts
    /\ listed \in [Hosts -> Nat]
    /\ shown \in [Hosts -> Views]
    /\ replying \subseteq Hosts
    /\ accepted \subseteq Requests \X Hosts
    /\ returned \subseteq Requests \X Hosts

\* _start: a fresh directory, and a worker that starts the script.
Init ==
    /\ script = "running"
    /\ worker = "running"
    /\ calls = [c \in Calls |-> "idle"]
    /\ attempt = [c \in Calls |-> 0]
    /\ proxy = [c \in Calls |-> "none"]
    /\ requests = <<>>
    /\ responses = [r \in Requests |-> NoOne]
    /\ cancelled = FALSE
    /\ result = "none"
    /\ looking = {}
    /\ listed = [h \in Hosts |-> 0]
    /\ shown = [h \in Hosts |-> [status |-> "none"]]
    /\ replying = {}
    /\ accepted = {}
    /\ returned = {}
-----------------------------------------------------------------------------
(***************************************************************************)
(* The script: LLMClient.generate and the proxy                            *)
(***************************************************************************)

Request(c) == <<c, attempt[c]>>

StartCall(c) ==
    /\ script = "running"
    /\ calls[c] = "idle"
    /\ calls' = [calls EXCEPT ![c] = "open"]
    /\ attempt' = [attempt EXCEPT ![c] = 1]
    /\ proxy' = [proxy EXCEPT ![c] = "started"]
    /\ UNCHANGED <<script, worker, requests, responses, cancelled, result,
                   returned, hosts>>

\* _publish_request: the request file appears at once, by a rename.
Publish(c) ==
    /\ proxy[c] = "started"
    /\ proxy' = [proxy EXCEPT ![c] = "waiting"]
    /\ requests' = Append(requests, Request(c))
    /\ UNCHANGED <<script, worker, calls, attempt, responses, cancelled, result,
                   returned, hosts>>

\* Seeded fault: generate does not leave its loop when it has a response.
ReturnAnswerAndGoOn(c) ==
    /\ proxy[c] = "waiting"
    /\ responses[Request(c)] # NoOne
    /\ calls' = [calls EXCEPT ![c] = "answered"]
    /\ IF attempt[c] < MaxRetries[c]
       THEN /\ attempt' = [attempt EXCEPT ![c] = @ + 1]
            /\ proxy' = [proxy EXCEPT ![c] = "started"]
       ELSE /\ proxy' = [proxy EXCEPT ![c] = "none"]
            /\ UNCHANGED attempt
    /\ returned' = returned \cup {<<Request(c), responses[Request(c)]>>}
    /\ UNCHANGED <<script, worker, requests, responses, cancelled, result, hosts>>

\* The response is seen, printed by the proxy and returned by generate.
ReturnAnswer(c) ==
    /\ calls[c] = "open"
    /\ proxy[c] = "waiting"
    /\ responses[Request(c)] # NoOne
    /\ calls' = [calls EXCEPT ![c] = "answered"]
    /\ proxy' = [proxy EXCEPT ![c] = "none"]
    /\ returned' = returned \cup {<<Request(c), responses[Request(c)]>>}
    /\ UNCHANGED <<script, worker, attempt, requests, responses, cancelled,
                   result, hosts>>

\* Seeded fault: one attempt too many.
AttemptFailsOnceMore(c) ==
    /\ IF attempt[c] <= MaxRetries[c]
       THEN /\ attempt' = [attempt EXCEPT ![c] = @ + 1]
            /\ proxy' = [proxy EXCEPT ![c] = "started"]
            /\ UNCHANGED calls
       ELSE /\ calls' = [calls EXCEPT ![c] = "failed"]
            /\ proxy' = [proxy EXCEPT ![c] = "none"]
            /\ UNCHANGED attempt
    /\ UNCHANGED <<script, worker, requests, responses, cancelled, result,
                   returned, hosts>>

\* The attempt is over and its proxy gone; generate tries again or raises.
AttemptFails(c) ==
    /\ IF attempt[c] < MaxRetries[c]
       THEN /\ attempt' = [attempt EXCEPT ![c] = @ + 1]
            /\ proxy' = [proxy EXCEPT ![c] = "started"]
            /\ UNCHANGED calls
       ELSE /\ calls' = [calls EXCEPT ![c] = "failed"]
            /\ proxy' = [proxy EXCEPT ![c] = "none"]
            /\ UNCHANGED attempt
    /\ UNCHANGED <<script, worker, requests, responses, cancelled, result,
                   returned, hosts>>

\* TimeoutExpired: the proxy's process group is killed, whatever it was
\* doing; the response may be there already.
Timeout(c) ==
    /\ calls[c] = "open"
    /\ AttemptFails(c)

\* The proxy exits with 1.
SeeCancelled(c) ==
    /\ calls[c] = "open"
    /\ proxy[c] = "waiting"
    /\ responses[Request(c)] = NoOne
    /\ cancelled
    /\ AttemptFails(c)

\* A proxy that outlived its script: the answer it prints is read by nobody.
OrphanEnds(c) ==
    /\ calls[c] = "lost"
    /\ proxy[c] = "waiting"
    /\ responses[Request(c)] # NoOne \/ cancelled
    /\ proxy' = [proxy EXCEPT ![c] = "none"]
    /\ UNCHANGED <<script, worker, calls, attempt, requests, responses, cancelled,
                   result, returned, hosts>>

\* The script returns when all its calls have (its thread pools are joined).
\* It may exit with 0 although calls failed: generate_with_memory returns None.
FinishScript ==
    /\ script = "running"
    /\ \A c \in Calls : calls[c] # "open"
    /\ script' \in {"ok", "error"}
    /\ UNCHANGED <<worker, calls, attempt, proxy, requests, responses, cancelled,
                   result, returned, hosts>>

\* The script dies.  Its proxies run in sessions of their own and die with it
\* only where PR_SET_PDEATHSIG works (Linux); elsewhere they go on.
KillScript ==
    /\ script = "running"
    /\ script' = "error"
    /\ calls' = [c \in Calls |-> IF calls[c] = "open" THEN "lost" ELSE calls[c]]
    /\ \E orphans \in SUBSET Calls :
           proxy' = [c \in Calls |-> IF c \in orphans THEN proxy[c] ELSE "none"]
    /\ UNCHANGED <<worker, attempt, requests, responses, cancelled, result,
                   returned, hosts>>
-----------------------------------------------------------------------------
(***************************************************************************)
(* The worker                                                              *)
(***************************************************************************)

\* _worker_main: subprocess.run returned; result.json is written in one step.
WriteResult ==
    /\ worker = "running"
    /\ script # "running"
    /\ worker' = "done"
    /\ result' = IF script = "ok" THEN "completed" ELSE "failed"
    /\ UNCHANGED <<script, calls, attempt, proxy, requests, responses, cancelled,
                   returned, hosts>>

\* The worker is killed; the script goes on, but nobody will report its end.
KillWorker ==
    /\ worker = "running"
    /\ worker' = "dead"
    /\ UNCHANGED <<script, calls, attempt, proxy, requests, responses, cancelled,
                   result, returned, hosts>>

\* External: the proxy polls for this file, nothing in the code creates it.
Cancel ==
    /\ ~cancelled
    /\ cancelled' = TRUE
    /\ UNCHANGED <<script, worker, calls, attempt, proxy, requests, responses,
                   result, returned, hosts>>
-----------------------------------------------------------------------------
(***************************************************************************)
(* The host                                                                *)
(***************************************************************************)

Unanswered == {i \in 1..Len(requests) : responses[requests[i]] = NoOne}

\* _pending_request: the listed requests without a response; the oldest counts.
Pending(h) == {i \in Unanswered : i <= listed[h]}
Oldest(h) == requests[CHOOSE i \in Pending(h) : \A j \in Pending(h) : i <= j]

\* Seeded fault: a run that waits for nothing is taken for a finished one.
SnapshotEarly(h) ==
    IF Pending(h) # {} THEN [status |-> "input_required", request |-> Oldest(h)]
    ELSE IF \A c \in Calls : calls[c] \in {"answered", "failed", "lost"}
         THEN [status |-> "completed"]
    ELSE [status |-> "running"]

\* Seeded fault: the result is tested before the requests.
SnapshotResultFirst(h) ==
    IF result # "none" THEN [status |-> result]
    ELSE IF Pending(h) # {} THEN [status |-> "input_required", request |-> Oldest(h)]
    ELSE [status |-> "running"]

\* _snapshot: a pending request comes first, then the result.
Snapshot(h) ==
    IF Pending(h) # {} THEN [status |-> "input_required", request |-> Oldest(h)]
    ELSE IF result # "none" THEN [status |-> result]
    ELSE [status |-> "running"]

\* `next` lists the directory first.  The host stops when it is told that the
\* run is over, and replies to a request before it asks for another.
ListRequests(h) ==
    /\ shown[h].status \in {"none", "running"}
    /\ h \notin looking
    /\ looking' = looking \cup {h}
    /\ listed' = [listed EXCEPT ![h] = Len(requests)]
    /\ shown' = [shown EXCEPT ![h] = [status |-> "none"]]
    /\ UNCHANGED <<pipeline, requests, responses, replying, accepted>>

\* Then it looks for the responses to what it listed, one by one, and for the
\* result after the last.  One step: responses only appear, so those it found
\* are still there when it looks for the result.  After a final report the
\* length of its list is kept (history).
NextCommand(h) ==
    /\ h \in looking
    /\ looking' = looking \ {h}
    /\ shown' = [shown EXCEPT ![h] = Snapshot(h)]
    /\ listed' = [listed EXCEPT ![h] = IF Final(Snapshot(h)) THEN @ ELSE 0]
    /\ UNCHANGED <<pipeline, requests, responses, replying, accepted>>

\* Seeded fault: a reply is refused when nobody waits for it any more.
CheckReplyToLive(h) ==
    /\ shown[h].status = "input_required"
    /\ h \notin replying
    /\ IF /\ responses[shown[h].request] = NoOne
          /\ \E c \in Calls : proxy[c] = "waiting" /\ Request(c) = shown[h].request
       THEN /\ replying' = replying \cup {h}
            /\ UNCHANGED shown
       ELSE /\ shown' = [shown EXCEPT ![h] = [status |-> "none"]]
            /\ UNCHANGED replying
    /\ UNCHANGED <<pipeline, requests, responses, looking, listed, accepted>>

\* `reply`: the request must exist and have no response; then the answer is
\* read from a file or from standard input.
CheckReply(h) ==
    /\ shown[h].status = "input_required"
    /\ h \notin replying
    /\ IF responses[shown[h].request] = NoOne
       THEN /\ replying' = replying \cup {h}
            /\ UNCHANGED shown
       ELSE /\ shown' = [shown EXCEPT ![h] = [status |-> "none"]]
            /\ UNCHANGED replying
    /\ UNCHANGED <<pipeline, requests, responses, looking, listed, accepted>>

\* ... and written: the rename replaces whatever is there.
WriteReply(h) ==
    /\ h \in replying
    /\ responses' = [responses EXCEPT ![shown[h].request] = h]
    /\ accepted' = accepted \cup {<<shown[h].request, h>>}
    /\ shown' = [shown EXCEPT ![h] = [status |-> "none"]]
    /\ replying' = replying \ {h}
    /\ UNCHANGED <<pipeline, requests, looking, listed>>
-----------------------------------------------------------------------------
Proxy(c) == Publish(c) \/ ReturnAnswer(c) \/ SeeCancelled(c) \/ OrphanEnds(c)
Host(h) == ListRequests(h) \/ NextCommand(h) \/ CheckReply(h) \/ WriteReply(h)

Next ==
    \/ \E c \in Calls : StartCall(c) \/ Proxy(c) \/ Timeout(c)
    \/ \E h \in Hosts : Host(h)
    \/ FinishScript \/ KillScript
    \/ WriteResult \/ KillWorker
    \/ Cancel

\* Proxies poll in a loop, the script returns when its calls have, the worker
\* waits for it, and the host follows the protocol of its skill: ask, reply,
\* repeat.  Nothing forces a timeout, a cancellation or a death.
Fairness ==
    /\ \A c \in Calls : WF_vars(Proxy(c))
    /\ \A h \in Hosts : WF_vars(Host(h))
    /\ WF_vars(FinishScript)
    /\ WF_vars(WriteResult)

Spec == Init /\ [][Next]_vars
FairSpec == Spec /\ Fairness
-----------------------------------------------------------------------------
(***************************************************************************)
(* Properties                                                              *)
(***************************************************************************)

\* A call returns at most one answer, to a request of its own, and one that
\* `reply` accepted: attempts that were given up, replies that raced each
\* other for one file and replies nobody waits for do not mix calls up.
AnswersAreGenuine ==
    /\ returned \subseteq accepted
    /\ \A x, y \in returned : x[1][1] = y[1][1] => x = y
    /\ \A c \in Calls : calls[c] = "answered" <=> \E x \in returned : x[1][1] = c

\* A final report is right and leaves nobody waiting: it gives the result, no
\* call is under way, and every request that was there when `next` listed them
\* has its response, whoever gave it.
ReportLeavesNoneWaiting ==
    \A h \in Hosts : Final(shown[h]) =>
        /\ shown[h] = [status |-> result]
        /\ \A c \in Calls : calls[c] # "open"
        /\ \A i \in Unanswered : listed[h] < i

\* Stronger, and not true: who asks after a final report is told the same.  A
\* request can be published between the two looks of `next`, or by an orphan
\* after the end, and nobody waits for it; a later `next` prints it.
ReportIsFinal ==
    \A h \in Hosts : Final(shown[h]) => Unanswered = {}

\* The run is reported to some host, through timeouts, cancellation, a script
\* that dies and requests nobody waits for, unless its worker is killed.
RunIsReported == <>(worker = "dead" \/ \E h \in Hosts : Final(shown[h]))

\* The same without the exception, as docs/host-driven-agents.md:68 has it:
\* "The host repeats next / reply until next returns completed or failed."
RunEnds == <>(\E h \in Hosts : Final(shown[h]))

\* The bridge implements model calls: an answer only after a reply, no end
\* while a call is under way, a report only after the end.
ModelCalls == INSTANCE ModelCalls WITH
    replied <- {x[1][1] : x \in accepted},
    run <- IF script = "running" THEN "open" ELSE "closed",
    told <- {h \in Hosts : Final(shown[h])}

ImplementsModelCalls == ModelCalls!Spec
=============================================================================
