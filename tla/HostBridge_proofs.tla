------------------------- MODULE HostBridge_proofs -------------------------
(***************************************************************************)
(* Proofs about HostBridge, for any calls, attempts and hosts: the types,  *)
(* that answers are genuine, that a final report leaves no call waiting,   *)
(* and that the bridge implements ModelCalls.                              *)
(*                                                                         *)
(* All of them rest on Processes: a call under way has a proxy, a proxy    *)
(* without one has outlived its script, the script outlives its calls, and *)
(* the result is written after the script.  What is published after the    *)
(* result is an orphan's.                                                  *)
(***************************************************************************)
EXTENDS HostBridge, WellFoundedInduction, TLAPS

\* Which processes and files there can be together.
Processes ==
    /\ \A c \in Calls : calls[c] = "open" => proxy[c] # "none"
    /\ \A c \in Calls : proxy[c] # "none" => calls[c] \in {"open", "lost"}
    /\ \A c \in Calls : calls[c] # "idle" => attempt[c] >= 1
    /\ script # "running" => \A c \in Calls : calls[c] # "open"
    /\ script = "running" => \A c \in Calls : calls[c] # "lost"
    /\ result # "none" => script # "running" /\ worker = "done"

\* Whatever is shown, checked or written concerns a call that was made.
Made ==
    /\ \A i \in 1..Len(requests) : calls[requests[i][1]] # "idle"
    /\ \A h \in Hosts : shown[h].status = "input_required"
                            => /\ shown[h].request \in Requests
                               /\ calls[shown[h].request[1]] # "idle"
    /\ \A h \in replying : shown[h].status = "input_required"
    /\ \A r \in Requests : responses[r] # NoOne => <<r, responses[r]>> \in accepted

\* What a `next` listed was there, and it has printed nothing yet.
Listed ==
    /\ \A h \in Hosts : listed[h] <= Len(requests)
    /\ \A h \in looking : shown[h].status = "none"

\* Whoever was told the end was told the result, and all it had listed was
\* answered.
Reported == \A h \in Hosts : Final(shown[h])
                => Pending(h) = {} /\ shown[h] = [status |-> result]

IInv == TypeOK /\ Processes /\ Made /\ Listed /\ AnswersAreGenuine /\ Reported
-----------------------------------------------------------------------------
\* Every call has at least one attempt.
LEMMA Attempts == \A c \in Calls : MaxRetries[c] \in Nat /\ 1 <= MaxRetries[c]
  BY MaxRetriesAssumption

\* A host that was shown nothing has a view.
LEMMA NothingShown == [status |-> "none"] \in Views
  BY DEF Views

\* A set of naturals that is not empty has a least element.
LEMMA LeastElement ==
    ASSUME NEW S, S \subseteq Nat, S # {}
    PROVE  \E i \in S : \A j \in S : i <= j
  <1>1. PICK i \in S : \A j \in S : ~ (<<j, i>> \in OpToRel(<, Nat))
    BY NatLessThanWellFounded, WFMin, Zenon
  <1>2. ASSUME NEW j \in S, j < i
        PROVE  <<j, i>> \in OpToRel(<, Nat)
    BY <1>2 DEF OpToRel
  <1>3. \A j \in S : ~(j < i)
    BY <1>1, <1>2, Zenon
  <1> QED
    BY <1>3

\* The request of an attempt under way is a request.
LEMMA RequestType ==
    ASSUME TypeOK, Processes, NEW c \in Calls, proxy[c] # "none"
    PROVE  Request(c) \in Requests
  <1>1. attempt[c] \in 1..MaxRetries[c]
    BY MaxRetriesAssumption DEF TypeOK, Processes
  <1>2. <<c, attempt[c]>> \in {c} \X (1..MaxRetries[c])
    BY <1>1
  <1> QED
    BY <1>2 DEF Request, Requests

\* A request is a call and an attempt at it.
LEMMA RequestShape ==
    ASSUME NEW r \in Requests
    PROVE  r[1] \in Calls /\ r[2] \in 1..MaxRetries[r[1]] /\ r = <<r[1], r[2]>>
  BY DEF Requests

\* What `next` prints is well formed, and concerns a request that was made.
LEMMA SnapshotType ==
    ASSUME TypeOK, Made, NEW h \in Hosts
    PROVE  /\ Snapshot(h) \in Views
           /\ Snapshot(h).status = "input_required"
                => /\ Snapshot(h).request \in Requests
                   /\ calls[Snapshot(h).request[1]] # "idle"
           /\ Final(Snapshot(h)) => /\ Pending(h) = {}
                                    /\ Snapshot(h) = [status |-> result]
                                    /\ result # "none"
  <1>1. CASE Pending(h) # {}
    <2>1. Pending(h) \subseteq Nat
      BY DEF Pending, Unanswered, TypeOK
    <2>2. PICK i \in Pending(h) : \A j \in Pending(h) : i <= j
      BY <1>1, <2>1, LeastElement
    <2>3. \E k \in Pending(h) : Oldest(h) = requests[k]
      BY <2>2 DEF Oldest
    <2>4. Oldest(h) \in Requests /\ calls[Oldest(h)[1]] # "idle"
      BY <2>3 DEF Pending, Unanswered, TypeOK, Made
    <2> QED
      BY <1>1, <2>4 DEF Snapshot, Views, Final
  <1>2. CASE Pending(h) = {}
    BY <1>2 DEF Snapshot, Views, Final, TypeOK
  <1> QED
    BY <1>1, <1>2

\* What a host was asked to look through depends on three variables only.
LEMMA SamePending ==
    ASSUME NEW h \in Hosts, UNCHANGED <<requests, responses>>, listed'[h] = listed[h]
    PROVE  Pending(h)' = Pending(h)
  BY DEF Pending, Unanswered
-----------------------------------------------------------------------------
\* The inductive invariant holds initially.
LEMMA InitIInv == Init => IInv
  <1> SUFFICES ASSUME Init PROVE IInv
    OBVIOUS
  <1>1. TypeOK
    <2>1. /\ attempt \in [Calls -> Nat]
          /\ \A c \in Calls : attempt[c] <= MaxRetries[c]
      BY Attempts DEF Init
    <2>2. shown \in [Hosts -> Views] /\ requests \in Seq(Requests)
      BY NothingShown DEF Init
    <2> QED
      BY <2>1, <2>2 DEF Init, TypeOK
  <1>2. Processes
    BY DEF Init, Processes
  <1>3. Made /\ Listed
    BY DEF Init, Made, Listed
  <1>4. AnswersAreGenuine
    BY DEF Init, AnswersAreGenuine
  <1>5. Reported
    BY DEF Init, Reported, Final
  <1> QED
    BY <1>1, <1>2, <1>3, <1>4, <1>5 DEF IInv

\* Every step keeps the types.
LEMMA TypeStep ==
    ASSUME IInv, [Next]_vars
    PROVE  TypeOK'
  <1> USE DEF IInv
  <1>1. ASSUME NEW c \in Calls, StartCall(c) PROVE TypeOK'
    BY <1>1, Attempts DEF StartCall, TypeOK, hosts
  <1>2. ASSUME NEW c \in Calls, Publish(c) PROVE TypeOK'
    <2>1. Request(c) \in Requests
      BY <1>2, RequestType DEF Publish
    <2> QED
      BY <1>2, <2>1 DEF Publish, TypeOK, hosts
  <1>3. ASSUME NEW c \in Calls, ReturnAnswer(c) PROVE TypeOK'
    <2>1. Request(c) \in Requests
      BY <1>3, RequestType DEF ReturnAnswer
    <2> QED
      BY <1>3, <2>1 DEF ReturnAnswer, TypeOK, hosts
  <1>4. ASSUME NEW c \in Calls, AttemptFails(c) PROVE TypeOK'
    <2>1. /\ attempt' \in [Calls -> Nat]
          /\ \A d \in Calls : attempt'[d] <= MaxRetries[d]
      <3>1. CASE attempt[c] < MaxRetries[c]
        <4>1. attempt' = [attempt EXCEPT ![c] = attempt[c] + 1]
          BY <1>4, <3>1 DEF AttemptFails
        <4>2. attempt \in [Calls -> Nat] /\ \A d \in Calls : attempt[d] <= MaxRetries[d]
          BY DEF TypeOK
        <4>3. attempt[c] + 1 <= MaxRetries[c]
          BY <3>1, <4>2, Attempts
        <4> QED
          BY <4>1, <4>2, <4>3
      <3>2. CASE ~(attempt[c] < MaxRetries[c])
        BY <1>4, <3>2 DEF AttemptFails, TypeOK
      <3> QED
        BY <3>1, <3>2
    <2>2. /\ calls' \in [Calls -> {"idle", "open", "answered", "failed", "lost"}]
          /\ proxy' \in [Calls -> {"none", "started", "waiting"}]
      BY <1>4 DEF AttemptFails, TypeOK
    <2> QED
      BY <1>4, <2>1, <2>2 DEF AttemptFails, TypeOK, hosts
  <1>5. CASE FinishScript
    BY <1>5 DEF FinishScript, TypeOK, hosts
  <1>6. CASE KillScript
    BY <1>6 DEF KillScript, TypeOK, hosts
  <1>7. CASE WriteResult \/ KillWorker \/ Cancel \/ \E c \in Calls : OrphanEnds(c)
    BY <1>7 DEF WriteResult, KillWorker, Cancel, OrphanEnds, TypeOK, hosts
  <1>8. ASSUME NEW h \in Hosts, ListRequests(h) \/ NextCommand(h) PROVE TypeOK'
    <2>1. CASE ListRequests(h)
      <3>1. Len(requests) \in Nat
        BY DEF TypeOK
      <3> QED
        BY <2>1, <3>1, NothingShown DEF ListRequests, TypeOK, pipeline
    <2>2. CASE NextCommand(h)
      <3>1. Snapshot(h) \in Views
        BY SnapshotType
      <3>2. listed' \in [Hosts -> Nat]
        BY <2>2 DEF NextCommand, TypeOK
      <3> QED
        BY <2>2, <3>1, <3>2 DEF NextCommand, TypeOK, pipeline
    <2> QED
      BY <1>8, <2>1, <2>2
  <1>9. ASSUME NEW h \in Hosts, CheckReply(h) PROVE TypeOK'
    BY <1>9, NothingShown DEF CheckReply, TypeOK, pipeline
  <1>10. ASSUME NEW h \in Hosts, WriteReply(h) PROVE TypeOK'
    BY <1>10, NothingShown DEF WriteReply, TypeOK, Made, pipeline
  <1>11. CASE UNCHANGED vars
    BY <1>11 DEF vars, TypeOK
  <1> QED
    BY <1>1, <1>2, <1>3, <1>4, <1>5, <1>6, <1>7, <1>8, <1>9, <1>10, <1>11
    DEF Next, Proxy, Host, Timeout, SeeCancelled

\* A call is under way exactly as long as its proxy, and the script outlives both.
LEMMA ProcessesStep ==
    ASSUME IInv, [Next]_vars
    PROVE  Processes'
  <1> USE DEF IInv
  <1>1. ASSUME NEW c \in Calls, StartCall(c) PROVE Processes'
    BY <1>1 DEF StartCall, Processes, TypeOK
  <1>2. ASSUME NEW c \in Calls, Publish(c) PROVE Processes'
    BY <1>2 DEF Publish, Processes, TypeOK
  <1>3. ASSUME NEW c \in Calls, ReturnAnswer(c) PROVE Processes'
    BY <1>3 DEF ReturnAnswer, Processes, TypeOK
  <1>4. ASSUME NEW c \in Calls, calls[c] = "open", AttemptFails(c) PROVE Processes'
    <2>1. script = "running"
      BY <1>4 DEF Processes, TypeOK
    <2>2. CASE attempt[c] < MaxRetries[c]
      <3>1. /\ UNCHANGED <<calls, script, result, worker>>
            /\ \A d \in Calls : proxy'[d] # "none" <=> proxy[d] # "none"
        BY <1>4, <2>2 DEF AttemptFails, Processes, TypeOK
      <3>2. attempt' = [attempt EXCEPT ![c] = attempt[c] + 1]
        BY <1>4, <2>2 DEF AttemptFails
      <3>3. \A d \in Calls : attempt[d] >= 1 => attempt'[d] >= 1
        BY <3>2 DEF TypeOK
      <3> QED
        BY <3>1, <3>3 DEF Processes
    <2>3. CASE ~(attempt[c] < MaxRetries[c])
      BY <1>4, <2>1, <2>3 DEF AttemptFails, Processes, TypeOK
    <2> QED
      BY <2>2, <2>3
  <1>5. CASE FinishScript
    BY <1>5 DEF FinishScript, Processes
  <1>6. CASE KillScript
    BY <1>6 DEF KillScript, Processes, TypeOK
  <1>7. CASE WriteResult \/ KillWorker \/ Cancel
    BY <1>7 DEF WriteResult, KillWorker, Cancel, Processes
  <1>8. ASSUME NEW h \in Hosts, Host(h) PROVE Processes'
    BY <1>8 DEF Host, ListRequests, NextCommand, CheckReply, WriteReply, pipeline,
       Processes
  <1>10. ASSUME NEW c \in Calls, OrphanEnds(c) PROVE Processes'
    BY <1>10 DEF OrphanEnds, Processes, TypeOK
  <1>9. CASE UNCHANGED vars
    BY <1>9 DEF vars, Processes
  <1> QED
    BY <1>1, <1>2, <1>3, <1>4, <1>5, <1>6, <1>7, <1>8, <1>9, <1>10
    DEF Next, Proxy, Timeout, SeeCancelled

\* Whatever is shown, checked or written still concerns a call that was made.
LEMMA MadeStep ==
    ASSUME IInv, [Next]_vars
    PROVE  Made'
  <1> USE DEF IInv
  <1>r. \A r \in Requests : r[1] \in Calls
    BY RequestShape
  <1>1. ASSUME NEW c \in Calls, StartCall(c) PROVE Made'
    <2>1. /\ \A d \in Calls : calls[d] # "idle" => calls'[d] # "idle"
          /\ UNCHANGED <<requests, responses, shown, replying, accepted>>
      BY <1>1 DEF StartCall, TypeOK, hosts
    <2> QED
      BY <2>1, <1>r DEF Made, TypeOK
  <1>2. ASSUME NEW c \in Calls, Publish(c) PROVE Made'
    <2>1. Request(c) \in Requests /\ Request(c)[1] = c
      BY <1>2, RequestType DEF Publish, Request
    <2>2. calls[c] # "idle"
      BY <1>2 DEF Publish, Processes
    <2>3. \A i \in 1..Len(requests') : calls'[requests'[i][1]] # "idle"
      BY <1>2, <2>1, <2>2 DEF Publish, Made, TypeOK
    <2> QED
      BY <1>2, <2>3 DEF Publish, Made, hosts
  <1>3. ASSUME NEW c \in Calls, ReturnAnswer(c) PROVE Made'
    <2>1. /\ \A d \in Calls : calls[d] # "idle" => calls'[d] # "idle"
          /\ UNCHANGED <<requests, responses, shown, replying, accepted>>
      BY <1>3 DEF ReturnAnswer, TypeOK, hosts
    <2> QED
      BY <2>1, <1>r DEF Made, TypeOK
  <1>4. ASSUME NEW c \in Calls, AttemptFails(c) PROVE Made'
    <2>1. /\ \A d \in Calls : calls[d] # "idle" => calls'[d] # "idle"
          /\ UNCHANGED <<requests, responses, shown, replying, accepted>>
      BY <1>4 DEF AttemptFails, TypeOK, hosts
    <2> QED
      BY <2>1, <1>r DEF Made, TypeOK
  <1>5. CASE FinishScript
    BY <1>5 DEF FinishScript, Made, hosts
  <1>6. CASE KillScript
    BY <1>6, <1>r DEF KillScript, Made, TypeOK, hosts
  <1>7. CASE WriteResult \/ KillWorker \/ Cancel \/ \E c \in Calls : OrphanEnds(c)
    BY <1>7 DEF WriteResult, KillWorker, Cancel, OrphanEnds, Made, hosts
  <1>8. ASSUME NEW h \in Hosts, ListRequests(h) \/ NextCommand(h) PROVE Made'
    <2>1. CASE ListRequests(h)
      BY <2>1 DEF ListRequests, Listed, Made, TypeOK, pipeline
    <2>2. CASE NextCommand(h)
      <3>1. /\ UNCHANGED <<calls, requests, responses, accepted, replying>>
            /\ shown' = [shown EXCEPT ![h] = Snapshot(h)]
            /\ h \notin replying
        BY <2>2 DEF NextCommand, Made, Listed, pipeline
      <3> QED
        BY <3>1, SnapshotType DEF Made, TypeOK
    <2> QED
      BY <1>8, <2>1, <2>2
  <1>9. ASSUME NEW h \in Hosts, CheckReply(h) PROVE Made'
    <2>1. /\ UNCHANGED <<calls, requests, responses, accepted>>
          /\ replying' \subseteq replying \cup {h}
          /\ \A g \in Hosts : shown'[g] = shown[g] \/ shown'[g] = [status |-> "none"]
          /\ \A g \in replying' : shown'[g].status = "input_required"
      <3>1. CASE responses[shown[h].request] = NoOne
        BY <1>9, <3>1 DEF CheckReply, Made, pipeline
      <3>2. CASE responses[shown[h].request] # NoOne
        <4>1. /\ UNCHANGED <<calls, requests, responses, accepted, replying>>
              /\ shown' = [shown EXCEPT ![h] = [status |-> "none"]]
              /\ h \notin replying
          BY <1>9, <3>2 DEF CheckReply, pipeline
        <4>2. \A g \in Hosts : g # h => shown'[g] = shown[g]
          BY <4>1 DEF TypeOK
        <4>3. \A g \in Hosts : shown'[g] = shown[g] \/ shown'[g] = [status |-> "none"]
          BY <4>1 DEF TypeOK
        <4>4. \A g \in replying : shown'[g].status = "input_required"
          BY <4>1, <4>2 DEF Made, TypeOK
        <4> QED
          BY <4>1, <4>3, <4>4
      <3> QED
        BY <3>1, <3>2
    <2> QED
      BY <2>1 DEF Made
  <1>10. ASSUME NEW h \in Hosts, WriteReply(h) PROVE Made'
    BY <1>10 DEF WriteReply, Made, TypeOK, pipeline
  <1>11. CASE UNCHANGED vars
    BY <1>11 DEF vars, Made
  <1> QED
    BY <1>1, <1>2, <1>3, <1>4, <1>5, <1>6, <1>7, <1>8, <1>9, <1>10, <1>11
    DEF Next, Proxy, Host, Timeout, SeeCancelled

\* A list is made of what is there, and what is there stays.
LEMMA ListedStep ==
    ASSUME IInv, [Next]_vars
    PROVE  Listed'
  <1> USE DEF IInv
  <1>1. CASE UNCHANGED <<requests, listed, looking, shown>>
    BY <1>1 DEF Listed
  <1>2. ASSUME NEW c \in Calls, Publish(c) PROVE Listed'
    <2>1. Request(c) \in Requests
      BY <1>2, RequestType DEF Publish
    <2>2. Len(requests') = Len(requests) + 1 /\ Len(requests) \in Nat
      BY <1>2, <2>1 DEF Publish, TypeOK
    <2> QED
      BY <1>2, <2>2 DEF Publish, Listed, TypeOK, hosts
  <1>3. ASSUME NEW h \in Hosts, ListRequests(h) PROVE Listed'
    BY <1>3 DEF ListRequests, Listed, TypeOK
  <1>4. ASSUME NEW h \in Hosts, NextCommand(h) PROVE Listed'
    <2>1. Len(requests) \in Nat
      BY DEF TypeOK
    <2> QED
      BY <1>4, <2>1 DEF NextCommand, Listed, TypeOK
  <1>5. ASSUME NEW h \in Hosts, CheckReply(h) \/ WriteReply(h) PROVE Listed'
    <2>1. /\ UNCHANGED <<requests, listed, looking>>
          /\ \A g \in Hosts : shown'[g] = shown[g] \/ shown'[g] = [status |-> "none"]
      BY <1>5 DEF CheckReply, WriteReply, TypeOK
    <2>2. [status |-> "none"].status = "none" /\ looking \subseteq Hosts
      BY DEF TypeOK
    <2> QED
      BY <2>1, <2>2 DEF Listed
  <1>6. ASSUME NEW c \in Calls,
               StartCall(c) \/ ReturnAnswer(c) \/ AttemptFails(c) \/ OrphanEnds(c)
        PROVE  UNCHANGED <<requests, listed, looking, shown>>
    BY <1>6 DEF StartCall, ReturnAnswer, AttemptFails, OrphanEnds, hosts
  <1>7. ASSUME \/ FinishScript \/ KillScript \/ WriteResult \/ KillWorker \/ Cancel
               \/ UNCHANGED vars
        PROVE  UNCHANGED <<requests, listed, looking, shown>>
    BY <1>7 DEF FinishScript, KillScript, WriteResult, KillWorker, Cancel, hosts, vars
  <1> QED
    BY <1>1, <1>2, <1>3, <1>4, <1>5, <1>6, <1>7
    DEF Next, Proxy, Host, Timeout, SeeCancelled

\* A call that returns an answer was under way, so it had returned none.
LEMMA GenuineStep ==
    ASSUME IInv, [Next]_vars
    PROVE  AnswersAreGenuine'
  <1> USE DEF IInv
  <1>1. ASSUME NEW c \in Calls, StartCall(c) PROVE AnswersAreGenuine'
    BY <1>1 DEF StartCall, AnswersAreGenuine, TypeOK, hosts
  <1>2. ASSUME NEW c \in Calls, ReturnAnswer(c) PROVE AnswersAreGenuine'
    <2>1. Request(c) \in Requests /\ Request(c)[1] = c
      BY <1>2, RequestType DEF ReturnAnswer, Request
    <2>2. <<Request(c), responses[Request(c)]>> \in accepted
      BY <1>2, <2>1 DEF ReturnAnswer, Made
    <2>3. \A x \in returned : x[1][1] # c
      BY <1>2 DEF ReturnAnswer, Processes, AnswersAreGenuine
    <2>4. returned' = returned \cup {<<Request(c), responses[Request(c)]>>}
          /\ accepted' = accepted /\ calls' = [calls EXCEPT ![c] = "answered"]
      BY <1>2 DEF ReturnAnswer, hosts
    <2>5. returned' \subseteq accepted'
      BY <2>2, <2>4 DEF AnswersAreGenuine
    <2>6. \A x, y \in returned' : x[1][1] = y[1][1] => x = y
      BY <2>1, <2>3, <2>4 DEF AnswersAreGenuine
    <2>7. \A d \in Calls : calls'[d] = "answered" <=> \E x \in returned' : x[1][1] = d
      <3>1. ASSUME NEW d \in Calls, d # c
            PROVE  calls'[d] = "answered" <=> \E x \in returned' : x[1][1] = d
        BY <2>1, <2>4, <3>1 DEF AnswersAreGenuine, TypeOK
      <3>2. \E x \in returned' : x[1][1] = c
        <4>1. <<Request(c), responses[Request(c)]>>[1][1] = c
          BY <2>1
        <4> QED
          BY <2>4, <4>1
      <3>3. calls'[c] = "answered"
        BY <2>4 DEF TypeOK
      <3> QED
        BY <3>1, <3>2, <3>3
    <2> QED
      BY <2>5, <2>6, <2>7 DEF AnswersAreGenuine
  <1>3. ASSUME NEW c \in Calls, calls[c] = "open", AttemptFails(c)
        PROVE  AnswersAreGenuine'
    BY <1>3 DEF AttemptFails, AnswersAreGenuine, Processes, TypeOK, hosts
  <1>4. CASE KillScript
    BY <1>4 DEF KillScript, AnswersAreGenuine, TypeOK, hosts
  <1>5. CASE \/ FinishScript \/ WriteResult \/ KillWorker \/ Cancel
             \/ \E c \in Calls : Publish(c) \/ OrphanEnds(c)
    BY <1>5 DEF FinishScript, WriteResult, KillWorker, Cancel, Publish, OrphanEnds,
       AnswersAreGenuine, hosts
  <1>6. ASSUME NEW h \in Hosts, Host(h) PROVE AnswersAreGenuine'
    BY <1>6 DEF Host, ListRequests, NextCommand, CheckReply, WriteReply, pipeline,
       AnswersAreGenuine
  <1>7. CASE UNCHANGED vars
    BY <1>7 DEF vars, AnswersAreGenuine
  <1> QED
    BY <1>1, <1>2, <1>3, <1>4, <1>5, <1>6, <1>7
    DEF Next, Proxy, Timeout, SeeCancelled

\* What a host listed and saw answered stays answered, and after its report it
\* lists no more.
LEMMA ReportedStep ==
    ASSUME IInv, [Next]_vars
    PROVE  Reported'
  <1> USE DEF IInv
  <1>1. ASSUME NEW h \in Hosts, ListRequests(h) \/ NextCommand(h) PROVE Reported'
    <2>1. /\ UNCHANGED <<requests, responses, result>>
          /\ \A g \in Hosts \ {h} : listed'[g] = listed[g] /\ shown'[g] = shown[g]
      BY <1>1 DEF ListRequests, NextCommand, TypeOK, pipeline
    <2>2. ASSUME NEW g \in Hosts \ {h}, Final(shown'[g])
          PROVE  Pending(g)' = {} /\ shown'[g] = [status |-> result']
      BY <2>1, <2>2, SamePending DEF Reported
    <2>3. ASSUME Final(shown'[h])
          PROVE  Pending(h)' = {} /\ shown'[h] = [status |-> result']
      <3>1. NextCommand(h)
        BY <1>1, <2>3 DEF ListRequests, Final, TypeOK
      <3>2. Final(Snapshot(h)) /\ shown'[h] = Snapshot(h)
        BY <2>3, <3>1 DEF NextCommand, TypeOK
      <3>3. listed'[h] = listed[h]
        BY <3>1, <3>2 DEF NextCommand, TypeOK
      <3> QED
        BY <2>1, <3>2, <3>3, SamePending, SnapshotType
    <2> QED
      BY <2>2, <2>3 DEF Reported
  <1>2. ASSUME NEW h \in Hosts, CheckReply(h) \/ WriteReply(h) PROVE Reported'
    <2>1. /\ UNCHANGED <<requests, listed, result>>
          /\ \A g \in Hosts : shown'[g] = shown[g] \/ shown'[g] = [status |-> "none"]
      BY <1>2 DEF CheckReply, WriteReply, TypeOK, pipeline
    <2>2. Unanswered' \subseteq Unanswered
      <3>1. CASE CheckReply(h)
        BY <3>1 DEF CheckReply, Unanswered
      <3>2. CASE WriteReply(h)
        <4>1. shown[h].request \in Requests
          BY <3>2 DEF WriteReply, Made
        <4> QED
          BY <3>2, <4>1, NoOneAssumption DEF WriteReply, Unanswered, TypeOK
      <3> QED
        BY <1>2, <3>1, <3>2
    <2>3. \A g \in Hosts : Pending(g)' \subseteq Pending(g)
      BY <2>1, <2>2 DEF Pending
    <2> QED
      BY <2>1, <2>3 DEF Reported, Final
  <1>3. CASE UNCHANGED <<requests, responses, listed, result, shown>>
    BY <1>3, SamePending DEF Reported
  <1>4. ASSUME NEW c \in Calls, Publish(c) PROVE Reported'
    <2>1. Request(c) \in Requests
      BY <1>4, RequestType DEF Publish
    <2>2. UNCHANGED <<responses, listed, result, shown>>
      BY <1>4 DEF Publish, hosts
    <2>3. /\ Len(requests') = Len(requests) + 1 /\ Len(requests) \in Nat
          /\ \A i \in 1..Len(requests) : requests'[i] = requests[i]
      BY <1>4, <2>1 DEF Publish, TypeOK
    <2>4. \A g \in Hosts : listed[g] <= Len(requests) /\ listed[g] \in Nat
      BY DEF Listed, TypeOK
    <2>5. \A g \in Hosts : Pending(g)' = Pending(g)
      BY <2>2, <2>3, <2>4 DEF Pending, Unanswered
    <2> QED
      BY <2>2, <2>5 DEF Reported
  <1>5. CASE WriteResult
    <2>1. result = "none" /\ UNCHANGED <<shown, requests, responses, listed>>
      BY <1>5 DEF WriteResult, Processes, hosts
    <2> QED
      BY <2>1 DEF Reported, Final
  <1>6. ASSUME NEW c \in Calls,
               StartCall(c) \/ ReturnAnswer(c) \/ AttemptFails(c) \/ OrphanEnds(c)
        PROVE  UNCHANGED <<requests, responses, listed, result, shown>>
    BY <1>6 DEF StartCall, ReturnAnswer, AttemptFails, OrphanEnds, hosts
  <1>7. ASSUME FinishScript \/ KillScript \/ KillWorker \/ Cancel \/ UNCHANGED vars
        PROVE  UNCHANGED <<requests, responses, listed, result, shown>>
    BY <1>7 DEF FinishScript, KillScript, KillWorker, Cancel, hosts, vars
  <1> QED
    BY <1>1, <1>2, <1>3, <1>4, <1>5, <1>6, <1>7
    DEF Next, Proxy, Host, Timeout, SeeCancelled

\* The invariant is inductive.
LEMMA Inductive == Spec => []IInv
  <1>1. IInv /\ [Next]_vars => IInv'
    BY TypeStep, ProcessesStep, MadeStep, ListedStep, GenuineStep,
       ReportedStep DEF IInv
  <1> QED
    BY InitIInv, <1>1, PTL DEF Spec
-----------------------------------------------------------------------------
\* TypeOK of HostBridge.tla: the types, and no more attempts than allowed.
THEOREM TypeCorrect == Spec => []TypeOK
  BY Inductive, PTL DEF IInv

\* Whatever is lost, given up or replied to twice, a call returns at most one
\* answer, one that `reply` accepted for a request of this call.
THEOREM CallsReturnGenuineAnswers == Spec => []AnswersAreGenuine
  BY Inductive, PTL DEF IInv

\* Although `next` lists the requests before it looks for the result, and proxies
\* may outlive the script: what it calls completed or failed is the result, no
\* call is under way, and all that was published before it looked is answered.
THEOREM NoCallWaitsAfterTheReport == Spec => []ReportLeavesNoneWaiting
  <1>1. IInv => ReportLeavesNoneWaiting
    <2> SUFFICES ASSUME IInv, NEW h \in Hosts, Final(shown[h])
                 PROVE  /\ shown[h] = [status |-> result]
                        /\ \A c \in Calls : calls[c] # "open"
                        /\ \A i \in Unanswered : listed[h] < i
      BY DEF ReportLeavesNoneWaiting
    <2>1. Pending(h) = {} /\ shown[h] = [status |-> result]
      BY DEF IInv, Reported
    <2>2. result # "none"
      BY <2>1 DEF Final
    <2>3. \A c \in Calls : calls[c] # "open"
      BY <2>2 DEF IInv, Processes
    <2>4. listed[h] \in Nat /\ Unanswered \subseteq Nat
      BY DEF IInv, TypeOK, Unanswered
    <2>5. \A i \in Unanswered : ~(i <= listed[h])
      BY <2>1 DEF Pending
    <2>6. \A i \in Unanswered : listed[h] < i
      BY <2>4, <2>5
    <2> QED
      BY <2>1, <2>3, <2>6
  <1> QED
    BY Inductive, <1>1, PTL

\* The bridge implements the model calls of ModelCalls.tla, step by step.
THEOREM BridgeImplementsModelCalls == Spec => ImplementsModelCalls
  <1>1. Init => ModelCalls!Init
    BY DEF Init, ModelCalls!Init, Final
  <1>2. IInv /\ [Next]_vars => [ModelCalls!Next]_(ModelCalls!vars)
    <2> SUFFICES ASSUME IInv, [Next]_vars
                 PROVE  [ModelCalls!Next]_(ModelCalls!vars)
      OBVIOUS
    <2> USE DEF IInv
    <2> DEFINE Told == {h \in Hosts : Final(shown[h])}
               Run == IF script = "running" THEN "open" ELSE "closed"
               Replied == {x[1][1] : x \in accepted}
    <2>1. ASSUME NEW c \in Calls, StartCall(c) PROVE ModelCalls!Ask(c)
      BY <2>1 DEF StartCall, ModelCalls!Ask, hosts
    <2>2. ASSUME NEW c \in Calls, ReturnAnswer(c) PROVE ModelCalls!Answer(c)
      <3>1. Request(c) \in Requests /\ Request(c)[1] = c /\ calls[c] = "open"
        BY <2>2, RequestType DEF ReturnAnswer, Request
      <3>2. c \in Replied
        <4>1. <<Request(c), responses[Request(c)]>> \in accepted
          BY <2>2, <3>1 DEF ReturnAnswer, Made
        <4>2. <<Request(c), responses[Request(c)]>>[1][1] = c
          BY <3>1
        <4> QED
          BY <4>1, <4>2
      <3> QED
        BY <2>2, <3>1, <3>2 DEF ReturnAnswer, ModelCalls!Answer, hosts
    <2>3. ASSUME NEW c \in Calls, calls[c] = "open", AttemptFails(c)
          PROVE  ModelCalls!Fail(c) \/ UNCHANGED ModelCalls!vars
      BY <2>3 DEF AttemptFails, ModelCalls!Fail, ModelCalls!vars, hosts, Processes
    <2>4. CASE FinishScript
      <3>1. ModelCalls!Close
        BY <2>4 DEF FinishScript, ModelCalls!Close, hosts
      <3> QED
        BY <3>1 DEF ModelCalls!Next
    <2>5. CASE KillScript
      <3>1. ModelCalls!Abort
        BY <2>5 DEF KillScript, ModelCalls!Abort, hosts
      <3> QED
        BY <3>1 DEF ModelCalls!Next
    <2>6. ASSUME NEW h \in Hosts, NextCommand(h)
          PROVE  ModelCalls!Tell(h) \/ UNCHANGED ModelCalls!vars
      <3>1. /\ UNCHANGED <<calls, accepted, script>>
            /\ shown' = [shown EXCEPT ![h] = Snapshot(h)]
            /\ ~Final(shown[h])
        BY <2>6 DEF NextCommand, Listed, pipeline, Final
      <3>2. CASE Final(Snapshot(h))
        <4>1. result # "none"
          BY <3>2, SnapshotType
        <4>2. Told' = Told \cup {h} /\ script # "running"
          BY <3>1, <3>2, <4>1 DEF Processes, TypeOK
        <4> QED
          BY <3>1, <4>2 DEF ModelCalls!Tell
      <3>3. CASE ~Final(Snapshot(h))
        <4>1. Told' = Told
          BY <3>1, <3>3 DEF TypeOK
        <4> QED
          BY <3>1, <4>1 DEF ModelCalls!vars
      <3> QED
        BY <3>2, <3>3
    <2>l. ASSUME NEW h \in Hosts, ListRequests(h) PROVE UNCHANGED ModelCalls!vars
      <3>1. Told' = Told
        BY <2>l DEF ListRequests, Final, TypeOK
      <3> QED
        BY <2>l, <3>1 DEF ListRequests, pipeline, ModelCalls!vars
    <2>7. ASSUME NEW h \in Hosts, CheckReply(h) PROVE UNCHANGED ModelCalls!vars
      <3>1. Told' = Told
        <4>1. ~Final(shown[h]) /\ ~Final([status |-> "none"])
          BY <2>7 DEF CheckReply, Final
        <4>2. shown' = shown \/ shown' = [shown EXCEPT ![h] = [status |-> "none"]]
          BY <2>7 DEF CheckReply
        <4>3. \A g \in Hosts : Final(shown'[g]) <=> Final(shown[g])
          BY <4>1, <4>2 DEF TypeOK
        <4> QED
          BY <4>3 DEF Final
      <3> QED
        BY <2>7, <3>1 DEF CheckReply, pipeline, ModelCalls!vars
    <2>8. ASSUME NEW h \in Hosts, WriteReply(h)
          PROVE  \E c \in Calls : ModelCalls!Reply(c)
      <3>1. /\ shown[h].status = "input_required" /\ shown[h].request \in Requests
            /\ calls[shown[h].request[1]] # "idle"
        BY <2>8 DEF WriteReply, Made
      <3>2. Told' = Told
        BY <2>8, <3>1 DEF WriteReply, Final, TypeOK
      <3>3. Replied' = Replied \cup {shown[h].request[1]}
        <4>1. <<shown[h].request, h>>[1][1] = shown[h].request[1]
          OBVIOUS
        <4>2. accepted' = accepted \cup {<<shown[h].request, h>>}
          BY <2>8 DEF WriteReply
        <4> QED
          BY <4>1, <4>2
      <3>4. PICK c \in Calls : c = shown[h].request[1]
        BY <3>1, RequestShape
      <3>5. ModelCalls!Reply(c)
        BY <2>8, <3>1, <3>2, <3>3, <3>4 DEF WriteReply, pipeline, ModelCalls!Reply
      <3> QED
        BY <3>5
    <2>9. ASSUME \/ UNCHANGED vars \/ WriteResult \/ KillWorker \/ Cancel
                 \/ \E c \in Calls : Publish(c) \/ OrphanEnds(c)
          PROVE  UNCHANGED ModelCalls!vars
      BY <2>9 DEF vars, WriteResult, KillWorker, Cancel, Publish, OrphanEnds,
         ModelCalls!vars, hosts
    <2> QED
      BY <2>1, <2>l, <2>2, <2>3, <2>4, <2>5, <2>6, <2>7, <2>8, <2>9
      DEF Next, Proxy, Host, Timeout, SeeCancelled, ModelCalls!Next
  <1>3. Spec => ModelCalls!Spec
    BY Inductive, <1>1, <1>2, PTL DEF Spec, ModelCalls!Spec
  <1> QED
    BY <1>3 DEF ImplementsModelCalls
=============================================================================
