---------------------------- MODULE RequestQueue ----------------------------
(***************************************************************************)
(* The serial request queue of the InDesign plugin.                        *)
(*                                                                         *)
(* Every read and write of the InDesign DOM goes through one queue: bridge *)
(* requests, status reports and the panel's own refreshes.  #drain runs    *)
(* one task at a time, to its end.  A cancellation removes a waiting       *)
(* request; for the active one it only changes what its caller is told.    *)
(* A deadline is looked at when a request is about to start and when it    *)
(* has ended.                                                              *)
(*                                                                         *)
(* The code runs without a break from one await to the next, so settling   *)
(* a request, dropping expired ones and starting the next is one action.   *)
(***************************************************************************)
EXTENDS Integers, Sequences

CONSTANTS
  Requests,        \* Requests, each enqueued once under an id of its own.
  StatusRequests,  \* Those that report the queue depth to their caller.
  None,            \* No request is active; no depth was reported.
  MaxQueueDepth    \* MAX_QUEUE_DEPTH.

ASSUME ConstantsAssumption ==
  /\ None \notin Requests
  /\ None \notin Int
  /\ StatusRequests \subseteq Requests
  /\ MaxQueueDepth \in Nat \ {0}

VARIABLES
  pending,          \* #pending: requests waiting to start.
  active,           \* #activeId: the request whose task the host runs.
  cancelRequested,  \* #activeCancellationRequested.
  expired,          \* Clock: requests whose deadline has passed.
  outcome,          \* What the promise of a request has settled to.
  host,             \* Host: what has become of the task of a request.
  cancelReply,      \* What cancel has answered about a request.
  reportedDepth,    \* The queue depth in the last status reply.
  arrival,          \* History: the place in which a request was accepted.
  accepted          \* History: how many requests have been accepted.

vars == <<pending, active, cancelRequested, expired, outcome, host,
          cancelReply, reportedDepth, arrival, accepted>>

-----------------------------------------------------------------------------
(* Types.                                                                  *)

\* Answers that invite the caller to try again.
Retryable == {"busy", "cancelled", "expired"}

\* Answers after the task has run; the last two say it may have completed.
AfterRun == {"result", "error", "cancelledLate", "expiredLate"}

Outcomes == {"none", "waiting"} \cup Retryable \cup AfterRun

HostStates == {"untouched", "running", "ended"}

Depth == Len(pending) + (IF active = None THEN 0 ELSE 1)

TypeOK ==
  /\ pending \in Seq(Requests)
  /\ active \in Requests \cup {None}
  /\ cancelRequested \in BOOLEAN
  /\ expired \subseteq Requests
  /\ outcome \in [Requests -> Outcomes]
  /\ host \in [Requests -> HostStates]
  /\ cancelReply \in [Requests -> {"none", "queued", "active"}]
  /\ reportedDepth \in 0 .. MaxQueueDepth \cup {None}
  /\ arrival \in [Requests -> Nat]
  /\ accepted \in Nat
  /\ Depth <= MaxQueueDepth

Init ==
  /\ pending = <<>>
  /\ active = None
  /\ cancelRequested = FALSE
  /\ expired = {}
  /\ outcome = [r \in Requests |-> "none"]
  /\ host = [r \in Requests |-> "untouched"]
  /\ cancelReply = [r \in Requests |-> "none"]
  /\ reportedDepth = None
  /\ arrival = [r \in Requests |-> 0]
  /\ accepted = 0

-----------------------------------------------------------------------------
(* The drain loop.                                                         *)

\* The positions of the requests that can still start.
ReadyPositions(q) == {i \in 1 .. Len(q) : q[i] \notin expired}

\* The position of the first of them, if there is one.
FirstReady(q) == {i \in ReadyPositions(q) : \A j \in ReadyPositions(q) : i <= j}

\* The head of the queue is dropped while its deadline has passed; the first
\* request in time is started.  settled and ended are the outcomes and the
\* host states that the running iteration leaves behind.
Drain(q, settled, ended) ==
  LET dropped(n) == {q[i] : i \in 1 .. n}
      expire(n) == [r \in Requests |-> IF r \in dropped(n) THEN "expired" ELSE settled[r]]
  IN /\ cancelRequested' = FALSE
     /\ \/ /\ ReadyPositions(q) = {}
           /\ pending' = <<>>
           /\ active' = None
           /\ outcome' = expire(Len(q))
           /\ host' = ended
        \/ \E n \in FirstReady(q) :
             /\ pending' = SubSeq(q, n + 1, Len(q))
             /\ active' = q[n]
             /\ outcome' = expire(n - 1)
             /\ host' = [ended EXCEPT ![q[n]] = "running"]

\* Mutant: the flag is not released when the loop ends.
AlwaysDraining == accepted > 0

\* #draining: from one await to the next the loop is at the active request.
Draining == active # None

\* Mutant: off by one.
OverFull == Depth > MaxQueueDepth

Full == Depth >= MaxQueueDepth

-----------------------------------------------------------------------------
(* Operations.                                                             *)

Refuse(r) ==
  /\ outcome[r] = "none"
  /\ Full
  /\ outcome' = [outcome EXCEPT ![r] = "busy"]
  /\ UNCHANGED <<pending, active, cancelRequested, expired, host, cancelReply,
                 reportedDepth, arrival, accepted>>

Enqueue(r) ==
  LET waiting == [outcome EXCEPT ![r] = "waiting"]
  IN /\ outcome[r] = "none"
     /\ ~Full
     /\ accepted' = accepted + 1
     /\ arrival' = [arrival EXCEPT ![r] = accepted + 1]
     /\ \/ /\ Draining
           /\ pending' = Append(pending, r)
           /\ outcome' = waiting
           /\ UNCHANGED <<active, cancelRequested, host>>
        \/ /\ ~Draining
           /\ Drain(Append(pending, r), waiting, host)
     /\ UNCHANGED <<expired, cancelReply, reportedDepth>>

\* The clock passes the deadline of a request.
DeadlinePasses(r) ==
  /\ outcome[r] = "waiting"
  /\ r \notin expired
  /\ expired' = expired \cup {r}
  /\ UNCHANGED <<pending, active, cancelRequested, outcome, host, cancelReply,
                 reportedDepth, arrival, accepted>>

\* Mutant: splice without its count takes all that follow as well.
SplicedToEnd(i) == SubSeq(pending, 1, i - 1)

\* The queue without the request at position i.
Spliced(i) == SubSeq(pending, 1, i - 1) \o SubSeq(pending, i + 1, Len(pending))

CancelQueued(r) ==
  /\ \E i \in 1 .. Len(pending) : pending[i] = r /\ pending' = Spliced(i)
  /\ outcome' = [outcome EXCEPT ![r] = "cancelled"]
  /\ cancelReply' = [cancelReply EXCEPT ![r] = "queued"]
  /\ UNCHANGED <<active, cancelRequested, expired, host, reportedDepth,
                 arrival, accepted>>

CancelActive(r) ==
  /\ \A i \in 1 .. Len(pending) : pending[i] # r
  /\ active = r
  /\ cancelRequested' = TRUE
  /\ cancelReply' = [cancelReply EXCEPT ![r] = "active"]
  /\ UNCHANGED <<pending, active, expired, outcome, host, reportedDepth,
                 arrival, accepted>>

\* Mutant: a late cancellation is answered like one before the start.
RetryableSettlement(ok) ==
  IF ~ok THEN "error"
  ELSE IF cancelRequested THEN "cancelled"
  ELSE IF active \in expired THEN "expiredLate"
  ELSE "result"

\* Mutant: the deadline is looked at before the cancellation.
DeadlineFirstSettlement(ok) ==
  IF ~ok THEN "error"
  ELSE IF active \in expired THEN "expiredLate"
  ELSE IF cancelRequested THEN "cancelledLate"
  ELSE "result"

\* What the caller of the active request is told when its task has ended.
Settlement(ok) ==
  IF ~ok THEN "error"
  ELSE IF cancelRequested THEN "cancelledLate"
  ELSE IF active \in expired THEN "expiredLate"
  ELSE "result"

\* The task has ended, well or with an error.  The router reads the depth for
\* a status reply when the loop has already gone on to the next request.
Complete(ok) ==
  /\ active # None
  /\ Drain(pending, [outcome EXCEPT ![active] = Settlement(ok)],
                    [host EXCEPT ![active] = "ended"])
  /\ reportedDepth' = IF active \in StatusRequests /\ Settlement(ok) = "result"
                      THEN IF Depth' = 0 THEN 0 ELSE Depth' - 1
                      ELSE reportedDepth
  /\ UNCHANGED <<expired, cancelReply, arrival, accepted>>

-----------------------------------------------------------------------------

TaskEnds == \E ok \in BOOLEAN : Complete(ok)

Next ==
  \/ \E r \in Requests : Refuse(r) \/ Enqueue(r) \/ DeadlinePasses(r)
                           \/ CancelQueued(r) \/ CancelActive(r)
  \/ TaskEnds

Spec == Init /\ [][Next]_vars

\* Every DOM call comes to its end.
FairSpec == Spec /\ WF_vars(TaskEnds)

-----------------------------------------------------------------------------
(* Properties.                                                             *)

\* Requests start in the order in which they were accepted, whatever is
\* cancelled or expires in between: none is still waiting when a later one
\* has been started.
FifoOrder ==
  \A a, b \in Requests :
    0 < arrival[a] /\ arrival[a] < arrival[b] /\ host[b] # "untouched"
      => host[a] # "untouched" \/ outcome[a] # "waiting"

\* The host never runs two tasks, and the queue knows the one it runs: DOM
\* reads and writes of different requests do not interleave.
OneAtATime == \A r \in Requests : host[r] = "running" <=> active = r

\* An answer that says "try again" is given only for work that has not been
\* touched and never will be, so trying again repeats nothing.
RetryableNeverRan ==
  \A r \in Requests : outcome[r] \in Retryable => host[r] = "untouched"

\* A cancellation reaches its own request and no other: a request that was
\* cancelled in the queue is not run, one that was cancelled while it ran
\* does not report its result, and no request is reported cancelled that
\* nobody cancelled.
CancelHitsItsTarget ==
  \A r \in Requests :
    /\ cancelReply[r] = "queued" <=> outcome[r] = "cancelled"
    /\ cancelReply[r] = "active" /\ active # r => outcome[r] \in {"cancelledLate", "error"}
    /\ outcome[r] = "cancelledLate" => cancelReply[r] = "active"

\* No task is started after the deadline of its request.
StartsInTime ==
  [][\A r \in Requests :
       host[r] = "untouched" /\ host'[r] = "running" => r \notin expired]_vars

\* The state of one request as its caller sees it.
CallerState(r) ==
  CASE outcome[r] = "none" -> "new"
    [] outcome[r] \in Retryable -> "refused"
    [] outcome[r] = "waiting" /\ host[r] = "untouched" -> "waiting"
    [] host[r] = "running" -> "running"
    [] OTHER -> "done"

Contract == INSTANCE RequestContract WITH state <- [r \in Requests |-> CallerState(r)]

\* Refinement: every request is refused untouched or run once to its end,
\* alone, through every interleaving of arrivals, cancellations, deadlines and
\* failing tasks; and every accepted request is answered.
KeepsContract == Contract!Spec

\* A status reply tells how many other requests are in the queue.
ReportsQueueDepth ==
  [][\A r \in StatusRequests :
       host[r] = "running" /\ outcome'[r] = "result" => reportedDepth' = Depth']_vars

-----------------------------------------------------------------------------
(* The inductive invariant.                                                *)

\* A request is waiting exactly when it is in the queue or active.
QueueMatchesOutcome ==
  /\ \A i, j \in 1 .. Len(pending) : pending[i] = pending[j] => i = j
  /\ \A i \in 1 .. Len(pending) : /\ pending[i] # active
                                  /\ outcome[pending[i]] = "waiting"
  /\ active # None => outcome[active] = "waiting"
  /\ active = None => pending = <<>> /\ ~cancelRequested
  /\ \A r \in Requests : outcome[r] = "waiting"
       => active = r \/ \E i \in 1 .. Len(pending) : pending[i] = r

\* Only the active request and those answered after a run have been touched.
HostMatchesOutcome ==
  \A r \in Requests :
    /\ host[r] = "running" <=> active = r
    /\ host[r] = "ended" <=> outcome[r] \in AfterRun

\* The queue is sorted by arrival, and what has been started came earlier.
Sorted ==
  /\ \A i, j \in 1 .. Len(pending) : i < j => arrival[pending[i]] < arrival[pending[j]]
  /\ \A i \in 1 .. Len(pending), r \in Requests :
       host[r] # "untouched" => arrival[r] < arrival[pending[i]]
  /\ \A r \in Requests : arrival[r] <= accepted

\* The pending cancellation is that of the active request.
CancellationMatches ==
  \A r \in Requests :
    /\ cancelReply[r] = "queued" <=> outcome[r] = "cancelled"
    /\ active = r => (cancelReply[r] = "active" <=> cancelRequested)
    /\ cancelReply[r] = "active" /\ active # r => outcome[r] \in {"cancelledLate", "error"}
    /\ outcome[r] = "cancelledLate" => cancelReply[r] = "active"

QueueInv ==
  /\ TypeOK
  /\ QueueMatchesOutcome
  /\ HostMatchesOutcome
  /\ Sorted
  /\ CancellationMatches

=============================================================================
