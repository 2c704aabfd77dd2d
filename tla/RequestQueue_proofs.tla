------------------------ MODULE RequestQueue_proofs -------------------------
(***************************************************************************)
(* Proofs about RequestQueue, for every set of requests, every capacity    *)
(* and every interleaving of arrivals, cancellations, deadlines and ends   *)
(* of tasks.                                                               *)
(*                                                                         *)
(* QueueInv is inductive.  It ties the queue, the active request, the host *)
(* and the answers together: a request is untouched while it waits, and    *)
(* the queue is sorted by arrival behind everything that has been started. *)
(* All steps that move the queue on go through Drain, so DrainInv does the *)
(* work once for Enqueue and Complete.                                     *)
(***************************************************************************)
EXTENDS RequestQueue, SequenceTheorems, TLAPS

\* What one pass of the drain loop does: the first n - 1 requests of q are
\* answered as expired, the nth is started, unless the queue ends before.
Passed(q, settled, ended, n) ==
  /\ pending' \in Seq(Requests)
  /\ Len(pending') = IF n <= Len(q) THEN Len(q) - n ELSE 0
  /\ \A i \in 1 .. Len(pending') : pending'[i] = q[n + i]
  /\ active' = IF n <= Len(q) THEN q[n] ELSE None
  /\ outcome' = [r \in Requests |-> IF \E i \in 1 .. n - 1 : q[i] = r
                                   THEN "expired" ELSE settled[r]]
  /\ host' = IF n <= Len(q) THEN [ended EXCEPT ![q[n]] = "running"] ELSE ended
  /\ n <= Len(q) => q[n] \notin expired

LEMMA DrainFacts ==
  ASSUME NEW q \in Seq(Requests), NEW settled, NEW ended, Drain(q, settled, ended)
  PROVE  /\ cancelRequested' = FALSE
         /\ \E n \in 1 .. Len(q) + 1 : Passed(q, settled, ended, n)
<1>0. Len(q) \in Nat
  OBVIOUS
<1>1. cancelRequested' = FALSE
  BY DEF Drain
<1>2. ASSUME pending' = <<>>,
             active' = None,
             outcome' = [r \in Requests |-> IF r \in {q[i] : i \in 1 .. Len(q)}
                                           THEN "expired" ELSE settled[r]],
             host' = ended
      PROVE  Passed(q, settled, ended, Len(q) + 1)
  <2>1. /\ ~(Len(q) + 1 <= Len(q)) /\ (Len(q) + 1) - 1 = Len(q)
        /\ pending' \in Seq(Requests) /\ Len(pending') = 0
    BY <1>0, <1>2
  <2>2. outcome' = [r \in Requests |-> IF \E i \in 1 .. Len(q) : q[i] = r
                                      THEN "expired" ELSE settled[r]]
    BY <1>2, Zenon
  <2> QED
    BY <1>2, <2>1, <2>2 DEF Passed
<1>3. ASSUME NEW n \in FirstReady(q),
             pending' = SubSeq(q, n + 1, Len(q)),
             active' = q[n],
             outcome' = [r \in Requests |-> IF r \in {q[i] : i \in 1 .. n - 1}
                                           THEN "expired" ELSE settled[r]],
             host' = [ended EXCEPT ![q[n]] = "running"]
      PROVE  n \in 1 .. Len(q) + 1 /\ Passed(q, settled, ended, n)
  <2>1. n \in 1 .. Len(q) /\ q[n] \notin expired
    BY DEF FirstReady, ReadyPositions
  <2>2. /\ pending' \in Seq(Requests)
        /\ Len(pending') = Len(q) - n
        /\ \A i \in 1 .. Len(pending') : pending'[i] = q[n + i]
    BY <1>0, <1>3, <2>1
  <2>3. outcome' = [r \in Requests |-> IF \E i \in 1 .. n - 1 : q[i] = r
                                      THEN "expired" ELSE settled[r]]
    BY <1>3, Zenon
  <2>4. n \in 1 .. Len(q) + 1 /\ n <= Len(q)
    BY <1>0, <2>1
  <2> QED
    BY <1>3, <2>1, <2>2, <2>3, <2>4 DEF Passed
<1>4. Len(q) + 1 \in 1 .. Len(q) + 1
  BY <1>0
<1> QED
  BY <1>1, <1>2, <1>3, <1>4 DEF Drain

\* No task is running, and q holds exactly the waiting requests, untouched
\* and sorted by arrival.
ReadyToDrain(q, settled, ended) ==
  /\ settled \in [Requests -> Outcomes]
  /\ ended \in [Requests -> HostStates]
  /\ \A i, j \in 1 .. Len(q) : q[i] = q[j] => i = j
  /\ \A i \in 1 .. Len(q) : settled[q[i]] = "waiting" /\ ended[q[i]] = "untouched"
  /\ \A r \in Requests : settled[r] = "waiting" => \E i \in 1 .. Len(q) : q[i] = r
  /\ \A r \in Requests : /\ ended[r] # "running"
                         /\ ended[r] = "ended" <=> settled[r] \in AfterRun
  /\ \A i, j \in 1 .. Len(q) : i < j => arrival'[q[i]] < arrival'[q[j]]
  /\ \A i \in 1 .. Len(q), r \in Requests :
       ended[r] # "untouched" => arrival'[r] < arrival'[q[i]]
  /\ \A r \in Requests : arrival'[r] <= accepted'
  /\ \A i \in 1 .. Len(q) : cancelReply'[q[i]] # "active"
  /\ \A r \in Requests :
       /\ cancelReply'[r] = "queued" <=> settled[r] = "cancelled"
       /\ cancelReply'[r] = "active" => settled[r] \in {"cancelledLate", "error"}
       /\ settled[r] = "cancelledLate" => cancelReply'[r] = "active"

Drained(q) ==
  /\ pending' \in Seq(Requests)
  /\ active' \in Requests \cup {None}
  /\ cancelRequested' \in BOOLEAN
  /\ outcome' \in [Requests -> Outcomes]
  /\ host' \in [Requests -> HostStates]
  /\ Depth' <= Len(q)
  /\ QueueMatchesOutcome' /\ HostMatchesOutcome' /\ Sorted' /\ CancellationMatches'

\* The drain loop leaves a state that satisfies the invariant.
LEMMA DrainInv ==
  ASSUME NEW q \in Seq(Requests), NEW settled, NEW ended,
         Drain(q, settled, ended), ReadyToDrain(q, settled, ended)
  PROVE  Drained(q)
<1> USE DEF ReadyToDrain
<1> None \notin Requests
  BY ConstantsAssumption DEF ConstantsAssumption
<1>0. Len(q) \in Nat
  OBVIOUS
<1>a. PICK n \in 1 .. Len(q) + 1 : Passed(q, settled, ended, n)
  BY DrainFacts
<1>1. /\ n \in Nat /\ 1 <= n /\ n <= Len(q) + 1
      /\ pending' \in Seq(Requests)
      /\ Len(pending') = IF n <= Len(q) THEN Len(q) - n ELSE 0
      /\ \A i \in 1 .. Len(pending') : pending'[i] = q[n + i]
      /\ active' = IF n <= Len(q) THEN q[n] ELSE None
      /\ outcome' = [r \in Requests |-> IF \E i \in 1 .. n - 1 : q[i] = r
                                       THEN "expired" ELSE settled[r]]
      /\ host' = IF n <= Len(q) THEN [ended EXCEPT ![q[n]] = "running"] ELSE ended
  BY <1>0, <1>a DEF Passed
<1>2. cancelRequested' = FALSE
  BY DrainFacts
<1>3. /\ Len(pending') \in Nat
      /\ \A i \in 1 .. Len(pending') : /\ n + i \in 1 .. Len(q)
                                      /\ n + i > n
                                      /\ pending'[i] = q[n + i]
                                      /\ pending'[i] \in Requests
  BY <1>0, <1>1
<1>4. n <= Len(q) => n \in 1 .. Len(q) /\ q[n] \in Requests
  BY <1>0, <1>1
<1>5. /\ active' \in Requests \cup {None}
      /\ outcome' \in [Requests -> Outcomes]
      /\ host' \in [Requests -> HostStates]
  BY <1>1, <1>4 DEF Outcomes, Retryable, HostStates
<1>6. Depth' <= Len(q)
  <2>1. CASE n <= Len(q)
    BY <1>0, <1>1, <2>1 DEF Depth
  <2>2. CASE ~(n <= Len(q))
    BY <1>0, <1>1, <2>2 DEF Depth
  <2> QED
    BY <2>1, <2>2
<1>7. ASSUME NEW i \in 1 .. Len(q), i >= n
      PROVE  outcome'[q[i]] = "waiting"
  <2>1. ~ \E j \in 1 .. n - 1 : q[j] = q[i]
    BY <1>0, <1>1, <1>7
  <2> QED
    BY <1>1, <2>1
<1>8. QueueMatchesOutcome'
  <2>1. \A i, j \in 1 .. Len(pending') : pending'[i] = pending'[j] => i = j
    BY <1>0, <1>1, <1>3
  <2>2. ASSUME NEW i \in 1 .. Len(pending')
        PROVE  pending'[i] # active' /\ outcome'[pending'[i]] = "waiting"
    <3>1. n + i \in 1 .. Len(q) /\ n + i >= n /\ pending'[i] = q[n + i] /\ n + i # n
      BY <1>0, <1>1, <1>3
    <3>2. outcome'[q[n + i]] = "waiting"
      BY <3>1, <1>7
    <3>3. n \in 1 .. Len(q) /\ active' = q[n]
      BY <1>0, <1>1, <3>1
    <3> QED
      BY <3>1, <3>2, <3>3
  <2>3. active' # None => outcome'[active'] = "waiting"
    BY <1>0, <1>1, <1>4, <1>7
  <2>4. active' = None => pending' = <<>> /\ ~cancelRequested'
    BY <1>0, <1>1, <1>2, <1>4
  <2>5. ASSUME NEW r \in Requests, outcome'[r] = "waiting"
        PROVE  active' = r \/ \E i \in 1 .. Len(pending') : pending'[i] = r
    <3>1. settled[r] = "waiting" /\ ~ \E i \in 1 .. n - 1 : q[i] = r
      BY <1>1, <2>5
    <3>2. PICK k \in 1 .. Len(q) : q[k] = r
      BY <3>1
    <3>3. k >= n
      BY <1>0, <1>1, <3>1, <3>2
    <3>4. CASE k = n
      <4>1. n <= Len(q)
        BY <1>0, <3>2, <3>4
      <4> QED
        BY <1>1, <3>2, <3>4, <4>1
    <3>5. CASE k > n
      <4>1. k - n \in 1 .. Len(pending') /\ n + (k - n) = k
        BY <1>0, <1>1, <3>5
      <4>2. pending'[k - n] = q[n + (k - n)]
        BY <1>1, <4>1
      <4>3. pending'[k - n] = r
        BY <3>2, <4>1, <4>2
      <4> QED
        BY <4>1, <4>3
    <3>6. k = n \/ k > n
      BY <1>0, <1>1, <3>3
    <3> QED
      BY <3>4, <3>5, <3>6
  <2> QED
    BY <2>1, <2>2, <2>3, <2>4, <2>5 DEF QueueMatchesOutcome
<1>9. HostMatchesOutcome'
  <2> SUFFICES ASSUME NEW r \in Requests
               PROVE  /\ host'[r] = "running" <=> active' = r
                      /\ host'[r] = "ended" <=> outcome'[r] \in AfterRun
    BY DEF HostMatchesOutcome
  <2>1. host'[r] = "running" <=> active' = r
    BY <1>1, <1>4
  <2>2. host'[r] = "ended" <=> ended[r] = "ended"
    BY <1>1, <1>4
  <2>3. outcome'[r] \in AfterRun <=> settled[r] \in AfterRun
    <3>1. CASE \E i \in 1 .. n - 1 : q[i] = r
      <4>1. settled[r] = "waiting"
        BY <1>0, <1>1, <3>1
      <4> QED
        BY <1>1, <3>1, <4>1 DEF AfterRun
    <3>2. CASE ~ \E i \in 1 .. n - 1 : q[i] = r
      BY <1>1, <3>2
    <3> QED
      BY <3>1, <3>2
  <2> QED
    BY <2>1, <2>2, <2>3
<1>10. Sorted'
  <2>1. ASSUME NEW i \in 1 .. Len(pending'), NEW j \in 1 .. Len(pending'), i < j
        PROVE  arrival'[pending'[i]] < arrival'[pending'[j]]
    <3>1. n + i \in 1 .. Len(q) /\ n + j \in 1 .. Len(q) /\ n + i < n + j
      BY <1>0, <1>1, <1>3, <2>1
    <3>2. arrival'[q[n + i]] < arrival'[q[n + j]]
      BY <3>1
    <3> QED
      BY <1>3, <3>2
  <2>2. ASSUME NEW i \in 1 .. Len(pending'), NEW r \in Requests, host'[r] # "untouched"
        PROVE  arrival'[r] < arrival'[pending'[i]]
    <3>1. CASE ended[r] # "untouched"
      BY <1>3, <3>1
    <3>2. CASE ended[r] = "untouched"
      <4>1. n <= Len(q) /\ r = q[n]
        BY <1>1, <1>4, <2>2, <3>2
      <4>2. n \in 1 .. Len(q) /\ n + i \in 1 .. Len(q) /\ n < n + i
        BY <1>0, <1>1, <1>3, <4>1
      <4>3. arrival'[q[n]] < arrival'[q[n + i]]
        BY <4>2
      <4> QED
        BY <1>3, <4>1, <4>3
    <3> QED
      BY <3>1, <3>2
  <2> QED
    BY <2>1, <2>2 DEF Sorted
<1>11. CancellationMatches'
  <2> SUFFICES ASSUME NEW r \in Requests
               PROVE  /\ cancelReply'[r] = "queued" <=> outcome'[r] = "cancelled"
                      /\ active' = r => (cancelReply'[r] = "active" <=> cancelRequested')
                      /\ cancelReply'[r] = "active" /\ active' # r
                           => outcome'[r] \in {"cancelledLate", "error"}
                      /\ outcome'[r] = "cancelledLate" => cancelReply'[r] = "active"
    BY DEF CancellationMatches
  <2>1. CASE \E i \in 1 .. n - 1 : q[i] = r
    <3>1. settled[r] = "waiting" /\ cancelReply'[r] # "active" /\ outcome'[r] = "expired"
      BY <1>0, <1>1, <2>1
    <3> QED
      BY <1>2, <3>1
  <2>2. CASE ~ \E i \in 1 .. n - 1 : q[i] = r
    <3>1. outcome'[r] = settled[r]
      BY <1>1, <2>2
    <3>2. active' = r => cancelReply'[r] # "active"
      BY <1>1, <1>4
    <3> QED
      BY <1>2, <3>1, <3>2
  <2> QED
    BY <2>1, <2>2
<1> QED
  BY <1>1, <1>2, <1>5, <1>6, <1>8, <1>9, <1>10, <1>11 DEF Drained

-----------------------------------------------------------------------------
(* One lemma per operation.                                                *)

LEMMA ConstantFacts ==
  /\ None \notin Requests
  /\ MaxQueueDepth \in Nat
  /\ 1 <= MaxQueueDepth
BY ConstantsAssumption DEF ConstantsAssumption

LEMMA InitInv == Init => QueueInv
<1> SUFFICES ASSUME Init PROVE QueueInv
  OBVIOUS
<1>1. pending \in Seq(Requests) /\ Len(pending) = 0 /\ Depth = 0
  BY DEF Init, Depth
<1>2. TypeOK
  <2>1. Depth <= MaxQueueDepth
    BY <1>1, ConstantFacts
  <2>2. accepted \in Nat /\ reportedDepth \in 0 .. MaxQueueDepth \cup {None}
    BY DEF Init
  <2> QED
    BY <1>1, <2>1, <2>2 DEF Init, TypeOK, Outcomes, HostStates
<1>3. QueueMatchesOutcome /\ HostMatchesOutcome /\ Sorted /\ CancellationMatches
  BY <1>1, ConstantFacts
  DEF Init, QueueMatchesOutcome, HostMatchesOutcome, Sorted, CancellationMatches, AfterRun
<1> QED
  BY <1>2, <1>3 DEF QueueInv

\* A request that was not enqueued yet is neither in the queue nor touched.
LEMMA NewRequestFacts ==
  ASSUME QueueInv, NEW r \in Requests, outcome[r] = "none"
  PROVE  /\ host[r] = "untouched"
         /\ cancelReply[r] = "none"
         /\ active # r
         /\ \A i \in 1 .. Len(pending) : pending[i] # r
<1> USE DEF QueueInv
<1>1. active # r /\ \A i \in 1 .. Len(pending) : pending[i] # r
  BY ConstantFacts DEF QueueMatchesOutcome
<1>2. host[r] = "untouched"
  BY <1>1 DEF HostMatchesOutcome, TypeOK, HostStates, AfterRun
<1>3. cancelReply[r] = "none"
  BY <1>1 DEF CancellationMatches, TypeOK
<1> QED
  BY <1>1, <1>2, <1>3

LEMMA RefuseInv ==
  ASSUME QueueInv, NEW r \in Requests, Refuse(r)
  PROVE  QueueInv'
<1> USE DEF QueueInv
<1>1. /\ outcome[r] = "none"
      /\ outcome' = [outcome EXCEPT ![r] = "busy"]
      /\ UNCHANGED <<pending, active, cancelRequested, expired, host, cancelReply,
                     reportedDepth, arrival, accepted>>
  BY DEF Refuse
<1>2. TypeOK'
  BY <1>1 DEF TypeOK, Depth, Outcomes, Retryable
<1>3. QueueMatchesOutcome'
  BY <1>1, NewRequestFacts DEF QueueMatchesOutcome, TypeOK
<1>4. HostMatchesOutcome' /\ CancellationMatches'
  BY <1>1, NewRequestFacts DEF HostMatchesOutcome, CancellationMatches, TypeOK, AfterRun
<1>5. Sorted'
  BY <1>1 DEF Sorted
<1> QED
  BY <1>2, <1>3, <1>4, <1>5

LEMMA DeadlinePassesInv ==
  ASSUME QueueInv, NEW r \in Requests, DeadlinePasses(r)
  PROVE  QueueInv'
<1> USE DEF QueueInv
<1>1. /\ expired' = expired \cup {r}
      /\ UNCHANGED <<pending, active, cancelRequested, outcome, host, cancelReply,
                     reportedDepth, arrival, accepted>>
  BY DEF DeadlinePasses
<1>2. TypeOK'
  BY <1>1 DEF TypeOK, Depth
<1>3. QueueMatchesOutcome' /\ HostMatchesOutcome' /\ Sorted' /\ CancellationMatches'
  BY <1>1 DEF QueueMatchesOutcome, HostMatchesOutcome, Sorted, CancellationMatches
<1> QED
  BY <1>2, <1>3

LEMMA CancelActiveInv ==
  ASSUME QueueInv, NEW r \in Requests, CancelActive(r)
  PROVE  QueueInv'
<1> USE DEF QueueInv
<1>1. /\ active = r
      /\ cancelRequested' = TRUE
      /\ cancelReply' = [cancelReply EXCEPT ![r] = "active"]
      /\ UNCHANGED <<pending, active, expired, outcome, host, reportedDepth,
                     arrival, accepted>>
  BY DEF CancelActive
<1>2. TypeOK'
  BY <1>1 DEF TypeOK, Depth
<1>3. QueueMatchesOutcome' /\ HostMatchesOutcome' /\ Sorted'
  BY <1>1, ConstantFacts DEF QueueMatchesOutcome, HostMatchesOutcome, Sorted
<1>4. CancellationMatches'
  <2>1. outcome[r] = "waiting"
    BY <1>1, ConstantFacts DEF QueueMatchesOutcome
  <2> QED
    BY <1>1, <2>1 DEF CancellationMatches, TypeOK
<1> QED
  BY <1>2, <1>3, <1>4

\* Taking one request out of the queue leaves the others in their order.
LEMMA SplicedFacts ==
  ASSUME pending \in Seq(Requests), NEW k \in 1 .. Len(pending)
  PROVE  /\ Spliced(k) \in Seq(Requests)
         /\ Len(Spliced(k)) = Len(pending) - 1
         /\ \A i \in 1 .. Len(pending) - 1 :
              Spliced(k)[i] = IF i < k THEN pending[i] ELSE pending[i + 1]
<1>1. Len(pending) \in Nat
  OBVIOUS
<1> DEFINE before == SubSeq(pending, 1, k - 1)
           after == SubSeq(pending, k + 1, Len(pending))
<1>2. /\ before \in Seq(Requests)
      /\ Len(before) = k - 1
      /\ \A i \in 1 .. k - 1 : before[i] = pending[i]
  BY <1>1
<1>3. /\ after \in Seq(Requests)
      /\ Len(after) = Len(pending) - k
      /\ \A i \in 1 .. Len(pending) - k : after[i] = pending[k + i]
  BY <1>1
<1> HIDE DEF before, after
<1>4. /\ before \o after \in Seq(Requests)
      /\ Len(before \o after) = Len(pending) - 1
  <2>1. before \o after \in Seq(Requests)
    BY <1>2, <1>3
  <2>2. Len(before \o after) = Len(before) + Len(after)
    BY <1>2, <1>3, ConcatProperties
  <2> QED
    BY <1>1, <1>2, <1>3, <2>1, <2>2
<1>5. ASSUME NEW i \in 1 .. Len(pending) - 1
      PROVE  (before \o after)[i] = IF i < k THEN pending[i] ELSE pending[i + 1]
  <2>1. (before \o after)[i] = IF i <= Len(before) THEN before[i] ELSE after[i - Len(before)]
    BY <1>1, <1>2, <1>3
  <2>2. CASE i < k
    BY <1>1, <1>2, <2>1, <2>2
  <2>3. CASE ~(i < k)
    <3>1. i - (k - 1) \in 1 .. Len(pending) - k /\ k + (i - (k - 1)) = i + 1
      BY <1>1, <2>3
    <3> QED
      BY <1>1, <1>2, <1>3, <2>1, <2>3, <3>1
  <2> QED
    BY <2>2, <2>3
<1> QED
  BY <1>4, <1>5 DEF Spliced, before, after

LEMMA CancelQueuedInv ==
  ASSUME QueueInv, NEW r \in Requests, CancelQueued(r)
  PROVE  QueueInv'
<1> USE DEF QueueInv
<1>1. PICK k \in 1 .. Len(pending) : pending[k] = r /\ pending' = Spliced(k)
  BY DEF CancelQueued
<1>2. /\ outcome' = [outcome EXCEPT ![r] = "cancelled"]
      /\ cancelReply' = [cancelReply EXCEPT ![r] = "queued"]
      /\ UNCHANGED <<active, cancelRequested, expired, host, reportedDepth,
                     arrival, accepted>>
  BY DEF CancelQueued
<1>3. pending \in Seq(Requests) /\ Len(pending) \in Nat
  BY DEF TypeOK
<1>4. /\ pending' \in Seq(Requests)
      /\ Len(pending') = Len(pending) - 1
      /\ Len(pending') \in Nat
  BY <1>1, <1>3, SplicedFacts
<1> DEFINE at(i) == IF i < k THEN i ELSE i + 1
<1>5. \A i \in 1 .. Len(pending') : /\ at(i) \in 1 .. Len(pending)
                                   /\ at(i) # k
                                   /\ pending'[i] = pending[at(i)]
  BY <1>1, <1>3, <1>4, SplicedFacts
<1>6. \A i, j \in 1 .. Len(pending') : /\ i < j => at(i) < at(j)
                                      /\ at(i) = at(j) => i = j
  <2> SUFFICES ASSUME NEW i \in 1 .. Len(pending'), NEW j \in 1 .. Len(pending')
               PROVE  (i < j => at(i) < at(j)) /\ (at(i) = at(j) => i = j)
    OBVIOUS
  <2>1. i \in Nat /\ j \in Nat /\ k \in Nat
    BY <1>1, <1>3, <1>4
  <2> QED
    BY <2>1
<1>7. /\ active # r
      /\ outcome[r] = "waiting"
      /\ cancelReply[r] # "active"
      /\ \A i \in 1 .. Len(pending') : pending'[i] # r
  <2>1. active # r /\ outcome[r] = "waiting"
    BY <1>1 DEF QueueMatchesOutcome
  <2>2. cancelReply[r] # "active"
    BY <2>1 DEF CancellationMatches
  <2>3. \A i \in 1 .. Len(pending') : pending'[i] # r
    BY <1>1, <1>5 DEF QueueMatchesOutcome
  <2> QED
    BY <2>1, <2>2, <2>3
<1>8. TypeOK'
  <2>1. Depth' <= MaxQueueDepth
    BY <1>2, <1>3, <1>4, ConstantFacts DEF TypeOK, Depth
  <2> QED
    BY <1>2, <1>4, <2>1 DEF TypeOK, Outcomes, Retryable
<1>9. QueueMatchesOutcome'
  <2>1. \A i, j \in 1 .. Len(pending') : pending'[i] = pending'[j] => i = j
    BY <1>5, <1>6 DEF QueueMatchesOutcome
  <2>2. ASSUME NEW i \in 1 .. Len(pending')
        PROVE  pending'[i] # active' /\ outcome'[pending'[i]] = "waiting"
    <3>1. at(i) \in 1 .. Len(pending) /\ pending'[i] = pending[at(i)] /\ pending'[i] # r
      BY <1>5, <1>7
    <3>2. outcome[pending'[i]] = "waiting" /\ pending'[i] # active /\ pending'[i] \in Requests
      BY <1>3, <3>1 DEF QueueMatchesOutcome
    <3> QED
      BY <1>2, <3>1, <3>2 DEF TypeOK
  <2>3. active' # None => outcome'[active'] = "waiting"
    BY <1>2, <1>7 DEF QueueMatchesOutcome, TypeOK
  <2>4. active' # None
    BY <1>1, <1>2, <1>3 DEF QueueMatchesOutcome
  <2>5. ASSUME NEW s \in Requests, outcome'[s] = "waiting"
        PROVE  active' = s \/ \E i \in 1 .. Len(pending') : pending'[i] = s
    <3>1. s # r /\ outcome[s] = "waiting"
      BY <1>2, <2>5 DEF TypeOK
    <3>2. CASE active = s
      BY <1>2, <3>2
    <3>3. ASSUME NEW j \in 1 .. Len(pending), pending[j] = s
          PROVE  \E i \in 1 .. Len(pending') : pending'[i] = s
      <4>1. j # k
        BY <1>1, <3>1, <3>3
      <4>2. CASE j < k
        <5>1. j \in 1 .. Len(pending') /\ at(j) = j
          BY <1>3, <1>4, <4>2
        <5> QED
          BY <1>5, <3>3, <5>1
      <4>3. CASE j > k
        <5>1. j - 1 \in 1 .. Len(pending') /\ at(j - 1) = j
          BY <1>3, <1>4, <4>3
        <5>2. pending'[j - 1] = pending[at(j - 1)]
          BY <1>5, <5>1
        <5> QED
          BY <3>3, <5>1, <5>2
      <4>4. j < k \/ j > k
        BY <1>3, <4>1
      <4> QED
        BY <4>2, <4>3, <4>4
    <3> QED
      BY <3>1, <3>2, <3>3 DEF QueueMatchesOutcome
  <2> QED
    BY <2>1, <2>2, <2>3, <2>4, <2>5 DEF QueueMatchesOutcome
<1>10. HostMatchesOutcome'
  BY <1>2, <1>7 DEF HostMatchesOutcome, TypeOK, AfterRun
<1>11. Sorted'
  <2>1. ASSUME NEW i \in 1 .. Len(pending'), NEW j \in 1 .. Len(pending'), i < j
        PROVE  arrival'[pending'[i]] < arrival'[pending'[j]]
    <3>1. /\ at(i) \in 1 .. Len(pending) /\ pending'[i] = pending[at(i)]
          /\ at(j) \in 1 .. Len(pending) /\ pending'[j] = pending[at(j)]
      BY <1>5
    <3>2. at(i) < at(j)
      BY <1>6, <2>1
    <3> HIDE DEF at
    <3>3. arrival[pending[at(i)]] < arrival[pending[at(j)]]
      BY <3>1, <3>2 DEF Sorted
    <3> QED
      BY <1>2, <3>1, <3>3
  <2>2. ASSUME NEW i \in 1 .. Len(pending'), NEW s \in Requests, host'[s] # "untouched"
        PROVE  arrival'[s] < arrival'[pending'[i]]
    <3>1. at(i) \in 1 .. Len(pending) /\ pending'[i] = pending[at(i)]
      BY <1>5
    <3> HIDE DEF at
    <3>2. arrival[s] < arrival[pending[at(i)]]
      BY <1>2, <2>2, <3>1 DEF Sorted
    <3> QED
      BY <1>2, <3>1, <3>2
  <2>3. \A s \in Requests : arrival'[s] <= accepted'
    BY <1>2 DEF Sorted
  <2> QED
    BY <2>1, <2>2, <2>3 DEF Sorted
<1>12. CancellationMatches'
  BY <1>2, <1>7 DEF CancellationMatches, TypeOK
<1> QED
  BY <1>8, <1>9, <1>10, <1>11, <1>12

LEMMA EnqueueInv ==
  ASSUME QueueInv, NEW r \in Requests, Enqueue(r)
  PROVE  QueueInv'
<1> USE DEF QueueInv
<1> DEFINE q == Append(pending, r)
           waiting == [outcome EXCEPT ![r] = "waiting"]
<1>1. /\ outcome[r] = "none"
      /\ Depth < MaxQueueDepth
      /\ accepted' = accepted + 1
      /\ arrival' = [arrival EXCEPT ![r] = accepted + 1]
      /\ UNCHANGED <<expired, cancelReply, reportedDepth>>
  <2>1. Depth \in Nat
    BY DEF Depth, TypeOK
  <2> QED
    BY <2>1, ConstantFacts DEF Enqueue, Full
<1>2. pending \in Seq(Requests) /\ Len(pending) \in Nat
  BY DEF TypeOK
<1>3. /\ q \in Seq(Requests)
      /\ Len(q) = Len(pending) + 1
      /\ \A i \in 1 .. Len(pending) : q[i] = pending[i]
      /\ q[Len(q)] = r
  BY <1>2
<1>4. /\ host[r] = "untouched" /\ cancelReply[r] = "none" /\ active # r
      /\ \A i \in 1 .. Len(pending) : pending[i] # r
  BY <1>1, NewRequestFacts
<1>5. \A i \in 1 .. Len(q) : /\ i = Len(q) => q[i] = r
                            /\ i # Len(q) => i \in 1 .. Len(pending) /\ q[i] = pending[i]
  BY <1>2, <1>3
<1>6. \A i, j \in 1 .. Len(q) : q[i] = q[j] => i = j
  BY <1>4, <1>5 DEF QueueMatchesOutcome
<1>7. /\ waiting \in [Requests -> Outcomes]
      /\ waiting[r] = "waiting"
      /\ \A s \in Requests : s # r => waiting[s] = outcome[s]
  BY DEF TypeOK, Outcomes
<1>8. /\ arrival' \in [Requests -> Nat]
      /\ accepted \in Nat /\ accepted' \in Nat
      /\ arrival'[r] = accepted + 1
      /\ \A s \in Requests : s # r => /\ arrival'[s] = arrival[s]
                                      /\ arrival[s] \in Nat
                                      /\ arrival[s] <= accepted
      /\ \A s \in Requests : arrival'[s] <= accepted'
  BY <1>1 DEF TypeOK, Sorted
<1>9. \A i \in 1 .. Len(q) : waiting[q[i]] = "waiting" /\ host[q[i]] = "untouched"
  <2> SUFFICES ASSUME NEW i \in 1 .. Len(pending)
               PROVE  waiting[pending[i]] = "waiting" /\ host[pending[i]] = "untouched"
    BY <1>4, <1>5, <1>7
  <2>1. pending[i] \in Requests /\ pending[i] # active /\ outcome[pending[i]] = "waiting"
    BY <1>2 DEF QueueMatchesOutcome
  <2> QED
    BY <1>4, <1>7, <2>1 DEF HostMatchesOutcome, TypeOK, HostStates, AfterRun
<1>10. \A i, j \in 1 .. Len(q) : i < j => arrival'[q[i]] < arrival'[q[j]]
  <2> HIDE DEF q
  <2> SUFFICES ASSUME NEW i \in 1 .. Len(q), NEW j \in 1 .. Len(q), i < j
               PROVE  arrival'[q[i]] < arrival'[q[j]]
    OBVIOUS
  <2>1. i # Len(q) /\ i \in 1 .. Len(pending) /\ q[i] = pending[i] /\ pending[i] \in Requests
    <3>1. i # Len(q)
      BY <1>2, <1>3
    <3>2. i \in 1 .. Len(pending) /\ q[i] = pending[i]
      BY <1>5, <3>1
    <3>3. pending[i] \in Requests
      BY <1>2, <3>2
    <3> QED
      BY <3>1, <3>2, <3>3
  <2>2. /\ arrival'[q[i]] = arrival[pending[i]]
        /\ arrival[pending[i]] \in Nat
        /\ arrival[pending[i]] <= accepted
    BY <1>4, <1>8, <2>1
  <2>3. CASE j = Len(q)
    <3>1. q[j] = r
      BY <1>3, <2>3
    <3>2. arrival'[q[j]] = accepted + 1
      BY <1>8, <3>1
    <3> QED
      BY <1>8, <2>2, <3>2
  <2>4. CASE j # Len(q)
    <3>1. j \in 1 .. Len(pending) /\ q[j] = pending[j] /\ pending[j] \in Requests
      BY <1>2, <1>5, <2>4
    <3>2. arrival'[q[j]] = arrival[pending[j]]
      BY <1>4, <1>8, <3>1
    <3> QED
      BY <2>1, <2>2, <3>1, <3>2 DEF Sorted
  <2> QED
    BY <2>3, <2>4
<1>11. \A i \in 1 .. Len(q), s \in Requests :
         host[s] # "untouched" => arrival'[s] < arrival'[q[i]]
  <2> HIDE DEF q
  <2> SUFFICES ASSUME NEW i \in 1 .. Len(q), NEW s \in Requests, host[s] # "untouched"
               PROVE  arrival'[s] < arrival'[q[i]]
    OBVIOUS
  <2>1. arrival'[s] = arrival[s] /\ arrival[s] \in Nat /\ arrival[s] <= accepted
    BY <1>4, <1>8
  <2>2. CASE i = Len(q)
    <3>1. q[i] = r
      BY <1>3, <2>2
    <3>2. arrival'[q[i]] = accepted + 1
      BY <1>8, <3>1
    <3> QED
      BY <1>8, <2>1, <3>2
  <2>3. CASE i # Len(q)
    <3>1. i \in 1 .. Len(pending) /\ q[i] = pending[i] /\ pending[i] \in Requests
      BY <1>2, <1>5, <2>3
    <3>2. arrival'[q[i]] = arrival[pending[i]]
      BY <1>4, <1>8, <3>1
    <3> QED
      BY <2>1, <3>1, <3>2 DEF Sorted
  <2> QED
    BY <2>2, <2>3
<1>12. CASE Draining /\ pending' = q /\ outcome' = waiting
            /\ UNCHANGED <<active, cancelRequested, host>>
  <2>1. active # None /\ Depth' = Depth + 1
    BY <1>2, <1>3, <1>12 DEF Draining, Depth
  <2>2. TypeOK'
    <3>1. Depth' <= MaxQueueDepth
      BY <1>1, <1>2, <2>1, ConstantFacts DEF Depth
    <3> QED
      BY <1>1, <1>3, <1>7, <1>8, <1>12, <3>1 DEF TypeOK
  <2>3. QueueMatchesOutcome'
    <3>1. ASSUME NEW i \in 1 .. Len(q)
          PROVE  q[i] # active
      BY <1>4, <1>5 DEF QueueMatchesOutcome
    <3>2. outcome'[active] = "waiting"
      BY <1>4, <1>7, <1>12, <2>1 DEF QueueMatchesOutcome, TypeOK
    <3>3. ASSUME NEW s \in Requests, waiting[s] = "waiting"
          PROVE  active = s \/ \E i \in 1 .. Len(q) : q[i] = s
      <4>1. CASE s = r
        <5>1. Len(q) \in 1 .. Len(q)
          BY <1>2, <1>3
        <5> QED
          BY <1>3, <4>1, <5>1
      <4>2. CASE s # r
        <5>1. active = s \/ \E i \in 1 .. Len(pending) : pending[i] = s
          BY <1>7, <3>3, <4>2 DEF QueueMatchesOutcome
        <5>2. \A i \in 1 .. Len(pending) : i \in 1 .. Len(q)
          BY <1>2, <1>3
        <5> QED
          BY <1>3, <5>1, <5>2
      <4> QED
        BY <4>1, <4>2
    <3> QED
      BY <1>6, <1>9, <1>12, <2>1, <3>1, <3>2, <3>3 DEF QueueMatchesOutcome
  <2>4. HostMatchesOutcome' /\ CancellationMatches'
    BY <1>1, <1>4, <1>7, <1>12
    DEF HostMatchesOutcome, CancellationMatches, TypeOK, AfterRun
  <2>5. Sorted'
    BY <1>8, <1>10, <1>11, <1>12 DEF Sorted
  <2> QED
    BY <2>2, <2>3, <2>4, <2>5
<1>13. CASE ~Draining /\ Drain(q, waiting, host)
  <2>1. active = None /\ Len(pending) = 0
    BY <1>13 DEF Draining, QueueMatchesOutcome
  <2>2. \A s \in Requests : waiting[s] = "waiting" => \E i \in 1 .. Len(q) : q[i] = s
    <3>1. Len(q) = 1 /\ q[1] = r
      BY <1>3, <2>1
    <3>2. \A s \in Requests : waiting[s] = "waiting" => s = r
      BY <1>7, <2>1, ConstantFacts DEF QueueMatchesOutcome
    <3> QED
      BY <3>1, <3>2
  <2>3. \A s \in Requests : /\ host[s] # "running"
                            /\ host[s] = "ended" <=> waiting[s] \in AfterRun
    BY <1>4, <1>7, <2>1, ConstantFacts DEF HostMatchesOutcome, AfterRun
  <2>4. /\ \A i \in 1 .. Len(q) : cancelReply'[q[i]] # "active"
        /\ \A s \in Requests :
             /\ cancelReply'[s] = "queued" <=> waiting[s] = "cancelled"
             /\ cancelReply'[s] = "active" => waiting[s] \in {"cancelledLate", "error"}
             /\ waiting[s] = "cancelledLate" => cancelReply'[s] = "active"
    <3>1. Len(q) = 1 /\ q[1] = r
      BY <1>3, <2>1
    <3> QED
      BY <1>1, <1>4, <1>7, <2>1, <3>1, ConstantFacts DEF CancellationMatches
  <2>5. Drained(q)
    <3>1. host \in [Requests -> HostStates]
      BY DEF TypeOK
    <3> HIDE DEF q, waiting
    <3>2. ReadyToDrain(q, waiting, host)
      BY <1>6, <1>7, <1>8, <1>9, <1>10, <1>11, <2>2, <2>3, <2>4, <3>1, Zenon
      DEF ReadyToDrain
    <3> QED
      BY <1>3, <1>13, <3>2, DrainInv
  <2>6. Depth' <= MaxQueueDepth
    <3>1. Len(q) = 1
      BY <1>3, <2>1
    <3>2. Depth' \in Int
      BY <2>5 DEF Depth, Drained
    <3> QED
      BY <2>5, <3>1, <3>2, ConstantFacts DEF Drained
  <2> QED
    BY <1>1, <1>8, <2>5, <2>6 DEF TypeOK, Drained
<1> QED
  BY <1>12, <1>13 DEF Enqueue

LEMMA CompleteInv ==
  ASSUME QueueInv, NEW ok \in BOOLEAN, Complete(ok)
  PROVE  QueueInv'
<1> USE DEF QueueInv
<1> DEFINE settled == [outcome EXCEPT ![active] = Settlement(ok)]
           ended == [host EXCEPT ![active] = "ended"]
<1>1. /\ active # None
      /\ Drain(pending, settled, ended)
      /\ UNCHANGED <<expired, cancelReply, arrival, accepted>>
      /\ active \in Requests
  BY DEF Complete, TypeOK
<1>2. pending \in Seq(Requests) /\ Len(pending) \in Nat
  BY DEF TypeOK
<1>3. Settlement(ok) \in AfterRun
  BY DEF Settlement, AfterRun
<1>4. /\ settled \in [Requests -> Outcomes]
      /\ ended \in [Requests -> HostStates]
      /\ settled[active] = Settlement(ok) /\ ended[active] = "ended"
      /\ \A r \in Requests : r # active => settled[r] = outcome[r] /\ ended[r] = host[r]
  BY <1>1, <1>3 DEF TypeOK, Outcomes, HostStates
<1>5. \A i \in 1 .. Len(pending) :
        /\ pending[i] \in Requests /\ pending[i] # active
        /\ settled[pending[i]] = "waiting" /\ ended[pending[i]] = "untouched"
  <2> SUFFICES ASSUME NEW i \in 1 .. Len(pending)
               PROVE  /\ pending[i] \in Requests /\ pending[i] # active
                      /\ settled[pending[i]] = "waiting" /\ ended[pending[i]] = "untouched"
    OBVIOUS
  <2>1. pending[i] \in Requests /\ pending[i] # active /\ outcome[pending[i]] = "waiting"
    BY <1>2 DEF QueueMatchesOutcome
  <2> QED
    BY <1>4, <2>1 DEF HostMatchesOutcome, TypeOK, HostStates, AfterRun
<1>6. \A r \in Requests : settled[r] = "waiting"
        => \E i \in 1 .. Len(pending) : pending[i] = r
  BY <1>3, <1>4 DEF QueueMatchesOutcome, AfterRun
<1>7. \A r \in Requests : /\ ended[r] # "running"
                          /\ ended[r] = "ended" <=> settled[r] \in AfterRun
  BY <1>3, <1>4 DEF HostMatchesOutcome
<1>8. /\ \A i, j \in 1 .. Len(pending) : i < j => arrival'[pending[i]] < arrival'[pending[j]]
      /\ \A i \in 1 .. Len(pending), r \in Requests :
           ended[r] # "untouched" => arrival'[r] < arrival'[pending[i]]
      /\ \A r \in Requests : arrival'[r] <= accepted'
  <2>1. ASSUME NEW r \in Requests, ended[r] # "untouched"
        PROVE  host[r] # "untouched"
    BY <1>1, <1>4, <2>1 DEF HostMatchesOutcome
  <2> QED
    BY <1>1, <2>1 DEF Sorted
<1>9. \A i \in 1 .. Len(pending) : cancelReply'[pending[i]] # "active"
  BY <1>1, <1>5 DEF CancellationMatches, QueueMatchesOutcome
<1>10. \A r \in Requests :
         /\ cancelReply'[r] = "queued" <=> settled[r] = "cancelled"
         /\ cancelReply'[r] = "active" => settled[r] \in {"cancelledLate", "error"}
         /\ settled[r] = "cancelledLate" => cancelReply'[r] = "active"
  <2> SUFFICES ASSUME NEW r \in Requests
               PROVE  /\ cancelReply'[r] = "queued" <=> settled[r] = "cancelled"
                      /\ cancelReply'[r] = "active" => settled[r] \in {"cancelledLate", "error"}
                      /\ settled[r] = "cancelledLate" => cancelReply'[r] = "active"
    OBVIOUS
  <2>1. CASE r = active
    <3>1. outcome[active] = "waiting"
      BY <1>1 DEF QueueMatchesOutcome
    <3>2. cancelReply[r] # "queued" /\ (cancelReply[r] = "active" <=> cancelRequested)
      BY <2>1, <3>1 DEF CancellationMatches
    <3> QED
      BY <1>1, <1>4, <2>1, <3>2 DEF Settlement
  <2>2. CASE r # active
    BY <1>1, <1>4, <2>2 DEF CancellationMatches
  <2> QED
    BY <2>1, <2>2
<1>11. Drained(pending)
  <2>1. \A i, j \in 1 .. Len(pending) : pending[i] = pending[j] => i = j
    BY DEF QueueMatchesOutcome
  <2> HIDE DEF settled, ended
  <2>2. ReadyToDrain(pending, settled, ended)
    BY <1>4, <1>5, <1>6, <1>7, <1>8, <1>9, <1>10, <2>1, Zenon DEF ReadyToDrain
  <2> QED
    BY <1>1, <1>2, <2>2, DrainInv
<1>12. Depth' \in Nat /\ Depth' <= MaxQueueDepth
  <2>1. Depth' \in Nat
    BY <1>11 DEF Depth, Drained
  <2>2. Len(pending) <= MaxQueueDepth
    BY <1>1, <1>2, ConstantFacts DEF TypeOK, Depth
  <2> QED
    BY <1>2, <1>11, <2>1, <2>2, ConstantFacts DEF Drained
<1>13. reportedDepth' \in 0 .. MaxQueueDepth \cup {None}
  <2>1. reportedDepth' \in {reportedDepth, 0} \/ (Depth' # 0 /\ reportedDepth' = Depth' - 1)
    BY DEF Complete
  <2> QED
    BY <1>12, <2>1, ConstantFacts DEF TypeOK
<1> QED
  BY <1>1, <1>11, <1>12, <1>13 DEF TypeOK, Drained

-----------------------------------------------------------------------------
(* The invariant and what follows from it.                                 *)

LEMMA NextInv == QueueInv /\ [Next]_vars => QueueInv'
<1> SUFFICES ASSUME QueueInv, [Next]_vars PROVE QueueInv'
  OBVIOUS
<1>1. ASSUME NEW r \in Requests,
             Refuse(r) \/ Enqueue(r) \/ DeadlinePasses(r) \/ CancelQueued(r) \/ CancelActive(r)
      PROVE  QueueInv'
  BY <1>1, RefuseInv, EnqueueInv, DeadlinePassesInv, CancelQueuedInv, CancelActiveInv
<1>2. CASE TaskEnds
  BY <1>2, CompleteInv DEF TaskEnds
<1>3. CASE UNCHANGED vars
  BY <1>3 DEF vars, QueueInv, TypeOK, QueueMatchesOutcome, HostMatchesOutcome, Sorted,
              CancellationMatches, Depth
<1> QED
  BY <1>1, <1>2, <1>3 DEF Next

\* QueueInv, which ties the queue, the active request, the host and the
\* answers together, holds in every reachable state.
THEOREM QueueInvariant == Spec => []QueueInv
BY InitInv, NextInv, PTL DEF Spec

\* Every variable keeps its type, and the queue its capacity.
THEOREM TypeCorrect == Spec => []TypeOK
<1>1. QueueInv => TypeOK
  BY DEF QueueInv
<1> QED
  BY <1>1, QueueInvariant, PTL

\* Requests are started in the order of their arrival.
THEOREM ServedInOrder == Spec => []FifoOrder
<1>1. ASSUME QueueInv PROVE FifoOrder
  <2> USE <1>1 DEF QueueInv
  <2> SUFFICES ASSUME NEW a \in Requests, NEW b \in Requests,
                      arrival[a] < arrival[b], host[b] # "untouched",
                      host[a] = "untouched", outcome[a] = "waiting"
               PROVE  FALSE
    BY DEF FifoOrder
  <2>1. active # a
    BY DEF HostMatchesOutcome
  <2>2. PICK i \in 1 .. Len(pending) : pending[i] = a
    BY <2>1 DEF QueueMatchesOutcome
  <2>3. arrival[b] < arrival[a]
    BY <2>2 DEF Sorted
  <2> QED
    BY <2>3 DEF TypeOK
<1> QED
  BY <1>1, QueueInvariant, PTL

\* The host runs the task of the active request and no other.
THEOREM HostRunsOneTask == Spec => []OneAtATime
<1>1. QueueInv => OneAtATime
  BY DEF QueueInv, HostMatchesOutcome, OneAtATime
<1> QED
  BY <1>1, QueueInvariant, PTL

\* A request whose answer invites a retry has not been run, nor will be.
THEOREM RetryIsSafe == Spec => []RetryableNeverRan
<1>1. ASSUME QueueInv, NEW r \in Requests, outcome[r] \in Retryable
      PROVE  host[r] = "untouched"
  <2> USE <1>1 DEF QueueInv
  <2>1. host[r] # "ended"
    BY DEF HostMatchesOutcome, Retryable, AfterRun
  <2>2. active # r
    BY ConstantFacts DEF QueueMatchesOutcome, Retryable
  <2> QED
    BY <2>1, <2>2 DEF HostMatchesOutcome, TypeOK, HostStates
<1>2. QueueInv => RetryableNeverRan
  BY <1>1 DEF RetryableNeverRan
<1> QED
  BY <1>2, QueueInvariant, PTL

\* A cancellation reaches its own request and no other.
THEOREM CancellationsHit == Spec => []CancelHitsItsTarget
<1>1. QueueInv => CancelHitsItsTarget
  BY DEF QueueInv, CancellationMatches, CancelHitsItsTarget
<1> QED
  BY <1>1, QueueInvariant, PTL

-----------------------------------------------------------------------------
(* The moves of one request.                                               *)

\* What the drain loop may be handed: distinct waiting requests, untouched.
Drainable(q, settled, ended) ==
  /\ q \in Seq(Requests)
  /\ settled \in [Requests -> Outcomes]
  /\ ended \in [Requests -> HostStates]
  /\ \A i, j \in 1 .. Len(q) : q[i] = q[j] => i = j
  /\ \A i \in 1 .. Len(q) : settled[q[i]] = "waiting" /\ ended[q[i]] = "untouched"

\* What it does to one request.
DrainMove(r, settled, ended) ==
  \/ outcome'[r] = settled[r] /\ host'[r] = ended[r]
  \/ /\ settled[r] = "waiting" /\ ended[r] = "untouched"
     /\ \/ outcome'[r] = "expired" /\ host'[r] = "untouched"
        \/ outcome'[r] = "waiting" /\ host'[r] = "running" /\ r \notin expired

\* The drain loop answers a waiting request as expired, starts one that is in
\* time, or leaves a request as it is.
LEMMA DrainMoves ==
  ASSUME NEW q, NEW settled, NEW ended, Drainable(q, settled, ended),
         Drain(q, settled, ended), NEW r \in Requests
  PROVE  DrainMove(r, settled, ended)
<1> USE DEF Drainable, DrainMove
<1>0. Len(q) \in Nat
  OBVIOUS
<1>1. PICK n \in 1 .. Len(q) + 1 : Passed(q, settled, ended, n)
  BY DrainFacts DEF Drainable
<1>2. /\ outcome'[r] = IF \E i \in 1 .. n - 1 : q[i] = r THEN "expired" ELSE settled[r]
      /\ host' = IF n <= Len(q) THEN [ended EXCEPT ![q[n]] = "running"] ELSE ended
      /\ n <= Len(q) => q[n] \notin expired /\ n \in 1 .. Len(q)
  BY <1>0, <1>1 DEF Passed
<1>3. CASE \E i \in 1 .. n - 1 : q[i] = r
  <2>1. PICK i \in 1 .. n - 1 : q[i] = r
    BY <1>3
  <2>2. i \in 1 .. Len(q) /\ i # n
    BY <1>0, <2>1
  <2>3. n <= Len(q) => q[n] # r
    BY <1>2, <2>1, <2>2
  <2> QED
    BY <1>2, <1>3, <2>1, <2>2, <2>3
<1>4. CASE ~ \E i \in 1 .. n - 1 : q[i] = r
  <2>1. CASE n <= Len(q) /\ q[n] = r
    BY <1>2, <1>4, <2>1
  <2>2. CASE ~(n <= Len(q) /\ q[n] = r)
    BY <1>2, <1>4, <2>2
  <2> QED
    BY <2>1, <2>2
<1> QED
  BY <1>3, <1>4

\* Everything that can happen to one request in one step.
RequestMove(r) ==
  \/ outcome'[r] = outcome[r] /\ host'[r] = host[r]
  \/ /\ outcome[r] \in {"none", "waiting"} /\ host[r] = "untouched"
     /\ \/ outcome'[r] \in Retryable /\ host'[r] = "untouched"
        \/ outcome'[r] = "waiting" /\ host'[r] = "running" /\ r \notin expired
  \/ outcome[r] = "none" /\ outcome'[r] = "waiting" /\ host'[r] = "untouched"
  \/ /\ outcome[r] = "waiting" /\ host[r] = "running"
     /\ outcome'[r] \in AfterRun /\ host'[r] = "ended"

LEMMA RequestMoves ==
  ASSUME QueueInv, [Next]_vars, NEW r \in Requests
  PROVE  RequestMove(r)
<1> USE DEF QueueInv
<1>1. ASSUME NEW s \in Requests, Refuse(s)
      PROVE  RequestMove(r)
  BY <1>1, NewRequestFacts DEF Refuse, RequestMove, Retryable, TypeOK
<1>2. ASSUME NEW s \in Requests, Enqueue(s)
      PROVE  RequestMove(r)
  <2> DEFINE waiting == [outcome EXCEPT ![s] = "waiting"]
  <2>1. /\ outcome[s] = "none" /\ host[s] = "untouched"
        /\ waiting \in [Requests -> Outcomes]
        /\ waiting[s] = "waiting" /\ (r # s => waiting[r] = outcome[r])
    BY <1>2, NewRequestFacts DEF Enqueue, TypeOK, Outcomes
  <2>2. CASE outcome' = waiting /\ UNCHANGED host
    BY <2>1, <2>2 DEF RequestMove
  <2>3. CASE ~Draining /\ Drain(Append(pending, s), waiting, host)
    <3>1. pending = <<>> /\ Append(pending, s) = <<s>>
      BY <2>3 DEF Draining, QueueMatchesOutcome
    <3>2. <<s>> \in Seq(Requests) /\ Len(<<s>>) = 1 /\ <<s>>[1] = s
      OBVIOUS
    <3>3. Drainable(<<s>>, waiting, host)
      BY <2>1, <3>2 DEF Drainable, TypeOK
    <3>4. Drain(<<s>>, waiting, host)
      BY <2>3, <3>1
    <3> HIDE DEF waiting
    <3>5. DrainMove(r, waiting, host)
      BY <3>3, <3>4, DrainMoves
    <3> QED
      BY <2>1, <3>5 DEF DrainMove, RequestMove, Retryable
  <2> QED
    BY <1>2, <2>2, <2>3 DEF Enqueue
<1>3. ASSUME NEW s \in Requests, DeadlinePasses(s) \/ CancelActive(s)
      PROVE  RequestMove(r)
  BY <1>3 DEF DeadlinePasses, CancelActive, RequestMove
<1>4. ASSUME NEW s \in Requests, CancelQueued(s)
      PROVE  RequestMove(r)
  <2>1. /\ \E i \in 1 .. Len(pending) : pending[i] = s
        /\ outcome' = [outcome EXCEPT ![s] = "cancelled"]
        /\ UNCHANGED host
    BY <1>4 DEF CancelQueued
  <2>2. active # s /\ outcome[s] = "waiting"
    BY <2>1 DEF QueueMatchesOutcome
  <2>3. host[s] = "untouched"
    BY <2>2 DEF HostMatchesOutcome, TypeOK, HostStates, AfterRun
  <2> QED
    BY <2>1, <2>2, <2>3 DEF RequestMove, Retryable, TypeOK
<1>5. ASSUME NEW ok \in BOOLEAN, Complete(ok)
      PROVE  RequestMove(r)
  <2> DEFINE settled == [outcome EXCEPT ![active] = Settlement(ok)]
             ended == [host EXCEPT ![active] = "ended"]
  <2>1. /\ active \in Requests
        /\ Drain(pending, settled, ended)
        /\ pending \in Seq(Requests)
        /\ Len(pending) \in Nat
        /\ outcome[active] = "waiting" /\ host[active] = "running"
    BY <1>5 DEF Complete, TypeOK, QueueMatchesOutcome, HostMatchesOutcome
  <2>2. Settlement(ok) \in AfterRun
    BY DEF Settlement, AfterRun
  <2>3. /\ settled \in [Requests -> Outcomes]
        /\ ended \in [Requests -> HostStates]
        /\ settled[active] = Settlement(ok) /\ ended[active] = "ended"
        /\ \A s \in Requests : s # active => settled[s] = outcome[s] /\ ended[s] = host[s]
    BY <2>1, <2>2 DEF TypeOK, Outcomes, HostStates
  <2>4. ASSUME NEW i \in 1 .. Len(pending)
        PROVE  settled[pending[i]] = "waiting" /\ ended[pending[i]] = "untouched"
    <3>1. pending[i] \in Requests /\ pending[i] # active /\ outcome[pending[i]] = "waiting"
      BY <2>1 DEF QueueMatchesOutcome
    <3> QED
      BY <2>3, <3>1 DEF HostMatchesOutcome, TypeOK, HostStates, AfterRun
  <2>5. \A i, j \in 1 .. Len(pending) : pending[i] = pending[j] => i = j
    BY DEF QueueMatchesOutcome
  <2> HIDE DEF settled, ended
  <2>6. Drainable(pending, settled, ended)
    BY <2>1, <2>3, <2>4, <2>5 DEF Drainable
  <2>7. DrainMove(r, settled, ended)
    BY <2>1, <2>6, DrainMoves
  <2> QED
    BY <2>1, <2>2, <2>3, <2>7 DEF DrainMove, RequestMove, Retryable
<1>6. CASE UNCHANGED vars
  BY <1>6 DEF vars, RequestMove
<1> QED
  BY <1>1, <1>2, <1>3, <1>4, <1>5, <1>6 DEF Next, TaskEnds

\* No task is started after the deadline of its request.
THEOREM StartedInTime == Spec => StartsInTime
<1>1. ASSUME QueueInv, [Next]_vars, NEW r \in Requests,
             host[r] = "untouched", host'[r] = "running"
      PROVE  r \notin expired
  <2>1. RequestMove(r)
    BY <1>1, RequestMoves
  <2> QED
    BY <1>1, <2>1 DEF RequestMove
<1>2. QueueInv /\ [Next]_vars
        => [\A r \in Requests :
              host[r] = "untouched" /\ host'[r] = "running" => r \notin expired]_vars
  BY <1>1
<1> QED
  BY <1>2, QueueInvariant, PTL DEF Spec, StartsInTime

\* Refinement, the safety part: for every request the queue only ever makes a
\* move that the contract allows, and it never has two of them running.
THEOREM ContractKept == Spec => Contract!Safety
<1> DEFINE state == [r \in Requests |-> CallerState(r)]
<1>1. ASSUME Init
      PROVE  Contract!Init
  <2>1. ASSUME NEW r \in Requests
        PROVE  CallerState(r) = "new"
    <3>1. outcome[r] = "none" /\ host[r] = "untouched"
      BY <1>1 DEF Init
    <3> QED
      BY <3>1 DEF CallerState, Retryable
  <2> QED
    BY <2>1 DEF Contract!Init
<1>2. ASSUME QueueInv, QueueInv', [Next]_vars
      PROVE  Contract!Next
  <2>1. ASSUME NEW r \in Requests
        PROVE  CallerState(r)' = CallerState(r)
                 \/ <<CallerState(r), CallerState(r)'>> \in Contract!Moves
    <3>1. RequestMove(r)
      BY <1>2, RequestMoves
    <3>2. /\ host[r] = "ended" <=> outcome[r] \in AfterRun
          /\ host[r] = "running" => outcome[r] = "waiting"
          /\ outcome[r] \in Outcomes /\ host[r] \in HostStates
      BY <1>2, ConstantFacts DEF QueueInv, HostMatchesOutcome, QueueMatchesOutcome, TypeOK
    <3> QED
      BY <3>1, <3>2 DEF RequestMove, CallerState, Contract!Moves, Retryable, AfterRun,
                        Outcomes, HostStates
  <2>2. ASSUME NEW r \in Requests, CallerState(r)' = "running"
        PROVE  active' = r
    BY <1>2, <2>2 DEF CallerState, QueueInv, HostMatchesOutcome, TypeOK, Outcomes,
                      HostStates, Retryable, AfterRun
  <2> QED
    BY <2>1, <2>2 DEF Contract!Next, Contract!Running
<1>3. UNCHANGED vars => UNCHANGED state
  BY DEF vars, CallerState
<1> QED
  BY <1>1, <1>2, <1>3, QueueInvariant, PTL DEF Spec, Contract!Safety

=============================================================================
