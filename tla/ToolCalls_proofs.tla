-------------------------- MODULE ToolCalls_proofs ---------------------------
(***************************************************************************)
(* Proofs about ToolCalls, for every number of calls, tries and revisions. *)
(*                                                                         *)
(* CallInv is inductive.  It says where a request can be (LiveKnown,       *)
(* QueuedOnce), that an answer which may be retried belongs to a request   *)
(* that has changed nothing, AbortErrors aside (TaskOwned, LiveAdmitted),  *)
(* and that a batch which was applied left the revision that its caller    *)
(* named (BatchesPast): a second try finds another one.  WrittenInv, below,*)
(* follows the files: what a success reports stays where it was written.   *)
(***************************************************************************)
EXTENDS ToolCalls, FileExports_proofs

\* A request that waits in the plugin, runs there or has changed something.
Live(r) == r \in changed \/ r = active \/ \E i \in DOMAIN queue : queue[i] = r

Known(r) ==
  /\ r \in Requests
  /\ \/ r[2] < call[r[1]].try
     \/ r[2] = call[r[1]].try /\ call[r[1]].status \in {"waiting", "answered"}

\* A live request is an earlier try of its call, or the try that was sent.
LiveKnown == \A r \in (Calls \X (1..MaxTries)) : Live(r) => Known(r)

\* A request is in the plugin once, and has changed nothing before its task runs.
QueuedOnce ==
  \A i \in DOMAIN queue :
    /\ queue[i] # active /\ queue[i] \notin changed
    /\ \A j \in DOMAIN queue : i # j => queue[i] # queue[j]

\* A file task runs for the call of a file tool only; a task that is answered as
\* unready has done nothing.
TaskOwned ==
  /\ active = <<>> \/ Active.tool \notin Formats => task.stage = "idle"
  /\ active \in changed => active # <<>> /\ Active.tool \in Formats /\ task.result # "unready"
  /\ task.result = "unready" => task.stage = "done"

\* A batch that has changed the document left its expected revision behind.
BatchesPast ==
  \A c \in Calls :
    /\ applied[c] \in {0, 1}
    /\ applied[c] = 1 => call[c].job.expected < revision /\ call[c].status # "new"
    /\ call[c].status = "new" => call[c].tool = "status" /\ call[c].try = 1

\* The answers, for requests that may still change something.
Told(c) ==
  call[c].status = "answered" /\ call[c].reply.code # "offline" /\ call[c].reply # Aborted
    /\ (call[c].reply.retryable \/ call[c].reply.code \in {"timeout", "cancelled"})

LiveAdmitted == \A c \in Calls : Told(c) /\ Live(Request(c)) => call[c].reply.admits

CallInv ==
  TypeOK /\ LiveKnown /\ QueuedOnce /\ TaskOwned /\ BatchesPast /\ LiveAdmitted

-----------------------------------------------------------------------------
(* Types.                                                                  *)

LEMMA TriesFacts == MaxTries \in Nat /\ 1 \in 1..MaxTries
  BY CallsAssumption DEF CallsAssumption

LEMMA RequestTypes ==
  /\ \A r \in Requests : r[1] \in Calls /\ r[2] \in 1..MaxTries /\ r = <<r[1], r[2]>> /\ r # <<>>
  /\ \A c \in Calls, n \in 1..MaxTries : <<c, n>> \in Requests
  BY DEF Requests

LEMMA ReplyTypes ==
  ASSUME NEW code \in Codes, NEW retryable \in BOOLEAN, NEW admits \in BOOLEAN
  PROVE  Reply(code, retryable, admits) \in Replies
  BY Zenon DEF Reply, Replies

LEMMA ReplyFields ==
  ASSUME NEW code, NEW retryable \in BOOLEAN, NEW admits \in BOOLEAN
  PROVE  /\ Reply(code, retryable, admits).code = code
         /\ Reply(code, retryable, admits).retryable <=> retryable
         /\ Reply(code, retryable, admits).admits <=> admits
  BY DEF Reply

LEMMA CodeTypes ==
  /\ Results \subseteq Codes
  /\ {"none", "ok", "stale", "refused", "unready", "exists", "failed", "offline", "timeout",
      "cancelled", "partial", "unsafe"} \subseteq Codes
  BY DEF Codes, Results

LEMMA CallFields ==
  ASSUME NEW k \in CallStates
  PROVE  /\ k.tool \in AllTools /\ k.job \in Jobs /\ k.try \in 1..MaxTries
         /\ k.status \in {"new", "ready", "waiting", "answered"} /\ k.reply \in Replies
  BY DEF CallStates

\* What an answer changes in a call.
LEMMA AnsweredCall ==
  ASSUME call \in [Calls -> CallStates], NEW c \in Calls, NEW reply \in Replies
  PROVE  /\ Answered(c, reply) \in [Calls -> CallStates]
         /\ \A d \in Calls \ {c} : Answered(c, reply)[d] = call[d]
         /\ Answered(c, reply)[c].status = "answered" /\ Answered(c, reply)[c].reply = reply
         /\ Answered(c, reply)[c].tool = call[c].tool /\ Answered(c, reply)[c].job = call[c].job
         /\ Answered(c, reply)[c].try = call[c].try
<1> DEFINE k == [call[c] EXCEPT !.status = "answered", !.reply = reply]
<1>1. call[c] \in CallStates
  OBVIOUS
<1>2. /\ k \in CallStates /\ k.status = "answered" /\ k.reply = reply
      /\ k.tool = call[c].tool /\ k.job = call[c].job /\ k.try = call[c].try
  BY <1>1 DEF CallStates
<1>3. Answered(c, reply) = [call EXCEPT ![c] = k]
  BY DEF Answered
<1> HIDE DEF k
<1>4. [call EXCEPT ![c] = k] \in [Calls -> CallStates]
  BY <1>2
<1> QED
  BY <1>2, <1>3, <1>4

\* A call keeps what it asks for; its status and answer may change.
SameJob(c) ==
  /\ call'[c].tool = call[c].tool /\ call'[c].job = call[c].job
  /\ call'[c].try = call[c].try
  /\ call[c].status = "new" <=> call'[c].status = "new"

\* What the answer to a request may do to the calls.
Answers(r, reply) ==
  \A c \in Calls :
    \/ call'[c] = call[c]
    \/ /\ r = Request(c) /\ SameJob(c)
       /\ call'[c].status = "answered"
       /\ call'[c].reply \in {reply, Reply("unsafe", FALSE, FALSE)}

LEMMA RespondsAnswers ==
  ASSUME TypeOK, NEW r \in Requests, NEW reply \in Replies, Responds(r, reply)
  PROVE  call' \in [Calls -> CallStates] /\ Answers(r, reply)
<1>1. CASE UNCHANGED call
  BY <1>1 DEF TypeOK, Answers
<1>2. CASE online /\ Awaits(r)
  <2>1. PICK a \in Accepted(r[1], reply) : call' = Answered(r[1], a)
    BY <1>2 DEF Responds
  <2>2. a \in {reply, Reply("unsafe", FALSE, FALSE)} /\ a \in Replies
    BY <2>1, ReplyTypes, CodeTypes DEF Accepted
  <2>3. r[1] \in Calls /\ r = Request(r[1])
    BY <1>2, RequestTypes DEF Awaits, Request
  <2>4. /\ call' \in [Calls -> CallStates]
        /\ \A d \in Calls \ {r[1]} : call'[d] = call[d]
        /\ call'[r[1]].status = "answered" /\ call'[r[1]].reply = a
        /\ call'[r[1]].tool = call[r[1]].tool /\ call'[r[1]].job = call[r[1]].job
        /\ call'[r[1]].try = call[r[1]].try
    BY <2>1, <2>2, <2>3, AnsweredCall DEF TypeOK
  <2>5. SameJob(r[1])
    BY <1>2, <2>4 DEF SameJob, Awaits
  <2> QED
    BY <2>2, <2>3, <2>4, <2>5 DEF Answers
<1> QED
  BY <1>1, <1>2 DEF Responds

LEMMA DisconnectedCalls ==
  ASSUME TypeOK, call' = Disconnected
  PROVE  /\ call' \in [Calls -> CallStates]
         /\ \A c \in Calls :
              \/ call'[c] = call[c]
              \/ /\ SameJob(c) /\ call[c].status = "waiting" /\ call'[c].status = "answered"
                 /\ call'[c].reply.code = "offline"
<1> DEFINE offline == Reply("offline", TRUE, FALSE)
<1>1. offline \in Replies /\ offline.code = "offline"
  BY ReplyTypes, ReplyFields, CodeTypes
<1> HIDE DEF offline
<1>2. ASSUME NEW c \in Calls, call[c].status = "waiting"
      PROVE  LET k == [call[c] EXCEPT !.status = "answered", !.reply = offline]
             IN /\ k \in CallStates /\ k.tool = call[c].tool /\ k.job = call[c].job
                /\ k.try = call[c].try /\ k.status = "answered" /\ k.reply = offline
  <2>1. call[c] \in CallStates
    BY DEF TypeOK
  <2> QED
    BY <1>1, <2>1 DEF CallStates
<1>3. call' = [c \in Calls |-> IF call[c].status = "waiting"
                 THEN [call[c] EXCEPT !.status = "answered", !.reply = offline] ELSE call[c]]
  BY DEF Disconnected, offline
<1>4. call' \in [Calls -> CallStates]
  BY <1>2, <1>3 DEF TypeOK
<1>5. ASSUME NEW c \in Calls
      PROVE  \/ call'[c] = call[c]
             \/ /\ SameJob(c) /\ call[c].status = "waiting" /\ call'[c].status = "answered"
                /\ call'[c].reply.code = "offline"
  <2>1. CASE call[c].status # "waiting"
    BY <1>3, <2>1
  <2>2. CASE call[c].status = "waiting"
    <3>1. call'[c] = [call[c] EXCEPT !.status = "answered", !.reply = offline]
      BY <1>3, <2>2
    <3>2. /\ call'[c].tool = call[c].tool /\ call'[c].job = call[c].job
          /\ call'[c].try = call[c].try /\ call'[c].status = "answered" /\ call'[c].reply = offline
      BY <1>2, <2>2, <3>1
    <3> QED
      BY <1>1, <2>2, <3>2 DEF SameJob
  <2> QED
    BY <2>1, <2>2
<1> QED
  BY <1>4, <1>5

\* The queue without one of its requests.
LEMMA WithoutOne ==
  ASSUME queue \in Seq(Requests), NEW k \in DOMAIN queue, queue' = Without(k)
  PROVE  /\ queue' \in Seq(Requests)
         /\ \A i \in DOMAIN queue' : \E j \in DOMAIN queue :
              queue'[i] = queue[j] /\ j = IF i < k THEN i ELSE i + 1
<1> DEFINE before == SubSeq(queue, 1, k - 1)
           after == SubSeq(queue, k + 1, Len(queue))
<1>0. DOMAIN queue = 1..Len(queue)
  OBVIOUS
<1>1. k \in 1..Len(queue) /\ Len(queue) \in Nat
  OBVIOUS
<1>2. /\ before \in Seq(Requests) /\ Len(before) = k - 1
      /\ \A i \in 1..k - 1 : before[i] = queue[i]
  BY <1>1
<1>3. /\ after \in Seq(Requests) /\ Len(after) = Len(queue) - k
      /\ \A i \in 1..Len(queue) - k : after[i] = queue[k + i]
  BY <1>1
<1>4. queue' = before \o after
  BY DEF Without
<1> HIDE DEF before, after
<1>5. /\ queue' \in Seq(Requests) /\ Len(queue') = Len(queue) - 1
      /\ \A i \in 1..Len(queue') : queue'[i] = IF i <= k - 1 THEN before[i] ELSE after[i - (k - 1)]
  BY <1>1, <1>2, <1>3, <1>4, SMTT(30)
<1>6. ASSUME NEW i \in DOMAIN queue'
      PROVE  \E j \in DOMAIN queue : queue'[i] = queue[j] /\ j = IF i < k THEN i ELSE i + 1
  <2>1. i \in 1..Len(queue) - 1
    BY <1>5
  <2>2. CASE i < k
    <3>1. i \in 1..k - 1 /\ i <= k - 1 /\ i \in DOMAIN queue
      BY <1>0, <1>1, <2>1, <2>2
    <3>2. queue'[i] = queue[i]
      BY <1>2, <1>5, <3>1
    <3> QED
      BY <2>2, <3>1, <3>2
  <2>3. CASE ~(i < k)
    <3>1. i - (k - 1) \in 1..Len(queue) - k /\ k + (i - (k - 1)) = i + 1
      BY <1>1, <2>1, <2>3
    <3>2. queue'[i] = after[i - (k - 1)]
      <4>1. ~(i <= k - 1) /\ i \in 1..Len(queue')
        BY <1>1, <1>5, <2>1, <2>3
      <4> QED
        BY <1>5, <4>1
    <3>3. after[i - (k - 1)] = queue[k + (i - (k - 1))]
      BY <1>3, <3>1
    <3>4. i + 1 \in DOMAIN queue
      BY <1>0, <1>1, <2>1
    <3> QED
      BY <2>3, <3>1, <3>2, <3>3, <3>4
  <2> QED
    BY <2>2, <2>3
<1> QED
  BY <1>5, <1>6

-----------------------------------------------------------------------------
(* What the steps share.                                                   *)

LEMMA ActiveKnown ==
  ASSUME CallInv, active # <<>>
  PROVE  /\ active \in Requests /\ active[1] \in Calls /\ Known(active)
         /\ \A i \in DOMAIN queue : queue[i] # active
  BY RequestTypes DEF CallInv, TypeOK, LiveKnown, Live, QueuedOnce, Requests

LEMMA QueuedTypes ==
  ASSUME CallInv
  PROVE  \A i \in DOMAIN queue : queue[i] \in Requests /\ Known(queue[i])
<1>1. \A i \in DOMAIN queue : queue[i] \in Requests
  BY DEF CallInv, TypeOK
<1> QED
  BY <1>1 DEF CallInv, LiveKnown, Live, Requests

\* Calls keep their jobs, some are answered, and no request comes to life.
LEMMA CallsMoveOn ==
  ASSUME CallInv,
         \A r \in Requests : Live(r)' => Live(r),
         \A c \in Calls :
           \/ call'[c] = call[c]
           \/ /\ SameJob(c) /\ call'[c].status = "answered"
              /\ Told(c)' /\ Live(Request(c))' => call'[c].reply.admits
  PROVE  LiveKnown' /\ LiveAdmitted'
<1>1. \A c \in Calls : Request(c)' = Request(c) /\ call'[c].try = call[c].try
  BY DEF Request, SameJob
<1>2. LiveKnown'
  <2>1. ASSUME NEW r \in Calls \X (1..MaxTries), Live(r)'
        PROVE  Known(r)'
    <3>1. r \in Requests /\ r[1] \in Calls
      BY DEF Requests
    <3>2. Known(r)
      BY <2>1, <3>1 DEF CallInv, LiveKnown, Requests
    <3> QED
      BY <1>1, <3>1, <3>2 DEF Known, Requests
  <2> QED
    BY <2>1 DEF LiveKnown
<1>3. LiveAdmitted'
  <2>1. ASSUME NEW c \in Calls, Told(c)', Live(Request(c))'
        PROVE  call'[c].reply.admits
    <3>1. CASE call'[c] = call[c]
      <4>1. Told(c)
        BY <2>1, <3>1 DEF Told
      <4>2. Request(c) \in Requests
        BY CallFields, RequestTypes DEF Request, CallInv, TypeOK
      <4>3. Live(Request(c))
        BY <1>1, <2>1, <4>2 DEF Live
      <4> QED
        BY <3>1, <4>1, <4>3 DEF CallInv, LiveAdmitted
    <3>2. CASE call'[c] # call[c]
      BY <2>1, <3>2
    <3> QED
      BY <3>1, <3>2
  <2> QED
    BY <2>1 DEF LiveAdmitted
<1> QED
  BY <1>2, <1>3

LEMMA JobsKept ==
  ASSUME CallInv, UNCHANGED applied, revision' = revision,
         \A c \in Calls : call'[c] = call[c] \/ SameJob(c)
  PROVE  BatchesPast'
  BY DEF CallInv, BatchesPast, SameJob

\* The document and the task are not touched, and the active request is the same.
LEMMA TaskKept ==
  ASSUME CallInv, UNCHANGED <<task, active, changed>>,
         \A c \in Calls : call'[c] = call[c] \/ SameJob(c)
  PROVE  TaskOwned'
<1>1. active # <<>> => Active'.tool = Active.tool
  BY ActiveKnown DEF Active, SameJob
<1> QED
  BY <1>1 DEF CallInv, TaskOwned

LEMMA ExportKept ==
  ASSUME ExportTypeOK, UNCHANGED exportVars
  PROVE  ExportTypeOK'
  BY DEF exportVars, hostVars, ExportTypeOK, IsTask

\* The types of what a step of the server leaves alone.
LEMMA ServerTypesKept ==
  ASSUME TypeOK, UNCHANGED <<exportVars, applied, changed, active>>,
         call' \in [Calls -> CallStates], online' \in BOOLEAN, queue' \in Seq(Requests)
  PROVE  TypeOK'
  BY ExportKept DEF TypeOK

-----------------------------------------------------------------------------
(* The steps of the server.                                                *)

LEMMA DecideStep ==
  ASSUME CallInv, NEW c \in Calls, Decide(c)
  PROVE  CallInv'
<1>1. PICK tool \in Tools, p \in Paths, o \in BOOLEAN :
        call' = [call EXCEPT ![c].status = "ready", ![c].tool = tool,
                    ![c].job = [format |-> IF tool \in Formats THEN tool ELSE "preflight",
                                path |-> p, overwrite |-> o, expected |-> revision]]
  BY DEF Decide
<1> DEFINE job == [format |-> IF tool \in Formats THEN tool ELSE "preflight",
                   path |-> p, overwrite |-> o, expected |-> revision]
           k == [call[c] EXCEPT !.status = "ready", !.tool = tool, !.job = job]
<1>2. /\ call[c].status = "new"
      /\ UNCHANGED <<exportVars, online, applied, changed, queue, active>>
  BY DEF Decide, pluginVars
<1>3. job \in Jobs /\ tool \in AllTools
  BY CallsAssumption DEF CallsAssumption, Jobs, Formats, CallInv, TypeOK, ExportTypeOK
<1>4. call[c] \in CallStates
  BY DEF CallInv, TypeOK
<1> HIDE DEF job
<1>5. k \in CallStates /\ k.status = "ready" /\ k.try = call[c].try
  BY <1>3, <1>4 DEF CallStates
<1>6. call' = [call EXCEPT ![c] = k]
  BY <1>1 DEF job
<1> HIDE DEF k
<1>7. call' \in [Calls -> CallStates] /\ call'[c] = k /\ \A d \in Calls \ {c} : call'[d] = call[d]
  BY <1>5, <1>6 DEF CallInv, TypeOK
<1>8. TypeOK'
  BY <1>2, <1>7, ServerTypesKept DEF CallInv, TypeOK
<1>9. call[c].try = 1 /\ applied[c] = 0
  BY <1>2 DEF CallInv, BatchesPast
<1>10. \A r \in Requests : r[1] = c => ~Live(r)
  BY <1>2, <1>9 DEF CallInv, LiveKnown, Known, Requests
<1>11. LiveKnown' /\ LiveAdmitted'
  <2>1. \A r : Live(r)' <=> Live(r)
    BY <1>2 DEF Live
  <2>2. LiveKnown'
    <3>1. ASSUME NEW r \in Requests, Live(r)
          PROVE  Known(r)'
      <4>1. Known(r) /\ r[1] \in Calls \ {c}
        BY <1>10, <3>1 DEF CallInv, LiveKnown, Requests
      <4> QED
        BY <1>7, <4>1 DEF Known
    <3> QED
      BY <2>1, <3>1 DEF LiveKnown, Requests
  <2>3. LiveAdmitted'
    <3>1. ~Told(c)'
      BY <1>5, <1>7 DEF Told
    <3>2. \A d \in Calls \ {c} : Told(d)' => Told(d)
      BY <1>7 DEF Told
    <3>3. \A d \in Calls \ {c} : Live(Request(d))' => Live(Request(d))
      BY <1>2, <1>7 DEF Live, Request
    <3> QED
      BY <1>7, <3>1, <3>2, <3>3 DEF CallInv, LiveAdmitted
  <2> QED
    BY <2>2, <2>3
<1>12. QueuedOnce'
  BY <1>2 DEF CallInv, QueuedOnce
<1>13. TaskOwned'
  <2>1. active # <<>> => active[1] \in Calls \ {c}
    BY <1>10, ActiveKnown DEF Live
  <2>2. active # <<>> => Active' = Active
    BY <1>2, <1>7, <2>1 DEF Active
  <2> QED
    BY <1>2, <2>2 DEF CallInv, TaskOwned, exportVars
<1>14. BatchesPast'
  BY <1>2, <1>5, <1>7, <1>9 DEF CallInv, BatchesPast, exportVars
<1> QED
  BY <1>8, <1>11, <1>12, <1>13, <1>14 DEF CallInv

\* A call that is answered on the side of the server.
LEMMA AnsweredStep ==
  ASSUME CallInv, NEW c \in Calls, NEW reply \in Replies, call' = Answered(c, reply),
         call[c].status # "new",
         UNCHANGED <<exportVars, online, applied, changed, active>>,
         queue' \in Seq(Requests), QueuedOnce',
         \A r \in Requests : Live(r)' => Live(r),
         reply.admits \/ ~Live(Request(c))
  PROVE  CallInv'
<1>1. /\ call' \in [Calls -> CallStates]
      /\ \A d \in Calls \ {c} : call'[d] = call[d]
      /\ call'[c].status = "answered" /\ call'[c].reply = reply
      /\ call'[c].tool = call[c].tool /\ call'[c].job = call[c].job
      /\ call'[c].try = call[c].try
  BY AnsweredCall DEF CallInv, TypeOK
<1>2. TypeOK'
  BY <1>1, ServerTypesKept DEF CallInv, TypeOK
<1>3. SameJob(c)
  BY <1>1 DEF SameJob
<1>4. Told(c)' /\ Live(Request(c))' => call'[c].reply.admits
  <2>1. Request(c) \in Requests /\ Request(c)' = Request(c)
    BY <1>1, CallFields, RequestTypes DEF Request, CallInv, TypeOK
  <2>2. Live(Request(c))' => Live(Request(c))
    BY <2>1 DEF Live
  <2> QED
    BY <1>1, <2>2
<1>5. LiveKnown' /\ LiveAdmitted'
  BY <1>1, <1>3, <1>4, CallsMoveOn
<1>6. TaskOwned' /\ BatchesPast'
  BY <1>1, <1>3, TaskKept, JobsKept DEF exportVars
<1> QED
  BY <1>2, <1>5, <1>6 DEF CallInv

LEMMA RefuseStep ==
  ASSUME CallInv, NEW c \in Calls, Refuse(c)
  PROVE  CallInv'
<1>1. /\ call[c].status = "ready"
      /\ UNCHANGED <<exportVars, online, applied, changed, queue, active>>
  BY DEF Refuse, pluginVars
<1>2. PICK reply \in Replies : call' = Answered(c, reply)
  BY ReplyTypes, CodeTypes DEF Refuse, Unready
<1>3. ~Live(Request(c))
  <2>1. Request(c) \in Requests /\ Request(c)[1] = c /\ Request(c)[2] = call[c].try
    BY CallFields, RequestTypes DEF Request, CallInv, TypeOK
  <2>2. ~Known(Request(c))
    BY <1>1, <2>1 DEF Known, Requests
  <2> QED
    BY <2>1, <2>2 DEF CallInv, LiveKnown, Requests
<1>4. queue' \in Seq(Requests) /\ QueuedOnce' /\ \A r \in Requests : Live(r)' => Live(r)
  BY <1>1 DEF CallInv, TypeOK, QueuedOnce, Live
<1> QED
  BY <1>1, <1>2, <1>3, <1>4, AnsweredStep

\* A request leaves the queue.
LEMMA WithoutLive ==
  ASSUME CallInv, NEW k \in DOMAIN queue, queue' = Without(k), UNCHANGED <<active, changed>>
  PROVE  queue' \in Seq(Requests) /\ QueuedOnce' /\ \A r \in Requests : Live(r)' => Live(r)
<1>1. /\ queue' \in Seq(Requests)
      /\ \A i \in DOMAIN queue' : \E j \in DOMAIN queue :
           queue'[i] = queue[j] /\ j = IF i < k THEN i ELSE i + 1
  BY WithoutOne DEF CallInv, TypeOK
<1>2. DOMAIN queue' \subseteq Nat /\ k \in Nat
  BY <1>1 DEF CallInv, TypeOK
<1>3. QueuedOnce'
  <2>1. ASSUME NEW i \in DOMAIN queue'
        PROVE  queue'[i] # active /\ queue'[i] \notin changed
    BY <1>1 DEF CallInv, QueuedOnce
  <2>2. ASSUME NEW i \in DOMAIN queue', NEW j \in DOMAIN queue', i # j
        PROVE  queue'[i] # queue'[j]
    <3>1. PICK a \in DOMAIN queue : queue'[i] = queue[a] /\ a = IF i < k THEN i ELSE i + 1
      BY <1>1
    <3>2. PICK b \in DOMAIN queue : queue'[j] = queue[b] /\ b = IF j < k THEN j ELSE j + 1
      BY <1>1
    <3>3. a # b
      BY <1>2, <2>2, <3>1, <3>2
    <3> QED
      BY <3>1, <3>2, <3>3 DEF CallInv, QueuedOnce
  <2> QED
    BY <2>1, <2>2 DEF QueuedOnce
<1>4. \A r \in Requests : Live(r)' => Live(r)
  BY <1>1 DEF Live
<1> QED
  BY <1>1, <1>3, <1>4

LEMMA GivenUpStep ==
  ASSUME CallInv, NEW c \in Calls, TimeOut(c) \/ Abort(c)
  PROVE  CallInv'
<1>1. PICK reply \in {Reply("timeout", TRUE, TRUE), Reply("cancelled", FALSE, TRUE)} :
        GivenUp(c, reply)
  BY DEF TimeOut, Abort
<1>2. reply \in Replies /\ reply.admits
  BY <1>1, ReplyTypes, ReplyFields, CodeTypes
<1>3. /\ call[c].status = "waiting" /\ call' = Answered(c, reply)
      /\ UNCHANGED <<exportVars, online, applied, changed, active>>
  BY <1>1 DEF GivenUp
<1>4. queue' \in Seq(Requests) /\ QueuedOnce' /\ \A r \in Requests : Live(r)' => Live(r)
  <2>1. CASE UNCHANGED queue
    BY <1>3, <2>1 DEF CallInv, TypeOK, QueuedOnce, Live
  <2>2. CASE \E i \in DOMAIN queue : queue[i] = Request(c) /\ queue' = Without(i)
    BY <1>3, <2>2, WithoutLive
  <2> QED
    BY <1>1, <2>1, <2>2 DEF GivenUp
<1> QED
  BY <1>2, <1>3, <1>4, AnsweredStep

LEMMA SendStep ==
  ASSUME CallInv, NEW c \in Calls, Send(c)
  PROVE  CallInv'
<1> DEFINE k == [call[c] EXCEPT !.status = "waiting"]
           r == Request(c)
<1>1. /\ call[c].status = "ready" /\ call' = [call EXCEPT ![c].status = "waiting"]
      /\ queue' = Append(queue, r) \/ UNCHANGED queue
      /\ UNCHANGED <<exportVars, online, applied, changed, active>>
  BY DEF Send
<1>2. call[c] \in CallStates
  BY DEF CallInv, TypeOK
<1>3. /\ k \in CallStates /\ k.status = "waiting" /\ k.tool = call[c].tool
      /\ k.job = call[c].job /\ k.try = call[c].try
  BY <1>2 DEF CallStates
<1>4. call' = [call EXCEPT ![c] = k]
  BY <1>1
<1> HIDE DEF k
<1>5. call' \in [Calls -> CallStates] /\ call'[c] = k /\ \A d \in Calls \ {c} : call'[d] = call[d]
  BY <1>3, <1>4 DEF CallInv, TypeOK
<1>6. r \in Requests /\ r[1] = c /\ r[2] = call[c].try
  BY <1>2, CallFields, RequestTypes DEF Request
<1>7. ~Live(r)
  <2>1. ~Known(r)
    BY <1>1, <1>6 DEF Known, Requests
  <2> QED
    BY <1>6, <2>1 DEF CallInv, LiveKnown, Requests
<1> HIDE DEF r
<1>8. queue \in Seq(Requests)
  BY DEF CallInv, TypeOK
<1>9. /\ queue' \in Seq(Requests)
      /\ \A i \in DOMAIN queue' :
           \/ i \in DOMAIN queue /\ queue'[i] = queue[i]
           \/ i = Len(queue) + 1 /\ queue'[i] = r
  BY <1>1, <1>6, <1>8, SMTT(30)
<1>10. TypeOK'
  BY <1>1, <1>5, <1>9, ServerTypesKept DEF CallInv, TypeOK
<1>11. SameJob(c)
  BY <1>1, <1>3, <1>5 DEF SameJob
<1>12. LiveKnown'
  <2>1. ASSUME NEW q \in Requests, Live(q)'
        PROVE  Known(q)'
    <3>1. CASE q = r
      BY <1>3, <1>5, <1>6, <3>1 DEF Known
    <3>2. CASE q # r
      <4>1. Live(q)
        BY <1>1, <1>9, <2>1, <3>2 DEF Live
      <4>2. Known(q) /\ q[1] \in Calls
        BY <4>1 DEF CallInv, LiveKnown, Requests
      <4> QED
        BY <1>1, <1>3, <1>5, <4>2 DEF Known
    <3> QED
      BY <3>1, <3>2
  <2> QED
    BY <2>1 DEF LiveKnown, Requests
<1>13. QueuedOnce'
  <2>1. \A i \in DOMAIN queue : queue[i] # r
    BY <1>7 DEF Live
  <2>2. r # active /\ r \notin changed
    BY <1>7 DEF Live
  <2> QED
    BY <1>1, <1>9, <2>1, <2>2 DEF CallInv, QueuedOnce
<1>14. LiveAdmitted'
  <2>1. ~Told(c)'
    BY <1>3, <1>5 DEF Told
  <2>2. ASSUME NEW d \in Calls \ {c}, Told(d)', Live(Request(d))'
        PROVE  call'[d].reply.admits
    <3>1. Told(d) /\ call'[d] = call[d] /\ Request(d)' = Request(d)
      BY <1>5, <2>2 DEF Told, Request
    <3>2. Request(d) # r
      BY <1>6 DEF Request
    <3>3. Live(Request(d))
      BY <1>1, <1>9, <2>2, <3>1, <3>2 DEF Live
    <3> QED
      BY <3>1, <3>3 DEF CallInv, LiveAdmitted
  <2> QED
    BY <2>1, <2>2 DEF LiveAdmitted
<1>15. TaskOwned' /\ BatchesPast'
  BY <1>1, <1>5, <1>11, TaskKept, JobsKept DEF exportVars
<1> QED
  BY <1>10, <1>12, <1>13, <1>14, <1>15 DEF CallInv

LEMMA RetryStep ==
  ASSUME CallInv, NEW c \in Calls, Retry(c)
  PROVE  CallInv'
<1> DEFINE k == [call[c] EXCEPT !.status = "ready", !.reply = NoReply, !.try = @ + 1]
<1>1. /\ call[c].status = "answered" /\ call[c].try < MaxTries
      /\ call' = [call EXCEPT ![c].status = "ready", ![c].reply = NoReply, ![c].try = @ + 1]
      /\ UNCHANGED <<exportVars, online, applied, changed, queue, active>>
  BY DEF Retry, pluginVars
<1>2. call[c] \in CallStates /\ NoReply \in Replies
  BY ReplyTypes, CodeTypes DEF CallInv, TypeOK, NoReply
<1>3. call[c].try + 1 \in 1..MaxTries /\ call[c].try \in Nat
  BY <1>1, <1>2, CallFields, TriesFacts
<1>4. /\ k \in CallStates /\ k.status = "ready" /\ k.tool = call[c].tool
      /\ k.job = call[c].job /\ k.try = call[c].try + 1
  BY <1>2, <1>3 DEF CallStates
<1>5. call' = [call EXCEPT ![c] = k]
  BY <1>1
<1> HIDE DEF k
<1>6. call' \in [Calls -> CallStates] /\ call'[c] = k /\ \A d \in Calls \ {c} : call'[d] = call[d]
  BY <1>4, <1>5 DEF CallInv, TypeOK
<1>7. TypeOK'
  BY <1>1, <1>6, ServerTypesKept DEF CallInv, TypeOK
<1>8. \A r : Live(r)' <=> Live(r)
  BY <1>1 DEF Live
<1>9. LiveKnown'
  <2>1. ASSUME NEW r \in Requests, Live(r)
        PROVE  Known(r)'
    <3>1. Known(r) /\ r[1] \in Calls /\ r[2] \in Nat
      BY <2>1 DEF CallInv, LiveKnown, Requests
    <3>2. CASE r[1] = c
      BY <1>3, <1>4, <1>6, <3>1, <3>2 DEF Known
    <3>3. CASE r[1] # c
      BY <1>6, <3>1, <3>3 DEF Known
    <3> QED
      BY <3>2, <3>3
  <2> QED
    BY <1>8, <2>1 DEF LiveKnown, Requests
<1>10. LiveAdmitted'
  <2>1. ~Told(c)'
    BY <1>4, <1>6 DEF Told
  <2>2. \A d \in Calls \ {c} : Told(d)' => Told(d)
    BY <1>6 DEF Told
  <2>3. \A d \in Calls \ {c} : Live(Request(d))' => Live(Request(d))
    BY <1>1, <1>6 DEF Live, Request
  <2> QED
    BY <1>6, <2>1, <2>2, <2>3 DEF CallInv, LiveAdmitted
<1>11. QueuedOnce'
  BY <1>1 DEF CallInv, QueuedOnce
<1>12. TaskOwned'
  <2>1. active # <<>> => Active'.tool = Active.tool
    BY <1>1, <1>4, <1>6, ActiveKnown DEF Active
  <2> QED
    BY <1>1, <2>1 DEF CallInv, TaskOwned, exportVars
<1>13. BatchesPast'
  BY <1>1, <1>4, <1>6 DEF CallInv, BatchesPast, exportVars
<1> QED
  BY <1>7, <1>9, <1>10, <1>11, <1>12, <1>13 DEF CallInv

LEMMA ConnectionStep ==
  ASSUME CallInv, Disconnect \/ Connect
  PROVE  CallInv'
<1>1. /\ UNCHANGED <<exportVars, applied, changed, queue, active>> /\ online' \in BOOLEAN
      /\ call' = Disconnected \/ call' = call
  BY DEF Disconnect, Connect, pluginVars
<1>2. /\ call' \in [Calls -> CallStates]
      /\ \A c \in Calls :
           \/ call'[c] = call[c]
           \/ /\ SameJob(c) /\ call[c].status = "waiting" /\ call'[c].status = "answered"
              /\ call'[c].reply.code = "offline"
  BY <1>1, DisconnectedCalls DEF CallInv, TypeOK
<1>3. TypeOK'
  BY <1>1, <1>2, ServerTypesKept DEF CallInv, TypeOK
<1>4. \A r \in Requests : Live(r)' => Live(r)
  BY <1>1 DEF Live
<1>5. \A c \in Calls : call'[c].reply.code = "offline" => ~Told(c)'
  BY DEF Told
<1>6. LiveKnown' /\ LiveAdmitted'
  BY <1>2, <1>4, <1>5, CallsMoveOn
<1>7. QueuedOnce'
  BY <1>1 DEF CallInv, QueuedOnce
<1>8. TaskOwned' /\ BatchesPast'
  BY <1>1, <1>2, TaskKept, JobsKept DEF exportVars
<1> QED
  BY <1>3, <1>6, <1>7, <1>8 DEF CallInv

-----------------------------------------------------------------------------
(* The steps of the plugin.                                                *)

\* The request at the head of the queue leaves it.
LEMMA TailFacts ==
  ASSUME CallInv, queue # <<>>, queue' = Tail(queue)
  PROVE  /\ Head(queue) \in Requests /\ Known(Head(queue))
         /\ Head(queue) # active /\ Head(queue) \notin changed
         /\ queue' \in Seq(Requests)
         /\ \A i \in DOMAIN queue' :
              /\ i + 1 \in DOMAIN queue /\ queue'[i] = queue[i + 1]
              /\ queue'[i] # Head(queue) /\ queue'[i] # active /\ queue'[i] \notin changed
         /\ \A i, j \in DOMAIN queue' : i # j => queue'[i] # queue'[j]
<1>1. queue \in Seq(Requests)
  BY DEF CallInv, TypeOK
<1>2. /\ queue' \in Seq(Requests) /\ 1 \in DOMAIN queue /\ Head(queue) = queue[1]
      /\ \A i \in DOMAIN queue' : i \in Nat /\ i + 1 \in DOMAIN queue /\ i + 1 # 1
                                  /\ queue'[i] = queue[i + 1]
  BY <1>1
<1>3. Head(queue) \in Requests /\ Known(Head(queue))
  BY <1>2, QueuedTypes
<1>4. /\ Head(queue) # active /\ Head(queue) \notin changed
      /\ \A i \in DOMAIN queue' :
           queue'[i] # Head(queue) /\ queue'[i] # active /\ queue'[i] \notin changed
  BY <1>2 DEF CallInv, QueuedOnce
<1>5. ASSUME NEW i \in DOMAIN queue', NEW j \in DOMAIN queue', i # j
      PROVE  queue'[i] # queue'[j]
  <2>1. i + 1 # j + 1
    BY <1>2, <1>5
  <2> QED
    BY <1>2, <2>1 DEF CallInv, QueuedOnce
<1> QED
  BY <1>2, <1>3, <1>4, <1>5

\* A task begins at its first stage, or is over.
LEMMA BeginResult ==
  ASSUME NEW job \in Jobs, BeginTask(job)
  PROVE  task'.result = "unready" => task'.stage = "done"
<1>1. Fresh(job) \in Tasks /\ Fresh(job).result = "none"
  BY FreshType DEF Fresh
<1>2. ASSUME NEW result
      PROVE  [Fresh(job) EXCEPT !.stage = "done", !.result = result].stage = "done"
  BY <1>1 DEF Tasks
<1>3. /\ [Fresh(job) EXCEPT !.stage = "adding"].result = "none"
      /\ [Fresh(job) EXCEPT !.stage = "folder", !.guard = GuardBefore(job.format)].result = "none"
  BY <1>1 DEF Tasks
<1> QED
  BY <1>2, <1>3 DEF BeginTask

LEMMA StartsStep ==
  ASSUME CallInv, Starts
  PROVE  CallInv'
<1> DEFINE h == Head(queue)
<1>1. /\ active = <<>> /\ queue # <<>> /\ queue' = Tail(queue) /\ active' = h
      /\ UNCHANGED <<call, online, applied, changed>>
  BY DEF Starts
<1>2. /\ h \in Requests /\ Known(h) /\ h \notin changed
      /\ queue' \in Seq(Requests)
      /\ \A i \in DOMAIN queue' :
           /\ i + 1 \in DOMAIN queue /\ queue'[i] = queue[i + 1]
           /\ queue'[i] # h /\ queue'[i] \notin changed
      /\ \A i, j \in DOMAIN queue' : i # j => queue'[i] # queue'[j]
  BY <1>1, TailFacts
<1>3. h[1] \in Calls /\ \E i \in DOMAIN queue : queue[i] = h
  BY <1>1, <1>2, RequestTypes DEF CallInv, TypeOK
<1> HIDE DEF h
<1>4. call[h[1]].job \in Jobs
  BY <1>3, CallFields DEF CallInv, TypeOK
<1>5. ASSUME revision' = revision
      PROVE  LiveKnown' /\ QueuedOnce' /\ BatchesPast' /\ LiveAdmitted'
  <2>1. \A r : Live(r)' => Live(r)
    BY <1>1, <1>2, <1>3 DEF Live
  <2>2. LiveKnown'
    BY <1>1, <2>1 DEF CallInv, LiveKnown, Known
  <2>3. QueuedOnce'
    BY <1>1, <1>2 DEF QueuedOnce
  <2>4. BatchesPast'
    BY <1>1, <1>5 DEF CallInv, BatchesPast
  <2>5. LiveAdmitted'
    BY <1>1, <2>1 DEF CallInv, LiveAdmitted, Told, Request
  <2> QED
    BY <2>2, <2>3, <2>4, <2>5
<1>6. CASE call[h[1]].tool \in Formats /\ BeginTask(call[h[1]].job)
  <2>1. ExportTypeOK' /\ revision' = revision
    BY <1>4, <1>6, BeginType DEF CallInv, TypeOK, BeginTask
  <2>2. TypeOK'
    BY <1>1, <1>2, <2>1 DEF CallInv, TypeOK
  <2>3. TaskOwned'
    BY <1>1, <1>2, <1>3, <1>4, <1>6, BeginResult, RequestTypes DEF TaskOwned, Active
  <2> QED
    BY <1>5, <2>1, <2>2, <2>3 DEF CallInv
<1>7. CASE call[h[1]].tool \notin Formats /\ UNCHANGED exportVars
  <2>1. ExportTypeOK' /\ revision' = revision /\ task' = task
    BY <1>7, ExportKept DEF CallInv, TypeOK, exportVars
  <2>2. TypeOK'
    BY <1>1, <1>2, <2>1 DEF CallInv, TypeOK
  <2>3. TaskOwned'
    BY <1>1, <1>2, <1>7, <2>1 DEF CallInv, TaskOwned, Active
  <2> QED
    BY <1>5, <2>1, <2>2, <2>3 DEF CallInv
<1> QED
  BY <1>6, <1>7 DEF Starts, h

\* What an answer of the plugin leaves of the invariant.
LEMMA AnswersKeep ==
  ASSUME CallInv, NEW r \in Requests, NEW reply \in Replies, Answers(r, reply),
         \A q \in Requests : Live(q)' => Live(q),
         reply # Aborted /\ (reply.retryable \/ reply.code \in {"timeout", "cancelled"})
           => reply.admits \/ ~Live(r)'
  PROVE  /\ LiveKnown' /\ LiveAdmitted'
         /\ \A c \in Calls : call'[c] = call[c] \/ SameJob(c)
<1>1. ASSUME NEW c \in Calls, call'[c] # call[c]
      PROVE  /\ SameJob(c) /\ call'[c].status = "answered"
             /\ Told(c)' /\ Live(Request(c))' => call'[c].reply.admits
  <2>1. /\ r = Request(c) /\ SameJob(c) /\ call'[c].status = "answered"
        /\ call'[c].reply \in {reply, Reply("unsafe", FALSE, FALSE)}
    BY <1>1 DEF Answers
  <2>2. Request(c)' = r
    BY <2>1 DEF Request, SameJob
  <2>3. CASE call'[c].reply = reply
    BY <2>1, <2>2, <2>3 DEF Told
  <2>4. CASE call'[c].reply = Reply("unsafe", FALSE, FALSE)
    <3>1. ~Told(c)'
      BY <2>4, ReplyFields DEF Told
    <3> QED
      BY <2>1, <3>1
  <2> QED
    BY <2>1, <2>3, <2>4
<1> QED
  BY <1>1, CallsMoveOn

LEMMA ExpiresStep ==
  ASSUME CallInv, Expires
  PROVE  CallInv'
<1> DEFINE reply == Reply("timeout", TRUE, FALSE)
<1>0. PICK h : h = Head(queue)
  OBVIOUS
<1>1. /\ active = <<>> /\ queue # <<>> /\ queue' = Tail(queue) /\ Responds(h, reply)
      /\ UNCHANGED <<exportVars, online, applied, changed, active>>
  BY <1>0 DEF Expires
<1>2. /\ h \in Requests /\ h \notin changed
      /\ queue' \in Seq(Requests)
      /\ \A i \in DOMAIN queue' :
           /\ i + 1 \in DOMAIN queue /\ queue'[i] = queue[i + 1]
           /\ queue'[i] # h /\ queue'[i] # active /\ queue'[i] \notin changed
      /\ \A i, j \in DOMAIN queue' : i # j => queue'[i] # queue'[j]
  BY <1>0, <1>1, TailFacts
<1>3. reply \in Replies
  BY ReplyTypes, CodeTypes
<1> HIDE DEF reply
<1>4. call' \in [Calls -> CallStates] /\ Answers(h, reply)
  BY <1>1, <1>2, <1>3, RespondsAnswers DEF CallInv
<1>5. TypeOK'
  BY <1>1, <1>2, <1>4, ServerTypesKept DEF CallInv, TypeOK
<1>6. \A q \in Requests : Live(q)' => Live(q)
  BY <1>1, <1>2 DEF Live
<1>7. ~Live(h)'
  BY <1>1, <1>2, RequestTypes DEF Live
<1>8. /\ LiveKnown' /\ LiveAdmitted'
      /\ \A c \in Calls : call'[c] = call[c] \/ SameJob(c)
  BY <1>2, <1>3, <1>4, <1>6, <1>7, AnswersKeep
<1>9. QueuedOnce'
  BY <1>1, <1>2 DEF QueuedOnce
<1>10. TaskOwned' /\ BatchesPast'
  BY <1>1, <1>8, TaskKept, JobsKept DEF exportVars
<1> QED
  BY <1>5, <1>8, <1>9, <1>10 DEF CallInv

\* No step of a task makes it unready, and none leads back to idle.
LEMMA TaskStepResult ==
  ASSUME ExportTypeOK, TaskStep
  PROVE  /\ task.stage \notin {"idle", "done"} /\ revision' = revision
         /\ task.result # "unready" => task'.result # "unready"
<1>1. task \in Tasks
  BY DEF ExportTypeOK, IsTask
<1>2. task.stage \notin {"idle", "done"} /\ revision' = revision
  BY DEF TaskStep, FolderFound, FolderMade, EntryFound, FileCreated, SettingFails, CreateFails,
     WriteSucceeds, WriteFails, EntryRejected, PreviewFits, PreviewTooLarge, PreviewUnreadable,
     SizeRead, ProcessAdded, ProcessEnds, ProcessRemoved, hostVars
<1>3. ASSUME NEW stage, GoesOn(stage)
      PROVE  task'.result = task.result
  BY <1>1, <1>3 DEF GoesOn, Tasks
<1>4. ASSUME NEW result, Ends(result)
      PROVE  task'.result = result
  BY <1>1, <1>4 DEF Ends, Tasks
<1>5. ASSUME NEW result \in {"ok", "failed"}, Restores(result)
      PROVE  task'.result \in {"none", "failed"}
  <2>1. PICK end \in {"ok", "failed"} : Leaves(end)
    BY <1>5 DEF Restores
  <2> QED
    BY <1>1, <2>1 DEF Leaves, Tasks
<1>6. CASE FolderFound \/ FolderMade \/ EntryFound \/ CreateFails \/ SettingFails
  BY <1>3, <1>4, <1>6 DEF FolderFound, FolderMade, EntryFound, CreateFails, SettingFails
<1>7. CASE FileCreated \/ EntryRejected
  BY <1>1, <1>3, <1>7 DEF FileCreated, EntryRejected, Tasks
<1>8. CASE PreviewTooLarge
  <2>1. [task EXCEPT !.stage = "write", !.attempt = @ + 1, !.native = FALSE].result = task.result
    BY <1>1 DEF Tasks
  <2> QED
    BY <1>5, <1>8, <2>1 DEF PreviewTooLarge
<1>9. CASE WriteSucceeds \/ WriteFails \/ PreviewFits \/ PreviewUnreadable \/ SizeRead
  BY <1>3, <1>4, <1>5, <1>9 DEF WriteSucceeds, WriteFails, PreviewFits, PreviewUnreadable, SizeRead
<1>10. CASE ProcessAdded \/ ProcessRemoved
  BY <1>3, <1>4, <1>10 DEF ProcessAdded, ProcessRemoved
<1>11. CASE ProcessEnds
  BY <1>1, <1>11 DEF ProcessEnds, Tasks
<1> QED
  BY <1>2, <1>6, <1>7, <1>8, <1>9, <1>10, <1>11 DEF TaskStep

LEMMA WorksStep ==
  ASSUME CallInv, Works
  PROVE  CallInv'
<1>1. /\ active # <<>> /\ TaskStep /\ changed' \in {changed, changed \cup {active}}
      /\ UNCHANGED <<call, online, applied, queue, active>>
  BY DEF Works, pluginVars
<1>2. /\ task.stage \notin {"idle", "done"} /\ revision' = revision
      /\ task.result # "unready" => task'.result # "unready"
  BY <1>1, TaskStepResult DEF CallInv, TypeOK
<1>3. ExportTypeOK'
  BY <1>1, TaskStepType DEF CallInv, TypeOK
<1>4. active \in Requests
  BY <1>1, ActiveKnown
<1>5. TypeOK'
  BY <1>1, <1>3, <1>4 DEF CallInv, TypeOK
<1>6. \A r : Live(r)' <=> Live(r)
  BY <1>1 DEF Live
<1>7. LiveKnown' /\ LiveAdmitted'
  BY <1>1, <1>6 DEF CallInv, LiveKnown, Known, LiveAdmitted, Told, Request
<1>8. QueuedOnce'
  BY <1>1 DEF CallInv, QueuedOnce
<1>9. TaskOwned'
  BY <1>1, <1>2 DEF CallInv, TaskOwned, Active
<1>10. BatchesPast'
  BY <1>1, <1>2 DEF CallInv, BatchesPast
<1> QED
  BY <1>5, <1>7, <1>8, <1>9, <1>10 DEF CallInv

\* Errors of the host are failures that may not be retried, or the exception.
LEMMA HostErrorFacts ==
  /\ {Failed, Aborted, Unready} \subseteq Replies
  /\ Failed.code = "failed" /\ ~Failed.retryable
  /\ Aborted.code = "cancelled" /\ Unready.code = "unready"
  BY ReplyTypes, ReplyFields, CodeTypes DEF Failed, Aborted, Unready

\* A task ends and is answered.  An answer that may be retried is given by a
\* task that has changed nothing, or to an AbortError.
LEMMA EndedKeeps ==
  ASSUME CallInv, active # <<>>, NEW reply \in Replies, Ended(reply),
         \/ reply = Aborted
         \/ /\ reply.code \notin {"timeout", "cancelled"}
            /\ reply.retryable => active \notin changed',
         changed' \in {changed, changed \cup {active}}
  PROVE  /\ call' \in [Calls -> CallStates]
         /\ \A c \in Calls : call'[c] = call[c] \/ SameJob(c)
         /\ active' = <<>> /\ UNCHANGED <<online, queue>> /\ changed' \subseteq Requests
         /\ LiveKnown' /\ LiveAdmitted' /\ QueuedOnce'
<1>0. PICK r : r = active
  OBVIOUS
<1>1. PICK late \in BOOLEAN : Responds(r, Settled(reply, late))
  BY <1>0 DEF Ended
<1>2. active' = <<>> /\ UNCHANGED <<online, queue>>
  BY DEF Ended
<1>3. r \in Requests /\ \A i \in DOMAIN queue : queue[i] \in Requests /\ queue[i] # r
  BY <1>0, ActiveKnown, QueuedTypes
<1> DEFINE answer == Settled(reply, late)
<1>4. answer \in Replies /\ (answer = reply \/ answer.admits)
  BY ReplyTypes, ReplyFields, CodeTypes DEF Settled
<1>11. reply = Aborted => answer = reply
  <2>1. Aborted.code # "ok"
    BY HostErrorFacts
  <2> QED
    BY <2>1 DEF Settled
<1> HIDE DEF answer
<1>5. call' \in [Calls -> CallStates] /\ Answers(r, answer)
  BY <1>1, <1>3, <1>4, RespondsAnswers DEF CallInv, answer
<1>6. \A q \in Requests : Live(q)' => Live(q)
  BY <1>0, <1>2, <1>3, RequestTypes DEF Live
<1>7. reply # Aborted /\ reply.retryable => ~Live(r)'
  BY <1>0, <1>2, <1>3, RequestTypes DEF Live
<1>12. answer # Aborted /\ (answer.retryable \/ answer.code \in {"timeout", "cancelled"})
         => answer.admits \/ ~Live(r)'
  BY <1>4, <1>7, <1>11
<1>8. /\ LiveKnown' /\ LiveAdmitted'
      /\ \A c \in Calls : call'[c] = call[c] \/ SameJob(c)
  BY <1>3, <1>4, <1>5, <1>6, <1>12, AnswersKeep
<1>9. QueuedOnce'
  <2>1. \A i \in DOMAIN queue : queue[i] # <<>>
    BY <1>3, RequestTypes
  <2> QED
    BY <1>2, <1>3, <2>1 DEF CallInv, QueuedOnce
<1>10. changed' \subseteq Requests
  BY <1>0, <1>3 DEF CallInv, TypeOK
<1> QED
  BY <1>2, <1>5, <1>8, <1>9, <1>10

LEMMA IdleOwned ==
  ASSUME active' = <<>>, changed' \subseteq Requests,
         task'.stage = "idle" /\ task'.result # "unready"
  PROVE  TaskOwned'
  BY RequestTypes DEF TaskOwned

LEMMA FileTaskEndsStep ==
  ASSUME CallInv, FileTaskEnds
  PROVE  CallInv'
<1> DEFINE own == Reply(task.result, task.result = "unready", FALSE)
<1>1. /\ active # <<>> /\ task' = Idle
      /\ UNCHANGED <<authorized, hostVars, revision, applied, changed>>
  BY DEF FileTaskEnds
<1>2. task.result \in Results
  BY DEF CallInv, TypeOK, ExportTypeOK, IsTask, Tasks
<1>3. (task.result = "unready") \in BOOLEAN
  OBVIOUS
<1>4. own \in Replies /\ own.code = task.result /\ (own.retryable <=> task.result = "unready")
  BY <1>2, <1>3, ReplyTypes, ReplyFields, CodeTypes
<1>12. Ended(own) \/ Ended(Aborted)
  BY DEF FileTaskEnds
<1> HIDE DEF own
<1>13. PICK reply \in {own, Aborted} : Ended(reply)
  BY <1>12
<1>14. reply \in Replies
  BY <1>4, <1>13, HostErrorFacts
<1>5. own.code \notin {"timeout", "cancelled"}
  BY <1>2, <1>4 DEF Results
<1>6. own.retryable => active \notin changed'
  BY <1>1, <1>4 DEF CallInv, TaskOwned
<1>7. /\ call' \in [Calls -> CallStates]
      /\ \A c \in Calls : call'[c] = call[c] \/ SameJob(c)
      /\ active' = <<>> /\ UNCHANGED <<online, queue>> /\ changed' \subseteq Requests
      /\ LiveKnown' /\ LiveAdmitted' /\ QueuedOnce'
  BY <1>1, <1>5, <1>6, <1>13, <1>14, EndedKeeps
<1>8. ExportTypeOK'
  BY <1>1, IdleType DEF CallInv, TypeOK, ExportTypeOK, IsTask, hostVars
<1>9. TypeOK'
  BY <1>1, <1>7, <1>8 DEF CallInv, TypeOK
<1>10. TaskOwned'
  BY <1>1, <1>7, IdleType, IdleOwned DEF Idle, Fresh
<1>11. BatchesPast'
  BY <1>1, <1>7, JobsKept
<1> QED
  BY <1>7, <1>9, <1>10, <1>11 DEF CallInv

\* While a request without a file task is active, no task runs.
LEMMA NoTask ==
  ASSUME CallInv, active # <<>>, Active.tool \in {"status", "create", "apply"}
  PROVE  /\ Active.tool \notin Formats /\ active \notin changed
         /\ task.stage = "idle" /\ task.result # "unready"
<1>1. Active.tool \notin Formats
  BY DEF Formats
<1> QED
  BY <1>1 DEF CallInv, TaskOwned

LEMMA StatusEndsStep ==
  ASSUME CallInv, StatusEnds
  PROVE  CallInv'
<1>1. /\ active # <<>> /\ Active.tool = "status"
      /\ UNCHANGED <<exportVars, applied, changed>>
  BY DEF StatusEnds
<1>7. PICK reply \in HostErrors \cup {Reply("ok", FALSE, FALSE)} : Ended(reply)
  BY DEF StatusEnds
<1>2. /\ reply \in Replies
      /\ reply = Aborted \/ (reply.code \in {"ok", "failed"} /\ ~reply.retryable)
  BY <1>7, ReplyTypes, ReplyFields, CodeTypes, HostErrorFacts DEF HostErrors
<1>3. /\ call' \in [Calls -> CallStates]
      /\ \A c \in Calls : call'[c] = call[c] \/ SameJob(c)
      /\ active' = <<>> /\ UNCHANGED <<online, queue>> /\ changed' \subseteq Requests
      /\ LiveKnown' /\ LiveAdmitted' /\ QueuedOnce'
  BY <1>1, <1>2, <1>7, EndedKeeps
<1>4. TypeOK'
  BY <1>1, <1>3, ExportKept DEF CallInv, TypeOK
<1>5. TaskOwned'
  BY <1>1, <1>3, NoTask, IdleOwned DEF exportVars
<1>6. BatchesPast'
  BY <1>1, <1>3, JobsKept DEF exportVars
<1> QED
  BY <1>3, <1>4, <1>5, <1>6 DEF CallInv

\* Answers to a task that may have changed something.
LEMMA AppliedFacts ==
  ASSUME NEW reply \in Applied
  PROVE  /\ reply \in Replies
         /\ reply = Aborted \/ (~reply.retryable /\ reply.code \notin {"timeout", "cancelled"})
  BY ReplyTypes, ReplyFields, CodeTypes, HostErrorFacts DEF Applied, HostErrors

LEMMA CreateEndsStep ==
  ASSUME CallInv, CreateEnds
  PROVE  CallInv'
<1>1. /\ active # <<>> /\ Active.tool = "create" /\ UNCHANGED <<exportVars, applied>>
      /\ changed' \in {changed, changed \cup {active}}
  BY DEF CreateEnds
<1>2. PICK reply \in Applied : Ended(reply)
  <2>1. /\ Reply("ok", FALSE, "ok" = "partial") = Reply("ok", FALSE, FALSE)
        /\ Reply("partial", FALSE, "partial" = "partial") = Reply("partial", FALSE, TRUE)
    BY DEF Reply
  <2>2. CASE \E reply \in HostErrors : Ended(reply)
    BY <2>2 DEF Applied
  <2>3. CASE \E code \in {"ok", "partial"} : Ended(Reply(code, FALSE, code = "partial"))
    BY <2>1, <2>3 DEF Applied
  <2> QED
    BY <2>2, <2>3 DEF CreateEnds
<1>3. /\ reply \in Replies
      /\ reply = Aborted \/ (~reply.retryable /\ reply.code \notin {"timeout", "cancelled"})
  BY <1>2, AppliedFacts
<1>4. /\ call' \in [Calls -> CallStates]
      /\ \A c \in Calls : call'[c] = call[c] \/ SameJob(c)
      /\ active' = <<>> /\ UNCHANGED <<online, queue>> /\ changed' \subseteq Requests
      /\ LiveKnown' /\ LiveAdmitted' /\ QueuedOnce'
  BY <1>1, <1>2, <1>3, EndedKeeps
<1>5. TypeOK'
  BY <1>1, <1>4, ExportKept DEF CallInv, TypeOK
<1>6. TaskOwned'
  BY <1>1, <1>4, NoTask, IdleOwned DEF exportVars
<1>7. BatchesPast'
  BY <1>1, <1>4, JobsKept DEF exportVars
<1> QED
  BY <1>4, <1>5, <1>6, <1>7 DEF CallInv

LEMMA BatchEndsStep ==
  ASSUME CallInv, BatchEnds
  PROVE  CallInv'
<1> DEFINE c0 == active[1]
<1>1. /\ active # <<>> /\ Active.tool = "apply" /\ UNCHANGED <<authorized, hostVars, task>>
      /\ changed' \in {changed, changed \cup {active}}
      /\ \/ UNCHANGED <<revision, applied>>
         \/ /\ Active.job.expected = revision
            /\ revision < MaxRevision
            /\ revision' = revision + 1
            /\ applied' = applied \/ applied' = [applied EXCEPT ![c0] = @ + 1]
  BY DEF BatchEnds, AtRevision
<1>2. \E reply \in Replies :
        /\ Ended(reply)
        /\ \/ reply = Aborted
           \/ /\ reply.code \notin {"timeout", "cancelled"}
              /\ reply.retryable => UNCHANGED changed
  <2>1. CASE Ended(Reply("stale", FALSE, FALSE))
    <3>1. LET reply == Reply("stale", FALSE, FALSE)
          IN reply \in Replies /\ reply.code = "stale" /\ ~reply.retryable
      BY ReplyTypes, ReplyFields, CodeTypes
    <3> QED
      BY <2>1, <3>1
  <2>2. ASSUME NEW reply \in HostErrors \cup {Unready}
        PROVE  reply \in Replies /\ (reply = Aborted \/ reply.code \notin {"timeout", "cancelled"})
    BY HostErrorFacts DEF HostErrors
  <2>3. CASE \E reply \in HostErrors \cup {Unready} : Ended(reply) /\ UNCHANGED changed
    BY <2>2, <2>3
  <2>4. CASE \E reply \in Applied : Ended(reply)
    BY <2>4, AppliedFacts
  <2> QED
    BY <2>1, <2>3, <2>4 DEF BatchEnds
<1>3. active \notin changed /\ task.stage = "idle" /\ task.result # "unready"
  BY <1>1, NoTask
<1>4. PICK reply \in Replies :
        /\ Ended(reply)
        /\ \/ reply = Aborted
           \/ /\ reply.code \notin {"timeout", "cancelled"}
              /\ reply.retryable => active \notin changed'
  BY <1>2, <1>3
<1>5. /\ call' \in [Calls -> CallStates]
      /\ \A c \in Calls : call'[c] = call[c] \/ SameJob(c)
      /\ active' = <<>> /\ UNCHANGED <<online, queue>> /\ changed' \subseteq Requests
      /\ LiveKnown' /\ LiveAdmitted' /\ QueuedOnce'
  BY <1>1, <1>4, EndedKeeps
<1>6. c0 \in Calls
  BY <1>1, ActiveKnown
<1>7. revision' \in 1..MaxRevision /\ revision <= revision' /\ revision \in Nat
  BY <1>1, ExportAssumption DEF CallInv, TypeOK, ExportTypeOK, ExportAssumption
<1>8. ExportTypeOK'
  BY <1>1, <1>7 DEF CallInv, TypeOK, ExportTypeOK, hostVars, IsTask
<1>9. TypeOK'
  BY <1>1, <1>5, <1>6, <1>8 DEF CallInv, TypeOK
<1>10. TaskOwned'
  BY <1>1, <1>3, <1>5, IdleOwned
<1>11. BatchesPast'
  <2>1. ASSUME NEW c \in Calls
        PROVE  /\ applied'[c] \in {0, 1}
               /\ applied'[c] = 1 => call'[c].job.expected < revision' /\ call'[c].status # "new"
               /\ call'[c].status = "new" => call'[c].tool = "status" /\ call'[c].try = 1
    <3>1. /\ call'[c].job = call[c].job /\ call'[c].tool = call[c].tool
          /\ call'[c].try = call[c].try
          /\ call[c].status = "new" <=> call'[c].status = "new"
      BY <1>5 DEF SameJob
    <3>2. call[c].job.expected \in Nat
      BY CallFields DEF CallInv, TypeOK, Jobs
    <3>3. /\ applied[c] \in {0, 1}
          /\ applied[c] = 1 => call[c].job.expected < revision /\ call[c].status # "new"
          /\ call[c].status = "new" => call[c].tool = "status" /\ call[c].try = 1
      BY DEF CallInv, BatchesPast
    <3>4. CASE applied'[c] = applied[c]
      BY <1>7, <3>1, <3>2, <3>3, <3>4
    <3>5. CASE applied'[c] # applied[c]
      <4>1. /\ c = c0 /\ applied'[c] = applied[c] + 1
            /\ Active.job.expected = revision /\ revision' = revision + 1
        BY <1>1, <1>6, <3>5 DEF CallInv, TypeOK
      <4>2. Active = call[c]
        BY <4>1 DEF Active
      <4>3. applied[c] = 0
        BY <1>7, <3>3, <4>1, <4>2
      <4> QED
        BY <1>1, <1>7, <3>1, <3>3, <4>1, <4>2, <4>3
    <3> QED
      BY <3>4, <3>5
  <2> QED
    BY <2>1 DEF BatchesPast
<1> QED
  BY <1>5, <1>9, <1>10, <1>11 DEF CallInv

LEMMA ReloadStep ==
  ASSUME CallInv, Reload
  PROVE  CallInv'
<1>1. /\ ReloadPanel /\ online' = FALSE /\ call' = Disconnected /\ queue' = <<>>
      /\ active' = <<>> /\ UNCHANGED <<applied, changed>>
  BY DEF Reload
<1>2. /\ call' \in [Calls -> CallStates]
      /\ \A c \in Calls :
           \/ call'[c] = call[c]
           \/ /\ SameJob(c) /\ call[c].status = "waiting" /\ call'[c].status = "answered"
              /\ call'[c].reply.code = "offline"
  BY <1>1, DisconnectedCalls DEF CallInv, TypeOK
<1>3. ExportTypeOK' /\ revision' = revision /\ task' = Idle
  BY <1>1, ReloadType DEF CallInv, TypeOK, ReloadPanel
<1>4. queue' \in Seq(Requests) /\ DOMAIN queue' = {}
  BY <1>1
<1>5. TypeOK'
  BY <1>1, <1>2, <1>3, <1>4 DEF CallInv, TypeOK
<1>6. \A r \in Requests : Live(r)' => Live(r)
  BY <1>1, <1>4, RequestTypes DEF Live
<1>7. \A c \in Calls : call'[c].reply.code = "offline" => ~Told(c)'
  BY DEF Told
<1>8. LiveKnown' /\ LiveAdmitted'
  BY <1>2, <1>6, <1>7, CallsMoveOn
<1>9. QueuedOnce'
  BY <1>4 DEF QueuedOnce
<1>10. TaskOwned'
  <2>1. changed' \subseteq Requests
    BY <1>1 DEF CallInv, TypeOK
  <2> QED
    BY <1>1, <1>3, <2>1, IdleType, IdleOwned DEF Idle, Fresh
<1>11. BatchesPast'
  BY <1>1, <1>2, <1>3, JobsKept
<1> QED
  BY <1>5, <1>8, <1>9, <1>10, <1>11 DEF CallInv

LEMMA OutsideStep ==
  ASSUME CallInv, Outside
  PROVE  CallInv'
<1>1. PersonStep /\ UNCHANGED <<call, online, applied, changed, queue, active>>
  BY DEF Outside, callVars, pluginVars
<1>2. ExportTypeOK' /\ revision' = revision
  BY <1>1, PersonStepType DEF CallInv, TypeOK, PersonStep, PersonSaves, PersonSets, PersonAuthorizes
<1>3. task'.stage = task.stage /\ task'.result = task.result
  <2>1. task \in Tasks
    BY DEF CallInv, TypeOK, ExportTypeOK, IsTask
  <2>2. \A k : /\ [task EXCEPT !.guard.values[k] = "former"].stage = task.stage
               /\ [task EXCEPT !.guard.values[k] = "former"].result = task.result
    BY <2>1 DEF Tasks
  <2> QED
    BY <1>1, <2>2 DEF PersonStep, PersonSaves, PersonSets, PersonAuthorizes
<1>4. TypeOK'
  BY <1>1, <1>2 DEF CallInv, TypeOK
<1>5. LiveKnown' /\ LiveAdmitted' /\ QueuedOnce'
  BY <1>1 DEF CallInv, LiveKnown, Live, Known, QueuedOnce, LiveAdmitted, Told, Request
<1>6. TaskOwned' /\ BatchesPast'
  BY <1>1, <1>2, <1>3 DEF CallInv, TaskOwned, BatchesPast, Active
<1> QED
  BY <1>4, <1>5, <1>6 DEF CallInv

-----------------------------------------------------------------------------
(* The invariant and the theorems.                                         *)

LEMMA CallInit == Init => CallInv
<1> SUFFICES ASSUME Init
             PROVE  CallInv
  OBVIOUS
<1> DEFINE k == [tool |-> "status", job |-> NoJob, try |-> 1, status |-> "new", reply |-> NoReply]
<1>1. k \in CallStates
  <2>1. NoReply \in Replies
    BY ReplyTypes, CodeTypes DEF NoReply
  <2> QED
    BY <2>1, NoJobType, TriesFacts DEF CallStates, AllTools
<1>2. /\ ExportTypeOK /\ task = Idle /\ call = [c \in Calls |-> k] /\ online = FALSE
      /\ queue = <<>> /\ active = <<>> /\ applied = [c \in Calls |-> 0] /\ changed = {}
  BY ExportInitType DEF Init, ExportInit
<1>3. /\ k.status = "new" /\ k.tool = "status" /\ k.try = 1
  OBVIOUS
<1> HIDE DEF k
<1>4. DOMAIN queue = {} /\ queue \in Seq(Requests)
  BY <1>2
<1>5. TypeOK
  BY <1>1, <1>2, <1>4 DEF TypeOK
<1>6. \A r \in Requests : ~Live(r)
  BY <1>2, <1>4, RequestTypes DEF Live
<1>7. LiveKnown /\ LiveAdmitted
  BY <1>2, <1>3, <1>6 DEF LiveKnown, LiveAdmitted, Told, Requests
<1>8. QueuedOnce /\ BatchesPast
  BY <1>2, <1>3, <1>4 DEF QueuedOnce, BatchesPast
<1>9. TaskOwned
  BY <1>2, IdleType DEF TaskOwned, Idle, Fresh
<1> QED
  BY <1>5, <1>7, <1>8, <1>9 DEF CallInv

LEMMA CallInvariant == Spec => []CallInv
<1>1. ASSUME CallInv, [Next]_vars
      PROVE  CallInv'
  <2>1. CASE UNCHANGED vars
    <3>1. UNCHANGED <<exportVars, call, online, applied, changed, queue, active>>
      BY <2>1 DEF vars, callVars, pluginVars
    <3>2. TypeOK'
      BY <1>1, <3>1, ServerTypesKept DEF CallInv, TypeOK
    <3> QED
      BY <1>1, <3>1, <3>2 DEF CallInv, LiveKnown, Live, Known, QueuedOnce, TaskOwned, Active,
         BatchesPast, LiveAdmitted, Told, Request, exportVars
  <2> QED
    BY <1>1, <2>1, DecideStep, RefuseStep, SendStep, GivenUpStep, RetryStep, ConnectionStep,
       StartsStep, ExpiresStep, WorksStep, FileTaskEndsStep, StatusEndsStep, CreateEndsStep,
       BatchEndsStep, ReloadStep, OutsideStep DEF Next
<1> QED
  BY <1>1, CallInit, PTL DEF Spec

\* Type correctness of calls, queue and task together.
THEOREM CallTypes == Spec => []TypeOK
<1>1. CallInv => TypeOK
  BY DEF CallInv
<1> QED
  BY <1>1, CallInvariant, PTL

\* However often a tool call is repeated after time-outs, cancellations, lost
\* connections and reloads, its batch changes the document at most once: a later
\* try finds that the revision it names has passed.
THEOREM BatchesApplyOnce == Spec => []BatchAppliedOnce
<1>1. CallInv => BatchAppliedOnce
  BY DEF CallInv, BatchesPast, BatchAppliedOnce
<1> QED
  BY <1>1, CallInvariant, PTL

\* A caller that may retry, or that learns of a time-out or a cancellation, is
\* told that the operation may have been completed when it was, unless he learns
\* of an AbortError of the host.
THEOREM ChangesAreAdmitted == Spec => []AdmitsChanges
<1>1. CallInv => AdmitsChanges
  BY DEF CallInv, LiveAdmitted, Told, Live, AdmitsChanges
<1> QED
  BY <1>1, CallInvariant, PTL

-----------------------------------------------------------------------------
(* A success is written.  OkIsWritten alone is not inductive: another task *)
(* may be about to write at the same path, and an earlier try of the call  *)
(* might still wait.  WrittenInv adds what a task has done to its file     *)
(* (TaskFile), that no task without permission is past the creation of a   *)
(* file that was reported (NoneBeneath), and that a call has no request    *)
(* left in the plugin when it succeeds (TriesInOrder, SucceededLast).      *)

\* The requests of a call are in the plugin in the order of its tries.
TriesInOrder ==
  /\ \A i, j \in DOMAIN queue :
       i < j /\ queue[i][1] = queue[j][1] => queue[i][2] < queue[j][2]
  /\ active # <<>> =>
       \A i \in DOMAIN queue : queue[i][1] = active[1] => active[2] < queue[i][2]

InPlugin(c) ==
  \/ active # <<>> /\ active[1] = c
  \/ \E i \in DOMAIN queue : queue[i][1] = c

Succeeded(c) == WritesFile(c) /\ call[c].status = "answered" /\ call[c].reply.code = "ok"

Overwritten(c) ==
  \E d \in Calls \ {c} : call[d].job.overwrite /\ call[d].job.path = call[c].job.path

SucceededLast == \A c \in Calls : Succeeded(c) => ~InPlugin(c)

\* A task does what its call has asked for.
TaskOfCall ==
  /\ \A c \in Calls :
       /\ call[c].tool \in Formats => call[c].job.format = call[c].tool
       /\ call[c].status = "new" => ~call[c].job.overwrite
  /\ task.stage # "idle" => task.job = Active.job

FileStages == {"folder", "makeFolder", "entry", "create", "write", "read", "size"}

\* From its beginning to its end a task is at the revision that was asked for;
\* from the creation of its file on, its path holds an empty file or the export.
TaskFile ==
  /\ task.stage \in FileStages =>
       task.job.format # "preflight" /\ task.job.expected = revision
  /\ task.stage \in {"adding", "checking", "removing"} => task.job.format = "preflight"
  /\ task.stage \in {"write", "read", "size"} =>
       files[task.job.path] \in {Plain("empty"), Exported(task.job.expected)}
  /\ task.stage = "done" /\ task.result = "ok" /\ task.job.format # "preflight" =>
       files[task.job.path] = Exported(task.job.expected)

\* A task that writes does not do so over a reported file.
NoneBeneath ==
  task.stage \in {"write", "read"} =>
    \A c \in Calls : Succeeded(c) /\ call[c].job.path = task.job.path => Overwritten(c)

SuccessIsWritten ==
  \A c \in Calls :
    Succeeded(c) /\ ~Overwritten(c) => files[call[c].job.path] = Exported(call[c].job.expected)

WrittenInv ==
  /\ TriesInOrder /\ SucceededLast /\ TaskOfCall
  /\ TaskFile /\ NoneBeneath /\ SuccessIsWritten

LEMMA KindFacts ==
  /\ \A n : Exported(n).kind = "exported"
  /\ \A k : Plain(k).kind = k
  /\ \A n, k : Exported(n) = Plain(k) => k = "exported"
<1>1. \A n : Exported(n).kind = "exported"
  BY DEF Exported
<1>2. \A k : Plain(k).kind = k
  BY DEF Plain
<1> QED
  BY <1>1, <1>2

\* Files stay as they are, no call succeeds anew, and the task stays or is over.
LEMMA QuietStep ==
  ASSUME WrittenInv, files' = files,
         UNCHANGED <<task, active, revision>> \/ task'.stage = "idle",
         \A c \in Calls : call'[c].tool = call[c].tool /\ call'[c].job = call[c].job,
         \A c \in Calls : call'[c].status = "new" => call[c].status = "new",
         \A c \in Calls : Succeeded(c)' => Succeeded(c) /\ (InPlugin(c)' => InPlugin(c)),
         active # <<>> => active[1] \in Calls, task.stage # "idle" => active # <<>>,
         TriesInOrder'
  PROVE  WrittenInv'
<1>1. \A c \in Calls : Overwritten(c)' <=> Overwritten(c)
  BY DEF Overwritten
<1>2. SucceededLast'
  BY DEF WrittenInv, SucceededLast
<1>3. TaskOfCall'
  BY DEF WrittenInv, TaskOfCall, Active
<1>4. TaskFile'
  BY DEF WrittenInv, TaskFile, FileStages
<1>5. NoneBeneath'
  BY <1>1 DEF WrittenInv, NoneBeneath
<1>6. SuccessIsWritten'
  BY <1>1 DEF WrittenInv, SuccessIsWritten
<1> QED
  BY <1>2, <1>3, <1>4, <1>5, <1>6 DEF WrittenInv

\* A running task has a request, and a request a call.
LEMMA TaskHasCall ==
  ASSUME CallInv
  PROVE  (active # <<>> => active[1] \in Calls) /\ (task.stage # "idle" => active # <<>>)
  BY ActiveKnown DEF CallInv, TaskOwned

\* A call that is answered by the server, or repeated, has not succeeded.
LEMMA ServerWritten ==
  ASSUME CallInv, WrittenInv, NEW c \in Calls,
         Refuse(c) \/ TimeOut(c) \/ Abort(c) \/ Retry(c)
  PROVE  WrittenInv'
<1>1. /\ call[c].status # "new"
      /\ UNCHANGED <<files, task, active, revision>>
      /\ queue' = queue \/ \E i \in DOMAIN queue : queue' = Without(i)
  BY DEF Refuse, TimeOut, Abort, Retry, GivenUp, exportVars, hostVars, pluginVars
<1>2. /\ \A d \in Calls \ {c} : call'[d] = call[d]
      /\ call'[c].tool = call[c].tool /\ call'[c].job = call[c].job
      /\ call'[c].status # "new" /\ ~Succeeded(c)'
  <2>1. CASE Retry(c)
    <3>1. call[c] \in CallStates
      BY DEF CallInv, TypeOK
    <3>2. LET k == [call[c] EXCEPT !.status = "ready", !.reply = NoReply, !.try = @ + 1]
          IN k.status = "ready" /\ k.tool = call[c].tool /\ k.job = call[c].job
      BY <3>1 DEF CallStates
    <3> QED
      BY <2>1, <3>2 DEF Retry, Succeeded, CallInv, TypeOK
  <2>2. CASE Refuse(c) \/ TimeOut(c) \/ Abort(c)
    <3>1. PICK reply \in Replies :
            call' = Answered(c, reply) /\ (reply.code = "ok" => call[c].tool = "status")
      <4>1. CASE Refuse(c)
        <5>1. /\ Reply("ok", FALSE, FALSE) \in Replies /\ Reply("refused", FALSE, FALSE) \in Replies
              /\ Unready \in Replies /\ Reply("offline", TRUE, FALSE) \in Replies
          BY ReplyTypes, CodeTypes DEF Unready
        <5>2. /\ Reply("refused", FALSE, FALSE).code # "ok" /\ Unready.code # "ok"
              /\ Reply("offline", TRUE, FALSE).code # "ok"
          BY DEF Reply, Unready
        <5> QED
          BY <4>1, <5>1, <5>2 DEF Refuse
      <4>2. CASE TimeOut(c) \/ Abort(c)
        <5>1. /\ Reply("timeout", TRUE, TRUE) \in Replies
              /\ Reply("cancelled", FALSE, TRUE) \in Replies
          BY ReplyTypes, CodeTypes
        <5>2. /\ Reply("timeout", TRUE, TRUE).code # "ok"
              /\ Reply("cancelled", FALSE, TRUE).code # "ok"
          BY DEF Reply
        <5> QED
          BY <4>2, <5>1, <5>2 DEF TimeOut, Abort, GivenUp
      <4> QED
        BY <2>2, <4>1, <4>2
    <3>2. /\ \A d \in Calls \ {c} : call'[d] = call[d]
          /\ call'[c].status = "answered" /\ call'[c].reply = reply
          /\ call'[c].tool = call[c].tool /\ call'[c].job = call[c].job
      BY <3>1, AnsweredCall DEF CallInv, TypeOK
    <3> QED
      BY <3>1, <3>2 DEF Succeeded, WritesFile, Formats
  <2> QED
    BY <2>1, <2>2
<1>3. \A i \in DOMAIN queue' : \E j \in DOMAIN queue : queue'[i] = queue[j]
  BY <1>1, WithoutOne DEF CallInv, TypeOK
<1>4. \A d \in Calls : Succeeded(d)' => Succeeded(d) /\ (InPlugin(d)' => InPlugin(d))
  BY <1>1, <1>2, <1>3 DEF Succeeded, WritesFile, InPlugin
<1>5. TriesInOrder'
  <2>1. CASE queue' = queue
    BY <1>1, <2>1 DEF WrittenInv, TriesInOrder
  <2>2. ASSUME NEW k \in DOMAIN queue, queue' = Without(k)
        PROVE  TriesInOrder'
    <3>1. \A i \in DOMAIN queue' : \E j \in DOMAIN queue :
            queue'[i] = queue[j] /\ j = IF i < k THEN i ELSE i + 1
      BY <2>2, WithoutOne DEF CallInv, TypeOK
    <3>2. DOMAIN queue' \subseteq Nat /\ k \in Nat
      BY <2>2, WithoutOne DEF CallInv, TypeOK
    <3>3. ASSUME NEW i \in DOMAIN queue', NEW j \in DOMAIN queue', i < j,
                 queue'[i][1] = queue'[j][1]
          PROVE  queue'[i][2] < queue'[j][2]
      <4>1. PICK a \in DOMAIN queue : queue'[i] = queue[a] /\ a = IF i < k THEN i ELSE i + 1
        BY <3>1
      <4>2. PICK b \in DOMAIN queue : queue'[j] = queue[b] /\ b = IF j < k THEN j ELSE j + 1
        BY <3>1
      <4>3. a < b
        BY <3>2, <3>3, <4>1, <4>2
      <4> QED
        BY <3>3, <4>1, <4>2, <4>3 DEF WrittenInv, TriesInOrder
    <3>4. active' # <<>> =>
            \A i \in DOMAIN queue' : queue'[i][1] = active'[1] => active'[2] < queue'[i][2]
      BY <1>1, <1>3 DEF WrittenInv, TriesInOrder
    <3> QED
      BY <3>3, <3>4 DEF TriesInOrder
  <2> QED
    BY <1>1, <2>1, <2>2
<1>6. \A d \in Calls : /\ call'[d].tool = call[d].tool /\ call'[d].job = call[d].job
                       /\ call'[d].status = "new" => call[d].status = "new"
  BY <1>2
<1> QED
  BY <1>1, <1>4, <1>5, <1>6, TaskHasCall, QuietStep

LEMMA DecideWritten ==
  ASSUME CallInv, WrittenInv, NEW c \in Calls, Decide(c)
  PROVE  WrittenInv'
<1>1. PICK tool \in Tools, p \in Paths, o \in BOOLEAN :
        call' = [call EXCEPT ![c].status = "ready", ![c].tool = tool,
                    ![c].job = [format |-> IF tool \in Formats THEN tool ELSE "preflight",
                                path |-> p, overwrite |-> o, expected |-> revision]]
  BY DEF Decide
<1> DEFINE job == [format |-> IF tool \in Formats THEN tool ELSE "preflight",
                   path |-> p, overwrite |-> o, expected |-> revision]
           k == [call[c] EXCEPT !.status = "ready", !.tool = tool, !.job = job]
<1>2. /\ call[c].status = "new"
      /\ UNCHANGED <<files, task, revision, queue, active>>
  BY DEF Decide, pluginVars, exportVars, hostVars
<1>3. call[c] \in CallStates
  BY DEF CallInv, TypeOK
<1>4. tool \in Formats => job.format = tool
  OBVIOUS
<1> HIDE DEF job
<1>5. k.status = "ready" /\ k.tool = tool /\ k.job = job
  BY <1>3 DEF CallStates
<1>6. call' = [call EXCEPT ![c] = k]
  BY <1>1 DEF job
<1> HIDE DEF k
<1>7. call'[c] = k /\ \A d \in Calls \ {c} : call'[d] = call[d]
  BY <1>6 DEF CallInv, TypeOK
<1>8. active # <<>> => active[1] \in Calls \ {c}
  <2>1. call[c].try = 1
    BY <1>2 DEF CallInv, BatchesPast
  <2>2. ASSUME active # <<>>
        PROVE  active[1] # c
    <3>1. active \in Requests /\ active[1] \in Calls /\ Known(active)
      BY <2>2, ActiveKnown
    <3> QED
      BY <1>2, <2>1, <3>1 DEF Known, Requests
  <2> QED
    BY <2>2, TaskHasCall
<1>9. ~Succeeded(c)' /\ \A d \in Calls \ {c} : Succeeded(d)' <=> Succeeded(d)
  BY <1>5, <1>7 DEF Succeeded, WritesFile
<1>10. \A d \in Calls : InPlugin(d)' <=> InPlugin(d)
  BY <1>2 DEF InPlugin
<1>11. ASSUME NEW d \in Calls \ {c}, Overwritten(d)
       PROVE  Overwritten(d)'
  <2>1. PICK e \in Calls \ {d} : call[e].job.overwrite /\ call[e].job.path = call[d].job.path
    BY <1>11 DEF Overwritten
  <2>2. e # c
    BY <1>2, <2>1 DEF WrittenInv, TaskOfCall
  <2> QED
    BY <1>7, <2>1, <2>2 DEF Overwritten
<1>12. SucceededLast' /\ TriesInOrder' /\ TaskFile'
  BY <1>2, <1>9, <1>10 DEF WrittenInv, SucceededLast, TriesInOrder, TaskFile
<1>13. TaskOfCall'
  <2>1. \A d \in Calls : /\ call'[d].tool \in Formats => call'[d].job.format = call'[d].tool
                         /\ call'[d].status = "new" => ~call'[d].job.overwrite
    BY <1>4, <1>5, <1>7 DEF WrittenInv, TaskOfCall
  <2>2. task.stage # "idle" => Active' = Active
    BY <1>2, <1>7, <1>8, TaskHasCall DEF Active
  <2> QED
    BY <1>2, <2>1, <2>2 DEF WrittenInv, TaskOfCall
<1>14. NoneBeneath'
  BY <1>2, <1>7, <1>9, <1>11 DEF WrittenInv, NoneBeneath
<1>15. SuccessIsWritten'
  BY <1>2, <1>7, <1>9, <1>11 DEF WrittenInv, SuccessIsWritten
<1> QED
  BY <1>12, <1>13, <1>14, <1>15 DEF WrittenInv

\* A try that is sent is later than all that are in the plugin.
LEMMA SendWritten ==
  ASSUME CallInv, WrittenInv, NEW c \in Calls, Send(c)
  PROVE  WrittenInv'
<1> DEFINE k == [call[c] EXCEPT !.status = "waiting"]
           r == Request(c)
<1>1. /\ call[c].status = "ready" /\ call' = [call EXCEPT ![c].status = "waiting"]
      /\ queue' = Append(queue, r) \/ UNCHANGED queue
      /\ UNCHANGED <<files, task, active, revision>>
  BY DEF Send, exportVars, hostVars
<1>2. call[c] \in CallStates
  BY DEF CallInv, TypeOK
<1>3. k.status = "waiting" /\ k.tool = call[c].tool /\ k.job = call[c].job
  BY <1>2 DEF CallStates
<1>4. call' = [call EXCEPT ![c] = k]
  BY <1>1
<1> HIDE DEF k
<1>5. call'[c] = k /\ \A d \in Calls \ {c} : call'[d] = call[d]
  BY <1>4 DEF CallInv, TypeOK
<1>6. r \in Requests /\ r[1] = c /\ r[2] = call[c].try
  BY <1>2, CallFields, RequestTypes DEF Request
<1> HIDE DEF r
<1>7. queue \in Seq(Requests)
  BY DEF CallInv, TypeOK
<1>8. \A i \in DOMAIN queue' :
        \/ i \in DOMAIN queue /\ queue'[i] = queue[i]
        \/ i = Len(queue) + 1 /\ queue'[i] = r
  BY <1>1, <1>6, <1>7, SMTT(30)
<1>9. ~Succeeded(c)' /\ \A d \in Calls \ {c} : Succeeded(d)' <=> Succeeded(d)
  BY <1>3, <1>5 DEF Succeeded, WritesFile
<1>10. \A d \in Calls \ {c} : InPlugin(d)' => InPlugin(d)
  BY <1>1, <1>6, <1>8 DEF InPlugin
<1>11. ASSUME NEW q \in Requests, Known(q), q[1] = c
       PROVE  q[2] < r[2]
  BY <1>1, <1>6, <1>11 DEF Known
<1>12. TriesInOrder'
  <2>1. ASSUME NEW i \in DOMAIN queue', NEW j \in DOMAIN queue', i < j,
               queue'[i][1] = queue'[j][1]
        PROVE  queue'[i][2] < queue'[j][2]
    <3>1. CASE i \in DOMAIN queue /\ j \in DOMAIN queue /\ queue'[i] = queue[i] /\ queue'[j] = queue[j]
      BY <2>1, <3>1 DEF WrittenInv, TriesInOrder
    <3>2. CASE i \in DOMAIN queue /\ queue'[i] = queue[i] /\ queue'[j] = r
      BY <1>6, <1>11, <2>1, <3>2, QueuedTypes
    <3>3. DOMAIN queue = 1..Len(queue) /\ Len(queue) \in Nat
      BY <1>7
    <3> QED
      BY <1>8, <2>1, <3>1, <3>2, <3>3
  <2>2. ASSUME active # <<>>, NEW i \in DOMAIN queue', queue'[i][1] = active[1]
        PROVE  active[2] < queue'[i][2]
    <3>1. CASE i \in DOMAIN queue /\ queue'[i] = queue[i]
      BY <2>2, <3>1 DEF WrittenInv, TriesInOrder
    <3>2. CASE queue'[i] = r
      BY <1>6, <1>11, <2>2, <3>2, ActiveKnown
    <3> QED
      BY <1>8, <3>1, <3>2
  <2> QED
    BY <1>1, <2>1, <2>2 DEF TriesInOrder
<1>13. \A d \in Calls : /\ call'[d].tool = call[d].tool /\ call'[d].job = call[d].job
                        /\ call'[d].status = "new" => call[d].status = "new"
  BY <1>3, <1>5
<1>14. \A d \in Calls : Succeeded(d)' => Succeeded(d) /\ (InPlugin(d)' => InPlugin(d))
  BY <1>9, <1>10
<1> QED
  BY <1>1, <1>12, <1>13, <1>14, TaskHasCall, QuietStep

LEMMA ConnectionWritten ==
  ASSUME CallInv, WrittenInv, Disconnect \/ Connect \/ Reload
  PROVE  WrittenInv'
<1>1. call' = Disconnected \/ call' = call
  BY DEF Disconnect, Connect, Reload
<1>2. /\ \A c \in Calls : call'[c].tool = call[c].tool /\ call'[c].job = call[c].job
      /\ \A c \in Calls : call'[c].status = "new" => call[c].status = "new"
      /\ \A c \in Calls : Succeeded(c)' => Succeeded(c)
  BY <1>1, DisconnectedCalls DEF CallInv, SameJob, Succeeded, WritesFile
<1>3. CASE Disconnect \/ Connect
  <2>1. UNCHANGED <<files, task, active, revision, queue>>
    BY <1>3 DEF Disconnect, Connect, exportVars, hostVars, pluginVars
  <2>2. TriesInOrder' /\ \A c \in Calls : InPlugin(c)' <=> InPlugin(c)
    BY <2>1 DEF WrittenInv, TriesInOrder, InPlugin
  <2> QED
    BY <1>2, <2>1, <2>2, TaskHasCall, QuietStep
<1>4. CASE Reload
  <2>1. files' = files /\ task'.stage = "idle" /\ active' = <<>> /\ DOMAIN queue' = {}
    BY <1>4, IdleType DEF Reload, ReloadPanel, Idle, Fresh
  <2>2. TriesInOrder' /\ \A c \in Calls : ~InPlugin(c)'
    BY <2>1 DEF TriesInOrder, InPlugin
  <2> QED
    BY <1>2, <2>1, <2>2, TaskHasCall, QuietStep
<1> QED
  BY <1>3, <1>4

\* A task that begins has done nothing yet.
LEMMA BeginFile ==
  ASSUME NEW job \in Jobs, BeginTask(job)
  PROVE  /\ task'.job = job /\ TaskFile' /\ NoneBeneath'
         /\ UNCHANGED <<files, revision>>
<1>1. Fresh(job) \in Tasks /\ Fresh(job).job = job
  BY FreshType DEF Fresh
<1>2. UNCHANGED <<files, revision>>
  BY DEF BeginTask, hostVars
<1>3. CASE \E result \in {"refused", "unready", "stale"} :
             task' = [Fresh(job) EXCEPT !.stage = "done", !.result = result]
  <2>1. task'.job = job /\ task'.stage = "done" /\ task'.result # "ok"
    BY <1>1, <1>3 DEF Tasks
  <2> QED
    BY <1>2, <2>1 DEF TaskFile, NoneBeneath, FileStages
<1>4. CASE job.format = "preflight" /\ task' = [Fresh(job) EXCEPT !.stage = "adding"]
  <2>1. task'.job = job /\ task'.stage = "adding"
    BY <1>1, <1>4 DEF Tasks
  <2> QED
    BY <1>2, <1>4, <2>1 DEF TaskFile, NoneBeneath, FileStages
<1>5. CASE /\ job.format # "preflight" /\ AtRevision(job.expected)
           /\ task' = [Fresh(job) EXCEPT !.stage = "folder", !.guard = GuardBefore(job.format)]
  <2>1. task'.job = job /\ task'.stage = "folder"
    BY <1>1, <1>5 DEF Tasks
  <2> QED
    BY <1>2, <1>5, <2>1 DEF TaskFile, NoneBeneath, FileStages, AtRevision
<1> QED
  BY <1>3, <1>4, <1>5 DEF BeginTask

\* What the first request of the queue leaves behind when it goes.
LEMMA TailInOrder ==
  ASSUME CallInv, WrittenInv, queue # <<>>, queue' = Tail(queue)
  PROVE  /\ Head(queue)[1] \in Calls /\ InPlugin(Head(queue)[1])
         /\ \A i \in DOMAIN queue' : \E j \in DOMAIN queue : queue'[i] = queue[j]
         /\ \A i, j \in DOMAIN queue' :
              i < j /\ queue'[i][1] = queue'[j][1] => queue'[i][2] < queue'[j][2]
         /\ \A i \in DOMAIN queue' :
              queue'[i][1] = Head(queue)[1] => Head(queue)[2] < queue'[i][2]
<1>1. queue \in Seq(Requests)
  BY DEF CallInv, TypeOK
<1>2. /\ 1 \in DOMAIN queue /\ Head(queue) = queue[1]
      /\ \A i \in DOMAIN queue' : i \in Nat /\ i + 1 \in DOMAIN queue /\ 1 < i + 1
                                  /\ queue'[i] = queue[i + 1]
  BY <1>1
<1>3. Head(queue)[1] \in Calls
  BY <1>2, QueuedTypes, RequestTypes
<1>4. InPlugin(Head(queue)[1])
  BY <1>2 DEF InPlugin
<1>5. ASSUME NEW i \in DOMAIN queue', NEW j \in DOMAIN queue', i < j,
             queue'[i][1] = queue'[j][1]
      PROVE  queue'[i][2] < queue'[j][2]
  <2>1. i + 1 < j + 1
    BY <1>2, <1>5
  <2> QED
    BY <1>2, <1>5, <2>1 DEF WrittenInv, TriesInOrder
<1>6. \A i \in DOMAIN queue' :
        queue'[i][1] = Head(queue)[1] => Head(queue)[2] < queue'[i][2]
  BY <1>2 DEF WrittenInv, TriesInOrder
<1> QED
  BY <1>2, <1>3, <1>4, <1>5, <1>6

LEMMA StartsWritten ==
  ASSUME CallInv, WrittenInv, Starts
  PROVE  WrittenInv'
<1>0. PICK h : h = Head(queue)
  OBVIOUS
<1>1. /\ active = <<>> /\ queue # <<>> /\ queue' = Tail(queue) /\ active' = h
      /\ UNCHANGED call
  BY <1>0 DEF Starts
<1>2. /\ h[1] \in Calls /\ InPlugin(h[1])
      /\ \A i \in DOMAIN queue' : \E j \in DOMAIN queue : queue'[i] = queue[j]
      /\ \A i, j \in DOMAIN queue' :
           i < j /\ queue'[i][1] = queue'[j][1] => queue'[i][2] < queue'[j][2]
      /\ \A i \in DOMAIN queue' : queue'[i][1] = h[1] => h[2] < queue'[i][2]
  BY <1>0, <1>1, TailInOrder
<1>3. TriesInOrder'
  BY <1>1, <1>2 DEF TriesInOrder
<1>4. \A c \in Calls : InPlugin(c)' => InPlugin(c)
  BY <1>1, <1>2 DEF InPlugin
<1>5. \A c \in Calls : (Succeeded(c)' <=> Succeeded(c)) /\ (Overwritten(c)' <=> Overwritten(c))
  BY <1>1 DEF Succeeded, WritesFile, Overwritten
<1>6. CASE call[h[1]].tool \in Formats /\ BeginTask(call[h[1]].job)
  <2>1. call[h[1]].job \in Jobs
    BY <1>2, CallFields DEF CallInv, TypeOK
  <2>2. /\ task'.job = call[h[1]].job /\ TaskFile' /\ NoneBeneath'
        /\ UNCHANGED <<files, revision>>
    BY <1>6, <2>1, BeginFile
  <2>3. TaskOfCall'
    BY <1>1, <2>2 DEF WrittenInv, TaskOfCall, Active
  <2>4. SucceededLast'
    BY <1>4, <1>5 DEF WrittenInv, SucceededLast
  <2>5. SuccessIsWritten'
    BY <1>1, <1>5, <2>2 DEF WrittenInv, SuccessIsWritten
  <2> QED
    BY <1>3, <2>2, <2>3, <2>4, <2>5 DEF WrittenInv
<1>7. CASE call[h[1]].tool \notin Formats /\ UNCHANGED exportVars
  <2>1. files' = files /\ task'.stage = "idle"
    BY <1>1, <1>7 DEF exportVars, hostVars, CallInv, TaskOwned
  <2> QED
    BY <1>1, <1>3, <1>4, <1>5, <2>1, TaskHasCall, QuietStep
<1> QED
  BY <1>0, <1>6, <1>7 DEF Starts

\* A call succeeds only by an answer to its present try which says so.
LEMMA AnswersSucceed ==
  ASSUME CallInv, NEW r \in Requests, NEW reply \in Replies, Answers(r, reply)
  PROVE  \A c \in Calls :
           /\ call'[c].tool = call[c].tool /\ call'[c].job = call[c].job
           /\ call'[c].status = "new" => call[c].status = "new"
           /\ Succeeded(c)' => Succeeded(c) \/ (r = Request(c) /\ reply.code = "ok" /\ WritesFile(c))
<1>1. Reply("unsafe", FALSE, FALSE).code # "ok"
  BY DEF Reply
<1> QED
  BY <1>1 DEF Answers, SameJob, Succeeded, WritesFile

LEMMA ExpiresWritten ==
  ASSUME CallInv, WrittenInv, Expires
  PROVE  WrittenInv'
<1> DEFINE reply == Reply("timeout", TRUE, FALSE)
<1>0. PICK h : h = Head(queue)
  OBVIOUS
<1>1. /\ active = <<>> /\ queue # <<>> /\ queue' = Tail(queue) /\ Responds(h, reply)
      /\ UNCHANGED <<files, task, revision, active>>
  BY <1>0 DEF Expires, exportVars, hostVars
<1>2. h \in Requests
  BY <1>0, <1>1, TailFacts
<1>3. reply \in Replies /\ reply.code # "ok"
  BY ReplyTypes, CodeTypes DEF Reply
<1> HIDE DEF reply
<1>4. Answers(h, reply)
  BY <1>1, <1>2, <1>3, RespondsAnswers DEF CallInv
<1>5. /\ \A i \in DOMAIN queue' : \E j \in DOMAIN queue : queue'[i] = queue[j]
      /\ TriesInOrder'
  BY <1>0, <1>1, TailInOrder DEF TriesInOrder
<1>6. \A c \in Calls : InPlugin(c)' => InPlugin(c)
  BY <1>1, <1>5 DEF InPlugin
<1> QED
  BY <1>1, <1>2, <1>3, <1>4, <1>5, <1>6, AnswersSucceed, TaskHasCall, QuietStep

\* What the end of a task does to the calls.
LEMMA EndedSucceeds ==
  ASSUME CallInv, WrittenInv, active # <<>>, NEW reply \in Replies, Ended(reply)
  PROVE  /\ \A c \in Calls :
              /\ call'[c].tool = call[c].tool /\ call'[c].job = call[c].job
              /\ call'[c].status = "new" => call[c].status = "new"
              /\ Succeeded(c)' =>
                   \/ Succeeded(c)
                   \/ active = Request(c) /\ reply.code = "ok" /\ WritesFile(c)
              /\ InPlugin(c)' => InPlugin(c)
         /\ active' = <<>> /\ queue' = queue /\ TriesInOrder'
<1>0. PICK r : r = active
  OBVIOUS
<1>1. PICK late \in BOOLEAN : Responds(r, Settled(reply, late))
  BY <1>0 DEF Ended
<1>2. r \in Requests /\ active' = <<>> /\ queue' = queue
  BY <1>0, ActiveKnown DEF Ended
<1> DEFINE answer == Settled(reply, late)
<1>3. answer \in Replies /\ (answer.code = "ok" => reply.code = "ok")
  BY ReplyTypes, CodeTypes DEF Settled
<1> HIDE DEF answer
<1>4. Answers(r, answer)
  BY <1>1, <1>2, <1>3, RespondsAnswers DEF CallInv, answer
<1>5. TriesInOrder' /\ \A c \in Calls : InPlugin(c)' => InPlugin(c)
  BY <1>2 DEF WrittenInv, TriesInOrder, InPlugin
<1> QED
  BY <1>0, <1>2, <1>3, <1>4, <1>5, AnswersSucceed

\* Tools that write no file.
LEMMA OthersEndWritten ==
  ASSUME CallInv, WrittenInv, StatusEnds \/ CreateEnds \/ BatchEnds
  PROVE  WrittenInv'
<1>1. active # <<>> /\ Active.tool \in {"status", "create", "apply"} /\ UNCHANGED <<files, task>>
  BY DEF StatusEnds, CreateEnds, BatchEnds, exportVars, hostVars
<1>2. task'.stage = "idle" /\ Active.tool \notin Formats
  BY <1>1, NoTask
<1>3. PICK reply \in Replies : Ended(reply)
  <2>1. \A code \in {"ok", "partial"} : Reply(code, FALSE, code = "partial") \in Replies
    BY ReplyTypes, CodeTypes
  <2>2. Reply("ok", FALSE, FALSE) \in Replies /\ Reply("stale", FALSE, FALSE) \in Replies
    BY ReplyTypes, CodeTypes
  <2>3. HostErrors \cup {Unready} \subseteq Replies /\ Applied \subseteq Replies
    BY AppliedFacts, HostErrorFacts DEF HostErrors
  <2> QED
    BY <2>1, <2>2, <2>3 DEF StatusEnds, CreateEnds, BatchEnds
<1>4. \A c \in Calls : active = Request(c) => ~WritesFile(c)
  BY <1>2 DEF Active, Request, WritesFile
<1> QED
  BY <1>1, <1>2, <1>3, <1>4, EndedSucceeds, TaskHasCall, QuietStep

LEMMA FileTaskEndsWritten ==
  ASSUME CallInv, WrittenInv, FileTaskEnds
  PROVE  WrittenInv'
<1> DEFINE own == Reply(task.result, task.result = "unready", FALSE)
<1>1. /\ active # <<>> /\ task.stage = "done" /\ task' = Idle
      /\ UNCHANGED <<files, revision>>
  BY DEF FileTaskEnds, hostVars
<1>2. task.result \in Results /\ (task.result = "unready") \in BOOLEAN
  BY DEF CallInv, TypeOK, ExportTypeOK, IsTask, Tasks
<1>12. own \in Replies /\ own.code = task.result
  BY <1>2, ReplyTypes, CodeTypes DEF Reply
<1>13. Ended(own) \/ Ended(Aborted)
  BY DEF FileTaskEnds
<1> HIDE DEF own
<1>14. PICK reply \in {own, Aborted} : Ended(reply)
  BY <1>13
<1>3. reply \in Replies /\ (reply.code = "ok" => task.result = "ok")
  BY <1>12, <1>14, HostErrorFacts
<1>4. /\ \A c \in Calls :
           /\ call'[c].tool = call[c].tool /\ call'[c].job = call[c].job
           /\ call'[c].status = "new" => call[c].status = "new"
           /\ Succeeded(c)' =>
                \/ Succeeded(c)
                \/ active = Request(c) /\ reply.code = "ok" /\ WritesFile(c)
           /\ InPlugin(c)' => InPlugin(c)
      /\ active' = <<>> /\ queue' = queue /\ TriesInOrder'
  BY <1>1, <1>3, <1>14, EndedSucceeds
<1>5. task'.stage = "idle"
  BY <1>1, IdleType DEF Idle, Fresh
<1>6. TaskOfCall' /\ TaskFile' /\ NoneBeneath'
  BY <1>4, <1>5 DEF WrittenInv, TaskOfCall, TaskFile, FileStages, NoneBeneath
<1>7. ASSUME NEW c \in Calls, active = Request(c)
      PROVE  ~InPlugin(c)'
  <2>1. active[1] = c /\ active[2] = call[c].try /\ call[c].try \in Nat
    BY <1>7, CallFields DEF Request, CallInv, TypeOK
  <2>2. ASSUME NEW i \in DOMAIN queue, queue[i][1] = c
        PROVE  FALSE
    <3>1. active[2] < queue[i][2]
      BY <1>1, <2>1, <2>2 DEF WrittenInv, TriesInOrder
    <3>2. queue[i] \in Requests /\ Known(queue[i]) /\ queue[i][2] \in Nat
      BY <2>2, QueuedTypes, RequestTypes
    <3>3. queue[i][2] <= call[c].try
      BY <2>1, <2>2, <3>2 DEF Known
    <3> QED
      BY <2>1, <3>1, <3>2, <3>3
  <2> QED
    BY <1>4, <2>2 DEF InPlugin
<1>8. SucceededLast'
  BY <1>4, <1>7 DEF WrittenInv, SucceededLast
<1>9. \A c \in Calls : Overwritten(c)' <=> Overwritten(c)
  BY <1>4 DEF Overwritten
<1>10. ASSUME NEW c \in Calls, active = Request(c), task.result = "ok", WritesFile(c)
       PROVE  files[call[c].job.path] = Exported(call[c].job.expected)
  <2>1. task.job = call[c].job /\ call[c].job.format # "preflight"
    BY <1>1, <1>10 DEF WrittenInv, TaskOfCall, Active, Request, WritesFile
  <2> QED
    BY <1>1, <1>10, <2>1 DEF WrittenInv, TaskFile
<1>11. SuccessIsWritten'
  BY <1>1, <1>3, <1>4, <1>9, <1>10 DEF WrittenInv, SuccessIsWritten
<1> QED
  BY <1>4, <1>6, <1>8, <1>11 DEF WrittenInv

-----------------------------------------------------------------------------
(* What the steps of a task do to its file.                                *)

\* The files change at the path of the task only: at the creation of its file,
\* which finds none there unless it may overwrite, and while the host writes.
WritesAtPath ==
  /\ \A p \in Paths : files'[p] # files[p] => p = task.job.path
  /\ files' # files => task.stage \in {"create", "write"}
  /\ task.stage = "create" /\ (files' # files \/ task'.stage \in {"write", "read"})
       => Creates(files[task.job.path].kind)
  /\ task'.stage \in {"write", "read"} => task.stage \in {"create", "write", "read"}

\* A restoration is followed by the reading of the size, or by the end.
LEMMA RestoresLeads ==
  ASSUME ExportTypeOK, NEW result \in {"ok", "failed"}, Restores(result)
  PROVE  /\ task'.job = task.job
         /\ \/ task'.stage = "size" /\ result = "ok"
            \/ task'.stage = "done" /\ task'.result # "ok"
<1>1. task \in Tasks
  BY DEF ExportTypeOK, IsTask
<1>2. PICK end \in {"ok", "failed"} : Leaves(end) /\ (result = "failed" => end = "failed")
  BY DEF Restores
<1> QED
  BY <1>1, <1>2 DEF Leaves, Tasks

LEMMA StepsAtFile ==
  ASSUME ExportTypeOK, TaskFile, TaskStep
  PROVE  TaskFile' /\ WritesAtPath /\ task'.job = task.job /\ task'.stage # "idle"
<1> DEFINE p == task.job.path
           at == task.job.expected
<1>1. task \in Tasks /\ p \in Paths /\ files \in [Paths -> Contents]
  BY TaskTypes DEF ExportTypeOK, IsTask, Tasks, Jobs
<1>2. ASSUME NEW stage, GoesOn(stage)
      PROVE  task'.job = task.job /\ task'.stage = stage /\ task'.result = task.result
  BY <1>1, <1>2 DEF GoesOn, Tasks
<1>3. ASSUME NEW result, Ends(result)
      PROVE  task'.job = task.job /\ task'.stage = "done" /\ task'.result = result
  BY <1>1, <1>3 DEF Ends, Tasks
<1>4. ASSUME NEW content, files' = [files EXCEPT ![p] = content]
      PROVE  /\ files'[p] = content /\ \A q \in Paths : files'[q] # files[q] => q = p
  BY <1>1, <1>4
<1>5. CASE FolderFound \/ FolderMade \/ EntryFound \/ CreateFails
  <2>1. UNCHANGED <<files, revision>> /\ task.stage \in {"folder", "makeFolder", "entry", "create"}
    BY <1>5 DEF FolderFound, FolderMade, EntryFound, CreateFails, hostVars
  <2>2. /\ task'.job = task.job
        /\ \/ task'.stage \in {"makeFolder", "entry", "create"}
           \/ task'.stage = "done" /\ task'.result # "ok"
    BY <1>2, <1>3, <1>5 DEF FolderFound, FolderMade, EntryFound, CreateFails
  <2> QED
    BY <2>1, <2>2 DEF TaskFile, FileStages, WritesAtPath
<1>6. CASE FileCreated
  <2>1. /\ task.stage = "create" /\ Creates(files[p].kind) /\ revision' = revision
        /\ files' = [files EXCEPT ![p] = Plain("empty")]
    BY <1>6 DEF FileCreated
  <2>2. task'.job = task.job /\ task'.stage = "write"
    <3>1. CASE GoesOn("write")
      BY <1>2, <3>1
    <3>2. CASE task' = [task EXCEPT !.stage = "write",
                                    !.guard = IF task.guard.held THEN task.guard
                                              ELSE [held |-> TRUE, values |-> settings]]
      BY <1>1, <3>2 DEF Tasks
    <3> QED
      BY <1>6, <3>1, <3>2 DEF FileCreated
  <2> HIDE DEF p
  <2>3. TaskFile'
    BY <1>4, <2>1, <2>2 DEF TaskFile, FileStages, p
  <2>4. WritesAtPath
    BY <1>4, <2>1, <2>2 DEF WritesAtPath, p
  <2> QED
    BY <2>2, <2>3, <2>4
<1>7. CASE SettingFails
  <2>1. /\ task.stage = "create" /\ Creates(files[p].kind) /\ revision' = revision
        /\ files' = [files EXCEPT ![p] = Plain("empty")]
    BY <1>7 DEF SettingFails
  <2>2. task'.job = task.job /\ task'.stage = "done" /\ task'.result = "failed"
    BY <1>3, <1>7 DEF SettingFails
  <2> QED
    BY <1>4, <2>1, <2>2 DEF TaskFile, FileStages, WritesAtPath
<1>8. CASE WriteSucceeds
  <2>1. /\ task.stage = "write" /\ revision' = revision
        /\ files' = files \/ files' = [files EXCEPT ![p] = Exported(revision)]
    BY <1>8 DEF WriteSucceeds, Writes
  <2>2. /\ task'.job = task.job
        /\ task'.stage \in {"read", "size"} \/ (task'.stage = "done" /\ task'.result # "ok")
    BY <1>2, <1>8, RestoresLeads DEF WriteSucceeds
  <2>3. revision = at /\ files[p] \in {Plain("empty"), Exported(at)} /\ task.job.format # "preflight"
    BY <2>1 DEF TaskFile, FileStages
  <2>4. files'[p] \in {Plain("empty"), Exported(at)} /\ \A q \in Paths : files'[q] # files[q] => q = p
    BY <1>4, <2>1, <2>3
  <2> QED
    BY <2>1, <2>2, <2>3, <2>4 DEF TaskFile, FileStages, WritesAtPath
<1>9. CASE WriteFails
  <2>1. /\ task.stage = "write" /\ revision' = revision
        /\ files' = files \/ files' = [files EXCEPT ![p] = Plain("broken")]
    BY <1>9 DEF WriteFails, Writes
  <2>2. task'.job = task.job /\ task'.stage = "done" /\ task'.result # "ok"
    BY <1>9, RestoresLeads DEF WriteFails
  <2>3. \A q \in Paths : files'[q] # files[q] => q = p
    BY <1>4, <2>1
  <2> QED
    BY <2>1, <2>2, <2>3 DEF TaskFile, FileStages, WritesAtPath
<1>10. CASE EntryRejected \/ PreviewFits \/ PreviewTooLarge \/ PreviewUnreadable
  <2>1. UNCHANGED <<files, revision>> /\ task.stage \in {"write", "read"}
    BY <1>10 DEF EntryRejected, PreviewFits, PreviewTooLarge, PreviewUnreadable, hostVars
  <2>2. /\ task'.job = task.job
        /\ task'.stage \in {"write", "size"} \/ (task'.stage = "done" /\ task'.result # "ok")
    <3>1. CASE EntryRejected
      BY <1>1, <3>1 DEF EntryRejected, Tasks
    <3>2. CASE task' = [task EXCEPT !.stage = "write", !.attempt = @ + 1, !.native = FALSE]
      BY <1>1, <3>2 DEF Tasks
    <3> QED
      BY <1>10, <3>1, <3>2, RestoresLeads DEF PreviewFits, PreviewTooLarge, PreviewUnreadable
  <2> QED
    BY <2>1, <2>2 DEF TaskFile, FileStages, WritesAtPath
<1>11. CASE SizeRead
  <2>1. UNCHANGED <<files, revision>> /\ task.stage = "size"
    BY <1>11 DEF SizeRead, hostVars
  <2>2. /\ task'.job = task.job /\ task'.stage = "done"
        /\ task'.result = "ok" => NonEmpty(files[p])
    BY <1>3, <1>11 DEF SizeRead
  <2>3. files[p] \in {Plain("empty"), Exported(at)}
    BY <2>1 DEF TaskFile
  <2>4. task'.result = "ok" => files[p] = Exported(at)
    BY <2>2, <2>3 DEF NonEmpty, Plain
  <2> QED
    BY <2>1, <2>2, <2>4 DEF TaskFile, FileStages, WritesAtPath
<1>12. CASE ProcessAdded \/ ProcessEnds \/ ProcessRemoved
  <2>1. /\ UNCHANGED <<files, revision>>
        /\ task.stage \in {"adding", "checking", "removing"} /\ task.job.format = "preflight"
    BY <1>12 DEF ProcessAdded, ProcessEnds, ProcessRemoved, hostVars, TaskFile
  <2>2. task'.job = task.job /\ task'.stage \in {"checking", "removing", "done"}
    <3>1. CASE ProcessEnds
      BY <1>1, <3>1 DEF ProcessEnds, Tasks
    <3> QED
      BY <1>2, <1>3, <1>12, <3>1 DEF ProcessAdded, ProcessRemoved
  <2> QED
    BY <2>1, <2>2 DEF TaskFile, FileStages, WritesAtPath
<1> QED
  BY <1>5, <1>6, <1>7, <1>8, <1>9, <1>10, <1>11, <1>12 DEF TaskStep

LEMMA WorksWritten ==
  ASSUME CallInv, WrittenInv, Works
  PROVE  WrittenInv'
<1>1. active # <<>> /\ TaskStep /\ UNCHANGED <<call, queue, active>>
  BY DEF Works, pluginVars
<1>2. TaskFile' /\ WritesAtPath /\ task'.job = task.job
  BY <1>1, StepsAtFile DEF CallInv, TypeOK, WrittenInv
<1>3. task.stage # "idle" /\ task.job = Active.job
  BY <1>1, TaskStepResult DEF CallInv, TypeOK, WrittenInv, TaskOfCall
<1>4. \A c \in Calls : /\ Succeeded(c)' <=> Succeeded(c)
                       /\ Overwritten(c)' <=> Overwritten(c)
                       /\ InPlugin(c)' <=> InPlugin(c)
  BY <1>1 DEF Succeeded, WritesFile, Overwritten, InPlugin
<1>5. ASSUME NEW c \in Calls, Succeeded(c), ~Overwritten(c), call[c].job.path = task.job.path,
             task.stage \in {"create", "write"}
      PROVE  task.stage = "create" /\ ~Creates(files[task.job.path].kind)
  <2>1. active[1] # c /\ active[1] \in Calls
    BY <1>1, <1>5, TaskHasCall DEF WrittenInv, SucceededLast, InPlugin
  <2>2. ~task.job.overwrite
    BY <1>3, <1>5, <2>1 DEF Overwritten, Active
  <2>3. files[task.job.path].kind = "exported"
    BY <1>5, KindFacts DEF WrittenInv, SuccessIsWritten
  <2>4. task.stage # "write"
    BY <1>5 DEF WrittenInv, NoneBeneath
  <2> QED
    BY <1>5, <2>2, <2>3, <2>4 DEF Creates
<1>6. TriesInOrder' /\ SucceededLast'
  BY <1>1, <1>4 DEF WrittenInv, TriesInOrder, SucceededLast
<1>7. TaskOfCall'
  BY <1>1, <1>2, <1>3 DEF WrittenInv, TaskOfCall, Active
<1>8. NoneBeneath'
  <2>1. ASSUME task'.stage \in {"write", "read"}, NEW c \in Calls, Succeeded(c),
               call[c].job.path = task.job.path
        PROVE  Overwritten(c)
    <3>1. CASE task.stage \in {"write", "read"}
      BY <2>1, <3>1 DEF WrittenInv, NoneBeneath
    <3>2. CASE task.stage = "create"
      BY <1>2, <1>5, <2>1, <3>2 DEF WritesAtPath
    <3> QED
      BY <1>2, <2>1, <3>1, <3>2 DEF WritesAtPath
  <2> QED
    BY <1>1, <1>2, <1>4, <2>1 DEF NoneBeneath
<1>9. SuccessIsWritten'
  <2>1. ASSUME NEW c \in Calls, Succeeded(c), ~Overwritten(c)
        PROVE  files'[call[c].job.path] = files[call[c].job.path]
    <3>1. call[c].job.path \in Paths
      BY CallFields DEF CallInv, TypeOK, Jobs
    <3> QED
      BY <1>2, <1>5, <2>1, <3>1 DEF WritesAtPath
  <2> QED
    BY <1>1, <1>4, <2>1 DEF WrittenInv, SuccessIsWritten
<1> QED
  BY <1>2, <1>6, <1>7, <1>8, <1>9 DEF WrittenInv

\* People save files where there are none.
LEMMA OutsideWritten ==
  ASSUME CallInv, WrittenInv, Outside
  PROVE  WrittenInv'
<1>1. PersonStep /\ UNCHANGED <<call, queue, active>>
  BY DEF Outside, callVars, pluginVars
<1>2. /\ revision' = revision
      /\ task'.stage = task.stage /\ task'.job = task.job /\ task'.result = task.result
  <2>1. task \in Tasks
    BY DEF CallInv, TypeOK, ExportTypeOK, IsTask
  <2>2. \A k : LET t == [task EXCEPT !.guard.values[k] = "former"]
               IN t.stage = task.stage /\ t.job = task.job /\ t.result = task.result
    BY <2>1 DEF Tasks
  <2> QED
    BY <1>1, <2>2 DEF PersonStep, PersonSaves, PersonSets, PersonAuthorizes, hostVars
<1>3. \A p \in Paths : files'[p] = files[p] \/ files[p].kind = "absent"
  BY <1>1 DEF PersonStep, PersonSaves, PersonSets, PersonAuthorizes, hostVars,
     CallInv, TypeOK, ExportTypeOK
<1>4. \A c \in Calls : /\ Succeeded(c)' <=> Succeeded(c)
                       /\ Overwritten(c)' <=> Overwritten(c)
                       /\ InPlugin(c)' <=> InPlugin(c)
                       /\ call[c].job.path \in Paths
  BY <1>1, CallFields DEF Succeeded, WritesFile, Overwritten, InPlugin, CallInv, TypeOK, Jobs
<1>5. task.job.path \in Paths
  BY TaskTypes DEF CallInv, TypeOK, ExportTypeOK, IsTask, Tasks, Jobs
<1>6. TaskFile'
  <2>1. task.stage \in {"write", "read", "size"} => files'[task.job.path] = files[task.job.path]
    BY <1>3, <1>5, KindFacts DEF WrittenInv, TaskFile
  <2>2. task.stage = "done" /\ task.result = "ok" /\ task.job.format # "preflight" =>
          files'[task.job.path] = files[task.job.path]
    BY <1>3, <1>5, KindFacts DEF WrittenInv, TaskFile
  <2> QED
    BY <1>2, <2>1, <2>2 DEF WrittenInv, TaskFile
<1>7. TriesInOrder' /\ SucceededLast' /\ TaskOfCall' /\ NoneBeneath'
  BY <1>1, <1>2, <1>4 DEF WrittenInv, TriesInOrder, SucceededLast, TaskOfCall, Active, NoneBeneath
<1>8. SuccessIsWritten'
  BY <1>1, <1>3, <1>4, KindFacts DEF WrittenInv, SuccessIsWritten
<1> QED
  BY <1>6, <1>7, <1>8 DEF WrittenInv

LEMMA WrittenInit == Init => WrittenInv
<1> SUFFICES ASSUME Init
             PROVE  WrittenInv
  OBVIOUS
<1>1. /\ task = Idle /\ queue = <<>> /\ active = <<>>
      /\ \A c \in Calls : call[c].tool = "status" /\ call[c].status = "new" /\ call[c].job = NoJob
  BY DEF Init, ExportInit
<1>2. task.stage = "idle" /\ ~NoJob.overwrite /\ DOMAIN queue = {}
  BY <1>1, IdleType DEF Idle, Fresh, NoJob
<1>3. \A c \in Calls : ~Succeeded(c)
  BY <1>1 DEF Succeeded
<1> QED
  BY <1>1, <1>2, <1>3 DEF WrittenInv, TriesInOrder, SucceededLast, TaskOfCall, TaskFile, FileStages,
     NoneBeneath, SuccessIsWritten, Formats

LEMMA WrittenInvariant == Spec => []WrittenInv
<1>1. ASSUME CallInv, WrittenInv, [Next]_vars
      PROVE  WrittenInv'
  <2>1. CASE UNCHANGED vars
    <3>1. UNCHANGED <<files, task, revision, call, queue, active>>
      BY <2>1 DEF vars, callVars, pluginVars, exportVars, hostVars
    <3>2. TriesInOrder'
      BY <1>1, <3>1 DEF WrittenInv, TriesInOrder
    <3>3. \A c \in Calls : (Succeeded(c)' <=> Succeeded(c)) /\ (InPlugin(c)' <=> InPlugin(c))
      BY <3>1 DEF Succeeded, WritesFile, InPlugin
    <3> QED
      BY <1>1, <3>1, <3>2, <3>3, TaskHasCall, QuietStep
  <2> QED
    BY <1>1, <2>1, DecideWritten, ServerWritten, SendWritten, ConnectionWritten, StartsWritten,
       ExpiresWritten, WorksWritten, FileTaskEndsWritten, OthersEndWritten, OutsideWritten DEF Next
<1> QED
  BY <1>1, CallInvariant, WrittenInit, PTL DEF Spec

\* A file tool that reports success has left the document, at the revision that
\* its caller asked for, at its path, and there it stays unless another call may
\* overwrite it: whatever was retried, given up, cut off by a reload or saved by
\* people, and although the host may report a success without having written.
THEOREM SuccessesAreWritten == Spec => []OkIsWritten
<1>1. WrittenInv => OkIsWritten
  BY DEF WrittenInv, SuccessIsWritten, Succeeded, Overwritten, OkIsWritten
<1> QED
  BY <1>1, WrittenInvariant, PTL

=============================================================================
