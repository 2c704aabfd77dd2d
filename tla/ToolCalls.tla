----------------------------- MODULE ToolCalls -----------------------------
(***************************************************************************)
(* Tool calls from end to end: the tools of the MCP server, the bridge as  *)
(* they see it, the queue of the plugin and what its tasks do to documents *)
(* and files.                                                              *)
(*                                                                         *)
(* A caller repeats a call, with the same input, when its answer says that *)
(* it may be retried.  Each try is a request of its own: an earlier try    *)
(* may still wait or run in the plugin when the caller was told that it    *)
(* timed out or that the bridge is offline.                                *)
(***************************************************************************)
EXTENDS FileExports, Sequences

CONSTANTS
  Calls,      \* Tool calls.
  Tools,      \* Tools that are called, of AllTools.
  Overwrites, \* Values of the overwrite flag that callers pass.
  MaxTries    \* Tries of a call.

AllTools == {"status", "create", "apply"} \cup Formats

ASSUME CallsAssumption ==
  /\ Tools \subseteq AllTools
  /\ Overwrites \subseteq BOOLEAN
  /\ MaxTries \in Nat \ {0}

VARIABLES
  call,       \* The calls, as the server and their caller see them.
  online,     \* Whether a plugin is connected and authenticated.
  queue,      \* Requests that wait in the plugin.
  active,     \* The request whose task runs; <<>> for none.
  applied,    \* History: how often the batch of a call has changed the document.
  changed     \* History: requests that have changed a document or a file.

pluginVars == <<queue, active>>
callVars == <<call, online, applied, changed, pluginVars>>
vars == <<exportVars, callVars>>

-----------------------------------------------------------------------------
(* Types.                                                                  *)

\* What the caller learns: the code, whether a retry is offered, and whether
\* the answer says that the operation may have been completed.
Reply(code, retryable, admits) == [code |-> code, retryable |-> retryable, admits |-> admits]
Codes == Results \cup {"offline", "timeout", "cancelled", "partial", "unsafe"}
Replies == [code : Codes, retryable : BOOLEAN, admits : BOOLEAN]
NoReply == Reply("none", FALSE, FALSE)
Unready == Reply("unready", TRUE, FALSE)
Failed == Reply("failed", FALSE, FALSE)

\* An AbortError of the host, whenever it comes, is answered as a request that
\* was cancelled before it started.
Aborted == Reply("cancelled", TRUE, FALSE)
HostErrors == {Failed, Aborted}

CallStates ==
  [tool : AllTools, job : Jobs, try : 1..MaxTries,
   status : {"new", "ready", "waiting", "answered"}, reply : Replies]

Requests == Calls \X (1..MaxTries)

TypeOK ==
  /\ ExportTypeOK
  /\ call \in [Calls -> CallStates]
  /\ online \in BOOLEAN
  /\ queue \in Seq(Requests)
  /\ active \in Requests \cup {<<>>}
  /\ applied \in [Calls -> Nat]
  /\ changed \subseteq Requests

Init ==
  /\ ExportInit
  /\ call = [c \in Calls |-> [tool |-> "status", job |-> NoJob, try |-> 1,
                              status |-> "new", reply |-> NoReply]]
  /\ online = FALSE
  /\ queue = <<>>
  /\ active = <<>>
  /\ applied = [c \in Calls |-> 0]
  /\ changed = {}

Request(c) == <<c, call[c].try>>
Active == call[active[1]]

-----------------------------------------------------------------------------
(* The server.                                                             *)

Answered(c, reply) == [call EXCEPT ![c].status = "answered", ![c].reply = reply]

\* A caller passes the revision of its last snapshot.
Decide(c) ==
  /\ call[c].status = "new"
  /\ \E tool \in Tools, p \in Paths, o \in BOOLEAN :
       /\ o \in IF tool \in Formats THEN Overwrites ELSE {FALSE}
       /\ call' = [call EXCEPT ![c].status = "ready", ![c].tool = tool,
                    ![c].job = [format |-> IF tool \in Formats THEN tool ELSE "preflight",
                                path |-> p, overwrite |-> o, expected |-> revision]]
  /\ UNCHANGED <<exportVars, online, applied, changed, pluginVars>>

\* Refused by a schema, by the path policy, or by a bridge that is busy.  The status tool
\* answers from what it has cached when no plugin is connected.
Refuse(c) ==
  /\ call[c].status = "ready"
  /\ \/ call' = Answered(c, Reply("refused", FALSE, FALSE))
     \/ online /\ call' = Answered(c, Unready)
     \/ /\ ~online
        /\ call' = Answered(c, IF call[c].tool = "status" THEN Reply("ok", FALSE, FALSE)
                               ELSE Reply("offline", TRUE, FALSE))
  /\ UNCHANGED <<exportVars, online, applied, changed, pluginVars>>

\* A request that is sent may get lost with the connection.
Send(c) ==
  /\ call[c].status = "ready"
  /\ online
  /\ call' = [call EXCEPT ![c].status = "waiting"]
  /\ queue' = Append(queue, Request(c)) \/ UNCHANGED queue
  /\ UNCHANGED <<exportVars, online, applied, changed, active>>

\* The queue of the plugin without its i-th request.
Without(i) == SubSeq(queue, 1, i - 1) \o SubSeq(queue, i + 1, Len(queue))

\* The deadline of the server passes, or the caller cancels.  The cancellation
\* takes the request out of the queue of the plugin, comes too late, or is
\* lost.  Nobody waits any more for what the plugin answers to it.
GivenUp(c, reply) ==
  /\ call[c].status = "waiting"
  /\ call' = Answered(c, reply)
  /\ \/ \E i \in DOMAIN queue : queue[i] = Request(c) /\ queue' = Without(i)
     \/ UNCHANGED queue
  /\ UNCHANGED <<exportVars, online, active, applied, changed>>

TimeOut(c) == GivenUp(c, Reply("timeout", TRUE, TRUE))
Abort(c) == GivenUp(c, Reply("cancelled", FALSE, TRUE))

\* Calls that wait when the session ends are answered as offline.
Disconnected ==
  [c \in Calls |-> IF call[c].status = "waiting"
                   THEN [call[c] EXCEPT !.status = "answered", !.reply = Reply("offline", TRUE, FALSE)]
                   ELSE call[c]]

Disconnect ==
  /\ online
  /\ online' = FALSE
  /\ call' = Disconnected
  /\ UNCHANGED <<exportVars, applied, changed, pluginVars>>

Connect ==
  /\ ~online
  /\ online' = TRUE
  /\ UNCHANGED <<exportVars, call, applied, changed, pluginVars>>

\* The caller tries again, with the same input.
Retry(c) ==
  /\ call[c].status = "answered"
  /\ call[c].reply.retryable
  /\ call[c].try < MaxTries
  /\ call' = [call EXCEPT ![c].status = "ready", ![c].reply = NoReply, ![c].try = @ + 1]
  /\ UNCHANGED <<exportVars, online, applied, changed, pluginVars>>

-----------------------------------------------------------------------------
(* The plugin.                                                             *)

\* Mutant: a response is matched with the call, whichever try it answers.
AwaitsCall(r) == call[r[1]].status = "waiting"

Awaits(r) == call[r[1]].status = "waiting" /\ call[r[1]].try = r[2]

\* A result that reaches the server is checked once more: the metadata of a
\* file that is not what was asked for is answered as unsafe.
Accepted(c, reply) ==
  IF reply.code = "ok" /\ call[c].tool \in Formats \ {"preflight"}
  THEN {reply, Reply("unsafe", FALSE, FALSE)}
  ELSE {reply}

\* A response reaches the server, or finds nobody that waits for it.
Responds(r, reply) ==
  IF online /\ Awaits(r)
  THEN \E a \in Accepted(r[1], reply) : call' = Answered(r[1], a)
  ELSE UNCHANGED call

\* Mutant: a task that ended too late is answered like one that never began.
SettledAsExpired(reply, late) ==
  IF reply.code # "ok" THEN reply
  ELSE IF late THEN Reply("timeout", TRUE, FALSE)
  ELSE reply

\* The deadline counts only when the task has not failed.
Settled(reply, late) ==
  IF reply.code # "ok" THEN reply
  ELSE IF late THEN Reply("timeout", FALSE, TRUE)
  ELSE reply

Starts ==
  /\ active = <<>>
  /\ queue # <<>>
  /\ queue' = Tail(queue)
  /\ active' = Head(queue)
  /\ IF call[Head(queue)[1]].tool \in Formats
     THEN BeginTask(call[Head(queue)[1]].job)
     ELSE UNCHANGED exportVars
  /\ UNCHANGED <<call, online, applied, changed>>

\* The deadline of the plugin has passed before the start.  (That the queue of
\* the plugin is full is answered like a busy bridge, see Refuse.)
Expires ==
  /\ active = <<>>
  /\ queue # <<>>
  /\ queue' = Tail(queue)
  /\ Responds(Head(queue), Reply("timeout", TRUE, FALSE))
  /\ UNCHANGED <<exportVars, online, applied, changed, active>>

\* One await after another of a task that writes a file or runs a preflight.
Works ==
  /\ active # <<>>
  /\ TaskStep
  /\ changed' = IF files' = files /\ folder' = folder THEN changed ELSE changed \cup {active}
  /\ UNCHANGED <<call, online, applied, pluginVars>>

Ended(reply) ==
  /\ \E late \in BOOLEAN : Responds(active, Settled(reply, late))
  /\ active' = <<>>
  /\ UNCHANGED <<online, queue>>

FileTaskEnds ==
  /\ active # <<>>
  /\ task.stage = "done"
  /\ \/ Ended(Reply(task.result, task.result = "unready", FALSE))
     \/ task.result = "failed" /\ Ended(Aborted)
  /\ task' = Idle
  /\ UNCHANGED <<authorized, hostVars, revision, applied, changed>>

StatusEnds ==
  /\ active # <<>>
  /\ Active.tool = "status"
  /\ \E reply \in HostErrors \cup {Reply("ok", FALSE, FALSE)} : Ended(reply)
  /\ UNCHANGED <<exportVars, applied, changed>>

\* A new document has no revision that could be checked.
CreateEnds ==
  /\ active # <<>>
  /\ Active.tool = "create"
  /\ \/ /\ \E code \in {"ok", "partial"} : Ended(Reply(code, FALSE, code = "partial"))
        /\ changed' = changed \cup {active}
     \/ /\ \E reply \in HostErrors : Ended(reply)
        /\ UNCHANGED changed
  /\ UNCHANGED <<exportVars, applied>>

\* How a batch that has changed the document is answered: also like any other
\* failure, when the document cannot be named after the revision was committed.
Applied == {Reply("ok", FALSE, FALSE), Reply("partial", FALSE, TRUE)} \cup HostErrors

\* The revision is compared before everything else.  A batch that fails before
\* it has changed anything takes its reservation of the next revision back; when
\* that fails, the revision stays reserved.
BatchEnds ==
  /\ active # <<>>
  /\ Active.tool = "apply"
  /\ \/ /\ \/ ~AtRevision(Active.job.expected) /\ Ended(Reply("stale", FALSE, FALSE))
           \/ \E reply \in HostErrors \cup {Unready} : Ended(reply)
        /\ UNCHANGED <<revision, applied, changed>>
     \/ /\ AtRevision(Active.job.expected)
        /\ revision < MaxRevision
        /\ revision' = revision + 1
        /\ \/ /\ \E reply \in HostErrors \cup {Unready} : Ended(reply)
              /\ UNCHANGED <<applied, changed>>
           \/ /\ \E reply \in Applied : Ended(reply)
              /\ applied' = [applied EXCEPT ![active[1]] = @ + 1]
              /\ changed' = changed \cup {active}
  /\ UNCHANGED <<authorized, hostVars, task>>

\* A reload of the panel forgets its queue and ends its session.
Reload ==
  /\ ReloadPanel
  /\ online' = FALSE
  /\ call' = Disconnected
  /\ queue' = <<>>
  /\ active' = <<>>
  /\ UNCHANGED <<applied, changed>>

Outside == PersonStep /\ UNCHANGED callVars

Next ==
  \/ \E c \in Calls :
       Decide(c) \/ Refuse(c) \/ Send(c) \/ TimeOut(c) \/ Abort(c) \/ Retry(c)
  \/ Disconnect \/ Connect
  \/ Starts \/ Expires \/ Works
  \/ FileTaskEnds \/ StatusEnds \/ CreateEnds \/ BatchEnds
  \/ Reload \/ Outside

Spec == Init /\ [][Next]_vars

-----------------------------------------------------------------------------
(* Properties.                                                             *)

\* However often a call is repeated, after time-outs and lost connections,
\* its batch changes the document at most once.
BatchAppliedOnce == \A c \in Calls : applied[c] <= 1

\* A file tool that reports success has left the document, at the revision
\* that its caller asked for, at its path, unless another call may overwrite it.
WritesFile(c) == call[c].tool \in Formats \ {"preflight"}
OkIsWritten ==
  \A c \in Calls :
    /\ WritesFile(c)
    /\ call[c].status = "answered"
    /\ call[c].reply.code = "ok"
    /\ \A d \in Calls \ {c} : ~(call[d].job.overwrite /\ call[d].job.path = call[c].job.path)
    => files[call[c].job.path] = Exported(call[c].job.expected)

\* An answer that offers a retry, or tells of a time-out or a cancellation,
\* says that the operation may have been completed whenever its request has
\* changed something.  Two answers do not say so: that the bridge is offline, and
\* that of an AbortError of the host.
AdmitsChanges ==
  \A c \in Calls :
    /\ call[c].status = "answered"
    /\ call[c].reply.code # "offline" /\ call[c].reply # Aborted
    /\ call[c].reply.retryable \/ call[c].reply.code \in {"timeout", "cancelled"}
    /\ Request(c) \in changed
    => call[c].reply.admits

=============================================================================
