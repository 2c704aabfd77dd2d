---------------------------- MODULE BridgeServer ----------------------------
(***************************************************************************)
(* The loopback bridge of the MCP server.                                  *)
(*                                                                         *)
(* Plugins connect by WebSocket or by HTTP long polling, answer a          *)
(* challenge, and one of them becomes the active session.  A tool call is  *)
(* a request: it is sent to the active session and waits until a response, *)
(* a cancellation, its deadline or the end of the session settles it.      *)
(*                                                                         *)
(* Every handler runs without a break except that an HTTP handler awaits   *)
(* the body of its request: the session is looked up before, the frame is  *)
(* processed after.  Handlers call each other (pruning, closing, sending), *)
(* so they are functions from a server state to the next.                  *)
(***************************************************************************)
EXTENDS Integers, Sequences, FiniteSets

CONSTANTS
  Connections,        \* Connections, each opened at most once.
  HttpConnections,    \* Those that use HTTP long polling, not a WebSocket.
  Strangers,          \* Those whose token is not the server's.
  Requests,           \* Tool calls.
  Oversized,          \* Requests that fit a frame, not a poll's envelope.
  None,               \* No active session.
  MaxPendingAuth,     \* MAX_PENDING_AUTH.
  MaxAuthFailures,    \* MAX_AUTH_FAILURES_PER_CONNECTION.
  MaxRecentFailures,  \* MAX_GLOBAL_AUTH_FAILURES_PER_MINUTE.
  MaxPendingRequests, \* MAX_PENDING_REQUESTS.
  MaxOutbound         \* MAX_HTTP_OUTBOUND_FRAMES (and bytes).

ASSUME ConstantsAssumption ==
  /\ HttpConnections \subseteq Connections
  /\ Strangers \subseteq Connections
  /\ Oversized \subseteq Requests
  /\ None \notin Connections
  /\ IsFiniteSet(Connections)
  /\ {MaxPendingAuth, MaxAuthFailures, MaxRecentFailures,
      MaxPendingRequests, MaxOutbound} \subseteq Nat \ {0}

VARIABLES
  server,    \* The fields of BridgeServer, as a record (ServerStates).
  stage,     \* How far a connection has come (Stages).
  reading,   \* HTTP frames whose session was found, their body not yet read.
  left,      \* Connections that their plugin has ended, or that broke.
  sentTo     \* History: the session to which a request was sent.

vars == <<server, stage, reading, left, sentTo>>

-----------------------------------------------------------------------------
(* Types.                                                                  *)

\* Frames to a plugin.
Frame(type, id) == [type |-> type, id |-> id]

Frames == [type : {"challenge", "authenticated", "heartbeat", "ack"}, id : {None}]
            \cup [type : {"request", "cancel"}, id : Requests]

\* Frames from a plugin; any other event counts as a heartbeat or an ack.
PluginFrames == [type : {"authentication", "heartbeat", "ack"}, id : {None}]
                  \cup [type : {"response"}, id : Requests]

\* The state of a connection.  Of the clock it keeps whether the challenge has
\* expired and whether the last frame is too long ago.
ConnectionStates ==
  [authenticated : BOOLEAN, failures : Nat, expired : BOOLEAN, stale : BOOLEAN,
   outbound : Seq(Frames), waiter : {"none", "waiting", "woken"}]

Outcomes == {"none", "refused", "waiting", "answered", "cancelled", "timedOut", "lost"}

ServerStates ==
  [connections : SUBSET Connections,       \* #connections
   conn : [Connections -> ConnectionStates],
   socket : [Connections -> {"none", "open", "closing", "closed"}],
   active : Connections \cup {None},       \* #active
   recent : Nat,                           \* #authFailureTimes, its length
   outcome : [Requests -> Outcomes],       \* #pending: the waiting ones
   seen : [Connections -> SUBSET Frames],  \* Reached the plugin, unanswered.
   handed : [Requests -> Nat]]             \* History: times handed over.

\* A connection owes a hello, is late with it, has said it or was refused.
Stages == {"new", "hello", "late", "met", "gone"}

TypeOK ==
  /\ server \in ServerStates
  /\ stage \in [Connections -> Stages]
  /\ reading \in [HttpConnections -> SUBSET PluginFrames]
  /\ left \subseteq Connections
  /\ sentTo \in [Requests -> Connections \cup {None}]

NewConnection ==
  [authenticated |-> FALSE, failures |-> 0, expired |-> FALSE, stale |-> FALSE,
   outbound |-> <<>>, waiter |-> "none"]

Init ==
  /\ server = [connections |-> {},
               conn |-> [c \in Connections |-> NewConnection],
               socket |-> [c \in Connections |-> "none"],
               active |-> None,
               recent |-> 0,
               outcome |-> [r \in Requests |-> "none"],
               seen |-> [c \in Connections |-> {}],
               handed |-> [r \in Requests |-> 0]]
  /\ stage = [c \in Connections |-> "new"]
  /\ reading = [c \in HttpConnections |-> {}]
  /\ left = {}
  /\ sentTo = [r \in Requests |-> None]

-----------------------------------------------------------------------------
(* Closing, pruning and sending.                                           *)

Waiting(s) == {r \in Requests : s.outcome[r] = "waiting"}

\* Mutant: nobody wakes a poll but its timer.
Asleep(waiter) == waiter

Woken(waiter) == IF waiter = "waiting" THEN "woken" ELSE waiter

\* Mutant: the active session is forgotten, its requests are left waiting.
ClosedUnsettled(s, S) ==
  [s EXCEPT
     !.connections = @ \ S,
     !.active = IF @ \in S THEN None ELSE @,
     !.conn = [c \in Connections |->
        IF c \in S THEN [s.conn[c] EXCEPT !.outbound = <<>>, !.waiter = Woken(@)]
                   ELSE s.conn[c]],
     !.socket = [c \in Connections |->
        IF c \in S /\ s.socket[c] = "open" THEN "closing" ELSE s.socket[c]]]

\* Mutant: closing does not look whether the connection is the active one.
ClosedKeepsActive(s, S) == [s EXCEPT !.connections = @ \ S]

\* #closeConnection for every connection of S: with the active session goes
\* every waiting request.
Closed(s, S) ==
  [s EXCEPT
     !.connections = @ \ S,
     !.active = IF @ \in S THEN None ELSE @,
     !.outcome = [r \in Requests |->
        IF s.active \in S /\ r \in Waiting(s) THEN "lost" ELSE s.outcome[r]],
     !.conn = [c \in Connections |->
        IF c \in S THEN [s.conn[c] EXCEPT !.outbound = <<>>, !.waiter = Woken(@)]
                   ELSE s.conn[c]],
     !.socket = [c \in Connections |->
        IF c \in S /\ s.socket[c] = "open" THEN "closing" ELSE s.socket[c]]]

Challenged(s) == {c \in s.connections : ~s.conn[c].authenticated}

\* #pruneExpiredConnections.
Pruned(s) == Closed(s, {c \in Challenged(s) : s.conn[c].expired})

\* A frame that is to be answered has reached the plugin.
Reaches(s, c, sent) ==
  [s EXCEPT
     !.seen[c] = @ \cup {f \in sent : f.type \in {"challenge", "request"}},
     !.handed = [r \in Requests |->
        IF Frame("request", r) \in sent THEN @[r] + 1 ELSE @[r]]]

\* #send: at once over an open socket, else by way of the outbound queue; a
\* frame that the queue cannot take ends the session.
Sent(s, c, f) ==
  CASE s.socket[c] = "open" -> Reaches(s, c, {f})
    [] s.socket[c] # "open" /\ \/ f.type = "request" /\ f.id \in Oversized
                               \/ Len(s.conn[c].outbound) >= MaxOutbound -> Closed(s, {c})
    [] OTHER -> [s EXCEPT !.conn[c].outbound = Append(@, f),
                          !.conn[c].waiter = Woken(@)]

-----------------------------------------------------------------------------
(* #processIncoming.                                                       *)

\* Mutant: the digest is not compared.
InTime(s, c) == ~s.conn[c].expired

\* The proof is right and in time.
Proves(s, c) == ~s.conn[c].expired /\ c \notin Strangers

\* Mutant: the newest plugin wins.
NeverOccupied(s, c) == FALSE

\* A healthy session of another plugin.
Occupied(s, c) == s.active \notin {None, c} /\ ~s.conn[s.active].stale

Admitted(s, c) ==
  LET free == Closed(s, {s.active} \ {None, c})
  IN Sent([free EXCEPT !.conn[c].authenticated = TRUE, !.conn[c].stale = FALSE,
                       !.active = c],
          c, Frame("authenticated", None))

\* The failure is counted and the plugin challenged again, unless it or all
\* plugins together have failed too often.
Rejected(s, c) ==
  LET counted == [s EXCEPT !.conn[c].failures = @ + 1, !.recent = @ + 1]
      pruned == Pruned(counted)
  IN CASE counted.conn[c].failures >= MaxAuthFailures -> Closed(counted, {c})
       [] counted.conn[c].failures < MaxAuthFailures /\ counted.recent >= MaxRecentFailures ->
            Closed(pruned, {c})
       [] OTHER -> Sent([pruned EXCEPT !.conn[c].expired = FALSE], c, Frame("challenge", None))

Authenticated(s, c) ==
  CASE Proves(s, c) /\ Occupied(s, c) -> Closed(s, {c})
    [] Proves(s, c) /\ ~Occupied(s, c) -> Admitted(s, c)
    [] ~Proves(s, c) /\ c \in s.connections -> Rejected(s, c)
    [] OTHER -> s

\* Mutant: a response settles its request although it is no longer pending.
ServedLate(s, c, f) ==
  LET alive == [s EXCEPT !.conn[c].stale = FALSE]
  IN CASE f.type = "response" -> [alive EXCEPT !.outcome[f.id] = "answered"]
       [] f.type = "heartbeat" -> Sent(alive, c, Frame("ack", None))
       [] OTHER -> alive

\* A frame of an authenticated plugin: a response settles its request, a
\* heartbeat is acknowledged, and the session is alive.
Served(s, c, f) ==
  LET alive == [s EXCEPT !.conn[c].stale = FALSE]
  IN CASE f.type = "response" /\ f.id \in Waiting(s) ->
            [alive EXCEPT !.outcome[f.id] = "answered"]
       [] f.type = "heartbeat" -> Sent(alive, c, Frame("ack", None))
       [] OTHER -> alive

Incoming(s, c, f) ==
  CASE s.conn[c].authenticated -> Served(s, c, f)
    [] ~s.conn[c].authenticated /\ f.type = "authentication" -> Authenticated(s, c)
    [] OTHER -> Closed(s, {c})

-----------------------------------------------------------------------------
(* Opening a connection.                                                   *)

\* Sockets and HTTP bodies that owe a hello: #preHelloSockets and
\* #pendingHttpSessionBodies.
PreHello == {c \in Connections : stage[c] = "hello"}

\* Mutant: those that owe a hello are not counted.
CrowdedByChallenged(s, owing) ==
  \/ Cardinality(Challenged(s)) >= MaxPendingAuth
  \/ s.recent >= MaxRecentFailures

\* Too many connections are under authentication, or too many have failed.
Crowded(s, owing) ==
  \/ Cardinality(owing) + Cardinality(Challenged(s)) >= MaxPendingAuth
  \/ s.recent >= MaxRecentFailures

\* A WebSocket opens, or the headers of an HTTP session request arrive.
Open(c) ==
  LET pruned == Pruned(server)
  IN /\ stage[c] = "new"
     /\ \/ /\ Crowded(pruned, PreHello)
           /\ stage' = [stage EXCEPT ![c] = "gone"]
           /\ server' = pruned
        \/ /\ ~Crowded(pruned, PreHello)
           /\ stage' = [stage EXCEPT ![c] = "hello"]
           /\ server' = IF c \in HttpConnections THEN pruned
                         ELSE [pruned EXCEPT !.socket[c] = "open"]
     /\ UNCHANGED <<reading, left, sentTo>>

\* The hello does not come in time.  A socket is asked to close, and may still
\* deliver it; an HTTP body is given up.
HelloDeadline(c) ==
  /\ stage[c] = "hello"
  /\ stage' = [stage EXCEPT ![c] = IF c \in HttpConnections THEN "gone" ELSE "late"]
  /\ server' = IF c \in HttpConnections THEN server
               ELSE [server EXCEPT !.socket[c] = "closing"]
  /\ UNCHANGED <<reading, left, sentTo>>

\* The hello: #createConnection checks the limits again.  The first challenge
\* of an HTTP session is in the reply to its hello.
Hello(c) ==
  LET pruned == Pruned(server)
      created == [pruned EXCEPT !.connections = @ \cup {c}]
      challenge == Frame("challenge", None)
  IN /\ \/ stage[c] = "hello"
        \/ stage[c] = "late" /\ server.socket[c] = "closing"
     /\ \/ /\ Crowded(pruned, PreHello \ {c})
           /\ stage' = [stage EXCEPT ![c] = "gone"]
           /\ server' = Closed(pruned, {c})
        \/ /\ ~Crowded(pruned, PreHello \ {c})
           /\ stage' = [stage EXCEPT ![c] = "met"]
           /\ server' = IF c \in HttpConnections THEN Reaches(created, c, {challenge})
                         ELSE Sent(created, c, challenge)
     /\ UNCHANGED <<reading, left, sentTo>>

\* A socket is closed by either side, or breaks.
SocketCloses(c) ==
  LET closed == [server EXCEPT !.socket[c] = "closed"]
  IN /\ server.socket[c] \in {"open", "closing"}
     /\ stage' = [stage EXCEPT ![c] = IF @ = "met" THEN "met" ELSE "gone"]
     /\ server' = IF stage[c] = "met" THEN Closed(closed, {c}) ELSE closed
     /\ left' = left \cup {c}
     /\ UNCHANGED <<reading, sentTo>>

-----------------------------------------------------------------------------
(* Frames of a plugin.  A plugin of this server answers a challenge and a  *)
(* request once, and sends events when it is authenticated.                *)

Says(c, f) ==
  \/ f.type = "authentication" /\ Frame("challenge", None) \in server.seen[c]
  \/ f.type = "response" /\ Frame("request", f.id) \in server.seen[c]
  \/ f.type \in {"heartbeat", "ack"} /\ (server.conn[c].authenticated \/ c \in Strangers)

\* What the plugin answers it does not answer again.
Answering(s, c, f) ==
  [s EXCEPT !.seen[c] =
     @ \ CASE f.type = "authentication" -> {Frame("challenge", None)}
            [] f.type = "response" -> {Frame("request", f.id)}
            [] OTHER -> {}]

\* A frame arrives on a socket, which may be closing already.
SocketFrame(c) ==
  /\ stage[c] = "met"
  /\ server.socket[c] \in {"open", "closing"}
  /\ \E f \in PluginFrames :
       /\ Says(c, f)
       /\ server' = Incoming(Answering(server, c, f), c, f)
  /\ UNCHANGED <<stage, reading, left, sentTo>>

\* The headers of an HTTP frame arrive: without a session the frame is
\* dropped, else its body is awaited.
SendStarts(c) ==
  /\ stage[c] = "met"
  /\ c \notin left
  /\ \E f \in PluginFrames :
       /\ Says(c, f)
       /\ f \notin reading[c]
       /\ server' = Answering(server, c, f)
       /\ reading' = IF c \in server.connections THEN [reading EXCEPT ![c] = @ \cup {f}]
                                                 ELSE reading
  /\ UNCHANGED <<stage, left, sentTo>>

\* The body of an HTTP frame has been read, or cannot be.
SendEnds(c) ==
  /\ \E f \in reading[c] :
       /\ reading' = [reading EXCEPT ![c] = @ \ {f}]
       /\ server' \in {Incoming(server, c, f), server}
  /\ UNCHANGED <<stage, left, sentTo>>

-----------------------------------------------------------------------------
(* HTTP long polling.                                                      *)

\* The frames of one poll: the front of the queue, as many as fit.
Batch(queue, n) == SubSeq(queue, 1, n)

\* Mutant: what is sent stays in the queue until the next poll.
Unshifted(queue, n) == IF n = Len(queue) THEN <<>> ELSE queue

Rest(queue, n) == SubSeq(queue, n + 1, Len(queue))

\* A poll is answered; its frames reach the plugin or are lost on the way.
Answer(c) ==
  LET queue == server.conn[c].outbound
      dequeued(n) == [server EXCEPT !.conn[c].outbound = Rest(queue, n),
                                    !.conn[c].waiter = "none"]
      sent(n) == {Batch(queue, n)[i] : i \in 1 .. n}
  IN \E n \in 0 .. Len(queue) :
       /\ n = 0 => queue = <<>>
       /\ \/ /\ c \notin left
             /\ server' = Reaches(dequeued(n), c, sent(n))
          \/ server' = [Reaches(dequeued(n), c, sent(n)) EXCEPT !.seen = server.seen]

\* A poll arrives; while another one waits it is refused.
Poll(c) ==
  /\ c \in server.connections
  /\ c \notin left
  /\ server.conn[c].waiter = "none"
  /\ \/ /\ server.conn[c].outbound = <<>>
        /\ server' = [server EXCEPT !.conn[c].waiter = "waiting"]
     \/ /\ server.conn[c].outbound # <<>>
        /\ Answer(c)
  /\ UNCHANGED <<stage, reading, left, sentTo>>

PollTimesOut(c) ==
  /\ server.conn[c].waiter = "waiting"
  /\ server' = [server EXCEPT !.conn[c].waiter = "woken"]
  /\ UNCHANGED <<stage, reading, left, sentTo>>

PollAnswers(c) ==
  /\ server.conn[c].waiter = "woken"
  /\ Answer(c)
  /\ UNCHANGED <<stage, reading, left, sentTo>>

\* The plugin ends its session, or vanishes without a word.
Leave(c) ==
  /\ stage[c] = "met"
  /\ c \notin left
  /\ left' = left \cup {c}
  /\ server' \in {server, IF c \in server.connections THEN Closed(server, {c}) ELSE server}
  /\ UNCHANGED <<stage, reading, sentTo>>

-----------------------------------------------------------------------------
(* Requests of the tools.                                                  *)

\* Refused before it is sent: there is no session or the bridge is busy, which
\* the state tells, or the frame is too large or its caller gone, which may be
\* so in any state.
Refuse(r) ==
  /\ server.outcome[r] = "none"
  /\ server' = [server EXCEPT !.outcome[r] = "refused"]
  /\ UNCHANGED <<stage, reading, left, sentTo>>

Request(r) ==
  /\ server.outcome[r] = "none"
  /\ server.active # None
  /\ Cardinality(Waiting(server)) < MaxPendingRequests
  /\ server' = Sent([server EXCEPT !.outcome[r] = "waiting"],
                    server.active, Frame("request", r))
  /\ sentTo' = [sentTo EXCEPT ![r] = server.active]
  /\ UNCHANGED <<stage, reading, left>>

\* The caller is answered and the plugin told, on the session of the request.
GiveUp(r, why) ==
  /\ r \in Waiting(server)
  /\ server' = Sent([server EXCEPT !.outcome[r] = why], sentTo[r], Frame("cancel", r))
  /\ UNCHANGED <<stage, reading, left, sentTo>>

Abort(r) == GiveUp(r, "cancelled")

Deadline(r) == GiveUp(r, "timedOut")

-----------------------------------------------------------------------------
(* Timers and the clock.                                                   *)

Heartbeat ==
  LET pruned == Pruned(server)
      a == pruned.active
  IN /\ server' = CASE a = None -> pruned
                    [] a # None /\ pruned.conn[a].stale -> Closed(pruned, {a})
                    [] OTHER -> Sent(pruned, a, Frame("heartbeat", None))
     /\ UNCHANGED <<stage, reading, left, sentTo>>

ChallengeExpires(c) ==
  /\ stage[c] = "met"
  /\ ~server.conn[c].authenticated
  /\ ~server.conn[c].expired
  /\ server' = [server EXCEPT !.conn[c].expired = TRUE]
  /\ UNCHANGED <<stage, reading, left, sentTo>>

\* STALE_CONNECTION_MS without a frame.
GoesStale(c) ==
  /\ server.conn[c].authenticated
  /\ ~server.conn[c].stale
  /\ server' = [server EXCEPT !.conn[c].stale = TRUE]
  /\ UNCHANGED <<stage, reading, left, sentTo>>

\* Mutant: a failure is forgotten although there is none.
FailureForgottenUnchecked ==
  /\ server' = [server EXCEPT !.recent = @ - 1]
  /\ UNCHANGED <<stage, reading, left, sentTo>>

\* The oldest failure is a minute ago.
FailureForgotten ==
  /\ server.recent > 0
  /\ server' = [server EXCEPT !.recent = @ - 1]
  /\ UNCHANGED <<stage, reading, left, sentTo>>

-----------------------------------------------------------------------------

ConnectionNext(c) ==
  \/ Open(c) \/ HelloDeadline(c) \/ Hello(c)
  \/ ChallengeExpires(c) \/ GoesStale(c)

SocketNext(c) == SocketCloses(c) \/ SocketFrame(c)

HttpNext(c) ==
  \/ SendStarts(c) \/ SendEnds(c)
  \/ Poll(c) \/ PollTimesOut(c) \/ PollAnswers(c)
  \/ Leave(c)

Next ==
  \/ \E c \in Connections : ConnectionNext(c)
  \/ \E c \in Connections \ HttpConnections : SocketNext(c)
  \/ \E c \in HttpConnections : HttpNext(c)
  \/ \E r \in Requests : Refuse(r) \/ Request(r) \/ Abort(r) \/ Deadline(r)
  \/ Heartbeat
  \/ FailureForgotten

Spec == Init /\ [][Next]_vars

\* The interval fires, and a session that is silent for good becomes stale.
Fairness ==
  /\ WF_vars(Heartbeat)
  /\ \A c \in Connections : WF_vars(c \in left /\ GoesStale(c))

FairSpec == Spec /\ Fairness

-----------------------------------------------------------------------------
(* Properties.                                                             *)

\* A request waits only on the session that it was sent to, and only while
\* that session is active: no displacement, closing, late frame or timer
\* leaves a caller waiting for a session that is gone.
WaitsOnActiveSession ==
  \A r \in Waiting(server) : sentTo[r] = server.active /\ server.active # None

\* However connections, bodies, expiries and failures interleave, at most
\* MaxPendingAuth connections are under authentication, and a connection that
\* may still try has failed less often than allowed.
AuthenticationBounded ==
  /\ Cardinality(PreHello) + Cardinality(Challenged(server)) <= MaxPendingAuth
  /\ \A c \in server.connections : server.conn[c].failures < MaxAuthFailures

\* No plugin of another user: only a connection that holds the token is active.
OnlyPairedActive == server.active \notin Strangers

\* The active session can be reached, or its own plugin has ended it.
ActiveIsReachable ==
  server.active # None => server.active \in server.connections \cup left

\* A poll does not sleep while there are frames for it, nor on a session that
\* has been closed, although frames, timers and closings wake it.
NoSleepingPoll ==
  \A c \in HttpConnections : server.conn[c].waiter = "waiting" =>
    server.conn[c].outbound = <<>> /\ c \in server.connections

\* A request is handed to a plugin at most once, and its cancellation does not
\* overtake it: a plugin that is told to cancel a request has been given it.
HandedOverInOrder ==
  /\ \A r \in Requests : server.handed[r] <= 1
  /\ \A c \in Connections : LET queue == server.conn[c].outbound IN
       \A i \in DOMAIN queue : \A r \in Requests :
         /\ queue[i] = Frame("request", r) => server.handed[r] = 0
         /\ queue[i] = Frame("cancel", r) /\ server.handed[r] = 0
              => \E j \in 1 .. i - 1 : queue[j] = Frame("request", r)

\* A healthy session is not displaced: it stops being active only when it is
\* stale, when its plugin leaves, or when it does not take its frames.
HealthySessionKept ==
  [][LET a == server.active IN
       a # None /\ server'.active # a =>
         \/ a \in left'
         \/ server.conn[a].stale
         \/ server.socket[a] # "open" /\ Len(server.conn[a].outbound) >= MaxOutbound
         \/ server.socket[a] # "open" /\ \E r \in Oversized : sentTo'[r] = a]_vars

\* What a caller is told is final: a request is settled once, whatever late
\* responses, timers, aborts and closings follow.
SettledOnce ==
  [][\A r \in Requests : server.outcome[r] \notin {"none", "waiting"}
       => server'.outcome[r] = server.outcome[r]]_vars

\* The caller of a request whose session has been ended, with or without a
\* word, is answered without its deadline.
EndedSessionAnswers ==
  \A r \in Requests :
    r \in Waiting(server) /\ sentTo[r] \in left ~> r \notin Waiting(server)

=============================================================================
