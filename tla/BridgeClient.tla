---------------------------- MODULE BridgeClient ----------------------------
(***************************************************************************)
(* The bridge client of the InDesign plugin, with its transports.          *)
(*                                                                         *)
(* The client keeps at most one transport in use.  connect reads the       *)
(* token, takes a snapshot of the host and opens the transport; frames of  *)
(* the server authenticate the session and bring work.  A session ends by  *)
(* the Disconnect button, by an explicit Connect, by a timer, or because   *)
(* its transport reports an end; unless the user disconnected, the client  *)
(* tries again, over HTTP after three failures of WebSocket.               *)
(*                                                                         *)
(* Every method is cut at its awaits.  What is suspended at an await is    *)
(* part of the state of its attempt: an attempt goes on after it has been  *)
(* given up.  A continuation whose promise is settled (Due) runs before    *)
(* any other event, as microtasks do.                                      *)
(***************************************************************************)
EXTENDS Integers, FiniteSets

CONSTANTS
  Attempts,      \* Attempts to connect that may be alive at the same time.
  None,          \* No attempt.
  Unpaired,      \* TRUE if the token may be missing until the user pairs one.
  TokenFaults,   \* TRUE if the secure storage may fail to read the token.
  Hangs          \* TRUE if the server may hang without closing its sockets.

ASSUME ConstantsAssumption ==
  /\ None \notin Attempts
  /\ Unpaired \in BOOLEAN
  /\ TokenFaults \in BOOLEAN
  /\ Hangs \in BOOLEAN

VARIABLES
  desired,           \* #desired: the client is to be connected.
  manualDisconnect,  \* #manualDisconnect: the user pressed Disconnect.
  wsFailures,        \* #webSocketSessionFailures, of which 0 .. 3 matter.
  transport,         \* #transport: the attempt whose transport is in use.
  generation,        \* The attempt #generation belongs to, or None.
  handshake,         \* BridgeHandshakeState: its phase.
  challengeCount,    \* BridgeHandshakeState: challenges answered.
  shown,             \* #state: the phase and the flag authenticated.
  readingToken,      \* #connectionStartInProgress.
  restarting,        \* #restartInProgress.
  reconnectTimer,    \* #reconnectTimer is set.
  authTimer,         \* The attempt whose #authTimer is set.
  heartbeatTimer,    \* #heartbeatTimer is set.
  cached,            \* #cachedHelloSnapshot: the host snapshot is there.
  attempt,           \* Every attempt: its transport and what is suspended.
  tokenless          \* History: the last attempt to connect found no token.

vars == <<desired, manualDisconnect, wsFailures, transport, generation,
          handshake, challengeCount, shown, readingToken, restarting,
          reconnectTimer, authTimer, heartbeatTimer, cached, attempt, tokenless>>

userVars == <<desired, manualDisconnect>>
handshakeVars == <<handshake, challengeCount>>
timerVars == <<reconnectTimer, authTimer, heartbeatTimer>>
tokenVars == <<readingToken, tokenless>>
startVars == <<tokenVars, restarting, cached>>

-----------------------------------------------------------------------------
(* Types.                                                                  *)

HandshakePhases == {"idle", "awaitingChallenge", "authenticationSent", "authenticated"}

Phases == {"offline", "connecting", "authenticating", "authenticated", "error"}

\* How far connect has come; over when nothing of it is suspended.
Stages == {"snapshot", "opening", "greeting", "over"}

\* The connection of a transport.  failing: closed after a bad frame, the
\* close event is to come.  closing: the client awaits the end of its close.
Links == {"unopened", "opening", "open", "failing", "closing", "closed"}

\* What the server makes of the session.
Peers == {"waiting", "challenged", "proved", "authenticated", "hung"}

\* Who awaits the end of close.
Closers == {"none", "stop", "session", "restart", "failure"}

AttemptStates ==
  [kind : {"websocket", "http"}, stage : Stages, link : Links, peer : Peers,
   working : BOOLEAN, closing : Closers]

TypeOK ==
  /\ desired \in BOOLEAN /\ manualDisconnect \in BOOLEAN
  /\ wsFailures \in 0 .. 3
  /\ transport \in Attempts \cup {None}
  /\ generation \in Attempts \cup {None}
  /\ handshake \in HandshakePhases
  /\ challengeCount \in 0 .. 3
  /\ shown \in [phase : Phases, authenticated : BOOLEAN]
  /\ readingToken \in BOOLEAN /\ restarting \in BOOLEAN
  /\ reconnectTimer \in BOOLEAN /\ heartbeatTimer \in BOOLEAN
  /\ authTimer \in Attempts \cup {None}
  /\ cached \in BOOLEAN
  /\ attempt \in [Attempts -> AttemptStates]
  /\ tokenless \in BOOLEAN

\* An attempt of which nothing is left.
Gone(kind) == [kind |-> kind, stage |-> "over", link |-> "closed", peer |-> "waiting",
               working |-> FALSE, closing |-> "none"]

Init ==
  /\ desired = FALSE /\ manualDisconnect = FALSE
  /\ wsFailures = 0
  /\ transport = None /\ generation = None
  /\ handshake = "idle" /\ challengeCount = 0
  /\ shown = [phase |-> "offline", authenticated |-> FALSE]
  /\ readingToken = FALSE /\ restarting = FALSE
  /\ reconnectTimer = FALSE /\ authTimer = None /\ heartbeatTimer = FALSE
  /\ cached = FALSE
  /\ attempt = [a \in Attempts |-> Gone("websocket")]
  /\ tokenless = FALSE

-----------------------------------------------------------------------------
(* Parts of the handlers.                                                  *)

\* Mutant: the patch of the state leaves the flag out.
OfflinePhase == [shown EXCEPT !.phase = "offline"]

\* What the panel shows after the end of a session.
Offline == [phase |-> "offline", authenticated |-> FALSE]

\* Mutant: a frame is looked at whosever it is.
AnyOpen(a) == attempt[a].link = "open"

\* Both checks of handleFrame: the generation and the transport.
InUse(a) == generation = a /\ transport = a

\* close: a connection that is open is awaited, any other is gone at once.
\* connect of a transport that is opening ends with an error that its own
\* generation check swallows.
Closed(s) ==
  CASE s.link = "open" -> [s EXCEPT !.link = "closing", !.stage = "over"]
    [] s.link = "opening" /\ s.kind = "websocket"
         -> [s EXCEPT !.link = "closing", !.stage = "over"]
    [] s.link \in {"opening", "failing"}
         -> [s EXCEPT !.link = "closed", !.stage = "over"]
    [] OTHER -> s

ClosedBy(a, who) == [attempt EXCEPT ![a] = [Closed(@) EXCEPT !.closing = who]]

\* What every end of a session resets.
Release ==
  /\ transport' = None
  /\ generation' = None
  /\ handshake' = "idle" /\ challengeCount' = 0
  /\ reconnectTimer' = FALSE /\ authTimer' = None /\ heartbeatTimer' = FALSE

\* One failure of WebSocket more.
Failures(a) ==
  IF attempt[a].kind = "websocket" /\ wsFailures < 3 THEN wsFailures + 1 ELSE wsFailures

\* sessionClosed up to its await, for an attempt whose state is s.
SessionClosed(a, s) ==
  IF generation = a
  THEN /\ Release
       /\ attempt' = [attempt EXCEPT ![a] = [Closed(s) EXCEPT !.closing = "session"]]
       /\ wsFailures' = IF shown.authenticated THEN wsFailures ELSE Failures(a)
  ELSE /\ attempt' = [attempt EXCEPT ![a] = s]
       /\ UNCHANGED <<wsFailures, transport, generation, handshakeVars, timerVars>>

\* Mutant: the transport in use is not looked at.
DesiredOnly == desired

CanBeginTransport == desired /\ transport = None

\* The beginning of connect, if it may begin, up to the await of the token.
Connect ==
  /\ readingToken' = (readingToken \/ CanBeginTransport)
  /\ tokenless' = (tokenless /\ ~readingToken')

\* Mutant: the user is not asked.
AlwaysReconnect == TRUE

\* Mutant: only after an attempt that came to nothing.
ReconnectIfRefused == reconnectTimer \/ (desired /\ ~manualDisconnect /\ ~shown.authenticated)

ScheduleReconnect == reconnectTimer \/ (desired /\ ~manualDisconnect)

-----------------------------------------------------------------------------
(* The user and the panel.                                                 *)

\* start: the panel is shown, or the user presses Connect or pairs a token.
Start(explicit) ==
  /\ explicit \/ ~manualDisconnect
  /\ desired' = TRUE
  /\ manualDisconnect' = (manualDisconnect /\ ~explicit)
  /\ \/ \* restartPendingConnection up to its await.
        /\ explicit /\ transport # None /\ ~shown.authenticated /\ ~restarting
        /\ restarting' = TRUE
        /\ Release
        /\ wsFailures' = Failures(transport)
        /\ attempt' = ClosedBy(transport, "restart")
        /\ UNCHANGED tokenVars
     \/ /\ ~explicit \/ transport = None \/ shown.authenticated \/ restarting
        /\ reconnectTimer' = (reconnectTimer /\ ~explicit)
        /\ readingToken' = (\/ readingToken
                            \/ ~restarting /\ transport = None /\ ~reconnectTimer')
        /\ tokenless' = (tokenless /\ ~readingToken')
        /\ UNCHANGED <<wsFailures, transport, generation, handshakeVars,
                       authTimer, heartbeatTimer, restarting, attempt>>
  /\ UNCHANGED <<shown, cached>>

\* stop: the user presses Disconnect, or the panel is destroyed.
Stop ==
  /\ desired' = FALSE
  /\ manualDisconnect' = TRUE
  /\ Release
  /\ IF transport = None
     THEN /\ shown' = Offline
          /\ UNCHANGED attempt
     ELSE /\ attempt' = ClosedBy(transport, "stop")
          /\ UNCHANGED shown
  /\ UNCHANGED <<wsFailures, startVars>>

-----------------------------------------------------------------------------
(* connect.                                                                *)

TokenFails ==
  /\ readingToken
  /\ TokenFaults
  /\ readingToken' = FALSE
  /\ tokenless' = TRUE
  /\ shown' = [shown EXCEPT !.phase = "error"]
  /\ UNCHANGED <<userVars, wsFailures, transport, generation, handshakeVars,
                 restarting, timerVars, cached, attempt>>

TokenUseless ==
  /\ readingToken
  /\ readingToken' = FALSE
  /\ \/ /\ ~CanBeginTransport
        /\ UNCHANGED <<shown, tokenless>>
     \/ /\ CanBeginTransport
        /\ Unpaired
        /\ tokenless' = TRUE
        /\ shown' = Offline
  /\ UNCHANGED <<userVars, wsFailures, transport, generation, handshakeVars,
                 restarting, timerVars, cached, attempt>>

\* Nothing of the attempt is left, its place can be taken by a new one.
Idle(a) ==
  /\ transport # a
  /\ attempt[a].stage = "over"
  /\ attempt[a].link \in {"unopened", "closed"}
  /\ attempt[a].closing = "none"
  /\ ~attempt[a].working

Begin(a) ==
  /\ readingToken
  /\ CanBeginTransport
  /\ Idle(a)
  /\ readingToken' = FALSE
  /\ transport' = a
  /\ generation' = a
  /\ handshake' = "awaitingChallenge" /\ challengeCount' = 0
  /\ shown' = [phase |-> "connecting", authenticated |-> FALSE]
  /\ authTimer' = a
  /\ attempt' = [attempt EXCEPT ![a] =
       [Gone(IF wsFailures >= 3 THEN "http" ELSE "websocket")
          EXCEPT !.stage = "snapshot", !.link = "unopened"]]
  /\ UNCHANGED <<userVars, wsFailures, restarting, reconnectTimer, heartbeatTimer, cached,
                 tokenless>>

\* The snapshot is there: the transport opens, whether the attempt is still
\* in use or has been given up.
SnapshotReady(a) ==
  /\ attempt[a].stage = "snapshot"
  /\ cached' = TRUE
  /\ attempt' = [attempt EXCEPT ![a].stage = "opening", ![a].link = "opening"]
  /\ UNCHANGED <<userVars, wsFailures, transport, generation, handshakeVars,
                 shown, tokenVars, restarting, timerVars>>

\* The catch block of connect, up to its await; s is the attempt as its
\* transport has left it.
Caught(a, s) ==
  /\ IF generation = a
     THEN /\ transport' = None
          /\ handshake' = "idle" /\ challengeCount' = 0
          /\ authTimer' = None
          /\ wsFailures' = Failures(a)
          /\ shown' = [shown EXCEPT !.phase = "error"]
          /\ attempt' = [attempt EXCEPT ![a] = [s EXCEPT !.closing = "failure"]]
     ELSE /\ attempt' = [attempt EXCEPT ![a] = s]
          /\ UNCHANGED <<wsFailures, transport, handshakeVars, authTimer, shown>>
  /\ UNCHANGED <<userVars, generation, startVars, reconnectTimer, heartbeatTimer>>

\* The queue refuses the snapshot, or the host cannot be read.
SnapshotFails(a) ==
  /\ attempt[a].stage = "snapshot"
  /\ ~cached
  /\ Caught(a, [attempt[a] EXCEPT !.stage = "over"])

\* The transport cannot be opened in time.  What is half open is closed.
ConnectFails(a) ==
  /\ attempt[a].stage \in {"opening", "greeting"}
  /\ \E link \in {"closing", "closed"} :
       /\ generation # a => link = "closed"
       /\ generation = a /\ attempt[a].kind = "http"
            => link = IF attempt[a].stage = "opening" THEN "closed" ELSE "closing"
       /\ Caught(a, [attempt[a] EXCEPT !.stage = "over", !.link = link])

\* A WebSocket is open when its hello is sent, and connect returns.  A session
\* over HTTP is open when the server has answered; connect goes on with the
\* frames of that answer.
ConnectOpens(a) ==
  LET http == attempt[a].kind = "http"
  IN /\ attempt[a].stage = "opening"
     /\ attempt' = [attempt EXCEPT ![a].stage = IF http THEN "greeting" ELSE "over",
                                   ![a].link = "open", ![a].peer = "challenged"]
     /\ shown' = IF generation = a /\ ~http
                 THEN [shown EXCEPT !.phase = "authenticating"] ELSE shown
     /\ UNCHANGED <<userVars, wsFailures, transport, generation, handshakeVars,
                    startVars, timerVars>>

-----------------------------------------------------------------------------
(* Continuations after close.                                              *)

\* The close of a connection comes to its end.
LinkCloses(a) ==
  /\ attempt[a].link = "closing"
  /\ attempt' = [attempt EXCEPT ![a].link = "closed"]
  /\ UNCHANGED <<userVars, wsFailures, transport, generation, handshakeVars,
                 shown, startVars, timerVars>>

\* What stop, sessionClosed, restartPendingConnection and the catch block of
\* connect do after they have awaited the close of their transport.
AfterClose(a) ==
  LET who == attempt[a].closing
  IN /\ who # "none"
     /\ attempt[a].link # "closing"
     /\ attempt' = [attempt EXCEPT ![a].closing = "none"]
     /\ shown' = IF who \in {"stop", "session"} THEN Offline ELSE shown
     /\ reconnectTimer' = IF who \in {"session", "failure"}
                          THEN ScheduleReconnect ELSE reconnectTimer
     /\ restarting' = (restarting /\ who # "restart")
     /\ IF who = "restart" /\ ~manualDisconnect THEN Connect ELSE UNCHANGED tokenVars
     /\ UNCHANGED <<userVars, wsFailures, transport, generation, handshakeVars,
                    authTimer, heartbeatTimer, cached>>

\* Continuations whose promise is settled.
Due(a) ==
  \/ attempt[a].closing # "none" /\ attempt[a].link # "closing"
  \/ attempt[a].stage = "snapshot" /\ cached

Continue(a) == Due(a) /\ (AfterClose(a) \/ SnapshotReady(a))

-----------------------------------------------------------------------------
(* Timers.                                                                 *)

ReconnectTimer ==
  /\ reconnectTimer
  /\ reconnectTimer' = FALSE
  /\ Connect
  /\ UNCHANGED <<userVars, wsFailures, transport, generation, handshakeVars, shown,
                 restarting, authTimer, heartbeatTimer, cached, attempt>>

AuthTimer(a) ==
  /\ authTimer = a
  /\ ~shown.authenticated
  /\ SessionClosed(a, attempt[a])
  /\ UNCHANGED <<userVars, shown, startVars>>

\* Nothing was heard for 30 s, although heartbeats were sent every 10 s.  The
\* poll loop of HTTP hears nothing while it waits for a request to be handled.
Silent(a) ==
  \/ attempt[a].peer = "hung"
  \/ attempt[a].kind = "http" /\ attempt[a].working

HeartbeatStale(a) ==
  /\ heartbeatTimer
  /\ shown.authenticated
  /\ transport = a
  /\ Silent(a)
  /\ SessionClosed(a, attempt[a])
  /\ UNCHANGED <<userVars, shown, startVars>>

\* A heartbeat over HTTP cannot be sent.
HeartbeatFails(a) ==
  /\ heartbeatTimer
  /\ shown.authenticated
  /\ transport = a
  /\ attempt[a].kind = "http"
  /\ shown' = [shown EXCEPT !.phase = "error"]
  /\ UNCHANGED <<userVars, wsFailures, transport, generation, handshakeVars,
                 startVars, timerVars, attempt>>

-----------------------------------------------------------------------------
(* Frames of the server.                                                   *)

\* A frame can arrive: over HTTP not before the one before it is handled.
Receives(a) ==
  /\ attempt[a].link = "open"
  /\ attempt[a].peer # "hung"
  /\ attempt[a].kind = "http" => ~attempt[a].working

\* The attempt when its transport reports an end.  The session of HTTP is
\* still to be left by its close.
Ended(a) ==
  IF attempt[a].kind = "http" /\ generation = a THEN attempt[a]
  ELSE [attempt[a] EXCEPT !.link = "closed", !.stage = "over"]

\* A frame is answered with an error.  A WebSocket is closed and will report
\* its end; the poll loop reports it at once.
Broken(a) ==
  /\ shown' = [shown EXCEPT !.phase = "error"]
  /\ IF attempt[a].kind = "websocket"
     THEN /\ attempt' = [attempt EXCEPT ![a].link = "failing"]
          /\ UNCHANGED <<wsFailures, transport, generation, handshakeVars, timerVars>>
     ELSE SessionClosed(a, Ended(a))
  /\ UNCHANGED <<userVars, startVars>>

\* Mutant: only the phase is looked at.
AnyChallenge == handshake \in {"awaitingChallenge", "authenticationSent"}

\* acceptChallenge does not throw.
AcceptsChallenge ==
  handshake \in {"awaitingChallenge", "authenticationSent"} /\ challengeCount < 3

\* The first challenge, or another one after a proof that was not accepted.
Challenge(a) ==
  /\ Receives(a)
  /\ attempt[a].peer \in {"challenged", "proved"}
  /\ InUse(a)
  /\ AcceptsChallenge
  /\ handshake' = "authenticationSent"
  /\ challengeCount' = challengeCount + 1
  /\ shown' = [shown EXCEPT !.phase = "authenticating"]
  /\ attempt' = [attempt EXCEPT ![a].peer = "proved",
                                ![a].stage = "over"]
  /\ UNCHANGED <<userVars, wsFailures, transport, generation, startVars, timerVars>>

\* The challenge of an attempt that was given up is not answered; connect
\* over HTTP returns and the poll loop begins.
ChallengeIgnored(a) ==
  /\ Receives(a)
  /\ attempt[a].stage = "greeting"
  /\ ~InUse(a)
  /\ attempt' = [attempt EXCEPT ![a].stage = "over"]
  /\ UNCHANGED <<userVars, wsFailures, transport, generation, handshakeVars,
                 shown, startVars, timerVars>>

Authenticated(a) ==
  /\ Receives(a)
  /\ attempt[a].peer = "proved"
  /\ InUse(a)
  /\ handshake = "authenticationSent"
  /\ handshake' = "authenticated"
  /\ authTimer' = None
  /\ heartbeatTimer' = TRUE
  /\ wsFailures' = 0
  /\ shown' = [phase |-> "authenticated", authenticated |-> TRUE]
  /\ attempt' = [attempt EXCEPT ![a].peer = "authenticated"]
  /\ UNCHANGED <<userVars, transport, generation, challengeCount, startVars, reconnectTimer>>

\* A request is handed to the router.
TakesWork(a) == InUse(a) /\ handshake = "authenticated" /\ shown.authenticated

Request(a) ==
  /\ Receives(a)
  /\ attempt[a].peer = "authenticated"
  /\ TakesWork(a)
  /\ ~attempt[a].working
  /\ attempt' = [attempt EXCEPT ![a].working = TRUE]
  /\ UNCHANGED <<userVars, wsFailures, transport, generation, handshakeVars,
                 shown, startVars, timerVars>>

\* A request or a heartbeat of the server, which knows the session as
\* authenticated, while the client does not show it as such.
WorkRefused(a) ==
  /\ Receives(a)
  /\ attempt[a].peer = "authenticated"
  /\ InUse(a)
  /\ ~TakesWork(a)
  /\ Broken(a)

\* The router has answered; the response is sent if the session is the same.
WorkEnds(a) ==
  /\ attempt[a].working
  /\ attempt' = [attempt EXCEPT ![a].working = FALSE]
  /\ UNCHANGED <<userVars, wsFailures, transport, generation, handshakeVars,
                 shown, startVars, timerVars>>

\* A frame that cannot be read, a challenge too late or too many, an error
\* frame of the server.
BadFrame(a) ==
  /\ Receives(a)
  /\ attempt[a].stage = "over"
  /\ Broken(a)

\* The connection ends: the server closes it, three polls fail, or the close
\* after a bad frame is done.  A WebSocket may end before it was open.  The
\* errors of polls are reported without a look at the generation.
OnClose(a) ==
  /\ \/ attempt[a].link \in {"open", "failing"} /\ attempt[a].stage = "over"
     \/ attempt[a].link = "opening" /\ attempt[a].kind = "websocket"
  /\ SessionClosed(a, Ended(a))
  /\ shown' = IF attempt[a].kind = "http" THEN [shown EXCEPT !.phase = "error"] ELSE shown
  /\ UNCHANGED <<userVars, startVars>>

\* The server stops without closing its connections.
PeerHangs(a) ==
  /\ Hangs
  /\ attempt[a].link = "open"
  /\ attempt[a].peer # "hung"
  /\ attempt' = [attempt EXCEPT ![a].peer = "hung"]
  /\ UNCHANGED <<userVars, wsFailures, transport, generation, handshakeVars,
                 shown, startVars, timerVars>>

-----------------------------------------------------------------------------

FrameArrives(a) ==
  \/ Challenge(a) \/ ChallengeIgnored(a) \/ Authenticated(a)
  \/ Request(a) \/ WorkRefused(a) \/ BadFrame(a)

Event ==
  \/ \E explicit \in BOOLEAN : Start(explicit)
  \/ Stop
  \/ TokenFails \/ TokenUseless
  \/ ReconnectTimer
  \/ \E a \in Attempts :
       \/ Begin(a) \/ SnapshotReady(a) \/ SnapshotFails(a)
       \/ ConnectFails(a) \/ ConnectOpens(a)
       \/ LinkCloses(a)
       \/ AuthTimer(a) \/ HeartbeatStale(a) \/ HeartbeatFails(a)
       \/ FrameArrives(a) \/ WorkEnds(a) \/ OnClose(a) \/ PeerHangs(a)

Next ==
  \/ \E a \in Attempts : Continue(a)
  \/ (\A a \in Attempts : ~Due(a)) /\ Event

Spec == Init /\ [][Next]_vars

\* What the code awaits comes to an end: storage, the queue, a close, a task
\* of the host.  Timers fire, and the server closes what was given up.
Progress ==
  \/ TokenUseless \/ ReconnectTimer
  \/ \E a \in Attempts : Begin(a) \/ Continue(a)

FairSpec ==
  /\ Spec
  /\ WF_vars(Progress)
  /\ \A a \in Attempts :
       /\ WF_vars(LinkCloses(a)) /\ WF_vars(AuthTimer(a)) /\ WF_vars(WorkEnds(a))
       /\ WF_vars(SnapshotReady(a)) /\ WF_vars(ConnectFails(a))
       /\ WF_vars(~InUse(a) /\ (ChallengeIgnored(a) \/ OnClose(a)))

-----------------------------------------------------------------------------
(* Properties.                                                             *)

\* After Disconnect the client is at rest until Connect, whatever was under
\* way when the button was pressed: nothing is in use, no timer will wake
\* it, and no token that is still being read leads to a connection.
DisconnectHolds ==
  manualDisconnect =>
    /\ ~desired /\ transport = None
    /\ ~reconnectTimer /\ authTimer = None /\ ~heartbeatTimer

\* A client that is to be connected, and has found no token missing, never
\* just sits there: something is in use or will lead to the next attempt,
\* through every order of closes, failures, retries by the user and timers.
NeverStranded ==
  desired /\ ~tokenless =>
    \/ transport # None \/ readingToken \/ reconnectTimer
    \/ \E a \in Attempts : attempt[a].closing \in {"session", "restart", "failure"}

\* The panel claims a session only while it has one or is closing it.
ClaimsOnlyProved ==
  shown.authenticated =>
    \/ transport # None /\ handshake = "authenticated"
    \/ \E a \in Attempts : attempt[a].closing \in {"session", "stop"}

\* The panel shows the session it has.
ShowsItsSession ==
  transport # None /\ handshake = "authenticated" => shown.authenticated

\* An attempt that was given up, and goes on by itself, gets neither a proof
\* of the token nor work done, and what is done is only ever for a session
\* that both sides hold to be authenticated.
AbandonedGetsNothing ==
  [][\A a \in Attempts :
       /\ attempt[a].peer # "proved" /\ attempt'[a].peer = "proved" => transport = a
       /\ ~attempt[a].working /\ attempt'[a].working =>
            /\ transport = a /\ handshake = "authenticated"
            /\ attempt[a].peer = "authenticated"]_vars

\* How the panel stands to the bridge; without a token it is off.
Standing ==
  CASE ~desired \/ tokenless -> "off"
    [] desired /\ transport = None -> "waiting"
    [] desired /\ transport # None /\ handshake # "authenticated" -> "trying"
    [] OTHER -> "online"

Contract == INSTANCE ConnectionContract WITH standing <- Standing

\* Refinement: the client goes online only by way of an attempt, and while
\* it is to be connected every wait leads to an attempt and every attempt
\* ends, in a session or in the next wait.
KeepsContract == Contract!Spec

=============================================================================
