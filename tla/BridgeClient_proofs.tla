------------------------- MODULE BridgeClient_proofs -------------------------
(***************************************************************************)
(* Proofs about BridgeClient, for every number of attempts that are alive  *)
(* at the same time and every order of what they await.                    *)
(*                                                                         *)
(* Summary reduces the handlers to a few kinds of steps, by what they do   *)
(* to the transport in use, the timers and who awaits a close.  ClientInv  *)
(* is inductive over these kinds.  Its core is that an attempt whose close *)
(* is awaited is not in use, so that the end of one attempt does not take  *)
(* away what leads to the next.                                            *)
(***************************************************************************)
EXTENDS BridgeClient, TLAPS

LEMMA ConstantFacts == None \notin Attempts
  BY ConstantsAssumption DEF ConstantsAssumption

-----------------------------------------------------------------------------
(* Types.                                                                  *)

LEMMA ClosedFacts ==
  ASSUME NEW s \in AttemptStates
  PROVE  /\ Closed(s) \in AttemptStates
         /\ Closed(s).closing = s.closing
         /\ Closed(s).stage \in {s.stage, "over"}
  BY DEF Closed, AttemptStates, Links, Stages

LEMMA GoneFacts ==
  ASSUME NEW kind \in {"websocket", "http"}
  PROVE  Gone(kind) \in AttemptStates
  BY DEF Gone, AttemptStates, Stages, Links, Peers, Closers

\* The types of the fields, without the attempts and what the panel shows.
FieldsTyped ==
  /\ wsFailures \in 0 .. 3
  /\ transport \in Attempts \cup {None}
  /\ generation \in Attempts \cup {None}
  /\ handshake \in HandshakePhases
  /\ challengeCount \in 0 .. 3
  /\ authTimer \in Attempts \cup {None}

FlagsTyped ==
  /\ desired \in BOOLEAN /\ manualDisconnect \in BOOLEAN
  /\ readingToken \in BOOLEAN /\ restarting \in BOOLEAN
  /\ reconnectTimer \in BOOLEAN /\ heartbeatTimer \in BOOLEAN
  /\ cached \in BOOLEAN
  /\ tokenless \in BOOLEAN

LEMMA FailuresType ==
  ASSUME FieldsTyped, NEW a
  PROVE  Failures(a) \in 0 .. 3
  BY DEF FieldsTyped, Failures

LEMMA ReleaseTypes ==
  ASSUME FieldsTyped, Release
  PROVE  /\ transport' \in Attempts \cup {None} /\ generation' \in Attempts \cup {None}
         /\ handshake' \in HandshakePhases /\ challengeCount' \in 0 .. 3
         /\ authTimer' \in Attempts \cup {None}
  BY DEF Release, HandshakePhases

LEMMA SessionClosedTypes ==
  ASSUME FieldsTyped, NEW a, NEW s, SessionClosed(a, s)
  PROVE  FieldsTyped'
<1>1. CASE generation = a
  BY <1>1, ReleaseTypes, FailuresType DEF SessionClosed, FieldsTyped
<1>2. CASE generation # a
  BY <1>2 DEF SessionClosed, FieldsTyped, handshakeVars, timerVars
<1> QED
  BY <1>1, <1>2

LEMMA FieldsNext ==
  ASSUME FieldsTyped, Next
  PROVE  FieldsTyped'
<1> USE DEF FieldsTyped, userVars, handshakeVars, timerVars, tokenVars, startVars, HandshakePhases
<1>1. ASSUME NEW explicit \in BOOLEAN, Start(explicit)
     PROVE  FieldsTyped'
  BY <1>1, FailuresType, ReleaseTypes, SessionClosedTypes DEF Start
<1>2. ASSUME Stop
     PROVE  FieldsTyped'
  BY <1>2, FailuresType, ReleaseTypes, SessionClosedTypes DEF Stop
<1>3. ASSUME TokenFails
     PROVE  FieldsTyped'
  BY <1>3, FailuresType, ReleaseTypes, SessionClosedTypes DEF TokenFails
<1>4. ASSUME TokenUseless
     PROVE  FieldsTyped'
  BY <1>4, FailuresType, ReleaseTypes, SessionClosedTypes DEF TokenUseless
<1>5. ASSUME ReconnectTimer
     PROVE  FieldsTyped'
  BY <1>5, FailuresType, ReleaseTypes, SessionClosedTypes DEF ReconnectTimer, Connect, CanBeginTransport
<1>6. ASSUME NEW a \in Attempts, AfterClose(a)
     PROVE  FieldsTyped'
  BY <1>6, FailuresType, ReleaseTypes, SessionClosedTypes DEF AfterClose, Connect, CanBeginTransport, ScheduleReconnect
<1>7. ASSUME NEW a \in Attempts, SnapshotReady(a)
     PROVE  FieldsTyped'
  BY <1>7, FailuresType, ReleaseTypes, SessionClosedTypes DEF SnapshotReady
<1>8. ASSUME NEW a \in Attempts, Begin(a)
     PROVE  FieldsTyped'
  BY <1>8, FailuresType, ReleaseTypes, SessionClosedTypes DEF Begin
<1>9. ASSUME NEW a \in Attempts, SnapshotFails(a)
     PROVE  FieldsTyped'
  BY <1>9, FailuresType, ReleaseTypes, SessionClosedTypes DEF SnapshotFails, Caught
<1>10. ASSUME NEW a \in Attempts, ConnectFails(a)
     PROVE  FieldsTyped'
  BY <1>10, FailuresType, ReleaseTypes, SessionClosedTypes DEF ConnectFails, Caught
<1>11. ASSUME NEW a \in Attempts, ConnectOpens(a)
     PROVE  FieldsTyped'
  BY <1>11, FailuresType, ReleaseTypes, SessionClosedTypes DEF ConnectOpens
<1>12. ASSUME NEW a \in Attempts, LinkCloses(a)
     PROVE  FieldsTyped'
  BY <1>12, FailuresType, ReleaseTypes, SessionClosedTypes DEF LinkCloses
<1>13. ASSUME NEW a \in Attempts, AuthTimer(a)
     PROVE  FieldsTyped'
  BY <1>13, FailuresType, ReleaseTypes, SessionClosedTypes DEF AuthTimer
<1>14. ASSUME NEW a \in Attempts, HeartbeatStale(a)
     PROVE  FieldsTyped'
  BY <1>14, FailuresType, ReleaseTypes, SessionClosedTypes DEF HeartbeatStale
<1>15. ASSUME NEW a \in Attempts, HeartbeatFails(a)
     PROVE  FieldsTyped'
  BY <1>15, FailuresType, ReleaseTypes, SessionClosedTypes DEF HeartbeatFails
<1>16. ASSUME NEW a \in Attempts, Challenge(a)
     PROVE  FieldsTyped'
  BY <1>16, FailuresType, ReleaseTypes, SessionClosedTypes DEF Challenge, AcceptsChallenge
<1>17. ASSUME NEW a \in Attempts, ChallengeIgnored(a)
     PROVE  FieldsTyped'
  BY <1>17, FailuresType, ReleaseTypes, SessionClosedTypes DEF ChallengeIgnored
<1>18. ASSUME NEW a \in Attempts, Authenticated(a)
     PROVE  FieldsTyped'
  BY <1>18, FailuresType, ReleaseTypes, SessionClosedTypes DEF Authenticated
<1>19. ASSUME NEW a \in Attempts, Request(a)
     PROVE  FieldsTyped'
  BY <1>19, FailuresType, ReleaseTypes, SessionClosedTypes DEF Request
<1>20. ASSUME NEW a \in Attempts, WorkRefused(a)
     PROVE  FieldsTyped'
  BY <1>20, FailuresType, ReleaseTypes, SessionClosedTypes DEF WorkRefused, Broken
<1>21. ASSUME NEW a \in Attempts, BadFrame(a)
     PROVE  FieldsTyped'
  BY <1>21, FailuresType, ReleaseTypes, SessionClosedTypes DEF BadFrame, Broken
<1>22. ASSUME NEW a \in Attempts, WorkEnds(a)
     PROVE  FieldsTyped'
  BY <1>22, FailuresType, ReleaseTypes, SessionClosedTypes DEF WorkEnds
<1>23. ASSUME NEW a \in Attempts, OnClose(a)
     PROVE  FieldsTyped'
  BY <1>23, FailuresType, ReleaseTypes, SessionClosedTypes DEF OnClose
<1>24. ASSUME NEW a \in Attempts, PeerHangs(a)
     PROVE  FieldsTyped'
  BY <1>24, FailuresType, ReleaseTypes, SessionClosedTypes DEF PeerHangs
<1> QED
  BY <1>1, <1>2, <1>3, <1>4, <1>5, <1>6, <1>7, <1>8, <1>9, <1>10, <1>11, <1>12, <1>13, <1>14, <1>15, <1>16, <1>17, <1>18, <1>19, <1>20, <1>21, <1>22, <1>23, <1>24 DEF Next, Event, Continue, FrameArrives

LEMMA FlagsNext ==
  ASSUME FlagsTyped, Next
  PROVE  FlagsTyped'
<1> USE DEF FlagsTyped, userVars, timerVars, tokenVars, startVars
<1>1. ASSUME NEW explicit \in BOOLEAN, Start(explicit)
     PROVE  FlagsTyped'
  BY <1>1, Zenon DEF Start, Release
<1>2. ASSUME Stop
     PROVE  FlagsTyped'
  BY <1>2, Zenon DEF Stop, Release
<1>3. ASSUME TokenFails
     PROVE  FlagsTyped'
  BY <1>3, Zenon DEF TokenFails
<1>4. ASSUME TokenUseless
     PROVE  FlagsTyped'
  BY <1>4, Zenon DEF TokenUseless
<1>5. ASSUME ReconnectTimer
     PROVE  FlagsTyped'
  BY <1>5, Zenon DEF ReconnectTimer, Connect, CanBeginTransport
<1>6. ASSUME NEW a \in Attempts, AfterClose(a)
     PROVE  FlagsTyped'
  BY <1>6, Zenon DEF AfterClose, Connect, CanBeginTransport, ScheduleReconnect
<1>7. ASSUME NEW a \in Attempts, SnapshotReady(a)
     PROVE  FlagsTyped'
  BY <1>7, Zenon DEF SnapshotReady
<1>8. ASSUME NEW a \in Attempts, Begin(a)
     PROVE  FlagsTyped'
  BY <1>8, Zenon DEF Begin
<1>9. ASSUME NEW a \in Attempts, SnapshotFails(a)
     PROVE  FlagsTyped'
  BY <1>9, Zenon DEF SnapshotFails, Caught
<1>10. ASSUME NEW a \in Attempts, ConnectFails(a)
     PROVE  FlagsTyped'
  BY <1>10, Zenon DEF ConnectFails, Caught
<1>11. ASSUME NEW a \in Attempts, ConnectOpens(a)
     PROVE  FlagsTyped'
  BY <1>11, Zenon DEF ConnectOpens
<1>12. ASSUME NEW a \in Attempts, LinkCloses(a)
     PROVE  FlagsTyped'
  BY <1>12, Zenon DEF LinkCloses
<1>13. ASSUME NEW a \in Attempts, AuthTimer(a)
     PROVE  FlagsTyped'
  BY <1>13, Zenon DEF AuthTimer, SessionClosed, Release
<1>14. ASSUME NEW a \in Attempts, HeartbeatStale(a)
     PROVE  FlagsTyped'
  BY <1>14, Zenon DEF HeartbeatStale, SessionClosed, Release
<1>15. ASSUME NEW a \in Attempts, HeartbeatFails(a)
     PROVE  FlagsTyped'
  BY <1>15, Zenon DEF HeartbeatFails
<1>16. ASSUME NEW a \in Attempts, Challenge(a)
     PROVE  FlagsTyped'
  BY <1>16, Zenon DEF Challenge
<1>17. ASSUME NEW a \in Attempts, ChallengeIgnored(a)
     PROVE  FlagsTyped'
  BY <1>17, Zenon DEF ChallengeIgnored
<1>18. ASSUME NEW a \in Attempts, Authenticated(a)
     PROVE  FlagsTyped'
  BY <1>18, Zenon DEF Authenticated
<1>19. ASSUME NEW a \in Attempts, Request(a)
     PROVE  FlagsTyped'
  BY <1>19, Zenon DEF Request
<1>20. ASSUME NEW a \in Attempts, WorkRefused(a)
     PROVE  FlagsTyped'
  BY <1>20, Zenon DEF WorkRefused, Broken, SessionClosed, Release
<1>21. ASSUME NEW a \in Attempts, BadFrame(a)
     PROVE  FlagsTyped'
  BY <1>21, Zenon DEF BadFrame, Broken, SessionClosed, Release
<1>22. ASSUME NEW a \in Attempts, WorkEnds(a)
     PROVE  FlagsTyped'
  BY <1>22, Zenon DEF WorkEnds
<1>23. ASSUME NEW a \in Attempts, OnClose(a)
     PROVE  FlagsTyped'
  BY <1>23, Zenon DEF OnClose, SessionClosed, Release
<1>24. ASSUME NEW a \in Attempts, PeerHangs(a)
     PROVE  FlagsTyped'
  BY <1>24, Zenon DEF PeerHangs
<1> QED
  BY <1>1, <1>2, <1>3, <1>4, <1>5, <1>6, <1>7, <1>8, <1>9, <1>10, <1>11, <1>12, <1>13, <1>14, <1>15, <1>16, <1>17, <1>18, <1>19, <1>20, <1>21, <1>22, <1>23, <1>24 DEF Next, Event, Continue, FrameArrives


AttemptsTyped == attempt \in [Attempts -> AttemptStates]

\* Every step changes at most one attempt.
LEMMA AttemptsNext ==
  ASSUME TypeOK, Next
  PROVE  AttemptsTyped'
<1> USE DEF AttemptsTyped
<1>0. attempt \in [Attempts -> AttemptStates] /\ transport \in Attempts \cup {None}
  BY DEF TypeOK
<1>f. ASSUME NEW a \in Attempts
      PROVE  attempt[a] \in AttemptStates
  BY <1>0
<1>a. ASSUME NEW a \in Attempts
      PROVE  /\ attempt[a] \in AttemptStates
             /\ Closed(attempt[a]) \in AttemptStates
             /\ Ended(a) \in AttemptStates
             /\ Closed(Ended(a)) \in AttemptStates
  <2>1. attempt[a] \in AttemptStates
    BY <1>0
  <2>2. Ended(a) \in AttemptStates
    BY <2>1 DEF Ended, AttemptStates, Stages, Links
  <2> QED
    BY <2>1, <2>2, ClosedFacts
<1>b. ASSUME NEW a \in Attempts, NEW who \in Closers
      PROVE  ClosedBy(a, who) \in [Attempts -> AttemptStates]
  <2>1. [Closed(attempt[a]) EXCEPT !.closing = who] \in AttemptStates
    BY <1>a DEF AttemptStates
  <2> QED
    BY <1>0, <2>1 DEF ClosedBy
<1>c. ASSUME NEW a \in Attempts, NEW s \in AttemptStates, SessionClosed(a, s)
      PROVE  AttemptsTyped'
  <2>1. [Closed(s) EXCEPT !.closing = "session"] \in AttemptStates
    BY ClosedFacts DEF AttemptStates, Closers
  <2> QED
    BY <1>0, <1>c, <2>1 DEF SessionClosed
<1>d. ASSUME NEW a \in Attempts, NEW s \in AttemptStates, Caught(a, s)
      PROVE  AttemptsTyped'
  <2>1. [s EXCEPT !.closing = "failure"] \in AttemptStates
    BY DEF AttemptStates, Closers
  <2> QED
    BY <1>0, <1>d, <2>1 DEF Caught
<1>e. ASSUME NEW a \in Attempts, Broken(a)
      PROVE  AttemptsTyped'
  <2>1. CASE attempt[a].kind = "websocket"
    BY <1>0, <1>a, <1>e, <2>1 DEF Broken, AttemptStates, Links
  <2>2. CASE attempt[a].kind # "websocket"
    BY <1>a, <1>c, <1>e, <2>2 DEF Broken
  <2> QED
    BY <2>1, <2>2
<1>1. ASSUME NEW explicit \in BOOLEAN, Start(explicit)
     PROVE  AttemptsTyped'
  BY <1>0, <1>b, <1>1 DEF Start, Closers
<1>2. ASSUME Stop
     PROVE  AttemptsTyped'
  BY <1>0, <1>b, <1>2 DEF Stop, Closers
<1>3. ASSUME TokenFails
     PROVE  AttemptsTyped'
  BY <1>0, <1>3 DEF TokenFails
<1>4. ASSUME TokenUseless
     PROVE  AttemptsTyped'
  BY <1>0, <1>4 DEF TokenUseless
<1>5. ASSUME ReconnectTimer
     PROVE  AttemptsTyped'
  BY <1>0, <1>5 DEF ReconnectTimer
<1>6. ASSUME NEW a \in Attempts, AfterClose(a)
     PROVE  AttemptsTyped'
  <2>1. [attempt[a] EXCEPT !.closing = "none"] \in AttemptStates
    BY <1>f DEF AttemptStates, Stages, Links, Peers, Closers
  <2> QED
    BY <1>0, <1>6, <2>1 DEF AfterClose
<1>7. ASSUME NEW a \in Attempts, SnapshotReady(a)
     PROVE  AttemptsTyped'
  <2>1. [attempt[a] EXCEPT !.stage = "opening", !.link = "opening"] \in AttemptStates
    BY <1>f DEF AttemptStates, Stages, Links, Peers, Closers
  <2> QED
    BY <1>0, <1>7, <2>1 DEF SnapshotReady
<1>8. ASSUME NEW a \in Attempts, Begin(a)
     PROVE  AttemptsTyped'
  BY <1>0, GoneFacts, <1>8 DEF Begin, AttemptStates, Stages, Links
<1>9. ASSUME NEW a \in Attempts, SnapshotFails(a)
     PROVE  AttemptsTyped'
  <2>1. [attempt[a] EXCEPT !.stage = "over"] \in AttemptStates
    BY <1>a DEF AttemptStates, Stages
  <2> QED
    BY <1>d, <1>9, <2>1 DEF SnapshotFails
<1>10. ASSUME NEW a \in Attempts, ConnectFails(a)
     PROVE  AttemptsTyped'
  <2>1. PICK link \in {"closing", "closed"} :
          Caught(a, [attempt[a] EXCEPT !.stage = "over", !.link = link])
    BY <1>10 DEF ConnectFails
  <2>2. [attempt[a] EXCEPT !.stage = "over", !.link = link] \in AttemptStates
    BY <1>a, ZenonT(60) DEF AttemptStates, Stages, Links
  <2> QED
    BY <1>d, <2>1, <2>2
<1>11. ASSUME NEW a \in Attempts, ConnectOpens(a)
     PROVE  AttemptsTyped'
  <2>1. [attempt[a] EXCEPT !.stage = IF attempt[a].kind = "http" THEN "greeting" ELSE "over",
                           !.link = "open", !.peer = "challenged"] \in AttemptStates
    BY <1>f DEF AttemptStates, Stages, Links, Peers, Closers
  <2> QED
    BY <1>0, <1>11, <2>1 DEF ConnectOpens
<1>12. ASSUME NEW a \in Attempts, LinkCloses(a)
     PROVE  AttemptsTyped'
  <2>1. [attempt[a] EXCEPT !.link = "closed"] \in AttemptStates
    BY <1>f DEF AttemptStates, Stages, Links, Peers, Closers
  <2> QED
    BY <1>0, <1>12, <2>1 DEF LinkCloses
<1>13. ASSUME NEW a \in Attempts, AuthTimer(a)
     PROVE  AttemptsTyped'
  BY <1>a, <1>c, <1>13 DEF AuthTimer
<1>14. ASSUME NEW a \in Attempts, HeartbeatStale(a)
     PROVE  AttemptsTyped'
  BY <1>a, <1>c, <1>14 DEF HeartbeatStale
<1>15. ASSUME NEW a \in Attempts, HeartbeatFails(a)
     PROVE  AttemptsTyped'
  BY <1>0, <1>15 DEF HeartbeatFails
<1>16. ASSUME NEW a \in Attempts, Challenge(a)
     PROVE  AttemptsTyped'
  <2>1. [attempt[a] EXCEPT !.peer = "proved", !.stage = "over"] \in AttemptStates
    BY <1>f DEF AttemptStates, Stages, Links, Peers, Closers
  <2> QED
    BY <1>0, <1>16, <2>1 DEF Challenge
<1>17. ASSUME NEW a \in Attempts, ChallengeIgnored(a)
     PROVE  AttemptsTyped'
  <2>1. [attempt[a] EXCEPT !.stage = "over"] \in AttemptStates
    BY <1>f DEF AttemptStates, Stages, Links, Peers, Closers
  <2> QED
    BY <1>0, <1>17, <2>1 DEF ChallengeIgnored
<1>18. ASSUME NEW a \in Attempts, Authenticated(a)
     PROVE  AttemptsTyped'
  <2>1. [attempt[a] EXCEPT !.peer = "authenticated"] \in AttemptStates
    BY <1>f DEF AttemptStates, Stages, Links, Peers, Closers
  <2> QED
    BY <1>0, <1>18, <2>1 DEF Authenticated
<1>19. ASSUME NEW a \in Attempts, Request(a)
     PROVE  AttemptsTyped'
  <2>1. [attempt[a] EXCEPT !.working = TRUE] \in AttemptStates
    BY <1>f DEF AttemptStates, Stages, Links, Peers, Closers
  <2> QED
    BY <1>0, <1>19, <2>1 DEF Request
<1>20. ASSUME NEW a \in Attempts, WorkRefused(a)
     PROVE  AttemptsTyped'
  BY <1>e, <1>20 DEF WorkRefused
<1>21. ASSUME NEW a \in Attempts, BadFrame(a)
     PROVE  AttemptsTyped'
  BY <1>e, <1>21 DEF BadFrame
<1>22. ASSUME NEW a \in Attempts, WorkEnds(a)
     PROVE  AttemptsTyped'
  <2>1. [attempt[a] EXCEPT !.working = FALSE] \in AttemptStates
    BY <1>f DEF AttemptStates, Stages, Links, Peers, Closers
  <2> QED
    BY <1>0, <1>22, <2>1 DEF WorkEnds
<1>23. ASSUME NEW a \in Attempts, OnClose(a)
     PROVE  AttemptsTyped'
  BY <1>a, <1>c, <1>23 DEF OnClose
<1>24. ASSUME NEW a \in Attempts, PeerHangs(a)
     PROVE  AttemptsTyped'
  <2>1. [attempt[a] EXCEPT !.peer = "hung"] \in AttemptStates
    BY <1>f DEF AttemptStates, Stages, Links, Peers, Closers
  <2> QED
    BY <1>0, <1>24, <2>1 DEF PeerHangs
<1> QED
  BY <1>1, <1>2, <1>3, <1>4, <1>5, <1>6, <1>7, <1>8, <1>9, <1>10, <1>11, <1>12, <1>13, <1>14, <1>15, <1>16, <1>17, <1>18, <1>19, <1>20, <1>21, <1>22, <1>23, <1>24 DEF Next, Event, Continue, FrameArrives

ShownTyped == shown \in [phase : Phases, authenticated : BOOLEAN]

LEMMA ShownNext ==
  ASSUME ShownTyped, Next
  PROVE  ShownTyped'
<1> USE DEF ShownTyped, Phases
<1>0. Offline \in [phase : Phases, authenticated : BOOLEAN]
  BY DEF Offline
<1>1. ASSUME NEW explicit \in BOOLEAN, Start(explicit)
     PROVE  ShownTyped'
  BY <1>0, <1>1 DEF Start
<1>2. ASSUME Stop
     PROVE  ShownTyped'
  BY <1>0, <1>2 DEF Stop
<1>3. ASSUME TokenFails
     PROVE  ShownTyped'
  BY <1>0, <1>3 DEF TokenFails
<1>4. ASSUME TokenUseless
     PROVE  ShownTyped'
  BY <1>0, <1>4 DEF TokenUseless
<1>5. ASSUME ReconnectTimer
     PROVE  ShownTyped'
  BY <1>0, <1>5 DEF ReconnectTimer
<1>6. ASSUME NEW a \in Attempts, AfterClose(a)
     PROVE  ShownTyped'
  BY <1>0, <1>6 DEF AfterClose
<1>7. ASSUME NEW a \in Attempts, SnapshotReady(a)
     PROVE  ShownTyped'
  BY <1>0, <1>7 DEF SnapshotReady
<1>8. ASSUME NEW a \in Attempts, Begin(a)
     PROVE  ShownTyped'
  BY <1>0, <1>8 DEF Begin
<1>9. ASSUME NEW a \in Attempts, SnapshotFails(a)
     PROVE  ShownTyped'
  BY <1>0, <1>9 DEF SnapshotFails, Caught
<1>10. ASSUME NEW a \in Attempts, ConnectFails(a)
     PROVE  ShownTyped'
  BY <1>0, <1>10 DEF ConnectFails, Caught
<1>11. ASSUME NEW a \in Attempts, ConnectOpens(a)
     PROVE  ShownTyped'
  BY <1>0, <1>11 DEF ConnectOpens
<1>12. ASSUME NEW a \in Attempts, LinkCloses(a)
     PROVE  ShownTyped'
  BY <1>0, <1>12 DEF LinkCloses
<1>13. ASSUME NEW a \in Attempts, AuthTimer(a)
     PROVE  ShownTyped'
  BY <1>0, <1>13 DEF AuthTimer
<1>14. ASSUME NEW a \in Attempts, HeartbeatStale(a)
     PROVE  ShownTyped'
  BY <1>0, <1>14 DEF HeartbeatStale
<1>15. ASSUME NEW a \in Attempts, HeartbeatFails(a)
     PROVE  ShownTyped'
  BY <1>0, <1>15 DEF HeartbeatFails
<1>16. ASSUME NEW a \in Attempts, Challenge(a)
     PROVE  ShownTyped'
  BY <1>0, <1>16 DEF Challenge
<1>17. ASSUME NEW a \in Attempts, ChallengeIgnored(a)
     PROVE  ShownTyped'
  BY <1>0, <1>17 DEF ChallengeIgnored
<1>18. ASSUME NEW a \in Attempts, Authenticated(a)
     PROVE  ShownTyped'
  BY <1>0, <1>18 DEF Authenticated
<1>19. ASSUME NEW a \in Attempts, Request(a)
     PROVE  ShownTyped'
  BY <1>0, <1>19 DEF Request
<1>20. ASSUME NEW a \in Attempts, WorkRefused(a)
     PROVE  ShownTyped'
  BY <1>0, <1>20 DEF WorkRefused, Broken
<1>21. ASSUME NEW a \in Attempts, BadFrame(a)
     PROVE  ShownTyped'
  BY <1>0, <1>21 DEF BadFrame, Broken
<1>22. ASSUME NEW a \in Attempts, WorkEnds(a)
     PROVE  ShownTyped'
  BY <1>0, <1>22 DEF WorkEnds
<1>23. ASSUME NEW a \in Attempts, OnClose(a)
     PROVE  ShownTyped'
  BY <1>0, <1>23 DEF OnClose
<1>24. ASSUME NEW a \in Attempts, PeerHangs(a)
     PROVE  ShownTyped'
  BY <1>0, <1>24 DEF PeerHangs
<1> QED
  BY <1>1, <1>2, <1>3, <1>4, <1>5, <1>6, <1>7, <1>8, <1>9, <1>10, <1>11, <1>12, <1>13, <1>14, <1>15, <1>16, <1>17, <1>18, <1>19, <1>20, <1>21, <1>22, <1>23, <1>24 DEF Next, Event, Continue, FrameArrives

LEMMA TypeInit == Init => TypeOK
<1> SUFFICES ASSUME Init
             PROVE  TypeOK
  OBVIOUS
<1>1. attempt \in [Attempts -> AttemptStates]
  BY GoneFacts DEF Init
<1>2. shown \in [phase : Phases, authenticated : BOOLEAN]
  BY DEF Init, Phases
<1>3. FlagsTyped
  BY Zenon DEF Init, FlagsTyped
<1>4. FieldsTyped
  BY DEF Init, FieldsTyped, HandshakePhases
<1> QED
  BY <1>1, <1>2, <1>3, <1>4 DEF TypeOK, FlagsTyped, FieldsTyped

LEMMA TypeNext ==
  ASSUME TypeOK, Next
  PROVE  TypeOK'
<1>1. FieldsTyped /\ FlagsTyped /\ ShownTyped
  BY DEF TypeOK, FieldsTyped, FlagsTyped, ShownTyped
<1> QED
  BY <1>1, FieldsNext, FlagsNext, AttemptsNext, ShownNext
     DEF TypeOK, FieldsTyped, FlagsTyped, AttemptsTyped, ShownTyped

-----------------------------------------------------------------------------
(* Kinds of steps.                                                         *)

SameFlags == UNCHANGED <<desired, manualDisconnect, readingToken, tokenless, restarting>>

\* Who awaits a close is as before, but for one attempt.
Closes(a, who) ==
  /\ attempt'[a].closing = who
  /\ \A b \in Attempts \ {a} : attempt'[b].closing = attempt[b].closing

ClosingsKept == \A b \in Attempts : attempt'[b].closing = attempt[b].closing

OverKept == \A b \in Attempts : attempt[b].stage = "over" => attempt'[b].stage = "over"

ClaimKept == shown'.authenticated = shown.authenticated

\* No attempt gets a proof or work.
NothingGained ==
  \A b \in Attempts : /\ attempt'[b].peer = "proved" => attempt[b].peer = "proved"
                      /\ attempt'[b].working => attempt[b].working

\* A step inside an attempt, in use or given up.
Quiet ==
  /\ SameFlags
  /\ UNCHANGED <<transport, generation, handshake, timerVars>>
  /\ ClosingsKept /\ OverKept /\ ClaimKept

\* The session in use ends.
SessionEnds(a) ==
  /\ generation = a
  /\ SameFlags /\ Release
  /\ Closes(a, "session") /\ ClaimKept

\* The attempt in use fails.
AttemptFails(a) ==
  /\ generation = a
  /\ attempt[a].stage # "over"
  /\ SameFlags
  /\ transport' = None /\ handshake' = "idle" /\ authTimer' = None
  /\ UNCHANGED <<generation, reconnectTimer, heartbeatTimer>>
  /\ Closes(a, "failure") /\ ClaimKept

\* Steps that begin something; they are looked at one by one.
Beginning ==
  \/ \E explicit \in BOOLEAN : Start(explicit)
  \/ Stop \/ TokenFails \/ TokenUseless \/ ReconnectTimer
  \/ \E a \in Attempts : Begin(a) \/ AfterClose(a) \/ Authenticated(a)

LEMMA SessionClosedKind ==
  ASSUME TypeOK, NEW a \in Attempts, NEW s \in AttemptStates,
         s.closing = attempt[a].closing, s.stage \in {attempt[a].stage, "over"},
         s.peer = attempt[a].peer, s.working = attempt[a].working,
         SessionClosed(a, s), UNCHANGED <<userVars, startVars>>, ClaimKept
  PROVE  NothingGained /\ (Quiet \/ SessionEnds(a))
<1>0. attempt \in [Attempts -> AttemptStates]
  BY DEF TypeOK
<1>1. SameFlags
  BY DEF SameFlags, userVars, startVars, tokenVars
<1>2. CASE generation = a
  <2>1. /\ Release
        /\ attempt' = [attempt EXCEPT ![a] = [Closed(s) EXCEPT !.closing = "session"]]
    BY <1>2 DEF SessionClosed
  <2>2. Closed(s).peer = s.peer /\ Closed(s).working = s.working
    BY DEF Closed, AttemptStates
  <2>3. /\ Closed(s) \in AttemptStates
        /\ [Closed(s) EXCEPT !.closing = "session"].closing = "session"
        /\ [Closed(s) EXCEPT !.closing = "session"].peer = s.peer
        /\ [Closed(s) EXCEPT !.closing = "session"].working = s.working
    BY <2>2, ClosedFacts DEF AttemptStates
  <2>4. Closes(a, "session") /\ NothingGained
    BY <1>0, <2>1, <2>3 DEF Closes, NothingGained
  <2> QED
    BY <1>1, <1>2, <2>1, <2>4 DEF SessionEnds
<1>3. CASE generation # a
  <2>1. /\ attempt' = [attempt EXCEPT ![a] = s]
        /\ UNCHANGED <<transport, generation, handshake, timerVars>>
    BY <1>3 DEF SessionClosed, handshakeVars
  <2>2. ClosingsKept /\ OverKept /\ NothingGained
    BY <1>0, <2>1 DEF ClosingsKept, OverKept, NothingGained
  <2> QED
    BY <1>1, <2>1, <2>2 DEF Quiet
<1> QED
  BY <1>2, <1>3

LEMMA CaughtKind ==
  ASSUME TypeOK, NEW a \in Attempts, NEW s \in AttemptStates,
         s.closing = attempt[a].closing, s.stage = "over", attempt[a].stage # "over",
         s.peer = attempt[a].peer, s.working = attempt[a].working,
         Caught(a, s)
  PROVE  NothingGained /\ (Quiet \/ AttemptFails(a))
<1>0. attempt \in [Attempts -> AttemptStates] /\ ClaimKept
  BY DEF TypeOK, Caught, ClaimKept
<1>1. SameFlags /\ UNCHANGED <<generation, reconnectTimer, heartbeatTimer>>
  BY DEF Caught, SameFlags, userVars, startVars, tokenVars
<1>2. CASE generation = a
  <2>1. /\ transport' = None /\ handshake' = "idle" /\ authTimer' = None
        /\ attempt' = [attempt EXCEPT ![a] = [s EXCEPT !.closing = "failure"]]
    BY <1>2 DEF Caught
  <2>2. /\ [s EXCEPT !.closing = "failure"].closing = "failure"
        /\ [s EXCEPT !.closing = "failure"].peer = s.peer
        /\ [s EXCEPT !.closing = "failure"].working = s.working
    BY DEF AttemptStates
  <2>3. Closes(a, "failure") /\ NothingGained
    BY <1>0, <2>1, <2>2 DEF Closes, NothingGained
  <2> QED
    BY <1>0, <1>1, <1>2, <2>1, <2>3 DEF AttemptFails
<1>3. CASE generation # a
  <2>1. /\ attempt' = [attempt EXCEPT ![a] = s]
        /\ UNCHANGED <<transport, generation, handshake, timerVars>>
    BY <1>1, <1>3 DEF Caught, handshakeVars, timerVars
  <2>2. ClosingsKept /\ OverKept /\ NothingGained
    BY <1>0, <2>1 DEF ClosingsKept, OverKept, NothingGained
  <2> QED
    BY <1>0, <1>1, <2>1, <2>2 DEF Quiet
<1> QED
  BY <1>2, <1>3

\* The answer to a challenge, the one step that leads to a proof.
Proving(a) ==
  /\ InUse(a)
  /\ SameFlags /\ UNCHANGED <<transport, generation, timerVars>>
  /\ handshake \in {"awaitingChallenge", "authenticationSent"}
  /\ handshake' = "authenticationSent"
  /\ attempt'[a].stage = "over"
  /\ ClosingsKept /\ OverKept /\ ClaimKept
  /\ \A b \in Attempts : /\ b # a => attempt'[b].peer = attempt[b].peer
                         /\ attempt'[b].working = attempt[b].working

\* A request is taken, the one step that begins work.
Working(a) ==
  /\ Quiet
  /\ TakesWork(a) /\ attempt[a].peer = "authenticated"
  /\ \A b \in Attempts : /\ attempt'[b].peer = attempt[b].peer
                         /\ b # a => attempt'[b].working = attempt[b].working

LEMMA ReadsQuietly ==
  ASSUME TypeOK, NEW a \in Attempts, NEW s \in AttemptStates,
         attempt' = [attempt EXCEPT ![a] = s],
         s.closing = attempt[a].closing, attempt[a].stage = "over" => s.stage = "over",
         SameFlags, UNCHANGED <<transport, generation, handshake, timerVars>>, ClaimKept
  PROVE  /\ Quiet
         /\ (s.peer = "proved" => attempt[a].peer = "proved") /\ (s.working => attempt[a].working)
              => NothingGained
  BY DEF TypeOK, Quiet, ClosingsKept, OverKept, NothingGained

LEMMA BeginningGainsNothing ==
  ASSUME TypeOK, Beginning
  PROVE  NothingGained
<1>0. attempt \in [Attempts -> AttemptStates] /\ transport \in Attempts \cup {None}
  BY DEF TypeOK
<1>1. ASSUME NEW a \in Attempts, NEW s, attempt' = [attempt EXCEPT ![a] = s],
             s.peer = "proved" => attempt[a].peer = "proved", s.working => attempt[a].working
      PROVE  NothingGained
  BY <1>0, <1>1 DEF NothingGained
<1>2. ASSUME UNCHANGED attempt
      PROVE  NothingGained
  BY <1>2 DEF NothingGained
<1>3. ASSUME NEW a \in Attempts, NEW who \in Closers, attempt' = ClosedBy(a, who)
      PROVE  NothingGained
  <2>0. attempt[a] \in AttemptStates
    BY <1>0
  <2>1. /\ [Closed(attempt[a]) EXCEPT !.closing = who].peer = attempt[a].peer
        /\ [Closed(attempt[a]) EXCEPT !.closing = who].working = attempt[a].working
    BY <2>0 DEF Closed, AttemptStates
  <2> QED
    BY <1>1, <1>3, <2>1 DEF ClosedBy
<1>4. ASSUME NEW explicit \in BOOLEAN, Start(explicit)
      PROVE  NothingGained
  BY <1>0, <1>2, <1>3, <1>4 DEF Start, Closers
<1>5. CASE Stop
  BY <1>0, <1>2, <1>3, <1>5 DEF Stop, Closers
<1>6. CASE TokenFails \/ TokenUseless \/ ReconnectTimer
  BY <1>2, <1>6 DEF TokenFails, TokenUseless, ReconnectTimer
<1>7. ASSUME NEW a \in Attempts, Begin(a)
      PROVE  NothingGained
  <2>1. PICK kind \in {"websocket", "http"} :
          attempt' = [attempt EXCEPT ![a] = [Gone(kind) EXCEPT !.stage = "snapshot", !.link = "unopened"]]
    BY <1>7 DEF Begin
  <2>2. /\ [Gone(kind) EXCEPT !.stage = "snapshot", !.link = "unopened"].peer = "waiting"
        /\ [Gone(kind) EXCEPT !.stage = "snapshot", !.link = "unopened"].working = FALSE
    BY DEF Gone
  <2> QED
    BY <1>1, <2>1, <2>2
<1>8. ASSUME NEW a \in Attempts, AfterClose(a)
      PROVE  NothingGained
  BY <1>0, <1>8 DEF AfterClose, NothingGained, AttemptStates
<1>9. ASSUME NEW a \in Attempts, Authenticated(a)
      PROVE  NothingGained
  BY <1>0, <1>9 DEF Authenticated, NothingGained, AttemptStates
<1> QED
  BY <1>4, <1>5, <1>6, <1>7, <1>8, <1>9 DEF Beginning

Summarized ==
  \/ NothingGained /\ Beginning
  \/ NothingGained /\ Quiet
  \/ NothingGained /\ \E a \in Attempts : SessionEnds(a) \/ AttemptFails(a)
  \/ \E a \in Attempts : Proving(a) \/ Working(a)

LEMMA Summary ==
  ASSUME TypeOK, Next
  PROVE  Summarized
<1>0. attempt \in [Attempts -> AttemptStates]
  BY DEF TypeOK
<1>f. ASSUME NEW a \in Attempts
      PROVE  attempt[a] \in AttemptStates
  BY <1>0
<1>e. ASSUME NEW a \in Attempts
      PROVE  /\ Ended(a) \in AttemptStates
             /\ Ended(a).closing = attempt[a].closing /\ Ended(a).stage \in {attempt[a].stage, "over"}
             /\ Ended(a).peer = attempt[a].peer /\ Ended(a).working = attempt[a].working
  BY <1>f DEF Ended, AttemptStates, Stages, Links
<1>w. ASSUME UNCHANGED <<desired, manualDisconnect, tokenVars, restarting>>
      PROVE  SameFlags
  BY <1>w DEF SameFlags, tokenVars
<1>1. CASE Beginning
  BY <1>1, BeginningGainsNothing DEF Summarized
<1>2. ASSUME NEW a \in Attempts, SnapshotReady(a)
      PROVE  Summarized
  <2>1. /\ [attempt[a] EXCEPT !.stage = "opening", !.link = "opening"] \in AttemptStates
        /\ attempt' = [attempt EXCEPT ![a] = [attempt[a] EXCEPT !.stage = "opening", !.link = "opening"]]
        /\ attempt[a].stage # "over"
    BY <1>0, <1>f, <1>2 DEF SnapshotReady, AttemptStates, Stages, Links
  <2>2. SameFlags /\ UNCHANGED <<transport, generation, handshake, timerVars>> /\ ClaimKept
    BY <1>2, <1>w DEF SnapshotReady, userVars, handshakeVars, ClaimKept
  <2> QED
    BY <1>f, <2>1, <2>2, ReadsQuietly DEF Summarized, AttemptStates
<1>3. ASSUME NEW a \in Attempts, SnapshotFails(a)
      PROVE  Summarized
  <2>1. /\ [attempt[a] EXCEPT !.stage = "over"] \in AttemptStates
        /\ attempt[a].stage # "over"
    BY <1>f, <1>3 DEF SnapshotFails, AttemptStates, Stages
  <2> QED
    BY <1>f, <1>3, <2>1, CaughtKind DEF Summarized, SnapshotFails, AttemptStates
<1>4. ASSUME NEW a \in Attempts, ConnectFails(a)
      PROVE  Summarized
  <2>1. PICK link \in {"closing", "closed"} :
          Caught(a, [attempt[a] EXCEPT !.stage = "over", !.link = link])
    BY <1>4 DEF ConnectFails
  <2>2. /\ [attempt[a] EXCEPT !.stage = "over", !.link = link] \in AttemptStates
        /\ attempt[a].stage # "over"
    BY <1>f, <1>4 DEF ConnectFails, AttemptStates, Stages, Links
  <2> QED
    BY <1>f, <2>1, <2>2, CaughtKind DEF Summarized, AttemptStates
<1>5. ASSUME NEW a \in Attempts, ConnectOpens(a)
      PROVE  Summarized
  <2>1. PICK stage \in Stages :
          /\ attempt' = [attempt EXCEPT ![a].stage = stage, ![a].link = "open", ![a].peer = "challenged"]
          /\ attempt[a].stage = "opening"
    BY <1>5 DEF ConnectOpens, Stages
  <2>2. /\ [attempt[a] EXCEPT !.stage = stage, !.link = "open", !.peer = "challenged"] \in AttemptStates
        /\ attempt' = [attempt EXCEPT ![a] =
                         [attempt[a] EXCEPT !.stage = stage, !.link = "open", !.peer = "challenged"]]
    BY <1>0, <1>f, <2>1 DEF AttemptStates, Links, Peers
  <2>3. SameFlags /\ UNCHANGED <<transport, generation, handshake, timerVars>>
    BY <1>5, <1>w DEF ConnectOpens, userVars, handshakeVars, startVars
  <2>4. ClaimKept
    BY <1>5 DEF ConnectOpens, ClaimKept, TypeOK
  <2> QED
    BY <1>f, <2>1, <2>2, <2>3, <2>4, ReadsQuietly DEF Summarized, AttemptStates
<1>6. ASSUME NEW a \in Attempts, LinkCloses(a)
      PROVE  Summarized
  <2>1. /\ [attempt[a] EXCEPT !.link = "closed"] \in AttemptStates
        /\ attempt' = [attempt EXCEPT ![a] = [attempt[a] EXCEPT !.link = "closed"]]
    BY <1>0, <1>f, <1>6 DEF LinkCloses, AttemptStates, Links
  <2>2. SameFlags /\ UNCHANGED <<transport, generation, handshake, timerVars>> /\ ClaimKept
    BY <1>6, <1>w DEF LinkCloses, userVars, handshakeVars, startVars, ClaimKept
  <2> QED
    BY <1>f, <2>1, <2>2, ReadsQuietly DEF Summarized, AttemptStates
<1>7. ASSUME NEW a \in Attempts, AuthTimer(a)
      PROVE  Summarized
  BY <1>f, <1>7, SessionClosedKind DEF Summarized, AuthTimer, ClaimKept
<1>8. ASSUME NEW a \in Attempts, HeartbeatStale(a)
      PROVE  Summarized
  BY <1>f, <1>8, SessionClosedKind DEF Summarized, HeartbeatStale, ClaimKept
<1>9. ASSUME NEW a \in Attempts, HeartbeatFails(a)
      PROVE  Summarized
  <2>1. ClosingsKept /\ OverKept /\ ClaimKept /\ NothingGained
    BY <1>9 DEF HeartbeatFails, ClosingsKept, OverKept, ClaimKept, NothingGained, TypeOK
  <2>2. SameFlags /\ UNCHANGED <<transport, generation, handshake, timerVars>>
    BY <1>9, <1>w DEF HeartbeatFails, userVars, handshakeVars, startVars
  <2> QED
    BY <2>1, <2>2 DEF Summarized, Quiet
<1>10. ASSUME NEW a \in Attempts, Challenge(a)
       PROVE  Summarized
  <2>1. /\ [attempt[a] EXCEPT !.peer = "proved", !.stage = "over"] \in AttemptStates
        /\ attempt' = [attempt EXCEPT ![a] = [attempt[a] EXCEPT !.peer = "proved", !.stage = "over"]]
    BY <1>0, <1>f, <1>10 DEF Challenge, AttemptStates, Peers, Stages
  <2>2. /\ ClosingsKept /\ OverKept
        /\ attempt'[a].stage = "over"
        /\ \A b \in Attempts : /\ b # a => attempt'[b].peer = attempt[b].peer
                               /\ attempt'[b].working = attempt[b].working
    BY <1>0, <1>f, <2>1 DEF ClosingsKept, OverKept, AttemptStates
  <2>3. SameFlags /\ UNCHANGED <<transport, generation, timerVars>> /\ ClaimKept
    BY <1>10, <1>w DEF Challenge, userVars, startVars, ClaimKept, TypeOK
  <2>4. /\ InUse(a)
        /\ handshake \in {"awaitingChallenge", "authenticationSent"}
        /\ handshake' = "authenticationSent"
    BY <1>10 DEF Challenge, AcceptsChallenge
  <2> QED
    BY <2>2, <2>3, <2>4 DEF Summarized, Proving
<1>11. ASSUME NEW a \in Attempts, ChallengeIgnored(a)
       PROVE  Summarized
  <2>1. /\ [attempt[a] EXCEPT !.stage = "over"] \in AttemptStates
        /\ attempt' = [attempt EXCEPT ![a] = [attempt[a] EXCEPT !.stage = "over"]]
    BY <1>0, <1>f, <1>11 DEF ChallengeIgnored, AttemptStates, Stages
  <2>2. SameFlags /\ UNCHANGED <<transport, generation, handshake, timerVars>> /\ ClaimKept
    BY <1>11, <1>w DEF ChallengeIgnored, userVars, handshakeVars, startVars, ClaimKept
  <2> QED
    BY <1>f, <2>1, <2>2, ReadsQuietly DEF Summarized, AttemptStates
<1>12. ASSUME NEW a \in Attempts, Request(a)
       PROVE  Summarized
  <2>1. /\ [attempt[a] EXCEPT !.working = TRUE] \in AttemptStates
        /\ attempt' = [attempt EXCEPT ![a] = [attempt[a] EXCEPT !.working = TRUE]]
    BY <1>0, <1>f, <1>12 DEF Request, AttemptStates
  <2>2. SameFlags /\ UNCHANGED <<transport, generation, handshake, timerVars>> /\ ClaimKept
    BY <1>12, <1>w DEF Request, userVars, handshakeVars, startVars, ClaimKept
  <2>3. \A b \in Attempts : /\ attempt'[b].peer = attempt[b].peer
                            /\ b # a => attempt'[b].working = attempt[b].working
    BY <1>0, <1>f, <2>1 DEF AttemptStates
  <2>4. Quiet
    BY <1>f, <2>1, <2>2, ReadsQuietly DEF Summarized, AttemptStates
  <2> QED
    BY <1>12, <2>3, <2>4 DEF Summarized, Request, Working
<1>13. ASSUME NEW a \in Attempts, Broken(a)
       PROVE  Summarized
  <2>1. ClaimKept /\ UNCHANGED <<userVars, startVars>>
    BY <1>13 DEF Broken, ClaimKept, TypeOK
  <2>2. CASE attempt[a].kind = "websocket"
    <3>1. /\ [attempt[a] EXCEPT !.link = "failing"] \in AttemptStates
          /\ attempt' = [attempt EXCEPT ![a] = [attempt[a] EXCEPT !.link = "failing"]]
      BY <1>0, <1>f, <1>13, <2>2 DEF Broken, AttemptStates, Links
    <3>2. SameFlags /\ UNCHANGED <<transport, generation, handshake, timerVars>>
      BY <1>13, <1>w, <2>1, <2>2 DEF Broken, userVars, handshakeVars, startVars
    <3> QED
      BY <1>f, <2>1, <3>1, <3>2, ReadsQuietly DEF Summarized, AttemptStates
  <2>3. CASE attempt[a].kind # "websocket"
    BY <1>e, <1>13, <2>1, <2>3, SessionClosedKind DEF Summarized, Broken
  <2> QED
    BY <2>2, <2>3
<1>14. ASSUME NEW a \in Attempts, WorkEnds(a)
       PROVE  Summarized
  <2>1. /\ [attempt[a] EXCEPT !.working = FALSE] \in AttemptStates
        /\ attempt' = [attempt EXCEPT ![a] = [attempt[a] EXCEPT !.working = FALSE]]
    BY <1>0, <1>f, <1>14 DEF WorkEnds, AttemptStates
  <2>2. SameFlags /\ UNCHANGED <<transport, generation, handshake, timerVars>> /\ ClaimKept
    BY <1>14, <1>w DEF WorkEnds, userVars, handshakeVars, startVars, ClaimKept
  <2> QED
    BY <1>f, <2>1, <2>2, ReadsQuietly DEF Summarized, AttemptStates
<1>15. ASSUME NEW a \in Attempts, OnClose(a)
       PROVE  Summarized
  <2>1. ClaimKept /\ UNCHANGED <<userVars, startVars>> /\ SessionClosed(a, Ended(a))
    BY <1>15 DEF OnClose, ClaimKept, TypeOK
  <2> QED
    BY <1>e, <2>1, SessionClosedKind DEF Summarized
<1>16. ASSUME NEW a \in Attempts, PeerHangs(a)
       PROVE  Summarized
  <2>1. /\ [attempt[a] EXCEPT !.peer = "hung"] \in AttemptStates
        /\ attempt' = [attempt EXCEPT ![a] = [attempt[a] EXCEPT !.peer = "hung"]]
    BY <1>0, <1>f, <1>16 DEF PeerHangs, AttemptStates, Peers
  <2>2. SameFlags /\ UNCHANGED <<transport, generation, handshake, timerVars>> /\ ClaimKept
    BY <1>16, <1>w DEF PeerHangs, userVars, handshakeVars, startVars, ClaimKept
  <2> QED
    BY <1>f, <2>1, <2>2, ReadsQuietly DEF Summarized, AttemptStates
<1>17. ASSUME NEW a \in Attempts, WorkRefused(a) \/ BadFrame(a)
       PROVE  Summarized
  BY <1>13, <1>17 DEF WorkRefused, BadFrame
<1>18. CASE \E a \in Attempts : Continue(a)
  BY <1>1, <1>2, <1>18 DEF Continue, Beginning
<1>19. ASSUME NEW a \in Attempts, FrameArrives(a)
       PROVE  Summarized
  BY <1>1, <1>10, <1>11, <1>12, <1>17, <1>19 DEF FrameArrives, Beginning
<1>20. CASE Event
  BY <1>1, <1>2, <1>3, <1>4, <1>5, <1>6, <1>7, <1>8, <1>9, <1>14, <1>15, <1>16, <1>19, <1>20
     DEF Event, Beginning
<1> QED
  BY <1>18, <1>20 DEF Next

-----------------------------------------------------------------------------
(* The invariant.                                                          *)

\* The transport in use belongs to the generation in use.
Together == transport # None => generation = transport

\* An attempt whose close is awaited is not in use any more.
Apart ==
  \A a \in Attempts :
    /\ attempt[a].closing # "none" => transport # a
    /\ attempt[a].closing \in {"stop", "session", "restart"} => generation # a

RestartAwaited == restarting => \E a \in Attempts : attempt[a].closing = "restart"

\* A challenge was answered: connect has returned, and cannot fail any more.
Opened ==
  transport # None /\ handshake \in {"authenticationSent", "authenticated"}
    => attempt[transport].stage = "over"

\* A transport is in use only if it is wanted, and there was a token for it.
Wanted ==
  /\ transport # None => desired /\ ~tokenless
  /\ readingToken => transport = None /\ ~tokenless

ClientInv ==
  /\ TypeOK
  /\ Together /\ Apart /\ RestartAwaited /\ Opened /\ Wanted
  /\ DisconnectHolds /\ NeverStranded /\ ClaimsOnlyProved

Parts == Together /\ Apart /\ RestartAwaited /\ Opened /\ Wanted
           /\ DisconnectHolds /\ NeverStranded /\ ClaimsOnlyProved

LEMMA InitParts == Init => Parts
<1> SUFFICES ASSUME Init
             PROVE  Parts
  OBVIOUS
<1>1. \A a \in Attempts : attempt[a].closing = "none"
  BY DEF Init, Gone
<1> QED
  BY <1>1, ConstantFacts DEF Init, Parts, Together, Apart, RestartAwaited, Opened, Wanted,
     DisconnectHolds, NeverStranded, ClaimsOnlyProved

LEMMA QuietParts ==
  ASSUME ClientInv, Quiet
  PROVE  Parts'
<1> USE DEF ClientInv, Quiet, SameFlags, ClosingsKept, timerVars
<1>1. Together' /\ Apart'
  BY DEF Together, Apart
<1>2. RestartAwaited'
  BY DEF RestartAwaited
<1>3. Opened'
  BY DEF Opened, OverKept, TypeOK
<1>4. Wanted' /\ DisconnectHolds'
  BY DEF Wanted, DisconnectHolds
<1>5. NeverStranded'
  BY DEF NeverStranded
<1>6. ClaimsOnlyProved'
  BY DEF ClaimsOnlyProved, ClaimKept
<1> QED
  BY <1>1, <1>2, <1>3, <1>4, <1>5, <1>6 DEF Parts

LEMMA ProvingParts ==
  ASSUME ClientInv, NEW a \in Attempts, Proving(a)
  PROVE  Parts'
<1> USE DEF ClientInv, Proving, SameFlags, ClosingsKept, timerVars
<1>1. Together' /\ Apart'
  BY DEF Together, Apart
<1>2. RestartAwaited'
  BY DEF RestartAwaited
<1>3. Opened'
  BY DEF Opened, InUse
<1>4. Wanted' /\ DisconnectHolds'
  BY DEF Wanted, DisconnectHolds
<1>5. NeverStranded'
  BY DEF NeverStranded
<1>6. ClaimsOnlyProved'
  BY DEF ClaimsOnlyProved, ClaimKept
<1> QED
  BY <1>1, <1>2, <1>3, <1>4, <1>5, <1>6 DEF Parts

\* The close of a session takes over from its transport and timers.
LEMMA EndsParts ==
  ASSUME ClientInv, NEW a \in Attempts, SessionEnds(a) \/ AttemptFails(a)
  PROVE  Parts'
<1> USE DEF ClientInv
<1>0. /\ generation = a /\ transport' = None /\ SameFlags /\ ClaimKept
      /\ \A b \in Attempts \ {a} : attempt'[b].closing = attempt[b].closing
      /\ attempt'[a].closing \in {"session", "failure"}
      /\ attempt'[a].closing = "session" => generation' = None
      /\ generation' \in {None, generation}
      /\ handshake' = "idle" /\ authTimer' = None
      /\ reconnectTimer' => reconnectTimer
      /\ heartbeatTimer' => heartbeatTimer
  BY DEF SessionEnds, AttemptFails, Release, Closes
<1>1. attempt[a].closing \in {"none", "failure"}
  BY <1>0 DEF Apart, TypeOK, AttemptStates, Closers
<1>2. Together' /\ Apart'
  BY <1>0, <1>1, ConstantFacts DEF Together, Apart
<1>3. RestartAwaited'
  BY <1>0, <1>1 DEF RestartAwaited, SameFlags
<1>4. Opened' /\ Wanted'
  BY <1>0 DEF Opened, Wanted, SameFlags
<1>5. DisconnectHolds'
  BY <1>0 DEF DisconnectHolds, SameFlags
<1>6. NeverStranded'
  BY <1>0 DEF NeverStranded
<1>7. ClaimsOnlyProved'
  <2>1. SUFFICES ASSUME shown.authenticated
                 PROVE  \E b \in Attempts : attempt'[b].closing \in {"session", "stop"}
    BY <1>0 DEF ClaimsOnlyProved, ClaimKept
  <2>2. CASE \E b \in Attempts : attempt[b].closing \in {"session", "stop"}
    BY <1>0, <1>1, <2>2
  <2>3. CASE transport # None /\ handshake = "authenticated"
    <3>1. transport = a /\ attempt[a].stage = "over"
      BY <1>0, <2>3 DEF Together, Opened
    <3>2. SessionEnds(a)
      BY <3>1 DEF AttemptFails
    <3> QED
      BY <3>2 DEF SessionEnds, Closes
  <2> QED
    BY <2>1, <2>2, <2>3 DEF ClaimsOnlyProved
<1> QED
  BY <1>2, <1>3, <1>4, <1>5, <1>6, <1>7 DEF Parts

LEMMA StartParts ==
  ASSUME ClientInv, NEW explicit \in BOOLEAN, Start(explicit)
  PROVE  Parts'
<1> USE DEF ClientInv
<1>0. /\ attempt \in [Attempts -> AttemptStates] /\ transport \in Attempts \cup {None}
      /\ desired' = TRUE /\ ~manualDisconnect' /\ UNCHANGED shown
  BY DEF TypeOK, Start
<1>1. CASE /\ transport # None /\ ~shown.authenticated
           /\ restarting' = TRUE
           /\ Release
           /\ attempt' = ClosedBy(transport, "restart")
           /\ UNCHANGED tokenVars
  <2>1. /\ attempt'[transport].closing = "restart"
        /\ \A b \in Attempts \ {transport} : attempt'[b].closing = attempt[b].closing
    BY <1>0, <1>1, ClosedFacts DEF ClosedBy, AttemptStates
  <2>2. /\ transport' = None /\ generation' = None /\ handshake' = "idle"
    BY <1>1 DEF Release
  <2>3. Together' /\ Apart' /\ RestartAwaited' /\ Opened' /\ Wanted'
    BY <1>0, <1>1, <2>1, <2>2, ConstantFacts
       DEF Together, Apart, RestartAwaited, Opened, Wanted, tokenVars
  <2>4. DisconnectHolds' /\ NeverStranded' /\ ClaimsOnlyProved'
    BY <1>0, <1>1, <2>1 DEF DisconnectHolds, NeverStranded, ClaimsOnlyProved
  <2> QED
    BY <2>3, <2>4 DEF Parts
<1>2. CASE /\ reconnectTimer' = (reconnectTimer /\ ~explicit)
           /\ readingToken' = (\/ readingToken
                               \/ ~restarting /\ transport = None /\ ~reconnectTimer')
           /\ tokenless' = (tokenless /\ ~readingToken')
           /\ UNCHANGED <<transport, generation, handshakeVars, restarting, attempt>>
  <2>1. Together' /\ Apart' /\ RestartAwaited' /\ Opened' /\ Wanted'
    BY <1>0, <1>2 DEF Together, Apart, RestartAwaited, Opened, Wanted, handshakeVars
  <2>2. DisconnectHolds' /\ ClaimsOnlyProved'
    BY <1>0, <1>2 DEF DisconnectHolds, ClaimsOnlyProved, handshakeVars
  <2>3. NeverStranded'
    BY <1>0, <1>2 DEF NeverStranded, RestartAwaited
  <2> QED
    BY <2>1, <2>2, <2>3 DEF Parts
<1> QED
  BY <1>1, <1>2 DEF Start

LEMMA StopParts ==
  ASSUME ClientInv, Stop
  PROVE  Parts'
<1> USE DEF ClientInv
<1>0. /\ attempt \in [Attempts -> AttemptStates] /\ transport \in Attempts \cup {None}
      /\ ~desired' /\ Release /\ UNCHANGED <<restarting, readingToken, tokenless>>
  BY DEF TypeOK, Stop, startVars, tokenVars
<1>1. /\ transport' = None /\ generation' = None /\ handshake' = "idle"
      /\ ~reconnectTimer' /\ authTimer' = None /\ ~heartbeatTimer'
  BY <1>0 DEF Release
<1>2. Together' /\ Opened' /\ Wanted' /\ DisconnectHolds' /\ NeverStranded'
  BY <1>0, <1>1 DEF Together, Opened, Wanted, DisconnectHolds, NeverStranded
<1>3. CASE transport = None /\ shown' = Offline /\ UNCHANGED attempt
  <2>1. Apart' /\ RestartAwaited' /\ ClaimsOnlyProved'
    BY <1>0, <1>1, <1>3, ConstantFacts DEF Apart, RestartAwaited, ClaimsOnlyProved, Offline
  <2> QED
    BY <1>2, <2>1 DEF Parts
<1>4. CASE transport # None /\ attempt' = ClosedBy(transport, "stop") /\ UNCHANGED shown
  <2>1. /\ attempt'[transport].closing = "stop"
        /\ \A b \in Attempts \ {transport} : attempt'[b].closing = attempt[b].closing
    BY <1>0, <1>4, ClosedFacts DEF ClosedBy, AttemptStates
  <2>2. Apart'
    BY <1>0, <1>1, ConstantFacts DEF Apart
  <2>3. RestartAwaited' /\ ClaimsOnlyProved'
    BY <1>0, <1>4, <2>1 DEF RestartAwaited, ClaimsOnlyProved, Apart
  <2> QED
    BY <1>2, <2>2, <2>3 DEF Parts
<1> QED
  BY <1>3, <1>4 DEF Stop

LEMMA TokenParts ==
  ASSUME ClientInv, TokenFails \/ TokenUseless \/ ReconnectTimer
  PROVE  Parts'
<1> USE DEF ClientInv
<1>0. /\ UNCHANGED <<desired, manualDisconnect, transport, generation, handshake, restarting,
                     attempt, authTimer, heartbeatTimer>>
      /\ reconnectTimer' => reconnectTimer
  BY DEF TokenFails, TokenUseless, ReconnectTimer, userVars, handshakeVars, timerVars
<1>1. Together' /\ Apart' /\ RestartAwaited' /\ Opened' /\ DisconnectHolds'
  BY <1>0 DEF Together, Apart, RestartAwaited, Opened, DisconnectHolds
<1>2. shown'.authenticated => shown.authenticated
  BY DEF TokenFails, TokenUseless, ReconnectTimer, Offline, TypeOK
<1>3. ClaimsOnlyProved'
  BY <1>0, <1>2 DEF ClaimsOnlyProved
<1>4. Wanted' /\ NeverStranded'
  <2>1. CASE TokenFails \/ TokenUseless
    BY <1>0, <2>1 DEF TokenFails, TokenUseless, CanBeginTransport, Wanted, NeverStranded
  <2>2. CASE ReconnectTimer
    BY <1>0, <2>2 DEF ReconnectTimer, Connect, CanBeginTransport, Wanted, NeverStranded
  <2> QED
    BY <2>1, <2>2
<1> QED
  BY <1>1, <1>3, <1>4 DEF Parts

LEMMA BeginParts ==
  ASSUME ClientInv, NEW a \in Attempts, Begin(a)
  PROVE  Parts'
<1> USE DEF ClientInv
<1>0. /\ attempt \in [Attempts -> AttemptStates]
      /\ transport = None /\ desired /\ readingToken
      /\ transport' = a /\ generation' = a /\ handshake' = "awaitingChallenge"
      /\ ~readingToken' /\ ~shown'.authenticated
      /\ UNCHANGED <<desired, manualDisconnect, restarting, tokenless>>
      /\ attempt[a].closing = "none"
  BY DEF TypeOK, Begin, CanBeginTransport, Idle, userVars
<1>1. /\ attempt'[a].closing = "none"
      /\ \A b \in Attempts \ {a} : attempt'[b].closing = attempt[b].closing
  BY <1>0 DEF Begin, Gone
<1>2. Together' /\ Opened' /\ Wanted' /\ ClaimsOnlyProved' /\ NeverStranded'
  BY <1>0, ConstantFacts DEF Together, Opened, Wanted, ClaimsOnlyProved, NeverStranded
<1>3. Apart' /\ RestartAwaited'
  BY <1>0, <1>1 DEF Apart, RestartAwaited
<1>4. DisconnectHolds'
  BY <1>0 DEF DisconnectHolds
<1> QED
  BY <1>2, <1>3, <1>4 DEF Parts

LEMMA AfterCloseParts ==
  ASSUME ClientInv, NEW a \in Attempts, AfterClose(a)
  PROVE  Parts'
<1> USE DEF ClientInv
<1>0. /\ attempt \in [Attempts -> AttemptStates]
      /\ UNCHANGED <<desired, manualDisconnect, transport, generation, handshake,
                     authTimer, heartbeatTimer>>
  BY DEF TypeOK, AfterClose, userVars, handshakeVars
<1>1. /\ attempt' = [attempt EXCEPT ![a].closing = "none"]
      /\ shown' = IF attempt[a].closing \in {"stop", "session"} THEN Offline ELSE shown
      /\ reconnectTimer' = IF attempt[a].closing \in {"session", "failure"}
                           THEN ScheduleReconnect ELSE reconnectTimer
      /\ restarting' = (restarting /\ attempt[a].closing # "restart")
      /\ IF attempt[a].closing = "restart" /\ ~manualDisconnect THEN Connect
         ELSE UNCHANGED tokenVars
  BY DEF AfterClose
<1>2. /\ attempt'[a].closing = "none"
      /\ \A b \in Attempts \ {a} : attempt'[b].closing = attempt[b].closing
      /\ \A b \in Attempts : attempt'[b].stage = attempt[b].stage
  BY <1>0, <1>1 DEF AttemptStates
<1>3. Together' /\ Apart'
  BY <1>0, <1>2 DEF Together, Apart
<1>4. RestartAwaited'
  BY <1>1, <1>2 DEF RestartAwaited
<1>5. Opened'
  BY <1>0, <1>2 DEF Opened, TypeOK
<1>6. DisconnectHolds'
  BY <1>0, <1>1 DEF DisconnectHolds, ScheduleReconnect
<1>7. ClaimsOnlyProved'
  BY <1>0, <1>1, <1>2 DEF ClaimsOnlyProved, Offline
<1>8. Wanted'
  BY <1>0, <1>1 DEF Wanted, Connect, CanBeginTransport, tokenVars
<1>9. NeverStranded'
  <2>1. CASE attempt[a].closing \in {"session", "failure"}
    BY <1>0, <1>1, <2>1 DEF ScheduleReconnect, DisconnectHolds, NeverStranded
  <2>2. CASE attempt[a].closing = "restart"
    BY <1>0, <1>1, <2>2 DEF Connect, CanBeginTransport, DisconnectHolds, NeverStranded
  <2>3. CASE attempt[a].closing \in {"none", "stop"}
    BY <1>0, <1>1, <1>2, <2>3 DEF NeverStranded, tokenVars
  <2> QED
    BY <1>0, <2>1, <2>2, <2>3 DEF AttemptStates, Closers
<1> QED
  BY <1>3, <1>4, <1>5, <1>6, <1>7, <1>8, <1>9 DEF Parts

LEMMA AuthenticatedParts ==
  ASSUME ClientInv, NEW a \in Attempts, Authenticated(a)
  PROVE  Parts'
<1> USE DEF ClientInv
<1>0. /\ attempt \in [Attempts -> AttemptStates]
      /\ transport = a /\ handshake = "authenticationSent" /\ handshake' = "authenticated"
      /\ UNCHANGED <<desired, manualDisconnect, transport, generation, tokenless, readingToken,
                     restarting, reconnectTimer>>
      /\ attempt' = [attempt EXCEPT ![a].peer = "authenticated"]
  BY DEF TypeOK, Authenticated, InUse, userVars, startVars, tokenVars
<1>1. \A b \in Attempts : /\ attempt'[b].closing = attempt[b].closing
                          /\ attempt'[b].stage = attempt[b].stage
  BY <1>0 DEF AttemptStates
<1>2. Together' /\ Apart' /\ RestartAwaited' /\ Opened' /\ Wanted'
  BY <1>0, <1>1 DEF Together, Apart, RestartAwaited, Opened, Wanted
<1>3. DisconnectHolds' /\ NeverStranded' /\ ClaimsOnlyProved'
  BY <1>0, <1>1, ConstantFacts DEF DisconnectHolds, NeverStranded, ClaimsOnlyProved
<1> QED
  BY <1>2, <1>3 DEF Parts

LEMMA ClientInvariant == Spec => []ClientInv
<1>1. Init => ClientInv
  BY TypeInit, InitParts DEF ClientInv, Parts
<1>2. ASSUME ClientInv, [Next]_vars
      PROVE  ClientInv'
  <2>1. CASE Next
    <3>1. TypeOK' /\ Summarized
      BY <1>2, <2>1, TypeNext, Summary DEF ClientInv
    <3>2. Parts'
      BY <1>2, <3>1, QuietParts, EndsParts, ProvingParts, StartParts, StopParts, TokenParts,
         BeginParts, AfterCloseParts, AuthenticatedParts DEF Summarized, Beginning, Working
    <3> QED
      BY <3>1, <3>2 DEF ClientInv, Parts
  <2>2. CASE UNCHANGED vars
    BY <1>2, <2>2 DEF vars, ClientInv, TypeOK, Together, Apart, RestartAwaited, Opened, Wanted,
       DisconnectHolds, NeverStranded, ClaimsOnlyProved
  <2> QED
    BY <1>2, <2>1, <2>2
<1> QED
  BY <1>1, <1>2, PTL DEF Spec

-----------------------------------------------------------------------------
(* What the client promises.                                               *)

\* The types are kept, for every number of attempts.
THEOREM ClientTypes == Spec => []TypeOK
<1>1. ClientInv => TypeOK
  BY DEF ClientInv
<1> QED
  BY <1>1, ClientInvariant, PTL

\* After Disconnect the client is at rest until the user connects again.
THEOREM DisconnectIsKept == Spec => []DisconnectHolds
<1>1. ClientInv => DisconnectHolds
  BY DEF ClientInv
<1> QED
  BY <1>1, ClientInvariant, PTL

\* A client that is to be connected always has something that leads to the
\* next attempt, whatever closes, failures, retries and timers have met.
THEOREM ClientIsNeverStranded == Spec => []NeverStranded
<1>1. ClientInv => NeverStranded
  BY DEF ClientInv
<1> QED
  BY <1>1, ClientInvariant, PTL

\* The panel claims a session only while there is one, or it is being closed.
THEOREM ClaimsAreProved == Spec => []ClaimsOnlyProved
<1>1. ClientInv => ClaimsOnlyProved
  BY DEF ClientInv
<1> QED
  BY <1>1, ClientInvariant, PTL

\* An attempt that was given up gets neither a proof of the token nor work.
THEOREM AbandonedGetNothing == Spec => AbandonedGetsNothing
<1>1. ASSUME ClientInv, [Next]_vars, NEW a \in Attempts
      PROVE  /\ attempt[a].peer # "proved" /\ attempt'[a].peer = "proved" => transport = a
             /\ ~attempt[a].working /\ attempt'[a].working =>
                  /\ transport = a /\ handshake = "authenticated"
                  /\ attempt[a].peer = "authenticated"
  <2>1. CASE Next
    <3>1. Summarized
      BY <1>1, <2>1, Summary DEF ClientInv
    <3>2. CASE NothingGained
      BY <3>2 DEF NothingGained
    <3>3. ASSUME NEW b \in Attempts, Proving(b)
          PROVE  /\ attempt'[a].working = attempt[a].working
                 /\ a # b => attempt'[a].peer = attempt[a].peer
                 /\ transport = b
      BY <3>3 DEF Proving, InUse
    <3>4. ASSUME NEW b \in Attempts, Working(b)
          PROVE  /\ attempt'[a].peer = attempt[a].peer
                 /\ a # b => attempt'[a].working = attempt[a].working
                 /\ transport = b /\ handshake = "authenticated" /\ attempt[b].peer = "authenticated"
      BY <3>4 DEF Working, TakesWork, InUse
    <3> QED
      BY <3>1, <3>2, <3>3, <3>4 DEF Summarized
  <2>2. CASE UNCHANGED vars
    BY <2>2 DEF vars
  <2> QED
    BY <1>1, <2>1, <2>2
<1>2. ClientInv /\ [Next]_vars
        => [\A a \in Attempts :
              /\ attempt[a].peer # "proved" /\ attempt'[a].peer = "proved" => transport = a
              /\ ~attempt[a].working /\ attempt'[a].working =>
                   /\ transport = a /\ handshake = "authenticated"
                   /\ attempt[a].peer = "authenticated"]_vars
  BY <1>1
<1> QED
  BY <1>2, ClientInvariant, PTL DEF Spec, AbandonedGetsNothing

\* Refinement, the safety part: the client goes online only by way of an
\* attempt, and every step is one that the contract of a connection allows.
THEOREM ContractKept == Spec => Contract!Safety
<1>1. ASSUME Init
      PROVE  Contract!Init
  BY <1>1 DEF Init, Standing, Contract!Init
<1>2. ASSUME ClientInv, ClientInv', Next
      PROVE  Contract!Next \/ Standing' = Standing
  <2>a. transport # None => desired /\ ~tokenless
    BY <1>2 DEF ClientInv, Wanted
  <2>b. transport' # None => desired' /\ ~tokenless'
    BY <1>2 DEF ClientInv, Wanted
  <2>c. /\ transport = None => Standing \in {"waiting", "off"}
        /\ transport # None =>
             Standing = IF handshake # "authenticated" THEN "trying" ELSE "online"
    BY <2>a DEF Standing
  <2>d. /\ transport = None /\ desired /\ ~tokenless => Standing = "waiting"
        /\ transport' = None => Standing' \in {"waiting", "off"}
        /\ transport' # None =>
             Standing' = IF handshake' # "authenticated" THEN "trying" ELSE "online"
    BY <2>b DEF Standing
  <2> USE DEF Contract!Next, Contract!Want, Contract!Leave, Contract!Try, Contract!TryEnds,
              Contract!Lose
  <2>1. Summarized
    BY <1>2, Summary DEF ClientInv
  <2>2. CASE transport' = None
    <3>1. Standing' \in {"waiting", "off"} /\ Standing \in {"waiting", "off", "trying", "online"}
      BY <2>c, <2>d, <2>2
    <3> QED
      BY <3>1
  <2>3. CASE transport' # None /\ transport = None
    <3>1. PICK a \in Attempts : Begin(a)
      <4>1. CASE Beginning
        BY <2>3, <4>1, ConstantFacts
           DEF Beginning, Start, Release, Stop, TokenFails, TokenUseless, ReconnectTimer,
               AfterClose, Authenticated, InUse
      <4> QED
        BY <2>1, <2>3, <4>1, ConstantFacts
           DEF Summarized, Quiet, SessionEnds, AttemptFails, Release, Proving, InUse, Working
    <3>2. handshake' = "awaitingChallenge" /\ desired /\ ~tokenless
      BY <1>2, <3>1 DEF Begin, CanBeginTransport, ClientInv, Wanted
    <3> QED
      BY <2>c, <2>d, <2>3, <3>2
  <2>4. CASE transport' # None /\ transport # None
    <3>1. handshake = "authenticated" => handshake' = "authenticated"
      <4>1. CASE Beginning
        BY <2>4, <4>1, ConstantFacts
           DEF Beginning, Start, Release, Stop, TokenFails, TokenUseless, ReconnectTimer, Begin,
               CanBeginTransport, AfterClose, Authenticated, InUse, handshakeVars
      <4> QED
        BY <2>1, <2>4, <4>1
           DEF Summarized, Quiet, SessionEnds, AttemptFails, Release, Proving, Working
    <3> QED
      BY <2>c, <2>d, <2>4, <3>1
  <2> QED
    BY <2>2, <2>3, <2>4
<1>3. UNCHANGED vars => UNCHANGED Standing
  BY DEF vars, Standing
<1>4. ClientInv /\ ClientInv' /\ [Next]_vars => [Contract!Next]_Standing
  BY <1>2, <1>3
<1> QED
  BY <1>1, <1>4, ClientInvariant, PTL DEF Spec, Contract!Safety

=============================================================================
