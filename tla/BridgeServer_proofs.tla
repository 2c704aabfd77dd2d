------------------------ MODULE BridgeServer_proofs -------------------------
(***************************************************************************)
(* Proofs about BridgeServer, for every number of connections and requests *)
(* and every limit.                                                        *)
(*                                                                         *)
(* The handlers are functions from a server state to the next, so the      *)
(* proofs are about these functions.  Evolves says what closing, pruning   *)
(* and sending may do; it is transitive, so that chains of calls need no   *)
(* argument of their own.  Handles adds what a frame of a plugin may do.   *)
(* ServerInv is inductive over the steps built from them.                  *)
(*                                                                         *)
(* Two invariants rest on it: Ordered, about the frames in the queues, and *)
(* Reach, about the connections that may still become the active session.  *)
(***************************************************************************)
EXTENDS BridgeServer, FiniteSetTheorems, TLAPS

LEMMA ConstantFacts ==
  /\ HttpConnections \subseteq Connections /\ Strangers \subseteq Connections
  /\ None \notin Connections
  /\ IsFiniteSet(Connections)
  /\ MaxPendingAuth \in Nat /\ MaxAuthFailures \in Nat \ {0} /\ MaxOutbound \in Nat
  BY ConstantsAssumption DEF ConstantsAssumption

-----------------------------------------------------------------------------
(* Types, and what closing does to each field.                             *)

LEMMA FrameTypes ==
  /\ \A type \in {"challenge", "authenticated", "heartbeat", "ack"} : Frame(type, None) \in Frames
  /\ \A type \in {"request", "cancel"}, r \in Requests : Frame(type, r) \in Frames
  BY DEF Frame, Frames

LEMMA WokenType ==
  ASSUME NEW w \in {"none", "waiting", "woken"}
  PROVE  Woken(w) \in {"none", "woken"}
  BY DEF Woken

LEMMA ChangedConnection ==
  ASSUME NEW k \in ConnectionStates, NEW q \in Seq(Frames),
         NEW w, w = Woken(k.waiter), w \in {"none", "woken"}
  PROVE  [k EXCEPT !.outbound = q, !.waiter = Woken(@)] \in ConnectionStates
  BY DEF ConnectionStates

LEMMA ConnectionTypes ==
  ASSUME NEW k \in ConnectionStates
  PROVE  /\ k.failures \in Nat /\ k.outbound \in Seq(Frames)
         /\ k.waiter \in {"none", "waiting", "woken"}
         /\ [k EXCEPT !.outbound = <<>>, !.waiter = Woken(@)] \in ConnectionStates
         /\ [k EXCEPT !.outbound = <<>>, !.waiter = Woken(@)].waiter # "waiting"
         /\ [k EXCEPT !.outbound = <<>>, !.waiter = Woken(@)].authenticated = k.authenticated
         /\ [k EXCEPT !.outbound = <<>>, !.waiter = Woken(@)].failures = k.failures
         /\ [k EXCEPT !.outbound = <<>>, !.waiter = Woken(@)].stale = k.stale
<1>1. k.waiter \in {"none", "waiting", "woken"}
  BY DEF ConnectionStates
<1>2. Woken(k.waiter) \in {"none", "woken"}
  BY <1>1, WokenType
<1>3. [k EXCEPT !.outbound = <<>>, !.waiter = Woken(@)] \in ConnectionStates
  <2>1. <<>> \in Seq(Frames)
    OBVIOUS
  <2> QED
    BY <1>2, <2>1, ChangedConnection
<1>4. /\ [k EXCEPT !.outbound = <<>>, !.waiter = Woken(@)].waiter = Woken(k.waiter)
      /\ [k EXCEPT !.outbound = <<>>, !.waiter = Woken(@)].failures = k.failures
  BY DEF ConnectionStates
<1>5. /\ [k EXCEPT !.outbound = <<>>, !.waiter = Woken(@)].authenticated = k.authenticated
      /\ [k EXCEPT !.outbound = <<>>, !.waiter = Woken(@)].stale = k.stale
  BY DEF ConnectionStates
<1>6. k.failures \in Nat /\ k.outbound \in Seq(Frames)
  BY DEF ConnectionStates
<1> QED
  BY <1>1, <1>2, <1>3, <1>4, <1>5, <1>6

\* The fields of a server state.
LEMMA StateFields ==
  ASSUME NEW s \in ServerStates
  PROVE  /\ s.connections \subseteq Connections
         /\ s.conn \in [Connections -> ConnectionStates]
         /\ s.socket \in [Connections -> {"none", "open", "closing", "closed"}]
         /\ s.active \in Connections \cup {None}
         /\ s.recent \in Nat
         /\ s.outcome \in [Requests -> Outcomes]
         /\ s.seen \in [Connections -> SUBSET Frames]
         /\ s.handed \in [Requests -> Nat]
  BY DEF ServerStates

LEMMA ClosedFields ==
  ASSUME NEW s \in ServerStates, NEW S
  PROVE  LET t == Closed(s, S)
         IN /\ t \in ServerStates
            /\ t.connections = s.connections \ S
            /\ t.active = IF s.active \in S THEN None ELSE s.active
            /\ t.outcome = [r \in Requests |->
                 IF s.active \in S /\ r \in Waiting(s) THEN "lost" ELSE s.outcome[r]]
            /\ \A c \in Connections \ S : t.conn[c] = s.conn[c]
            /\ \A c \in Connections :
                 /\ t.conn[c].authenticated = s.conn[c].authenticated
                 /\ t.conn[c].failures = s.conn[c].failures
                 /\ t.conn[c].stale = s.conn[c].stale
                 /\ c \in S => t.conn[c].waiter # "waiting"
<1> DEFINE t == Closed(s, S)
           conn == [c \in Connections |->
              IF c \in S THEN [s.conn[c] EXCEPT !.outbound = <<>>, !.waiter = Woken(@)]
                         ELSE s.conn[c]]
           outcome == [r \in Requests |->
              IF s.active \in S /\ r \in Waiting(s) THEN "lost" ELSE s.outcome[r]]
           socket == [c \in Connections |->
              IF c \in S /\ s.socket[c] = "open" THEN "closing" ELSE s.socket[c]]
           active == IF s.active \in S THEN None ELSE s.active
<1>1. /\ s.connections \subseteq Connections
      /\ s.conn \in [Connections -> ConnectionStates]
      /\ s.socket \in [Connections -> {"none", "open", "closing", "closed"}]
      /\ s.active \in Connections \cup {None}
      /\ s.outcome \in [Requests -> Outcomes]
  BY StateFields
<1>2. conn \in [Connections -> ConnectionStates]
  <2>1. ASSUME NEW c \in Connections
        PROVE  conn[c] \in ConnectionStates
    <3>1. s.conn[c] \in ConnectionStates
      BY <1>1
    <3> QED
      BY <3>1, ConnectionTypes
  <2> QED
    BY <2>1
<1>3. outcome \in [Requests -> Outcomes]
  BY <1>1 DEF Outcomes
<1>4. socket \in [Connections -> {"none", "open", "closing", "closed"}]
  BY <1>1
<1>5. t = [s EXCEPT !.connections = @ \ S, !.active = active, !.outcome = outcome,
                    !.conn = conn, !.socket = socket]
  BY DEF Closed
<1>6. t \in ServerStates
  <2> HIDE DEF t, conn, outcome, socket, active
  <2>1. active \in Connections \cup {None}
    BY <1>1 DEF active
  <2> QED
    BY <1>1, <1>2, <1>3, <1>4, <1>5, <2>1 DEF ServerStates
<1>7. /\ t.connections = s.connections \ S /\ t.active = active /\ t.outcome = outcome
      /\ t.conn = conn
  <2> HIDE DEF conn, outcome, socket, active
  <2> QED
    BY <1>5 DEF ServerStates
<1>8. ASSUME NEW c \in Connections
      PROVE  /\ c \notin S => conn[c] = s.conn[c]
             /\ conn[c].authenticated = s.conn[c].authenticated
             /\ conn[c].failures = s.conn[c].failures
             /\ conn[c].stale = s.conn[c].stale
             /\ c \in S => conn[c].waiter # "waiting"
  <2>1. s.conn[c] \in ConnectionStates
    BY <1>1
  <2> QED
    BY <2>1, ConnectionTypes
<1> HIDE DEF t, conn
<1> QED
  BY <1>6, <1>7, <1>8 DEF t

-----------------------------------------------------------------------------
(* What closing, pruning and sending may do.                               *)

NobodyWaits(s) == \A r \in Requests : s.outcome[r] # "waiting"

\* A settled request stays settled, and none begins to wait.
Settles(s, t) ==
  \A r \in Requests : s.outcome[r] # "waiting" => t.outcome[r] = s.outcome[r]

\* A poll that still waits has missed nothing.
Wakes(s, t) ==
  \A c \in Connections : t.conn[c].waiter = "waiting" =>
    /\ s.conn[c].waiter = "waiting"
    /\ t.conn[c].outbound = s.conn[c].outbound
    /\ c \in s.connections => c \in t.connections

\* Sessions end, and do not lose their authentication.
Shrinks(s, t) ==
  /\ t.connections \subseteq s.connections
  /\ \A c \in Connections : s.conn[c].authenticated => t.conn[c].authenticated

Evolves(s, t) ==
  /\ t \in ServerStates
  /\ Settles(s, t) /\ Wakes(s, t) /\ Shrinks(s, t)
  /\ t.active = s.active \/ (t.active = None /\ NobodyWaits(t))
  /\ \A c \in Connections : t.conn[c].failures = s.conn[c].failures

LEMMA EvolvesTwice ==
  ASSUME NEW s \in ServerStates, NEW t, NEW u, Evolves(s, t), Evolves(t, u)
  PROVE  Evolves(s, u)
  BY DEF Evolves, Settles, Wakes, Shrinks, NobodyWaits

LEMMA EvolvesSame ==
  ASSUME NEW s \in ServerStates, NEW t \in ServerStates,
         t.connections = s.connections, t.active = s.active, t.outcome = s.outcome,
         \A c \in Connections :
           /\ t.conn[c].authenticated = s.conn[c].authenticated
           /\ t.conn[c].failures = s.conn[c].failures
           /\ t.conn[c].waiter = s.conn[c].waiter
           /\ t.conn[c].outbound = s.conn[c].outbound
  PROVE  Evolves(s, t)
  BY DEF Evolves, Settles, Wakes, Shrinks

LEMMA ClosedEvolves ==
  ASSUME NEW s \in ServerStates, NEW S
  PROVE  Evolves(s, Closed(s, S))
<1> DEFINE t == Closed(s, S)
<1>1. /\ t \in ServerStates
      /\ t.connections = s.connections \ S
      /\ t.active = IF s.active \in S THEN None ELSE s.active
      /\ t.outcome = [r \in Requests |->
           IF s.active \in S /\ r \in Waiting(s) THEN "lost" ELSE s.outcome[r]]
      /\ \A c \in Connections \ S : t.conn[c] = s.conn[c]
      /\ \A c \in Connections :
           /\ t.conn[c].authenticated = s.conn[c].authenticated
           /\ t.conn[c].failures = s.conn[c].failures
           /\ c \in S => t.conn[c].waiter # "waiting"
  BY ClosedFields
<1> HIDE DEF t
<1>2. Settles(s, t) /\ (s.active \in S => NobodyWaits(t))
  BY <1>1 DEF Settles, NobodyWaits, Waiting
<1>3. Wakes(s, t) /\ Shrinks(s, t)
  BY <1>1 DEF Wakes, Shrinks
<1>4. Evolves(s, t)
  BY <1>1, <1>2, <1>3 DEF Evolves
<1> QED
  BY <1>4 DEF t

LEMMA ReachesEvolves ==
  ASSUME NEW s \in ServerStates, NEW c \in Connections, NEW sent \in SUBSET Frames
  PROVE  Evolves(s, Reaches(s, c, sent))
<1> DEFINE seen == [s.seen EXCEPT ![c] = @ \cup {f \in sent : f.type \in {"challenge", "request"}}]
           handed == [r \in Requests |-> IF Frame("request", r) \in sent THEN s.handed[r] + 1
                                         ELSE s.handed[r]]
           t == Reaches(s, c, sent)
<1>1. seen \in [Connections -> SUBSET Frames] /\ handed \in [Requests -> Nat]
  BY StateFields
<1>2. t = [s EXCEPT !.seen = seen, !.handed = handed]
  BY DEF Reaches, ServerStates
<1> HIDE DEF seen, handed
<1>3. /\ t \in ServerStates /\ t.connections = s.connections /\ t.active = s.active
      /\ t.outcome = s.outcome /\ t.conn = s.conn
  BY <1>1, <1>2 DEF ServerStates
<1> QED
  BY <1>3, EvolvesSame

\* Changes of one connection that keep its polls and its authentication.
LEMMA ConnEvolves ==
  ASSUME NEW s \in ServerStates, NEW c \in Connections, NEW k \in ConnectionStates,
         k.failures = s.conn[c].failures,
         s.conn[c].authenticated => k.authenticated,
         k.waiter = "waiting" => /\ s.conn[c].waiter = "waiting"
                                 /\ k.outbound = s.conn[c].outbound
  PROVE  Evolves(s, [s EXCEPT !.conn[c] = k])
<1> DEFINE t == [s EXCEPT !.conn[c] = k]
<1>1. s.conn \in [Connections -> ConnectionStates]
  BY StateFields
<1>2. /\ t \in ServerStates /\ t.connections = s.connections /\ t.active = s.active
      /\ t.outcome = s.outcome /\ t.conn = [s.conn EXCEPT ![c] = k]
  BY <1>1 DEF ServerStates
<1> HIDE DEF t
<1>3. \A d \in Connections : t.conn[d] = IF d = c THEN k ELSE s.conn[d]
  BY <1>1, <1>2
<1>4. Evolves(s, t)
  BY <1>2, <1>3 DEF Evolves, Settles, Wakes, Shrinks
<1> QED
  BY <1>4 DEF t

LEMMA SentEvolves ==
  ASSUME NEW s \in ServerStates, NEW c \in Connections, NEW f \in Frames
  PROVE  Evolves(s, Sent(s, c, f))
<1>1. CASE s.socket[c] = "open"
  BY <1>1, ReachesEvolves DEF Sent
<1>2. CASE /\ s.socket[c] # "open"
           /\ \/ f.type = "request" /\ f.id \in Oversized
              \/ Len(s.conn[c].outbound) >= MaxOutbound
  BY <1>2, ClosedEvolves DEF Sent
<1>3. CASE /\ s.socket[c] # "open"
           /\ ~(\/ f.type = "request" /\ f.id \in Oversized
                \/ Len(s.conn[c].outbound) >= MaxOutbound)
  <2> DEFINE k == [s.conn[c] EXCEPT !.outbound = Append(@, f), !.waiter = Woken(@)]
  <2>1. s.conn \in [Connections -> ConnectionStates] /\ s.conn[c] \in ConnectionStates
    BY StateFields
  <2>2. /\ s.conn[c].outbound \in Seq(Frames)
        /\ Woken(s.conn[c].waiter) \in {"none", "woken"}
    BY <2>1, ConnectionTypes, WokenType
  <2>a. Append(s.conn[c].outbound, f) \in Seq(Frames)
    BY <2>2
  <2>b. k \in ConnectionStates
    BY <2>1, <2>2, <2>a, ChangedConnection
  <2>c. k.waiter = Woken(s.conn[c].waiter) /\ k.failures = s.conn[c].failures
    BY <2>1 DEF ConnectionStates
  <2>d. k.authenticated = s.conn[c].authenticated
    BY <2>1 DEF ConnectionStates
  <2>3. /\ k \in ConnectionStates /\ k.waiter # "waiting"
        /\ k.failures = s.conn[c].failures /\ k.authenticated = s.conn[c].authenticated
    BY <2>2, <2>b, <2>c, <2>d
  <2>4. Sent(s, c, f) = [s EXCEPT !.conn[c] = k]
    BY <1>3, <2>1 DEF Sent, ServerStates
  <2> HIDE DEF k
  <2> QED
    BY <2>3, <2>4, ConnEvolves
<1> QED
  BY <1>1, <1>2, <1>3

LEMMA PrunedEvolves ==
  ASSUME NEW s \in ServerStates
  PROVE  Evolves(s, Pruned(s))
  BY ClosedEvolves DEF Pruned

-----------------------------------------------------------------------------
(* What a frame of a plugin may do.                                        *)

\* The active session changes only when nobody waits on it any more, and only
\* to a connection that has proved the token.
Handles(s, t, c) ==
  /\ t \in ServerStates
  /\ Settles(s, t) /\ Wakes(s, t) /\ Shrinks(s, t)
  /\ \/ t.active = s.active
     \/ NobodyWaits(t) /\ (t.active = None \/ (t.active = c /\ c \notin Strangers))
  /\ \A b \in Connections \ {c} : t.conn[b].failures = s.conn[b].failures

\* A connection that has failed too often is not there any more.
Counts(s, t, c) ==
  \/ t.conn[c].failures = s.conn[c].failures
  \/ c \notin t.connections
  \/ t.conn[c].failures < MaxAuthFailures

LEMMA EvolvesHandles ==
  ASSUME NEW s \in ServerStates, NEW t, NEW c \in Connections, Evolves(s, t)
  PROVE  Handles(s, t, c) /\ Counts(s, t, c)
  BY DEF Evolves, Handles, Counts

LEMMA EvolvesThenHandles ==
  ASSUME NEW s \in ServerStates, NEW t, NEW u, NEW c \in Connections,
         Evolves(s, t), Handles(t, u, c)
  PROVE  Handles(s, u, c)
  BY DEF Evolves, Handles, Settles, Wakes, Shrinks, NobodyWaits

LEMMA HandlesThenEvolves ==
  ASSUME NEW s \in ServerStates, NEW t, NEW u, NEW c \in Connections,
         Handles(s, t, c), Evolves(t, u)
  PROVE  Handles(s, u, c)
  BY DEF Evolves, Handles, Settles, Wakes, Shrinks, NobodyWaits

\* Nobody waits without an active session.
WaitsSomewhere(s) == s.active = None => NobodyWaits(s)

LEMMA AdmittedHandles ==
  ASSUME NEW s \in ServerStates, NEW c \in Connections, c \notin Strangers, WaitsSomewhere(s)
  PROVE  Handles(s, Admitted(s, c), c) /\ Counts(s, Admitted(s, c), c)
<1> DEFINE S == {s.active} \ {None, c}
           free == Closed(s, S)
           k == [free.conn[c] EXCEPT !.authenticated = TRUE, !.stale = FALSE]
           won == [free EXCEPT !.conn[c].authenticated = TRUE, !.conn[c].stale = FALSE,
                               !.active = c]
<1>1. free \in ServerStates /\ Evolves(s, free)
  BY ClosedEvolves DEF Evolves
<1>2. free.active \in {None, c} /\ (free.active = None => NobodyWaits(free))
  <2>1. /\ free.active = IF s.active \in S THEN None ELSE s.active
        /\ free.outcome = [r \in Requests |->
             IF s.active \in S /\ r \in Waiting(s) THEN "lost" ELSE s.outcome[r]]
    BY ClosedFields
  <2> HIDE DEF free
  <2>2. CASE s.active \in S
    BY <2>1, <2>2 DEF NobodyWaits, Waiting
  <2>3. CASE s.active \notin S
    <3>1. s.active \in {None, c} /\ free.active = s.active
      BY <2>1, <2>3
    <3>2. \A r \in Requests : free.outcome[r] = s.outcome[r]
      BY <2>1, <2>3
    <3> QED
      BY <3>1, <3>2 DEF WaitsSomewhere, NobodyWaits
  <2> QED
    BY <2>2, <2>3
<1>3. free.conn \in [Connections -> ConnectionStates] /\ free.conn[c] \in ConnectionStates
  BY <1>1, StateFields
<1> HIDE DEF free, S
<1>4. /\ k \in ConnectionStates /\ k.authenticated
      /\ k.failures = free.conn[c].failures
      /\ k.waiter = free.conn[c].waiter /\ k.outbound = free.conn[c].outbound
  BY <1>3 DEF ConnectionStates
<1>5. won = [free EXCEPT !.conn = [free.conn EXCEPT ![c] = k], !.active = c]
  BY <1>1, <1>3 DEF ServerStates
<1> HIDE DEF k
<1>6. /\ won \in ServerStates /\ won.connections = free.connections /\ won.active = c
      /\ won.outcome = free.outcome /\ won.conn = [free.conn EXCEPT ![c] = k]
  <2> DEFINE conn == [free.conn EXCEPT ![c] = k]
  <2>1. conn \in [Connections -> ConnectionStates]
    BY <1>3, <1>4
  <2>2. won = [free EXCEPT !.conn = conn, !.active = c]
    BY <1>5
  <2> HIDE DEF conn
  <2>3. won.conn = conn
    BY <1>1, <2>2 DEF ServerStates
  <2>4. /\ won \in ServerStates /\ won.connections = free.connections /\ won.active = c
        /\ won.outcome = free.outcome
    BY <1>1, <2>1, <2>2 DEF ServerStates
  <2> QED
    BY <2>3, <2>4 DEF conn
<1> HIDE DEF won
<1>7. \A d \in Connections : won.conn[d] = IF d = c THEN k ELSE free.conn[d]
  BY <1>3, <1>6
<1>8. Settles(free, won) /\ Wakes(free, won) /\ Shrinks(free, won)
  BY <1>4, <1>6, <1>7 DEF Settles, Wakes, Shrinks
<1>9. won.active = free.active \/ NobodyWaits(won)
  BY <1>2, <1>6 DEF NobodyWaits
<1>10. Handles(free, won, c)
  BY <1>6, <1>7, <1>8, <1>9 DEF Handles
<1>11. Admitted(s, c) = Sent(won, c, Frame("authenticated", None))
  BY DEF Admitted, won, free, S
<1>12. Evolves(won, Admitted(s, c))
  BY <1>6, <1>11, FrameTypes, SentEvolves
<1>13. Handles(s, Admitted(s, c), c)
  BY <1>1, <1>10, <1>12, EvolvesThenHandles, HandlesThenEvolves
<1>14. Counts(s, Admitted(s, c), c)
  BY <1>1, <1>4, <1>7, <1>12 DEF Evolves, Counts
<1> QED
  BY <1>13, <1>14

LEMMA ClosedIsGone ==
  ASSUME NEW s \in ServerStates, NEW c
  PROVE  c \notin Closed(s, {c}).connections
<1>1. Closed(s, {c}).connections = s.connections \ {c}
  BY SMTT(30) DEF Closed
<1> QED
  BY <1>1

LEMMA RejectedHandles ==
  ASSUME NEW s \in ServerStates, NEW c \in Connections
  PROVE  Handles(s, Rejected(s, c), c) /\ Counts(s, Rejected(s, c), c)
<1> DEFINE k == [s.conn[c] EXCEPT !.failures = @ + 1]
           counted == [s EXCEPT !.conn[c].failures = @ + 1, !.recent = @ + 1]
           pruned == Pruned(counted)
           again == [pruned EXCEPT !.conn[c].expired = FALSE]
<1>1. /\ s.conn \in [Connections -> ConnectionStates] /\ s.conn[c] \in ConnectionStates
      /\ s.recent \in Nat /\ s.conn[c].failures \in Nat
  BY StateFields, ConnectionTypes
<1>2. /\ k \in ConnectionStates /\ k.authenticated = s.conn[c].authenticated
      /\ k.waiter = s.conn[c].waiter /\ k.outbound = s.conn[c].outbound
  BY <1>1 DEF ConnectionStates
<1>3. counted = [s EXCEPT !.conn = [s.conn EXCEPT ![c] = k], !.recent = s.recent + 1]
  BY <1>1 DEF ServerStates
<1> HIDE DEF k
<1>4. /\ counted \in ServerStates /\ counted.connections = s.connections
      /\ counted.active = s.active /\ counted.outcome = s.outcome
      /\ counted.conn = [s.conn EXCEPT ![c] = k]
  <2> DEFINE conn == [s.conn EXCEPT ![c] = k]
  <2>1. conn \in [Connections -> ConnectionStates] /\ s.recent + 1 \in Nat
    BY <1>1, <1>2
  <2>2. counted = [s EXCEPT !.conn = conn, !.recent = s.recent + 1]
    BY <1>3
  <2> HIDE DEF conn
  <2>3. counted.conn = conn
    BY <2>2 DEF ServerStates
  <2>4. /\ counted \in ServerStates /\ counted.connections = s.connections
        /\ counted.active = s.active /\ counted.outcome = s.outcome
    BY <2>1, <2>2 DEF ServerStates
  <2> QED
    BY <2>3, <2>4 DEF conn
<1> HIDE DEF counted
<1>5. \A d \in Connections : counted.conn[d] = IF d = c THEN k ELSE s.conn[d]
  BY <1>1, <1>4
<1>6. Handles(s, counted, c)
  BY <1>2, <1>4, <1>5 DEF Handles, Settles, Wakes, Shrinks
<1>7. pruned \in ServerStates /\ Evolves(counted, pruned)
  BY <1>4, PrunedEvolves DEF Evolves
<1>8. Evolves(pruned, again) /\ again \in ServerStates
  <2> DEFINE e == [pruned.conn[c] EXCEPT !.expired = FALSE]
  <2> HIDE DEF pruned
  <2>1. pruned.conn \in [Connections -> ConnectionStates] /\ pruned.conn[c] \in ConnectionStates
    BY <1>7, StateFields
  <2>2. /\ e \in ConnectionStates /\ e.authenticated = pruned.conn[c].authenticated
        /\ e.failures = pruned.conn[c].failures
        /\ e.waiter = pruned.conn[c].waiter /\ e.outbound = pruned.conn[c].outbound
    BY <2>1 DEF ConnectionStates
  <2>3. again = [pruned EXCEPT !.conn[c] = e]
    BY <1>7, <2>1 DEF ServerStates
  <2> HIDE DEF e, again
  <2>4. Evolves(pruned, again)
    BY <1>7, <2>2, <2>3, ConnEvolves
  <2> QED
    BY <2>4 DEF Evolves
<1>a. counted.conn[c].failures \in Nat
  <2>1. c \in Connections /\ counted.conn[c] \in ConnectionStates
    BY <1>4, StateFields
  <2> QED
    BY <2>1, ConnectionTypes
<1>9. CASE counted.conn[c].failures >= MaxAuthFailures
  <2>0. ~(counted.conn[c].failures < MaxAuthFailures)
    BY <1>9, <1>a, ConstantFacts
  <2>1. Rejected(s, c) = Closed(counted, {c})
    BY <1>9, <2>0 DEF Rejected, counted
  <2>2. c \notin Closed(counted, {c}).connections
    BY <1>4, ClosedIsGone
  <2> QED
    BY <1>4, <1>6, <2>1, <2>2, ClosedEvolves, HandlesThenEvolves DEF Counts
<1>10. CASE counted.conn[c].failures < MaxAuthFailures /\ counted.recent >= MaxRecentFailures
  <2>0. ~(counted.conn[c].failures >= MaxAuthFailures)
    BY <1>10, <1>a, ConstantFacts
  <2>1. Rejected(s, c) = Closed(pruned, {c})
    BY <1>10, <2>0 DEF Rejected, counted, pruned
  <2>2. c \notin Closed(pruned, {c}).connections
    BY <1>7, ClosedIsGone
  <2>3. Evolves(counted, Closed(pruned, {c}))
    BY <1>4, <1>7, ClosedEvolves, EvolvesTwice
  <2> QED
    BY <1>6, <2>1, <2>2, <2>3, HandlesThenEvolves DEF Counts
<1>11. CASE counted.conn[c].failures < MaxAuthFailures /\ ~(counted.recent >= MaxRecentFailures)
  <2>0. ~(counted.conn[c].failures >= MaxAuthFailures)
    BY <1>11, <1>a, ConstantFacts
  <2> DEFINE t == Sent(again, c, Frame("challenge", None))
  <2>1. Rejected(s, c) = t
    BY <1>11, <2>0 DEF Rejected, counted, pruned, again
  <2> HIDE DEF again, pruned
  <2>2. Evolves(again, t)
    BY <1>8, FrameTypes, SentEvolves
  <2>3. Evolves(counted, t)
    BY <1>4, <1>7, <1>8, <2>2, EvolvesTwice
  <2>4. t.conn[c].failures < MaxAuthFailures
    BY <1>11, <2>3 DEF Evolves
  <2> HIDE DEF t
  <2> QED
    BY <1>6, <2>1, <2>3, <2>4, HandlesThenEvolves DEF Counts
<1> QED
  BY <1>9, <1>10, <1>11, <1>a, ConstantFacts

LEMMA ServedHandles ==
  ASSUME NEW s \in ServerStates, NEW c \in Connections, NEW f \in PluginFrames
  PROVE  Evolves(s, Served(s, c, f))
<1> DEFINE k == [s.conn[c] EXCEPT !.stale = FALSE]
           alive == [s EXCEPT !.conn[c].stale = FALSE]
<1>1. s.conn \in [Connections -> ConnectionStates] /\ s.conn[c] \in ConnectionStates
  BY StateFields
<1>2. /\ k \in ConnectionStates /\ k.authenticated = s.conn[c].authenticated
      /\ k.failures = s.conn[c].failures
      /\ k.waiter = s.conn[c].waiter /\ k.outbound = s.conn[c].outbound
  BY <1>1 DEF ConnectionStates
<1>3. alive = [s EXCEPT !.conn[c] = k]
  BY <1>1 DEF ServerStates
<1> HIDE DEF k, alive
<1>4. Evolves(s, alive) /\ alive \in ServerStates
  <2>1. Evolves(s, alive)
    BY <1>2, <1>3, ConnEvolves
  <2> QED
    BY <2>1 DEF Evolves
<1>5. CASE f.type = "response" /\ f.id \in Waiting(s)
  <2> DEFINE t == [alive EXCEPT !.outcome[f.id] = "answered"]
  <2>1. Served(s, c, f) = t
    BY <1>5 DEF Served, alive
  <2>2. f.id \in Requests /\ s.outcome[f.id] = "waiting"
    BY <1>5 DEF Waiting
  <2>3. alive.outcome \in [Requests -> Outcomes]
    BY <1>4, StateFields
  <2>4. /\ t \in ServerStates /\ t.connections = alive.connections /\ t.active = alive.active
        /\ t.conn = alive.conn
        /\ t.outcome = [alive.outcome EXCEPT ![f.id] = "answered"]
    BY <1>4, <2>2, <2>3 DEF ServerStates, Outcomes
  <2>5. alive.outcome = s.outcome
    BY <1>3, <1>4 DEF ServerStates
  <2> HIDE DEF t
  <2>6. Evolves(alive, t)
    BY <2>2, <2>3, <2>4, <2>5 DEF Evolves, Settles, Wakes, Shrinks
  <2> QED
    BY <1>4, <2>1, <2>6, EvolvesTwice
<1>6. CASE ~(f.type = "response" /\ f.id \in Waiting(s)) /\ f.type = "heartbeat"
  <2>1. Served(s, c, f) = Sent(alive, c, Frame("ack", None))
    BY <1>6 DEF Served, alive
  <2> QED
    BY <1>4, <2>1, FrameTypes, SentEvolves, EvolvesTwice
<1>7. CASE ~(f.type = "response" /\ f.id \in Waiting(s)) /\ f.type # "heartbeat"
  BY <1>4, <1>7 DEF Served, alive
<1> QED
  BY <1>5, <1>6, <1>7

LEMMA IncomingHandles ==
  ASSUME NEW s \in ServerStates, NEW c \in Connections, NEW f \in PluginFrames,
         WaitsSomewhere(s)
  PROVE  Handles(s, Incoming(s, c, f), c) /\ Counts(s, Incoming(s, c, f), c)
<1>1. Evolves(s, s)
  BY EvolvesSame
<1>2. CASE s.conn[c].authenticated
  BY <1>2, ServedHandles, EvolvesHandles DEF Incoming
<1>3. CASE ~s.conn[c].authenticated /\ f.type = "authentication"
  <2>1. Incoming(s, c, f) = Authenticated(s, c)
    BY <1>3 DEF Incoming
  <2>2. CASE Proves(s, c) /\ Occupied(s, c)
    BY <2>1, <2>2, ClosedEvolves, EvolvesHandles DEF Authenticated
  <2>3. CASE Proves(s, c) /\ ~Occupied(s, c)
    BY <2>1, <2>3, AdmittedHandles DEF Authenticated, Proves
  <2>4. CASE ~Proves(s, c) /\ c \in s.connections
    BY <2>1, <2>4, RejectedHandles DEF Authenticated
  <2>5. CASE ~Proves(s, c) /\ c \notin s.connections
    BY <1>1, <2>1, <2>5, EvolvesHandles DEF Authenticated
  <2> QED
    BY <2>2, <2>3, <2>4, <2>5
<1>4. CASE ~s.conn[c].authenticated /\ f.type # "authentication"
  BY <1>4, ClosedEvolves, EvolvesHandles DEF Incoming
<1> QED
  BY <1>2, <1>3, <1>4

-----------------------------------------------------------------------------
(* The invariant, for a server state and the stages and sessions with it.  *)

Owing(st) == {c \in Connections : st[c] = "hello"}

WaitsActive(s, sent) ==
  \A r \in Requests : s.outcome[r] = "waiting" => sent[r] = s.active /\ s.active # None

PollsAwake(s) ==
  \A c \in HttpConnections : s.conn[c].waiter = "waiting" =>
    s.conn[c].outbound = <<>> /\ c \in s.connections

FewFailures(s, st) ==
  /\ \A c \in s.connections : s.conn[c].failures < MaxAuthFailures
  /\ \A c \in Connections : st[c] \in {"new", "hello", "late"} => s.conn[c].failures = 0

FewOpen(s, st) == Cardinality(Owing(st)) + Cardinality(Challenged(s)) <= MaxPendingAuth

\* Only connections that have said hello are registered.
Met(s, st) == \A c \in s.connections : st[c] = "met"

Good(s, st, sent) ==
  /\ s \in ServerStates
  /\ WaitsActive(s, sent) /\ s.active \notin Strangers
  /\ PollsAwake(s)
  /\ FewFailures(s, st) /\ FewOpen(s, st) /\ Met(s, st)

LEMMA Counting ==
  ASSUME NEW st, NEW s, s.connections \subseteq Connections
  PROVE  /\ IsFiniteSet(Owing(st)) /\ Cardinality(Owing(st)) \in Nat
         /\ IsFiniteSet(Challenged(s)) /\ Cardinality(Challenged(s)) \in Nat
<1>1. Owing(st) \subseteq Connections /\ Challenged(s) \subseteq Connections
  BY DEF Owing, Challenged
<1>2. IsFiniteSet(Owing(st)) /\ IsFiniteSet(Challenged(s))
  BY <1>1, ConstantFacts, FS_Subset
<1> QED
  BY <1>2, FS_CardinalityType

LEMMA FewerOpen ==
  ASSUME NEW s \in ServerStates, NEW t, NEW st, NEW st2,
         FewOpen(s, st), Shrinks(s, t), Owing(st2) \subseteq Owing(st)
  PROVE  FewOpen(t, st2)
<1>1. s.connections \subseteq Connections /\ t.connections \subseteq s.connections
  BY StateFields DEF Shrinks
<1>2. Challenged(t) \subseteq Challenged(s)
  BY <1>1 DEF Shrinks, Challenged
<1>3. /\ Cardinality(Challenged(t)) <= Cardinality(Challenged(s))
      /\ Cardinality(Owing(st2)) <= Cardinality(Owing(st))
  BY <1>1, <1>2, Counting, FS_Subset
<1>4. t.connections \subseteq Connections
  BY <1>1
<1>5. /\ Cardinality(Owing(st)) \in Nat /\ Cardinality(Challenged(s)) \in Nat
  BY <1>1, Counting
<1>6. /\ Cardinality(Owing(st2)) \in Nat /\ Cardinality(Challenged(t)) \in Nat
  BY <1>4, Counting
<1> QED
  BY <1>3, <1>5, <1>6, ConstantFacts DEF FewOpen

LEMMA HandlesGood ==
  ASSUME NEW s, NEW t, NEW st, NEW sent, NEW c \in Connections,
         Good(s, st, sent), Handles(s, t, c), Counts(s, t, c),
         st[c] = "met" \/ t.conn[c].failures = s.conn[c].failures
  PROVE  Good(t, st, sent)
<1>0. s \in ServerStates /\ t \in ServerStates /\ t.connections \subseteq s.connections
      /\ s.connections \subseteq Connections
  BY StateFields DEF Good, Handles, Shrinks
<1>1. WaitsActive(t, sent) /\ t.active \notin Strangers
  <2>1. CASE t.active = s.active
    BY <2>1 DEF Good, Handles, WaitsActive, Settles
  <2>2. CASE NobodyWaits(t) /\ (t.active = None \/ (t.active = c /\ c \notin Strangers))
    BY <2>2, ConstantFacts DEF WaitsActive, NobodyWaits
  <2> QED
    BY <2>1, <2>2 DEF Handles
<1>2. PollsAwake(t)
  BY ConstantFacts DEF Good, Handles, PollsAwake, Wakes
<1>3. FewFailures(t, st)
  BY <1>0 DEF Good, Handles, Counts, FewFailures
<1>4. FewOpen(t, st)
  BY <1>0, FewerOpen DEF Good, Handles
<1>5. Met(t, st)
  BY <1>0 DEF Good, Met
<1> QED
  BY <1>0, <1>1, <1>2, <1>3, <1>4, <1>5 DEF Good

LEMMA EvolvesGood ==
  ASSUME NEW s, NEW t, NEW st, NEW sent, Good(s, st, sent), Evolves(s, t)
  PROVE  Good(t, st, sent)
<1>0. s \in ServerStates /\ t \in ServerStates /\ t.connections \subseteq s.connections
      /\ s.connections \subseteq Connections
  BY StateFields DEF Good, Evolves, Shrinks
<1>1. WaitsActive(t, sent) /\ t.active \notin Strangers
  BY ConstantFacts DEF Good, Evolves, WaitsActive, Settles, NobodyWaits
<1>2. PollsAwake(t)
  BY ConstantFacts DEF Good, Evolves, PollsAwake, Wakes
<1>3. FewFailures(t, st)
  BY <1>0 DEF Good, Evolves, FewFailures
<1>4. FewOpen(t, st)
  BY <1>0, FewerOpen DEF Good, Evolves
<1>5. Met(t, st)
  BY <1>0 DEF Good, Met
<1> QED
  BY <1>0, <1>1, <1>2, <1>3, <1>4, <1>5 DEF Good

\* The stages move on, and nobody owes a hello who did not before.
LEMMA StageGood ==
  ASSUME NEW s, NEW st, NEW st2, NEW sent, Good(s, st, sent),
         Owing(st2) \subseteq Owing(st), Met(s, st2),
         \A c \in Connections :
           st2[c] \in {"new", "hello", "late"} => st[c] \in {"new", "hello", "late"}
  PROVE  Good(s, st2, sent)
<1>1. s \in ServerStates /\ Evolves(s, s)
  BY EvolvesSame DEF Good
<1>2. FewOpen(s, st2)
  BY <1>1, FewerOpen DEF Good, Evolves
<1> QED
  BY <1>2 DEF Good, FewFailures

\* A field of the server that the invariant does not speak of.
LEMMA SocketGood ==
  ASSUME NEW s, NEW st, NEW sent, NEW c \in Connections, Good(s, st, sent),
         NEW x \in {"none", "open", "closing", "closed"}
  PROVE  Good([s EXCEPT !.socket[c] = x], st, sent)
<1> DEFINE socket == [s.socket EXCEPT ![c] = x]
           t == [s EXCEPT !.socket[c] = x]
<1>1. s \in ServerStates /\ socket \in [Connections -> {"none", "open", "closing", "closed"}]
  BY StateFields DEF Good
<1>2. t = [s EXCEPT !.socket = socket]
  BY <1>1 DEF ServerStates
<1> HIDE DEF socket
<1>3. /\ t \in ServerStates /\ t.connections = s.connections /\ t.active = s.active
      /\ t.outcome = s.outcome /\ t.conn = s.conn
  BY <1>1, <1>2 DEF ServerStates
<1> HIDE DEF t
<1>4. Evolves(s, t)
  BY <1>1, <1>3, EvolvesSame
<1>5. Good(t, st, sent)
  BY <1>4, EvolvesGood
<1> QED
  BY <1>5 DEF t

ServerInv ==
  /\ stage \in [Connections -> Stages]
  /\ reading \in [HttpConnections -> SUBSET PluginFrames]
  /\ left \subseteq Connections
  /\ sentTo \in [Requests -> Connections \cup {None}]
  /\ \A c \in HttpConnections : reading[c] # {} => stage[c] = "met"
  /\ Good(server, stage, sentTo)

LEMMA InitGood == Init => ServerInv
<1> SUFFICES ASSUME Init
             PROVE  ServerInv
  OBVIOUS
<1> USE DEF Init
<1>1. NewConnection \in ConnectionStates
  <2>1. <<>> \in Seq(Frames)
    OBVIOUS
  <2> QED
    BY <2>1 DEF NewConnection, ConnectionStates
<1>2. server \in ServerStates
  <2>1. [c \in Connections |-> NewConnection] \in [Connections -> ConnectionStates]
    BY <1>1
  <2>2. [r \in Requests |-> "none"] \in [Requests -> Outcomes]
    BY DEF Outcomes
  <2>3. [r \in Requests |-> 0] \in [Requests -> Nat]
    OBVIOUS
  <2>4. [c \in Connections |-> {}] \in [Connections -> SUBSET Frames]
    OBVIOUS
  <2>5. [c \in Connections |-> "none"] \in [Connections -> {"none", "open", "closing", "closed"}]
    OBVIOUS
  <2> QED
    BY <2>1, <2>2, <2>3, <2>4, <2>5, Zenon DEF ServerStates
<1>3. /\ server.connections = {} /\ server.active = None
      /\ \A r \in Requests : server.outcome[r] = "none"
      /\ \A c \in Connections : server.conn[c] = NewConnection
  OBVIOUS
<1>4. WaitsActive(server, sentTo) /\ server.active \notin Strangers
  BY <1>3, ConstantFacts DEF WaitsActive
<1>5. PollsAwake(server) /\ FewFailures(server, stage) /\ Met(server, stage)
  BY <1>3, ConstantFacts DEF PollsAwake, FewFailures, Met, NewConnection
<1>6. FewOpen(server, stage)
  <2>1. Owing(stage) = {} /\ Challenged(server) = {}
    BY <1>3 DEF Owing, Challenged
  <2>2. Cardinality({}) = 0
    BY FS_EmptySet
  <2>3. Cardinality(Owing(stage)) = 0 /\ Cardinality(Challenged(server)) = 0
    BY <2>1, <2>2
  <2> QED
    BY <2>3, ConstantFacts DEF FewOpen
<1>7. Good(server, stage, sentTo)
  BY <1>2, <1>4, <1>5, <1>6 DEF Good
<1> QED
  BY <1>7, Zenon DEF ServerInv, Stages

-----------------------------------------------------------------------------
(* The steps.                                                              *)

LEMMA InvFacts ==
  ASSUME ServerInv
  PROVE  /\ server \in ServerStates /\ Good(server, stage, sentTo)
         /\ WaitsSomewhere(server)
         /\ server.connections \subseteq Connections
         /\ server.conn \in [Connections -> ConnectionStates]
         /\ server.active \in Connections \cup {None}
  BY StateFields DEF ServerInv, Good, WaitsSomewhere, NobodyWaits, WaitsActive

LEMMA PrunedFacts ==
  ASSUME ServerInv
  PROVE  /\ Pruned(server) \in ServerStates
         /\ Good(Pruned(server), stage, sentTo)
         /\ Evolves(server, Pruned(server))
<1>1. Evolves(server, Pruned(server))
  BY InvFacts, PrunedEvolves
<1> QED
  BY <1>1, InvFacts, EvolvesGood DEF Evolves

LEMMA OpenStep ==
  ASSUME ServerInv, NEW c \in Connections, Open(c)
  PROVE  ServerInv'
<1> DEFINE pruned == Pruned(server)
<1>1. stage[c] = "new" /\ UNCHANGED <<reading, left, sentTo>>
  BY DEF Open
<1>2. /\ pruned \in ServerStates /\ Good(pruned, stage, sentTo)
      /\ pruned.connections \subseteq Connections
  BY PrunedFacts, StateFields
<1> HIDE DEF pruned
<1>3. c \notin pruned.connections
  BY <1>1, <1>2 DEF Good, Met
<1>4. CASE stage' = [stage EXCEPT ![c] = "gone"] /\ server' = pruned
  <2>1. Met(pruned, stage')
    BY <1>2, <1>3, <1>4 DEF ServerInv, Good, Met
  <2>2. Owing(stage') \subseteq Owing(stage)
    BY <1>4 DEF ServerInv, Owing
  <2>3. Good(pruned, stage', sentTo)
    BY <1>2, <1>4, <2>1, <2>2, StageGood DEF ServerInv
  <2> QED
    BY <1>1, <1>4, <2>3 DEF ServerInv, Stages
<1>5. CASE /\ ~Crowded(pruned, PreHello)
           /\ stage' = [stage EXCEPT ![c] = "hello"]
           /\ server' = IF c \in HttpConnections THEN pruned
                        ELSE [pruned EXCEPT !.socket[c] = "open"]
  <2>1. Good(pruned, stage', sentTo)
    <3>1. Owing(stage') = Owing(stage) \cup {c} /\ c \notin Owing(stage)
      BY <1>1, <1>5 DEF ServerInv, Owing
    <3>2. Cardinality(Owing(stage')) = Cardinality(Owing(stage)) + 1
      BY <1>2, <3>1, Counting, FS_AddElement
    <3>3. Cardinality(Owing(stage)) + Cardinality(Challenged(pruned)) < MaxPendingAuth
      <4>1. PreHello = Owing(stage)
        BY DEF PreHello, Owing
      <4> QED
        BY <1>2, <1>5, <4>1, Counting, ConstantFacts DEF Crowded
    <3>4. FewOpen(pruned, stage')
      BY <1>2, <3>2, <3>3, Counting, ConstantFacts DEF FewOpen
    <3>5. Met(pruned, stage')
      BY <1>2, <1>3, <1>5 DEF ServerInv, Good, Met
    <3>6. FewFailures(pruned, stage')
      BY <1>1, <1>2, <1>5 DEF ServerInv, Good, FewFailures
    <3> QED
      BY <1>2, <3>4, <3>5, <3>6 DEF Good
  <2>2. Good(server', stage', sentTo)
    BY <1>5, <2>1, SocketGood
  <2> QED
    BY <1>1, <1>5, <2>2 DEF ServerInv, Stages
<1> QED
  BY <1>4, <1>5 DEF Open, pruned

LEMMA HelloDeadlineStep ==
  ASSUME ServerInv, NEW c \in Connections, HelloDeadline(c)
  PROVE  ServerInv'
<1>1. /\ stage[c] = "hello" /\ UNCHANGED <<reading, left, sentTo>>
      /\ stage' = [stage EXCEPT ![c] = IF c \in HttpConnections THEN "gone" ELSE "late"]
      /\ server' = IF c \in HttpConnections THEN server
                   ELSE [server EXCEPT !.socket[c] = "closing"]
  BY DEF HelloDeadline
<1>2. Good(server, stage', sentTo)
  <2>1. Met(server, stage')
    BY <1>1 DEF ServerInv, Good, Met
  <2>2. Owing(stage') \subseteq Owing(stage)
    BY <1>1 DEF ServerInv, Owing
  <2> QED
    BY <1>1, <2>1, <2>2, InvFacts, StageGood DEF ServerInv
<1>3. Good(server', stage', sentTo)
  BY <1>1, <1>2, SocketGood
<1> QED
  BY <1>1, <1>3 DEF ServerInv, Stages

LEMMA HelloStep ==
  ASSUME ServerInv, NEW c \in Connections, Hello(c)
  PROVE  ServerInv'
<1> DEFINE pruned == Pruned(server)
           created == [pruned EXCEPT !.connections = @ \cup {c}]
           challenge == Frame("challenge", None)
<1>1. stage[c] \in {"hello", "late"} /\ UNCHANGED <<reading, left, sentTo>>
  BY DEF Hello
<1>2. /\ pruned \in ServerStates /\ Good(pruned, stage, sentTo)
      /\ pruned.connections \subseteq Connections
  BY PrunedFacts, StateFields
<1>3. /\ Crowded(pruned, PreHello \ {c}) => stage' = [stage EXCEPT ![c] = "gone"]
                                            /\ server' = Closed(pruned, {c})
      /\ ~Crowded(pruned, PreHello \ {c}) =>
           /\ stage' = [stage EXCEPT ![c] = "met"]
           /\ server' = IF c \in HttpConnections THEN Reaches(created, c, {challenge})
                        ELSE Sent(created, c, challenge)
  BY DEF Hello
<1> HIDE DEF pruned
<1>4. c \notin pruned.connections
  BY <1>1, <1>2 DEF Good, Met
<1>5. CASE Crowded(pruned, PreHello \ {c})
  <2>1. Good(server', stage, sentTo)
    BY <1>2, <1>3, <1>5, ClosedEvolves, EvolvesGood
  <2>2. c \notin server'.connections
    BY <1>2, <1>3, <1>5, ClosedIsGone
  <2>3. Met(server', stage')
    <3>1. server'.connections \subseteq Connections
      BY <2>1, StateFields DEF Good
    <3> QED
      BY <1>3, <1>5, <2>1, <2>2, <3>1 DEF ServerInv, Good, Met
  <2>4. Owing(stage') \subseteq Owing(stage)
    BY <1>3, <1>5 DEF ServerInv, Owing
  <2>5. Good(server', stage', sentTo)
    BY <1>3, <1>5, <2>1, <2>3, <2>4, StageGood DEF ServerInv
  <2>6. stage' = [stage EXCEPT ![c] = "gone"]
    BY <1>3, <1>5
  <2>7. stage' \in [Connections -> Stages]
    BY <2>6 DEF ServerInv, Stages
  <2>8. \A b \in HttpConnections : reading'[b] # {} => stage'[b] = "met"
    BY <1>1, <2>6 DEF ServerInv
  <2> QED
    BY <1>1, <2>5, <2>7, <2>8 DEF ServerInv
<1>6. CASE ~Crowded(pruned, PreHello \ {c})
  <2>1. /\ created \in ServerStates /\ created.connections = pruned.connections \cup {c}
        /\ created.active = pruned.active /\ created.outcome = pruned.outcome
        /\ created.conn = pruned.conn
    BY <1>2 DEF ServerStates
  <2> HIDE DEF created
  <2>2. Owing(stage') = PreHello \ {c}
    BY <1>3, <1>6 DEF ServerInv, Owing, PreHello
  <2>3. FewOpen(created, stage')
    <3>1. Challenged(created) \subseteq Challenged(pruned) \cup {c}
      BY <2>1 DEF Challenged
    <3>2. IsFiniteSet(Challenged(pruned)) /\ Cardinality(Challenged(pruned)) \in Nat
      BY <1>2, Counting
    <3>3. /\ IsFiniteSet(Challenged(pruned) \cup {c})
          /\ Cardinality(Challenged(pruned) \cup {c}) \in Nat
          /\ Cardinality(Challenged(pruned) \cup {c}) <= Cardinality(Challenged(pruned)) + 1
      <4>1. c \notin Challenged(pruned)
        BY <1>4 DEF Challenged
      <4>2. /\ IsFiniteSet(Challenged(pruned) \cup {c})
            /\ Cardinality(Challenged(pruned) \cup {c}) = Cardinality(Challenged(pruned)) + 1
        BY <3>2, <4>1, FS_AddElement
      <4> QED
        BY <3>2, <4>2
    <3>4. Cardinality(Challenged(created)) <= Cardinality(Challenged(pruned) \cup {c})
      BY <3>1, <3>3, FS_Subset
    <3>5. created.connections \subseteq Connections
      BY <1>2, <2>1
    <3>6. Cardinality(Challenged(created)) \in Nat /\ Cardinality(Owing(stage')) \in Nat
      BY <3>5, Counting
    <3>7. Cardinality(Owing(stage')) + Cardinality(Challenged(pruned)) < MaxPendingAuth
      BY <1>6, <2>2, <3>2, <3>6, ConstantFacts DEF Crowded
    <3> QED
      BY <3>2, <3>3, <3>4, <3>6, <3>7, ConstantFacts DEF FewOpen
  <2>4. Met(created, stage') /\ FewFailures(created, stage')
    BY <1>1, <1>2, <1>3, <1>6, <2>1, ConstantFacts DEF ServerInv, Good, Met, FewFailures
  <2>5. Good(created, stage', sentTo)
    BY <1>2, <2>1, <2>3, <2>4 DEF Good, WaitsActive, PollsAwake
  <2>6. challenge \in Frames
    BY FrameTypes
  <2> HIDE DEF challenge
  <2>7. Evolves(created, server')
    BY <1>3, <1>6, <2>1, <2>6, ReachesEvolves, SentEvolves
  <2>8. Good(server', stage', sentTo)
    BY <2>5, <2>7, EvolvesGood
  <2>9. stage' \in [Connections -> Stages]
    BY <1>3, <1>6 DEF ServerInv, Stages
  <2>10. \A b \in HttpConnections : reading'[b] # {} => stage'[b] = "met"
    BY <1>1, <1>3, <1>6, ConstantFacts DEF ServerInv
  <2> QED
    BY <1>1, <2>8, <2>9, <2>10 DEF ServerInv
<1> QED
  BY <1>5, <1>6

LEMMA SocketClosesStep ==
  ASSUME ServerInv, NEW c \in Connections \ HttpConnections, SocketCloses(c)
  PROVE  ServerInv'
<1> DEFINE closed == [server EXCEPT !.socket[c] = "closed"]
<1>1. /\ stage' = [stage EXCEPT ![c] = IF @ = "met" THEN "met" ELSE "gone"]
      /\ server' = IF stage[c] = "met" THEN Closed(closed, {c}) ELSE closed
      /\ left' = left \cup {c}
      /\ UNCHANGED <<reading, sentTo>>
  BY DEF SocketCloses
<1>2. Good(closed, stage, sentTo)
  BY InvFacts, SocketGood
<1> HIDE DEF closed
<1>3. Good(server', stage, sentTo)
  <2>1. closed \in ServerStates
    BY <1>2 DEF Good
  <2> QED
    BY <1>1, <1>2, <2>1, ClosedEvolves, EvolvesGood
<1>4. Good(server', stage', sentTo)
  <2>1. Met(server', stage')
    <3>1. server'.connections \subseteq Connections
      BY <1>3, StateFields DEF Good
    <3> QED
      BY <1>1, <1>3, <3>1 DEF ServerInv, Good, Met
  <2>2. Owing(stage') \subseteq Owing(stage)
    BY <1>1 DEF ServerInv, Owing
  <2> QED
    BY <1>1, <1>3, <2>1, <2>2, StageGood DEF ServerInv
<1> QED
  BY <1>1, <1>4 DEF ServerInv, Stages

\* A step of the handlers changes the server, not the bookkeeping around it.
LEMMA ServerChanges ==
  ASSUME ServerInv, UNCHANGED <<stage, reading, left, sentTo>>,
         Good(server', stage, sentTo)
  PROVE  ServerInv'
  BY DEF ServerInv

LEMMA AnsweringEvolves ==
  ASSUME NEW s \in ServerStates, NEW c \in Connections, NEW f \in PluginFrames
  PROVE  Answering(s, c, f) \in ServerStates /\ Evolves(s, Answering(s, c, f))
<1> DEFINE gone == CASE f.type = "authentication" -> {Frame("challenge", None)}
                     [] f.type = "response" -> {Frame("request", f.id)}
                     [] OTHER -> {}
           seen == [s.seen EXCEPT ![c] = @ \ gone]
           t == Answering(s, c, f)
<1>1. t = [s EXCEPT !.seen[c] = @ \ gone]
  BY DEF Answering
<1> HIDE DEF gone
<1>2. seen \in [Connections -> SUBSET Frames]
  BY StateFields
<1>3. t = [s EXCEPT !.seen = seen]
  BY <1>1 DEF ServerStates
<1> HIDE DEF seen
<1>4. /\ t \in ServerStates /\ t.connections = s.connections /\ t.active = s.active
      /\ t.outcome = s.outcome /\ t.conn = s.conn
  BY <1>2, <1>3 DEF ServerStates
<1> HIDE DEF t
<1>5. t \in ServerStates /\ Evolves(s, t)
  BY <1>4, EvolvesSame
<1> QED
  BY <1>5 DEF t

LEMMA GoodWaits ==
  ASSUME NEW s, NEW st, NEW sent, Good(s, st, sent)
  PROVE  s \in ServerStates /\ WaitsSomewhere(s)
  BY DEF Good, WaitsSomewhere, NobodyWaits, WaitsActive

LEMMA IncomingGood ==
  ASSUME NEW s, NEW st, NEW sent, NEW c \in Connections, NEW f \in PluginFrames,
         Good(s, st, sent), st[c] = "met"
  PROVE  Good(Incoming(s, c, f), st, sent)
<1>1. Handles(s, Incoming(s, c, f), c) /\ Counts(s, Incoming(s, c, f), c)
  BY GoodWaits, IncomingHandles
<1> QED
  BY <1>1, HandlesGood

LEMMA SocketFrameStep ==
  ASSUME ServerInv, NEW c \in Connections, SocketFrame(c)
  PROVE  ServerInv'
<1>1. stage[c] = "met" /\ UNCHANGED <<stage, reading, left, sentTo>>
  BY DEF SocketFrame
<1>2. PICK f \in PluginFrames : server' = Incoming(Answering(server, c, f), c, f)
  BY DEF SocketFrame
<1>3. Good(Answering(server, c, f), stage, sentTo)
  BY InvFacts, AnsweringEvolves, EvolvesGood
<1>4. Good(server', stage, sentTo)
  BY <1>1, <1>2, <1>3, IncomingGood
<1> QED
  BY <1>1, <1>4, ServerChanges

LEMMA SendStartsStep ==
  ASSUME ServerInv, NEW c \in HttpConnections, SendStarts(c)
  PROVE  ServerInv'
<1>1. stage[c] = "met" /\ UNCHANGED <<stage, left, sentTo>>
  BY DEF SendStarts
<1>2. PICK f \in PluginFrames :
        /\ server' = Answering(server, c, f)
        /\ reading' = IF c \in server.connections THEN [reading EXCEPT ![c] = @ \cup {f}]
                                                  ELSE reading
  BY DEF SendStarts
<1>3. Good(server', stage, sentTo)
  BY <1>2, InvFacts, ConstantFacts, AnsweringEvolves, EvolvesGood
<1>4. reading' \in [HttpConnections -> SUBSET PluginFrames]
  BY <1>2 DEF ServerInv
<1>5. \A b \in HttpConnections : reading'[b] # {} => stage[b] = "met"
  BY <1>1, <1>2 DEF ServerInv
<1> QED
  BY <1>1, <1>3, <1>4, <1>5 DEF ServerInv

LEMMA SendEndsStep ==
  ASSUME ServerInv, NEW c \in HttpConnections, SendEnds(c)
  PROVE  ServerInv'
<1>1. UNCHANGED <<stage, left, sentTo>>
  BY DEF SendEnds
<1>2. PICK f \in reading[c] :
        /\ reading' = [reading EXCEPT ![c] = @ \ {f}]
        /\ server' \in {Incoming(server, c, f), server}
  BY DEF SendEnds
<1>3. f \in PluginFrames /\ stage[c] = "met" /\ c \in Connections
  BY <1>2, ConstantFacts DEF ServerInv
<1>4. Good(server', stage, sentTo)
  BY <1>2, <1>3, InvFacts, IncomingGood
<1>5. reading' \in [HttpConnections -> SUBSET PluginFrames]
  BY <1>2 DEF ServerInv
<1>6. \A b \in HttpConnections : reading'[b] # {} => stage[b] = "met"
  BY <1>2 DEF ServerInv
<1> QED
  BY <1>1, <1>4, <1>5, <1>6 DEF ServerInv

\* What remains of a queue of frames.
LEMMA RestType ==
  ASSUME NEW queue \in Seq(Frames), NEW n \in 0 .. Len(queue)
  PROVE  Rest(queue, n) \in Seq(Frames) /\ {Batch(queue, n)[i] : i \in 1 .. n} \in SUBSET Frames
<1>1. Rest(queue, n) \in Seq(Frames)
  BY DEF Rest
<1>2. \A i \in 1 .. n : Batch(queue, n)[i] \in Frames
  BY DEF Batch
<1> QED
  BY <1>1, <1>2

LEMMA AnswerGood ==
  ASSUME ServerInv, NEW c \in Connections, Answer(c)
  PROVE  Good(server', stage, sentTo)
<1> DEFINE queue == server.conn[c].outbound
           dequeued(n) == [server EXCEPT !.conn[c].outbound = Rest(queue, n),
                                         !.conn[c].waiter = "none"]
           sent(n) == {Batch(queue, n)[i] : i \in 1 .. n}
<1>1. PICK n \in 0 .. Len(queue) :
        server' \in {Reaches(dequeued(n), c, sent(n)),
                     [Reaches(dequeued(n), c, sent(n)) EXCEPT !.seen = server.seen]}
  BY DEF Answer
<1> DEFINE k == [server.conn[c] EXCEPT !.outbound = Rest(queue, n), !.waiter = "none"]
           t == dequeued(n)
           u == Reaches(t, c, sent(n))
<1>2. server.conn[c] \in ConnectionStates /\ queue \in Seq(Frames)
  BY InvFacts, ConnectionTypes
<1>3. Rest(queue, n) \in Seq(Frames) /\ sent(n) \in SUBSET Frames
  BY <1>2, RestType
<1>4. /\ k \in ConnectionStates /\ k.failures = server.conn[c].failures
      /\ k.waiter = "none"
  BY <1>2, <1>3 DEF ConnectionStates
<1>5. k.authenticated = server.conn[c].authenticated
  BY <1>2 DEF ConnectionStates
<1>6. t = [server EXCEPT !.conn[c] = k]
  BY InvFacts DEF ServerStates
<1> HIDE DEF k, t
<1>7. Evolves(server, t) /\ t \in ServerStates
  <2>1. Evolves(server, t)
    BY <1>4, <1>5, <1>6, InvFacts, ConnEvolves
  <2> QED
    BY <2>1 DEF Evolves
<1>8. Evolves(server, u) /\ u \in ServerStates
  <2>1. Evolves(t, u)
    BY <1>3, <1>7, ReachesEvolves
  <2>2. Evolves(server, u)
    BY <1>7, <2>1, InvFacts, EvolvesTwice
  <2> QED
    BY <2>2 DEF Evolves
<1>9. CASE server' = u
  BY <1>8, <1>9, InvFacts, EvolvesGood
<1>10. CASE server' = [u EXCEPT !.seen = server.seen]
  <2> HIDE DEF u
  <2>1. server.seen \in [Connections -> SUBSET Frames]
    BY InvFacts, StateFields
  <2>2. /\ server' \in ServerStates /\ server'.connections = u.connections
        /\ server'.active = u.active /\ server'.outcome = u.outcome /\ server'.conn = u.conn
    BY <1>8, <1>10, <2>1 DEF ServerStates
  <2>3. Evolves(u, server')
    BY <1>8, <2>2, EvolvesSame
  <2> QED
    BY <1>8, <2>3, InvFacts, EvolvesGood
<1> QED
  BY <1>1, <1>9, <1>10 DEF t

-----------------------------------------------------------------------------
(* Polls, requests and timers.                                             *)

\* Changes of one connection that the other parts of the invariant ignore.
LEMMA ConnGood ==
  ASSUME ServerInv, NEW c \in Connections, NEW k \in ConnectionStates,
         k.failures = server.conn[c].failures,
         k.authenticated = server.conn[c].authenticated,
         k.waiter = "waiting" =>
           \/ server.conn[c].waiter = "waiting" /\ k.outbound = server.conn[c].outbound
           \/ k.outbound = <<>> /\ c \in server.connections
  PROVE  Good([server EXCEPT !.conn[c] = k], stage, sentTo)
<1> DEFINE t == [server EXCEPT !.conn[c] = k]
<1>1. server \in ServerStates /\ server.conn \in [Connections -> ConnectionStates]
  BY InvFacts
<1>2. /\ t \in ServerStates /\ t.connections = server.connections /\ t.active = server.active
      /\ t.outcome = server.outcome /\ t.conn = [server.conn EXCEPT ![c] = k]
  BY <1>1 DEF ServerStates
<1> HIDE DEF t
<1>3. \A d \in Connections : t.conn[d] = IF d = c THEN k ELSE server.conn[d]
  BY <1>1, <1>2
<1>4. t.connections \subseteq Connections
  BY <1>2, InvFacts
<1>5. Good(server, stage, sentTo)
  BY InvFacts
<1>6. WaitsActive(t, sentTo) /\ t.active \notin Strangers
  BY <1>2, <1>5 DEF Good, WaitsActive
<1>7. PollsAwake(t)
  BY <1>2, <1>3, <1>5, ConstantFacts DEF Good, PollsAwake
<1>8. FewFailures(t, stage) /\ Met(t, stage)
  BY <1>2, <1>3, <1>4, <1>5 DEF Good, FewFailures, Met
<1>9. FewOpen(t, stage)
  <2>1. Challenged(t) = Challenged(server)
    BY <1>2, <1>3, <1>4 DEF Challenged
  <2> QED
    BY <1>5, <2>1 DEF Good, FewOpen
<1>10. Good(t, stage, sentTo)
  BY <1>2, <1>6, <1>7, <1>8, <1>9 DEF Good
<1> QED
  BY <1>10 DEF t

LEMMA PollStep ==
  ASSUME ServerInv, NEW c \in HttpConnections, Poll(c)
  PROVE  ServerInv'
<1>1. c \in server.connections /\ UNCHANGED <<stage, reading, left, sentTo>>
  BY DEF Poll
<1>2. c \in Connections
  BY ConstantFacts
<1>3. CASE Answer(c)
  BY <1>1, <1>2, <1>3, AnswerGood, ServerChanges
<1>4. CASE /\ server.conn[c].outbound = <<>>
           /\ server' = [server EXCEPT !.conn[c].waiter = "waiting"]
  <2> DEFINE k == [server.conn[c] EXCEPT !.waiter = "waiting"]
  <2>1. server.conn[c] \in ConnectionStates
    BY <1>2, InvFacts
  <2>2. /\ k \in ConnectionStates /\ k.failures = server.conn[c].failures
        /\ k.outbound = <<>>
    BY <1>4, <2>1 DEF ConnectionStates
  <2>3. k.authenticated = server.conn[c].authenticated
    BY <2>1 DEF ConnectionStates
  <2>4. server' = [server EXCEPT !.conn[c] = k]
    BY <1>2, <1>4, InvFacts DEF ServerStates
  <2> HIDE DEF k
  <2>5. Good([server EXCEPT !.conn[c] = k], stage, sentTo)
    BY <1>1, <1>2, <2>2, <2>3, ConnGood
  <2> QED
    BY <1>1, <2>4, <2>5, ServerChanges
<1> QED
  BY <1>3, <1>4 DEF Poll

LEMMA PollTimesOutStep ==
  ASSUME ServerInv, NEW c \in HttpConnections, PollTimesOut(c)
  PROVE  ServerInv'
<1> DEFINE k == [server.conn[c] EXCEPT !.waiter = "woken"]
<1>1. UNCHANGED <<stage, reading, left, sentTo>> /\ c \in Connections
      /\ server' = [server EXCEPT !.conn[c].waiter = "woken"]
  BY ConstantFacts DEF PollTimesOut
<1>2. server.conn[c] \in ConnectionStates
  BY <1>1, InvFacts
<1>3. k \in ConnectionStates /\ k.failures = server.conn[c].failures /\ k.waiter = "woken"
  BY <1>2 DEF ConnectionStates
<1>4. k.authenticated = server.conn[c].authenticated
  BY <1>2 DEF ConnectionStates
<1>5. server' = [server EXCEPT !.conn[c] = k]
  BY <1>1, InvFacts DEF ServerStates
<1> HIDE DEF k
<1>6. Good([server EXCEPT !.conn[c] = k], stage, sentTo)
  BY <1>1, <1>3, <1>4, ConnGood
<1> QED
  BY <1>1, <1>5, <1>6, ServerChanges

LEMMA PollAnswersStep ==
  ASSUME ServerInv, NEW c \in HttpConnections, PollAnswers(c)
  PROVE  ServerInv'
<1>1. Answer(c) /\ UNCHANGED <<stage, reading, left, sentTo>> /\ c \in Connections
  BY ConstantFacts DEF PollAnswers
<1> QED
  BY <1>1, AnswerGood, ServerChanges

LEMMA LeaveStep ==
  ASSUME ServerInv, NEW c \in HttpConnections, Leave(c)
  PROVE  ServerInv'
<1>1. /\ left' = left \cup {c} /\ UNCHANGED <<stage, reading, sentTo>> /\ c \in Connections
      /\ server' \in {server, Closed(server, {c})}
  BY ConstantFacts DEF Leave
<1>2. Good(server', stage, sentTo)
  BY <1>1, InvFacts, ClosedEvolves, EvolvesGood
<1> QED
  BY <1>1, <1>2 DEF ServerInv

\* A change of the outcomes only.
LEMMA OutcomeFields ==
  ASSUME ServerInv, NEW r \in Requests, NEW o \in Outcomes
  PROVE  LET t == [server EXCEPT !.outcome[r] = o]
         IN /\ t \in ServerStates /\ t.connections = server.connections
            /\ t.active = server.active /\ t.conn = server.conn
            /\ t.outcome = [server.outcome EXCEPT ![r] = o]
            /\ server.outcome \in [Requests -> Outcomes]
<1> DEFINE outcome == [server.outcome EXCEPT ![r] = o]
           t == [server EXCEPT !.outcome[r] = o]
<1>1. server \in ServerStates /\ server.outcome \in [Requests -> Outcomes]
  BY InvFacts, StateFields
<1>2. outcome \in [Requests -> Outcomes]
  BY <1>1
<1>3. t = [server EXCEPT !.outcome = outcome]
  BY <1>1 DEF ServerStates
<1> HIDE DEF outcome
<1>4. /\ t \in ServerStates /\ t.connections = server.connections
      /\ t.active = server.active /\ t.conn = server.conn /\ t.outcome = outcome
  BY <1>1, <1>2, <1>3 DEF ServerStates
<1> QED
  BY <1>1, <1>4 DEF outcome

\* A request that stops waiting, or never did.
LEMMA OutcomeGood ==
  ASSUME ServerInv, NEW r \in Requests, NEW o \in Outcomes, o # "waiting"
  PROVE  Good([server EXCEPT !.outcome[r] = o], stage, sentTo)
<1> DEFINE t == [server EXCEPT !.outcome[r] = o]
<1>1. /\ t \in ServerStates /\ t.connections = server.connections
      /\ t.active = server.active /\ t.conn = server.conn
      /\ t.outcome = [server.outcome EXCEPT ![r] = o]
      /\ server.outcome \in [Requests -> Outcomes]
  BY OutcomeFields
<1> HIDE DEF t
<1>2. Good(server, stage, sentTo)
  BY InvFacts
<1>3. WaitsActive(t, sentTo) /\ t.active \notin Strangers
  BY <1>1, <1>2 DEF Good, WaitsActive
<1>4. PollsAwake(t) /\ FewFailures(t, stage) /\ FewOpen(t, stage) /\ Met(t, stage)
  BY <1>1, <1>2 DEF Good, PollsAwake, FewFailures, FewOpen, Met, Challenged
<1>5. Good(t, stage, sentTo)
  BY <1>1, <1>3, <1>4 DEF Good
<1> QED
  BY <1>5 DEF t

LEMMA RefuseStep ==
  ASSUME ServerInv, NEW r \in Requests, Refuse(r)
  PROVE  ServerInv'
<1>1. /\ server' = [server EXCEPT !.outcome[r] = "refused"]
      /\ UNCHANGED <<stage, reading, left, sentTo>>
  BY DEF Refuse
<1>2. Good(server', stage, sentTo)
  BY <1>1, OutcomeGood DEF Outcomes
<1> QED
  BY <1>1, <1>2, ServerChanges

LEMMA RequestStep ==
  ASSUME ServerInv, NEW r \in Requests, Request(r)
  PROVE  ServerInv'
<1> DEFINE t == [server EXCEPT !.outcome[r] = "waiting"]
<1>1. /\ server.active # None /\ UNCHANGED <<stage, reading, left>>
      /\ server' = Sent(t, server.active, Frame("request", r))
      /\ sentTo' = [sentTo EXCEPT ![r] = server.active]
  BY DEF Request
<1>2. /\ t \in ServerStates /\ t.connections = server.connections
      /\ t.active = server.active /\ t.conn = server.conn
      /\ t.outcome = [server.outcome EXCEPT ![r] = "waiting"]
      /\ server.outcome \in [Requests -> Outcomes]
  BY OutcomeFields DEF Outcomes
<1> HIDE DEF t
<1>3. Good(server, stage, sentTo) /\ server.active \in Connections
  BY <1>1, InvFacts
<1>4. sentTo' \in [Requests -> Connections \cup {None}]
  BY <1>1, <1>3 DEF ServerInv
<1>5. WaitsActive(t, sentTo') /\ t.active \notin Strangers
  BY <1>1, <1>2, <1>3 DEF ServerInv, Good, WaitsActive
<1>6. PollsAwake(t) /\ FewFailures(t, stage) /\ FewOpen(t, stage) /\ Met(t, stage)
  BY <1>2, <1>3 DEF Good, PollsAwake, FewFailures, FewOpen, Met, Challenged
<1>7. Good(t, stage, sentTo')
  BY <1>2, <1>5, <1>6 DEF Good
<1>8. Evolves(t, server')
  BY <1>1, <1>2, <1>3, FrameTypes, SentEvolves
<1>9. Good(server', stage, sentTo')
  BY <1>7, <1>8, EvolvesGood
<1> QED
  BY <1>1, <1>4, <1>9 DEF ServerInv

LEMMA GiveUpStep ==
  ASSUME ServerInv, NEW r \in Requests, Abort(r) \/ Deadline(r)
  PROVE  ServerInv'
<1>1. PICK why \in {"cancelled", "timedOut"} : GiveUp(r, why)
  BY DEF Abort, Deadline
<1> DEFINE t == [server EXCEPT !.outcome[r] = why]
<1>2. /\ server' = Sent(t, sentTo[r], Frame("cancel", r))
      /\ UNCHANGED <<stage, reading, left, sentTo>>
      /\ r \in Waiting(server)
  BY <1>1 DEF GiveUp
<1>3. sentTo[r] \in Connections
  BY <1>2, InvFacts DEF Good, WaitsActive, Waiting
<1>4. Good(t, stage, sentTo) /\ t \in ServerStates
  <2>1. Good(t, stage, sentTo)
    BY OutcomeGood DEF Outcomes
  <2> QED
    BY <2>1 DEF Good
<1> HIDE DEF t
<1>5. Evolves(t, server')
  BY <1>2, <1>3, <1>4, FrameTypes, SentEvolves
<1> QED
  BY <1>2, <1>4, <1>5, EvolvesGood, ServerChanges

LEMMA HeartbeatStep ==
  ASSUME ServerInv, Heartbeat
  PROVE  ServerInv'
<1> DEFINE pruned == Pruned(server)
           a == pruned.active
<1>1. /\ server' = CASE a = None -> pruned
                     [] a # None /\ pruned.conn[a].stale -> Closed(pruned, {a})
                     [] OTHER -> Sent(pruned, a, Frame("heartbeat", None))
      /\ UNCHANGED <<stage, reading, left, sentTo>>
  BY DEF Heartbeat
<1>2. pruned \in ServerStates /\ Good(pruned, stage, sentTo)
  BY PrunedFacts
<1>3. a \in Connections \cup {None}
  BY <1>2, StateFields
<1> HIDE DEF pruned
<1>4. Good(server', stage, sentTo)
  <2>1. CASE a = None
    BY <1>1, <1>2, <2>1
  <2>2. CASE a # None /\ pruned.conn[a].stale
    BY <1>1, <1>2, <2>2, ClosedEvolves, EvolvesGood
  <2>3. CASE a # None /\ ~pruned.conn[a].stale
    <3>1. server' = Sent(pruned, a, Frame("heartbeat", None))
      BY <1>1, <2>3
    <3> QED
      BY <1>2, <1>3, <2>3, <3>1, FrameTypes, SentEvolves, EvolvesGood
  <2> QED
    BY <2>1, <2>2, <2>3
<1> QED
  BY <1>1, <1>4, ServerChanges

LEMMA ClockStep ==
  ASSUME ServerInv, NEW c \in Connections, ChallengeExpires(c) \/ GoesStale(c)
  PROVE  ServerInv'
<1>1. UNCHANGED <<stage, reading, left, sentTo>>
  BY DEF ChallengeExpires, GoesStale
<1>2. PICK k \in {[server.conn[c] EXCEPT !.expired = TRUE], [server.conn[c] EXCEPT !.stale = TRUE]} :
        server' = [server EXCEPT !.conn[c] = k]
  BY InvFacts DEF ChallengeExpires, GoesStale, ServerStates
<1>3. server.conn[c] \in ConnectionStates
  BY InvFacts
<1>4. /\ k \in ConnectionStates /\ k.failures = server.conn[c].failures
      /\ k.waiter = server.conn[c].waiter /\ k.outbound = server.conn[c].outbound
  BY <1>2, <1>3 DEF ConnectionStates
<1>5. k.authenticated = server.conn[c].authenticated
  BY <1>2, <1>3 DEF ConnectionStates
<1>6. Good(server', stage, sentTo)
  BY <1>2, <1>4, <1>5, ConnGood
<1> QED
  BY <1>1, <1>6, ServerChanges

LEMMA FailureForgottenStep ==
  ASSUME ServerInv, FailureForgotten
  PROVE  ServerInv'
<1>1. /\ server' = [server EXCEPT !.recent = @ - 1] /\ server.recent > 0
      /\ UNCHANGED <<stage, reading, left, sentTo>>
  BY DEF FailureForgotten
<1>2. server \in ServerStates /\ server.recent \in Nat
  BY InvFacts, StateFields
<1>3. /\ server' \in ServerStates /\ server'.connections = server.connections
      /\ server'.active = server.active /\ server'.outcome = server.outcome
      /\ server'.conn = server.conn
  BY <1>1, <1>2 DEF ServerStates
<1>4. Evolves(server, server')
  BY <1>2, <1>3, EvolvesSame
<1> QED
  BY <1>1, <1>4, InvFacts, EvolvesGood, ServerChanges

-----------------------------------------------------------------------------
(* What is settled stays settled.                                          *)

SettledStays == \A r \in Requests :
  server.outcome[r] \notin {"none", "waiting"} => server'.outcome[r] = server.outcome[r]

LEMMA SettlesTwice ==
  ASSUME NEW s, NEW t, NEW u, Settles(s, t), Settles(t, u)
  PROVE  Settles(s, u)
  BY DEF Settles

LEMMA ClosedSettles ==
  ASSUME NEW s \in ServerStates, NEW S
  PROVE  Settles(s, Closed(s, S)) /\ Closed(s, S) \in ServerStates
  BY ClosedEvolves DEF Evolves

LEMMA SentSettles ==
  ASSUME NEW s \in ServerStates, NEW c \in Connections, NEW f \in Frames
  PROVE  Settles(s, Sent(s, c, f))
  BY SentEvolves DEF Evolves

LEMMA OpeningSettles ==
  ASSUME ServerInv, NEW c \in Connections, Open(c) \/ HelloDeadline(c)
  PROVE  Settles(server, server')
<1> DEFINE pruned == Pruned(server)
<1>1. Settles(server, pruned) /\ pruned \in ServerStates
  BY PrunedFacts DEF Evolves
<1>2. \/ server'.outcome = server.outcome
      \/ server'.outcome = pruned.outcome
  <2> HIDE DEF pruned
  <2>1. CASE HelloDeadline(c)
    BY <2>1, InvFacts DEF HelloDeadline, ServerStates
  <2>2. CASE Open(c)
    BY <1>1, <2>2 DEF Open, ServerStates, pruned
  <2> QED
    BY <2>1, <2>2
<1> HIDE DEF pruned
<1> QED
  BY <1>1, <1>2 DEF Settles

LEMMA HelloSettles ==
  ASSUME ServerInv, NEW c \in Connections, Hello(c)
  PROVE  Settles(server, server')
<1> DEFINE pruned == Pruned(server)
           created == [pruned EXCEPT !.connections = @ \cup {c}]
<1>1. Settles(server, pruned) /\ pruned \in ServerStates
      /\ pruned.connections \subseteq Connections
  BY PrunedFacts, StateFields DEF Evolves
<1>2. server' \in {Closed(pruned, {c}), Reaches(created, c, {Frame("challenge", None)}),
                   Sent(created, c, Frame("challenge", None))}
  BY DEF Hello
<1> HIDE DEF pruned
<1>3. Settles(pruned, created) /\ created \in ServerStates
  BY <1>1 DEF ServerStates, Settles
<1> HIDE DEF created
<1>4. CASE server' = Closed(pruned, {c})
  BY <1>1, <1>4, ClosedSettles, SettlesTwice
<1>5. CASE server' # Closed(pruned, {c})
  <2>1. Frame("challenge", None) \in Frames
    BY FrameTypes
  <2>2. Evolves(created, server')
    BY <1>2, <1>3, <1>5, <2>1, ReachesEvolves, SentEvolves
  <2>3. Settles(created, server')
    BY <2>2 DEF Evolves
  <2> QED
    BY <1>1, <1>3, <2>3, SettlesTwice
<1> QED
  BY <1>4, <1>5

LEMMA SocketClosesSettles ==
  ASSUME ServerInv, NEW c \in Connections, SocketCloses(c)
  PROVE  Settles(server, server')
<1> DEFINE closed == [server EXCEPT !.socket[c] = "closed"]
<1>1. closed \in ServerStates
  BY InvFacts, SocketGood DEF Good
<1>2. Settles(server, closed)
  BY InvFacts DEF ServerStates, Settles
<1>3. server' \in {closed, Closed(closed, {c})}
  BY DEF SocketCloses
<1> HIDE DEF closed
<1> QED
  BY <1>1, <1>2, <1>3, ClosedSettles, SettlesTwice

LEMMA FrameSettles ==
  ASSUME ServerInv, NEW c \in Connections,
         SocketFrame(c) \/ (c \in HttpConnections /\ (SendStarts(c) \/ SendEnds(c)))
  PROVE  Settles(server, server')
<1>1. ASSUME NEW s, Good(s, stage, sentTo), NEW f \in PluginFrames
      PROVE  Settles(s, Incoming(s, c, f))
  BY <1>1, GoodWaits, IncomingHandles DEF Handles
<1>2. ASSUME NEW f \in PluginFrames
      PROVE  /\ Settles(server, Answering(server, c, f))
             /\ Good(Answering(server, c, f), stage, sentTo)
  <2>1. Evolves(server, Answering(server, c, f))
    BY InvFacts, AnsweringEvolves
  <2> QED
    BY <2>1, InvFacts, EvolvesGood DEF Evolves
<1>3. CASE SocketFrame(c)
  <2>1. PICK f \in PluginFrames : server' = Incoming(Answering(server, c, f), c, f)
    BY <1>3 DEF SocketFrame
  <2> QED
    BY <1>1, <1>2, <2>1, SettlesTwice
<1>4. CASE SendStarts(c)
  BY <1>2, <1>4 DEF SendStarts
<1>5. CASE SendEnds(c) /\ c \in HttpConnections
  <2>1. PICK f \in reading[c] : server' \in {Incoming(server, c, f), server}
    BY <1>5 DEF SendEnds
  <2>2. f \in PluginFrames
    BY <1>5, <2>1 DEF ServerInv
  <2> QED
    BY <1>1, <2>1, <2>2, InvFacts DEF Settles
<1> QED
  BY <1>3, <1>4, <1>5

LEMMA PollSettles ==
  ASSUME ServerInv, NEW c \in HttpConnections,
         Poll(c) \/ PollTimesOut(c) \/ PollAnswers(c) \/ Leave(c)
  PROVE  Settles(server, server')
<1>1. ASSUME Answer(c)
      PROVE  server'.outcome = server.outcome
  BY <1>1, InvFacts DEF Answer, Reaches, ServerStates
<1>2. CASE Poll(c)
  BY <1>1, <1>2, InvFacts DEF Poll, ServerStates, Settles
<1>3. CASE PollTimesOut(c)
  BY <1>3, InvFacts DEF PollTimesOut, ServerStates, Settles
<1>4. CASE PollAnswers(c)
  BY <1>1, <1>4 DEF PollAnswers, Settles
<1>5. CASE Leave(c)
  <2>1. server' \in {server, Closed(server, {c})}
    BY <1>5 DEF Leave
  <2> QED
    BY <2>1, InvFacts, ClosedSettles DEF Settles
<1> QED
  BY <1>2, <1>3, <1>4, <1>5

LEMMA RequestSettles ==
  ASSUME ServerInv, NEW r \in Requests, Refuse(r) \/ Request(r) \/ Abort(r) \/ Deadline(r)
  PROVE  SettledStays
<1>1. ASSUME NEW o \in Outcomes, server.outcome[r] \in {"none", "waiting"},
             NEW t, Settles([server EXCEPT !.outcome[r] = o], t),
             \A q \in Requests \ {r} : server.outcome[q] \in Outcomes
      PROVE  \A q \in Requests : server.outcome[q] \notin {"none", "waiting"} =>
               t.outcome[q] = server.outcome[q]
  <2>1. [server EXCEPT !.outcome[r] = o].outcome = [server.outcome EXCEPT ![r] = o]
    BY OutcomeFields
  <2>2. server.outcome \in [Requests -> Outcomes]
    BY InvFacts, StateFields
  <2> QED
    BY <1>1, <2>1, <2>2 DEF Settles
<1>2. server.outcome \in [Requests -> Outcomes]
  BY InvFacts, StateFields
<1>3. \A o \in Outcomes : [server EXCEPT !.outcome[r] = o] \in ServerStates
  BY OutcomeFields
<1>4. CASE Refuse(r)
  BY <1>2, <1>4, OutcomeFields DEF Refuse, SettledStays, Outcomes
<1>5. CASE Request(r)
  <2>1. server.active \in Connections /\ server.outcome[r] = "none"
    BY <1>5, InvFacts DEF Request
  <2>2. Settles([server EXCEPT !.outcome[r] = "waiting"], server')
    BY <1>3, <1>5, <2>1, FrameTypes, SentSettles DEF Request, Outcomes
  <2> QED
    BY <1>1, <1>2, <2>1, <2>2 DEF SettledStays, Outcomes
<1>6. CASE Abort(r) \/ Deadline(r)
  <2>1. PICK why \in {"cancelled", "timedOut"} : GiveUp(r, why)
    BY <1>6 DEF Abort, Deadline
  <2>2. server.outcome[r] = "waiting" /\ sentTo[r] \in Connections
    BY <2>1, InvFacts DEF GiveUp, Good, WaitsActive, Waiting
  <2>3. Settles([server EXCEPT !.outcome[r] = why], server')
    BY <1>3, <2>1, <2>2, FrameTypes, SentSettles DEF GiveUp, Outcomes
  <2> QED
    BY <1>1, <1>2, <2>2, <2>3 DEF SettledStays, Outcomes
<1> QED
  BY <1>4, <1>5, <1>6

LEMMA TimerSettles ==
  ASSUME ServerInv,
         \/ Heartbeat \/ FailureForgotten
         \/ \E c \in Connections : ChallengeExpires(c) \/ GoesStale(c)
  PROVE  Settles(server, server')
<1>1. CASE Heartbeat
  <2> DEFINE pruned == Pruned(server)
             a == pruned.active
  <2>1. /\ pruned \in ServerStates /\ Settles(server, pruned)
        /\ a \in Connections \cup {None}
    BY PrunedFacts, StateFields DEF Evolves
  <2>2. \/ server' = pruned
        \/ server' = Closed(pruned, {a})
        \/ a # None /\ server' = Sent(pruned, a, Frame("heartbeat", None))
    BY <1>1 DEF Heartbeat
  <2> HIDE DEF pruned
  <2>3. Settles(pruned, server')
    BY <2>1, <2>2, FrameTypes, ClosedSettles, SentSettles DEF Settles
  <2> QED
    BY <2>1, <2>3, SettlesTwice
<1>2. CASE FailureForgotten
  BY <1>2, InvFacts DEF FailureForgotten, ServerStates, Settles
<1>3. ASSUME NEW c \in Connections, ChallengeExpires(c) \/ GoesStale(c)
      PROVE  Settles(server, server')
  BY <1>3, InvFacts DEF ChallengeExpires, GoesStale, ServerStates, Settles
<1> QED
  BY <1>1, <1>2, <1>3

-----------------------------------------------------------------------------
(* The invariant and the theorems.                                         *)

LEMMA NextStep ==
  ASSUME ServerInv, [Next]_vars
  PROVE  ServerInv' /\ SettledStays
<1>1. CASE UNCHANGED vars
  BY <1>1 DEF vars, ServerInv, SettledStays
<1>2. ASSUME NEW c \in Connections, ConnectionNext(c)
      PROVE  ServerInv' /\ Settles(server, server')
  <2>1. CASE Open(c)
    BY <2>1, OpenStep, OpeningSettles
  <2>2. CASE HelloDeadline(c)
    BY <2>2, HelloDeadlineStep, OpeningSettles
  <2>3. CASE Hello(c)
    BY <2>3, HelloStep, HelloSettles
  <2>4. CASE ChallengeExpires(c) \/ GoesStale(c)
    BY <2>4, ClockStep, TimerSettles
  <2> QED
    BY <1>2, <2>1, <2>2, <2>3, <2>4 DEF ConnectionNext
<1>3. ASSUME NEW c \in Connections \ HttpConnections, SocketNext(c)
      PROVE  ServerInv' /\ Settles(server, server')
  <2>1. CASE SocketCloses(c)
    BY <2>1, SocketClosesStep, SocketClosesSettles
  <2>2. CASE SocketFrame(c)
    BY <2>2, SocketFrameStep, FrameSettles
  <2> QED
    BY <1>3, <2>1, <2>2 DEF SocketNext
<1>4. ASSUME NEW c \in HttpConnections, HttpNext(c)
      PROVE  ServerInv' /\ Settles(server, server')
  <2>0. c \in Connections
    BY ConstantFacts
  <2>1. CASE SendStarts(c)
    BY <2>0, <2>1, SendStartsStep, FrameSettles
  <2>2. CASE SendEnds(c)
    BY <2>0, <2>2, SendEndsStep, FrameSettles
  <2>3. CASE Poll(c)
    BY <2>3, PollStep, PollSettles
  <2>4. CASE PollTimesOut(c)
    BY <2>4, PollTimesOutStep, PollSettles
  <2>5. CASE PollAnswers(c)
    BY <2>5, PollAnswersStep, PollSettles
  <2>6. CASE Leave(c)
    BY <2>6, LeaveStep, PollSettles
  <2> QED
    BY <1>4, <2>1, <2>2, <2>3, <2>4, <2>5, <2>6 DEF HttpNext
<1>5. ASSUME NEW r \in Requests, Refuse(r) \/ Request(r) \/ Abort(r) \/ Deadline(r)
      PROVE  ServerInv' /\ SettledStays
  BY <1>5, RefuseStep, RequestStep, GiveUpStep, RequestSettles
<1>6. ASSUME Heartbeat \/ FailureForgotten
      PROVE  ServerInv' /\ Settles(server, server')
  BY <1>6, HeartbeatStep, FailureForgottenStep, TimerSettles
<1>7. Settles(server, server') => SettledStays
  BY DEF Settles, SettledStays
<1> QED
  BY <1>1, <1>2, <1>3, <1>4, <1>5, <1>6, <1>7 DEF Next

LEMMA ServerInvariant == Spec => []ServerInv
<1>1. Init => ServerInv
  BY InitGood
<1>2. ServerInv /\ [Next]_vars => ServerInv'
  BY NextStep
<1> QED
  BY <1>1, <1>2, PTL DEF Spec

\* Type correctness of the bridge, whatever its handlers call one after the
\* other.
THEOREM ServerTypes == Spec => []TypeOK
<1>1. ServerInv => TypeOK
  BY DEF ServerInv, Good, TypeOK
<1> QED
  BY <1>1, ServerInvariant, PTL

\* A tool call waits only on the session that it was sent to, and only while
\* that session is active: closing a session, whichever handler does it, leaves
\* no caller behind.
THEOREM RequestsWaitOnActive == Spec => []WaitsOnActiveSession
<1>1. ServerInv => WaitsOnActiveSession
  BY DEF ServerInv, Good, WaitsActive, WaitsOnActiveSession, Waiting
<1> QED
  BY <1>1, ServerInvariant, PTL

\* However many plugins open, say hello, fail and are pruned, the connections
\* under authentication stay within MAX_PENDING_AUTH and a registered one has
\* failed less often than MAX_AUTH_FAILURES_PER_CONNECTION.
THEOREM AuthenticationStaysBounded == Spec => []AuthenticationBounded
<1>1. PreHello = Owing(stage)
  BY DEF PreHello, Owing
<1>2. ServerInv => AuthenticationBounded
  BY <1>1 DEF ServerInv, Good, FewOpen, FewFailures, AuthenticationBounded
<1> QED
  BY <1>2, ServerInvariant, PTL

\* Only a plugin that holds the token of the server is ever the active session.
THEOREM ActiveIsPaired == Spec => []OnlyPairedActive
<1>1. ServerInv => OnlyPairedActive
  BY DEF ServerInv, Good, OnlyPairedActive
<1> QED
  BY <1>1, ServerInvariant, PTL

\* No poll sleeps beside frames that are meant for it, or on a closed session.
THEOREM PollsDoNotSleep == Spec => []NoSleepingPoll
<1>1. ServerInv => NoSleepingPoll
  BY DEF ServerInv, Good, PollsAwake, NoSleepingPoll
<1> QED
  BY <1>1, ServerInvariant, PTL

\* A request is settled once: no late response, timer, cancellation or closing
\* changes what its caller was told.
THEOREM SettledIsFinal == Spec => SettledOnce
<1>1. ServerInv /\ [Next]_vars => [SettledStays]_vars
  BY NextStep
<1>2. SettledStays <=> \A r \in Requests : server.outcome[r] \notin {"none", "waiting"}
                         => server'.outcome[r] = server.outcome[r]
  BY DEF SettledStays
<1> QED
  BY <1>1, <1>2, ServerInvariant, PTL DEF Spec, SettledOnce

-----------------------------------------------------------------------------
(* The order of frames, and who may become the active session.             *)
(*                                                                         *)
(* ServerInv says nothing of what stands in the queues, nor why a frame    *)
(* whose body is read after its session was closed does not bring a dead   *)
(* connection back.  Ordered follows each request from its queue to the    *)
(* plugin.  Reach says that a connection whose answer to the challenge may *)
(* still win the session is registered, or was ended by its own plugin:    *)
(* every other end takes the only challenge with it or finds it expired.   *)

Holds(q, f) == \E i \in DOMAIN q : q[i] = f

Taken(q, n, f) == \E i \in 1 .. n : q[i] = f

\* A request is in a queue once and before it is handed over; its cancellation
\* stands behind it or comes after that.
InOrder(q, r, h) ==
  \A i \in DOMAIN q :
    /\ q[i] = Frame("request", r) =>
         h = 0 /\ \A j \in DOMAIN q : q[j] = Frame("request", r) => j = i
    /\ q[i] = Frame("cancel", r) /\ h = 0 => \E j \in 1 .. i - 1 : q[j] = Frame("request", r)

RequestInOrder(s, to, r) ==
  /\ s.handed[r] \in {0, 1}
  /\ s.outcome[r] \in {"none", "refused"} =>
       /\ s.handed[r] = 0
       /\ \A c \in Connections : /\ ~Holds(s.conn[c].outbound, Frame("request", r))
                                 /\ ~Holds(s.conn[c].outbound, Frame("cancel", r))
  /\ s.outcome[r] = "waiting" =>
       /\ to[r] = s.active /\ s.active \in Connections
       /\ s.handed[r] = 1 \/ Holds(s.conn[s.active].outbound, Frame("request", r))
  /\ \A c \in Connections :
       /\ InOrder(s.conn[c].outbound, r, s.handed[r])
       /\ Holds(s.conn[c].outbound, Frame("request", r)) => c = to[r]

Ordered(s, to) == \A r \in Requests : RequestInOrder(s, to, r)

Authentication == Frame("authentication", None)
Challenge == Frame("challenge", None)

\* The plugin has been challenged and its answer is on the way or can be given.
Offered(s, rd, c) ==
  IF c \in HttpConnections THEN Authentication \in rd[c]
  ELSE Challenge \in s.seen[c] /\ s.socket[c] \in {"open", "closing"}

Awaited(s, rd, c) ==
  /\ c \notin Strangers /\ ~s.conn[c].authenticated /\ ~s.conn[c].expired
  /\ Offered(s, rd, c)

\* The active session is authenticated and there, or its plugin has ended it.
ActiveThere(s, lf) ==
  s.active # None => s.active \in s.connections \cup lf /\ s.conn[s.active].authenticated

\* What a connection can have before its hello and before its authentication.
Untouched(s, st, c) ==
  /\ st[c] # "met" =>
       s.seen[c] = {} /\ s.conn[c].outbound = <<>> /\ ~s.conn[c].authenticated
  /\ ~s.conn[c].authenticated => \A r \in Requests :
       /\ Frame("request", r) \notin s.seen[c]
       /\ ~Holds(s.conn[c].outbound, Frame("request", r))

\* Bodies of a plugin that is not authenticated are answers to a challenge.
OnlyAnswers(s, rd) ==
  \A c \in HttpConnections \ Strangers :
    ~s.conn[c].authenticated => \A f \in rd[c] : f = Authentication

Reach(s, rd, lf, st) ==
  /\ ActiveThere(s, lf)
  /\ OnlyAnswers(s, rd)
  /\ \A c \in Connections : /\ Untouched(s, st, c)
                            /\ Awaited(s, rd, c) => c \in s.connections \cup lf

LEMMA FrameEqual ==
  \A type1, type2, id1, id2 :
    Frame(type1, id1) = Frame(type2, id2) <=> type1 = type2 /\ id1 = id2
<1>1. \A type, id : Frame(type, id).type = type /\ Frame(type, id).id = id
  BY DEF Frame
<1> QED
  BY <1>1

LEMMA FrameFields ==
  \A type, id : Frame(type, id).type = type /\ Frame(type, id).id = id
  BY DEF Frame

LEMMA Appended ==
  ASSUME NEW q \in Seq(Frames), NEW f \in Frames
  PROVE  /\ DOMAIN Append(q, f) = 1 .. Len(q) + 1 /\ DOMAIN q = 1 .. Len(q) /\ Len(q) \in Nat
         /\ \A i \in 1 .. Len(q) : Append(q, f)[i] = q[i]
         /\ Append(q, f)[Len(q) + 1] = f
         /\ \A g : Holds(Append(q, f), g) <=> Holds(q, g) \/ g = f
<1>1. /\ DOMAIN Append(q, f) = 1 .. Len(q) + 1 /\ DOMAIN q = 1 .. Len(q) /\ Len(q) \in Nat
      /\ \A i \in 1 .. Len(q) : Append(q, f)[i] = q[i]
      /\ Append(q, f)[Len(q) + 1] = f
  OBVIOUS
<1>2. \A i \in 1 .. Len(q) + 1 : i \in 1 .. Len(q) \/ i = Len(q) + 1
  BY <1>1
<1>3. \A i \in 1 .. Len(q) : i \in 1 .. Len(q) + 1
  BY <1>1
<1>4. Len(q) + 1 \in 1 .. Len(q) + 1
  BY <1>1
<1>5. \A g : Holds(Append(q, f), g) <=> Holds(q, g) \/ g = f
  BY <1>1, <1>2, <1>3, <1>4 DEF Holds
<1> QED
  BY <1>1, <1>5

\* What is sent behind a queue keeps its order: a frame about another request, a
\* cancellation of what was sent before, and a request that is new.
LEMMA AppendInOrder ==
  ASSUME NEW q \in Seq(Frames), NEW f \in Frames, NEW r \in Requests, NEW h,
         InOrder(q, r, h),
         f = Frame("request", r) => h = 0 /\ ~Holds(q, Frame("request", r)),
         f = Frame("cancel", r) => h # 0 \/ Holds(q, Frame("request", r))
  PROVE  InOrder(Append(q, f), r, h)
<1> DEFINE a == Append(q, f)
<1>1. /\ DOMAIN a = 1 .. Len(q) + 1 /\ DOMAIN q = 1 .. Len(q) /\ Len(q) \in Nat
      /\ \A i \in 1 .. Len(q) : a[i] = q[i]
      /\ a[Len(q) + 1] = f
  BY Appended
<1> HIDE DEF a
<1>2. \A i \in DOMAIN a : i \in DOMAIN q \/ i = Len(q) + 1
  BY <1>1
<1>3. Frame("request", r) # Frame("cancel", r)
  BY FrameEqual
<1>4. ASSUME NEW i \in DOMAIN a, a[i] = Frame("request", r)
      PROVE  h = 0 /\ \A j \in DOMAIN a : a[j] = Frame("request", r) => j = i
  <2>1. CASE f = Frame("request", r)
    <3>1. \A j \in DOMAIN a : a[j] = Frame("request", r) => j = Len(q) + 1
      BY <1>1, <1>2, <2>1 DEF Holds
    <3> QED
      BY <1>4, <2>1, <3>1
  <2>2. CASE f # Frame("request", r)
    <3>1. \A j \in DOMAIN a : a[j] = Frame("request", r) => j \in DOMAIN q /\ q[j] = a[j]
      BY <1>1, <1>2, <2>2
    <3> QED
      BY <1>4, <3>1 DEF InOrder
  <2> QED
    BY <2>1, <2>2
<1>5. ASSUME NEW i \in DOMAIN a, a[i] = Frame("cancel", r), h = 0
      PROVE  \E j \in 1 .. i - 1 : a[j] = Frame("request", r)
  <2>1. CASE i \in DOMAIN q
    <3>1. PICK j \in 1 .. i - 1 : q[j] = Frame("request", r)
      BY <1>1, <1>5, <2>1 DEF InOrder
    <3> QED
      BY <1>1, <2>1, <3>1
  <2>2. CASE i = Len(q) + 1
    <3>1. PICK j \in DOMAIN q : q[j] = Frame("request", r)
      BY <1>1, <1>5, <2>2 DEF Holds
    <3> QED
      BY <1>1, <2>2, <3>1
  <2> QED
    BY <1>2, <2>1, <2>2
<1>6. InOrder(a, r, h)
  BY <1>4, <1>5 DEF InOrder
<1> QED
  BY <1>6 DEF a

\* What a poll takes from the front of a queue is handed over; the rest is in order.
LEMMA RestInOrder ==
  ASSUME NEW q \in Seq(Frames), NEW n \in 0 .. Len(q), NEW r \in Requests,
         NEW h \in {0, 1}, InOrder(q, r, h),
         NEW h2, h2 = IF Taken(q, n, Frame("request", r)) THEN h + 1 ELSE h
  PROVE  /\ h2 \in {0, 1} /\ (h = 1 => h2 = 1)
         /\ InOrder(Rest(q, n), r, h2)
         /\ Holds(q, Frame("request", r)) => h2 = 1 \/ Holds(Rest(q, n), Frame("request", r))
         /\ \A g : Holds(Rest(q, n), g) => Holds(q, g)
<1> DEFINE p == Rest(q, n)
           req == Frame("request", r)
<1>1. /\ DOMAIN q = 1 .. Len(q) /\ Len(q) \in Nat /\ n \in Nat
      /\ DOMAIN p = 1 .. Len(q) - n
      /\ \A i \in 1 .. Len(q) - n : p[i] = q[n + i]
  BY DEF Rest
<1> HIDE DEF p, req
<1>2. \A i \in DOMAIN p : i \in Nat /\ n + i \in DOMAIN q /\ p[i] = q[n + i]
  BY <1>1
<1>3. \A j \in 1 .. n : j \in DOMAIN q
  BY <1>1
<1>4. \A i \in DOMAIN q : q[i] = req => h = 0 /\ \A j \in DOMAIN q : q[j] = req => j = i
  BY DEF InOrder, req
<1>5. h2 \in {0, 1} /\ (h = 1 => h2 = 1)
  BY <1>3, <1>4 DEF req, Taken
<1>6. \A g : Holds(p, g) => Holds(q, g)
  BY <1>2 DEF Holds
<1>7. Holds(q, req) => h2 = 1 \/ Holds(p, req)
  <2>1. ASSUME NEW i \in DOMAIN q, q[i] = req, h2 # 1
        PROVE  Holds(p, req)
    <3>1. h = 0
      BY <1>4, <2>1
    <3>2. i \notin 1 .. n
      BY <2>1, <3>1 DEF req, Taken
    <3>3. i - n \in DOMAIN p /\ p[i - n] = q[i]
      BY <1>1, <3>2
    <3> QED
      BY <2>1, <3>3 DEF Holds
  <2> QED
    BY <2>1 DEF Holds
<1>8. ASSUME NEW i \in DOMAIN p, p[i] = req
      PROVE  h2 = 0 /\ \A j \in DOMAIN p : p[j] = req => j = i
  <2>1. q[n + i] = req /\ n + i \in DOMAIN q /\ i \in Nat /\ i >= 1
    BY <1>1, <1>2, <1>8
  <2>2. \A j \in 1 .. n : q[j] # req
    BY <1>1, <1>3, <1>4, <2>1
  <2>3. h2 = 0
    BY <1>4, <2>1, <2>2 DEF req, Taken
  <2>4. ASSUME NEW j \in DOMAIN p, p[j] = req
        PROVE  j = i
    <3>1. n + j = n + i
      BY <1>2, <1>4, <2>1, <2>4
    <3> QED
      BY <1>1, <1>2, <2>1, <3>1
  <2> QED
    BY <2>3, <2>4
<1>9. ASSUME NEW i \in DOMAIN p, p[i] = Frame("cancel", r), h2 = 0
      PROVE  \E j \in 1 .. i - 1 : p[j] = req
  <2>1. h = 0 /\ \A j \in 1 .. n : q[j] # req
    BY <1>9 DEF req, Taken
  <2>2. q[n + i] = Frame("cancel", r) /\ n + i \in DOMAIN q
    BY <1>2, <1>9
  <2>3. PICK j \in 1 .. (n + i) - 1 : q[j] = req
    BY <2>1, <2>2 DEF InOrder, req
  <2>4. j \notin 1 .. n
    BY <2>1, <2>3
  <2>5. j - n \in 1 .. i - 1 /\ j - n \in 1 .. Len(q) - n /\ n + (j - n) = j
    BY <1>1, <1>2, <2>3, <2>4
  <2> QED
    BY <1>1, <2>3, <2>5
<1>10. InOrder(p, r, h2)
  BY <1>8, <1>9 DEF InOrder, req
<1> QED
  BY <1>5, <1>6, <1>7, <1>10 DEF p, req

-----------------------------------------------------------------------------
(* All fields of the states that the handlers build.                       *)

\* What a handler leaves of a connection when it touches only its queue.
SameStanding(k, m) ==
  k.authenticated = m.authenticated /\ k.expired = m.expired /\ k.stale = m.stale

LEMMA ClosedExact ==
  ASSUME NEW s \in ServerStates, NEW S
  PROVE  LET t == Closed(s, S)
         IN /\ t.seen = s.seen /\ t.handed = s.handed
            /\ \A c \in Connections :
                 /\ t.socket[c] = IF c \in S /\ s.socket[c] = "open" THEN "closing" ELSE s.socket[c]
                 /\ t.conn[c].outbound = IF c \in S THEN <<>> ELSE s.conn[c].outbound
                 /\ SameStanding(t.conn[c], s.conn[c])
<1> DEFINE t == Closed(s, S)
           conn == [c \in Connections |->
              IF c \in S THEN [s.conn[c] EXCEPT !.outbound = <<>>, !.waiter = Woken(@)]
                         ELSE s.conn[c]]
           outcome == [r \in Requests |->
              IF s.active \in S /\ r \in Waiting(s) THEN "lost" ELSE s.outcome[r]]
           socket == [c \in Connections |->
              IF c \in S /\ s.socket[c] = "open" THEN "closing" ELSE s.socket[c]]
           active == IF s.active \in S THEN None ELSE s.active
<1>1. s.conn \in [Connections -> ConnectionStates]
  BY StateFields
<1>2. t = [s EXCEPT !.connections = @ \ S, !.active = active, !.outcome = outcome,
                    !.conn = conn, !.socket = socket]
  BY DEF Closed
<1>3. t.seen = s.seen /\ t.handed = s.handed /\ t.socket = socket /\ t.conn = conn
  <2> HIDE DEF conn, outcome, socket, active
  <2> QED
    BY <1>2 DEF ServerStates
<1>4. ASSUME NEW c \in Connections
      PROVE  /\ conn[c].outbound = IF c \in S THEN <<>> ELSE s.conn[c].outbound
             /\ SameStanding(conn[c], s.conn[c])
  <2>1. s.conn[c] \in ConnectionStates
    BY <1>1
  <2>2. LET k == [s.conn[c] EXCEPT !.outbound = <<>>, !.waiter = Woken(@)]
        IN k.outbound = <<>> /\ SameStanding(k, s.conn[c])
    BY <2>1 DEF ConnectionStates, SameStanding
  <2> QED
    BY <2>2 DEF SameStanding
<1> HIDE DEF t, conn
<1> QED
  BY <1>3, <1>4 DEF t

\* The state of one connection is replaced.
LEMMA OneConn ==
  ASSUME NEW s \in ServerStates, NEW c \in Connections, NEW k \in ConnectionStates
  PROVE  LET t == [s EXCEPT !.conn[c] = k]
         IN /\ t \in ServerStates
            /\ t.connections = s.connections /\ t.active = s.active /\ t.outcome = s.outcome
            /\ t.socket = s.socket /\ t.seen = s.seen /\ t.handed = s.handed
            /\ t.recent = s.recent
            /\ \A d \in Connections : t.conn[d] = IF d = c THEN k ELSE s.conn[d]
<1>1. s.conn \in [Connections -> ConnectionStates]
  BY StateFields
<1> DEFINE conn == [s.conn EXCEPT ![c] = k]
           t == [s EXCEPT !.conn[c] = k]
<1>2. conn \in [Connections -> ConnectionStates]
  BY <1>1
<1>3. \A d \in Connections : conn[d] = IF d = c THEN k ELSE s.conn[d]
  BY <1>1
<1>4. t = [s EXCEPT !.conn = conn]
  BY DEF ServerStates
<1> HIDE DEF t, conn
<1>5. /\ t \in ServerStates
      /\ t.connections = s.connections /\ t.active = s.active /\ t.outcome = s.outcome
      /\ t.socket = s.socket /\ t.seen = s.seen /\ t.handed = s.handed
      /\ t.recent = s.recent /\ t.conn = conn
  BY <1>2, <1>4 DEF ServerStates
<1> QED
  BY <1>3, <1>5 DEF t

LEMMA ReachesExact ==
  ASSUME NEW s \in ServerStates, NEW c \in Connections, NEW sent \in SUBSET Frames
  PROVE  LET t == Reaches(s, c, sent)
         IN /\ t \in ServerStates
            /\ t.connections = s.connections /\ t.active = s.active /\ t.outcome = s.outcome
            /\ t.socket = s.socket /\ t.conn = s.conn
            /\ \A d \in Connections \ {c} : t.seen[d] = s.seen[d]
            /\ \A f : f \in t.seen[c] <=>
                 f \in s.seen[c] \/ (f \in sent /\ f.type \in {"challenge", "request"})
            /\ \A r \in Requests : t.handed[r] =
                 IF Frame("request", r) \in sent THEN s.handed[r] + 1 ELSE s.handed[r]
<1> DEFINE seen == [s.seen EXCEPT ![c] = @ \cup {f \in sent : f.type \in {"challenge", "request"}}]
           handed == [r \in Requests |-> IF Frame("request", r) \in sent THEN s.handed[r] + 1
                                         ELSE s.handed[r]]
           t == Reaches(s, c, sent)
<1>0. s.seen \in [Connections -> SUBSET Frames] /\ s.handed \in [Requests -> Nat]
  BY StateFields
<1>1. seen \in [Connections -> SUBSET Frames] /\ handed \in [Requests -> Nat]
  BY <1>0
<1>2. t = [s EXCEPT !.seen = seen, !.handed = handed]
  BY DEF Reaches, ServerStates
<1>3. /\ \A d \in Connections \ {c} : seen[d] = s.seen[d]
      /\ \A f : f \in seen[c] <=>
           f \in s.seen[c] \/ (f \in sent /\ f.type \in {"challenge", "request"})
      /\ \A r \in Requests : handed[r] =
           IF Frame("request", r) \in sent THEN s.handed[r] + 1 ELSE s.handed[r]
  BY <1>0
<1> HIDE DEF seen, handed, t
<1>4. /\ t \in ServerStates /\ t.connections = s.connections /\ t.active = s.active
      /\ t.outcome = s.outcome /\ t.conn = s.conn /\ t.socket = s.socket
      /\ t.seen = seen /\ t.handed = handed
  BY <1>1, <1>2 DEF ServerStates
<1> QED
  BY <1>3, <1>4 DEF t

\* A frame joins the queue of a connection.
Queued(s, t, c, f) ==
  /\ t \in ServerStates
  /\ t.connections = s.connections /\ t.active = s.active /\ t.outcome = s.outcome
  /\ t.socket = s.socket /\ t.seen = s.seen /\ t.handed = s.handed
  /\ \A d \in Connections : /\ SameStanding(t.conn[d], s.conn[d])
                            /\ t.conn[d].outbound = IF d = c THEN Append(s.conn[c].outbound, f)
                                                             ELSE s.conn[d].outbound

LEMMA SentCases ==
  ASSUME NEW s \in ServerStates, NEW c \in Connections, NEW f \in Frames
  PROVE  \/ s.socket[c] = "open" /\ Sent(s, c, f) = Reaches(s, c, {f})
         \/ /\ s.socket[c] # "open" /\ Sent(s, c, f) = Closed(s, {c})
            /\ \/ f.type = "request" /\ f.id \in Oversized
               \/ Len(s.conn[c].outbound) >= MaxOutbound
         \/ s.socket[c] # "open" /\ Queued(s, Sent(s, c, f), c, f)
<1>1. CASE s.socket[c] = "open"
  BY <1>1 DEF Sent
<1>2. CASE /\ s.socket[c] # "open"
           /\ \/ f.type = "request" /\ f.id \in Oversized
              \/ Len(s.conn[c].outbound) >= MaxOutbound
  BY <1>2 DEF Sent
<1>3. CASE /\ s.socket[c] # "open"
           /\ ~(\/ f.type = "request" /\ f.id \in Oversized
                \/ Len(s.conn[c].outbound) >= MaxOutbound)
  <2> DEFINE k == [s.conn[c] EXCEPT !.outbound = Append(@, f), !.waiter = Woken(@)]
             t == [s EXCEPT !.conn[c] = k]
  <2>1. s.conn \in [Connections -> ConnectionStates] /\ s.conn[c] \in ConnectionStates
    BY StateFields
  <2>2. /\ s.conn[c].outbound \in Seq(Frames)
        /\ Woken(s.conn[c].waiter) \in {"none", "woken"}
    BY <2>1, ConnectionTypes, WokenType
  <2>3. Append(s.conn[c].outbound, f) \in Seq(Frames)
    BY <2>2
  <2>4. k \in ConnectionStates
    BY <2>1, <2>2, <2>3, ChangedConnection
  <2>5. SameStanding(k, s.conn[c]) /\ k.outbound = Append(s.conn[c].outbound, f)
    BY <2>1 DEF ConnectionStates, SameStanding
  <2>6. Sent(s, c, f) = t
    BY <1>3, <2>1 DEF Sent, ServerStates
  <2> HIDE DEF k
  <2>7. /\ t \in ServerStates
        /\ t.connections = s.connections /\ t.active = s.active /\ t.outcome = s.outcome
        /\ t.socket = s.socket /\ t.seen = s.seen /\ t.handed = s.handed
        /\ \A d \in Connections : t.conn[d] = IF d = c THEN k ELSE s.conn[d]
    BY <2>4, OneConn
  <2> HIDE DEF t
  <2>8. Queued(s, t, c, f)
    BY <2>5, <2>7 DEF Queued, SameStanding
  <2> QED
    BY <1>3, <2>6, <2>8
<1> QED
  BY <1>1, <1>2, <1>3

\* Nothing changes but how a connection stands.
Alike(s, t) ==
  /\ t \in ServerStates
  /\ t.connections = s.connections /\ t.active = s.active /\ t.outcome = s.outcome
  /\ t.socket = s.socket /\ t.seen = s.seen /\ t.handed = s.handed
  /\ \A d \in Connections : t.conn[d].outbound = s.conn[d].outbound

LEMMA ConnAlike ==
  ASSUME NEW s \in ServerStates, NEW c \in Connections, NEW k \in ConnectionStates,
         k.outbound = s.conn[c].outbound
  PROVE  /\ Alike(s, [s EXCEPT !.conn[c] = k])
         /\ \A d \in Connections : [s EXCEPT !.conn[c] = k].conn[d] = IF d = c THEN k ELSE s.conn[d]
<1> DEFINE t == [s EXCEPT !.conn[c] = k]
<1>1. /\ t \in ServerStates
      /\ t.connections = s.connections /\ t.active = s.active /\ t.outcome = s.outcome
      /\ t.socket = s.socket /\ t.seen = s.seen /\ t.handed = s.handed
      /\ \A d \in Connections : t.conn[d] = IF d = c THEN k ELSE s.conn[d]
  BY OneConn
<1> HIDE DEF t
<1>2. Alike(s, t)
  BY <1>1 DEF Alike
<1> QED
  BY <1>1, <1>2 DEF t

\* Admitted: another session is closed, the plugin becomes the active one, and
\* is told so.
LEMMA AdmittedParts ==
  ASSUME NEW s \in ServerStates, NEW c \in Connections, WaitsSomewhere(s)
  PROVE  \E won \in ServerStates :
           LET free == Closed(s, {s.active} \ {None, c})
           IN /\ won.connections = free.connections /\ won.active = c
              /\ won.outcome = free.outcome /\ won.socket = free.socket
              /\ won.seen = free.seen /\ won.handed = free.handed
              /\ \A d \in Connections : won.conn[d].outbound = free.conn[d].outbound
              /\ \A d \in Connections \ {c} : SameStanding(won.conn[d], free.conn[d])
              /\ won.conn[c].authenticated
              /\ won.active = free.active \/ NobodyWaits(won)
              /\ Admitted(s, c) = Sent(won, c, Frame("authenticated", None))
<1> DEFINE S == {s.active} \ {None, c}
           free == Closed(s, S)
           k == [free.conn[c] EXCEPT !.authenticated = TRUE, !.stale = FALSE]
           won == [free EXCEPT !.conn[c].authenticated = TRUE, !.conn[c].stale = FALSE,
                               !.active = c]
<1>1. free \in ServerStates
  BY ClosedFields
<1>2. free.active \in {None, c} /\ (free.active = None => NobodyWaits(free))
  <2>1. /\ free.active = IF s.active \in S THEN None ELSE s.active
        /\ free.outcome = [r \in Requests |->
             IF s.active \in S /\ r \in Waiting(s) THEN "lost" ELSE s.outcome[r]]
    BY ClosedFields
  <2> HIDE DEF free
  <2>2. CASE s.active \in S
    BY <2>1, <2>2 DEF NobodyWaits, Waiting
  <2>3. CASE s.active \notin S
    <3>1. s.active \in {None, c} /\ free.active = s.active
      BY <2>1, <2>3
    <3>2. \A r \in Requests : free.outcome[r] = s.outcome[r]
      BY <2>1, <2>3
    <3> QED
      BY <3>1, <3>2 DEF WaitsSomewhere, NobodyWaits
  <2> QED
    BY <2>2, <2>3
<1>3. free.conn \in [Connections -> ConnectionStates] /\ free.conn[c] \in ConnectionStates
  BY <1>1, StateFields
<1>4. Admitted(s, c) = Sent(won, c, Frame("authenticated", None))
  BY DEF Admitted
<1> HIDE DEF free, S
<1>5. k \in ConnectionStates /\ k.authenticated /\ k.outbound = free.conn[c].outbound
  BY <1>3 DEF ConnectionStates
<1>6. won = [[free EXCEPT !.conn[c] = k] EXCEPT !.active = c]
  BY <1>1, <1>3 DEF ServerStates
<1> HIDE DEF k, won
<1> DEFINE mid == [free EXCEPT !.conn[c] = k]
<1>7. /\ Alike(free, mid)
      /\ \A d \in Connections : mid.conn[d] = IF d = c THEN k ELSE free.conn[d]
  BY <1>1, <1>5, ConnAlike
<1> HIDE DEF mid
<1>8. won = [mid EXCEPT !.active = c]
  BY <1>6 DEF mid
<1>9. /\ won \in ServerStates /\ won.connections = mid.connections /\ won.active = c
      /\ won.outcome = mid.outcome /\ won.socket = mid.socket /\ won.seen = mid.seen
      /\ won.handed = mid.handed /\ won.conn = mid.conn
  BY <1>7, <1>8 DEF Alike, ServerStates
<1>10. /\ won.connections = free.connections /\ won.active = c
       /\ won.outcome = free.outcome /\ won.socket = free.socket
       /\ won.seen = free.seen /\ won.handed = free.handed
       /\ \A d \in Connections : won.conn[d].outbound = free.conn[d].outbound
  BY <1>7, <1>9 DEF Alike
<1>11. /\ \A d \in Connections \ {c} : SameStanding(won.conn[d], free.conn[d])
       /\ won.conn[c].authenticated
  BY <1>5, <1>7, <1>9 DEF SameStanding
<1>12. won.active = free.active \/ NobodyWaits(won)
  BY <1>2, <1>10 DEF NobodyWaits
<1> QED
  BY <1>4, <1>9, <1>10, <1>11, <1>12 DEF free, S

\* Rejected: the failure is counted, challenges that have expired are pruned, and
\* the plugin is closed or challenged again.
LEMMA RejectedParts ==
  ASSUME NEW s \in ServerStates, NEW c \in Connections
  PROVE  \E counted \in ServerStates, again \in ServerStates :
           /\ Alike(s, counted)
           /\ \A d \in Connections : SameStanding(counted.conn[d], s.conn[d])
           /\ Alike(Pruned(counted), again)
           /\ \A d \in Connections \ {c} : SameStanding(again.conn[d], Pruned(counted).conn[d])
           /\ again.conn[c].authenticated = Pruned(counted).conn[c].authenticated
           /\ Pruned(counted) \in ServerStates
           /\ \/ Rejected(s, c) = Closed(counted, {c})
              \/ Rejected(s, c) = Closed(Pruned(counted), {c})
              \/ Rejected(s, c) = Sent(again, c, Frame("challenge", None))
<1> DEFINE k == [s.conn[c] EXCEPT !.failures = @ + 1]
           one == [s EXCEPT !.conn[c] = k]
           counted == [s EXCEPT !.conn[c].failures = @ + 1, !.recent = @ + 1]
           pruned == Pruned(counted)
           e == [pruned.conn[c] EXCEPT !.expired = FALSE]
           again == [pruned EXCEPT !.conn[c].expired = FALSE]
<1>1. /\ s.conn \in [Connections -> ConnectionStates] /\ s.conn[c] \in ConnectionStates
      /\ s.recent \in Nat /\ s.conn[c].failures \in Nat
  BY StateFields, ConnectionTypes
<1>2. k \in ConnectionStates /\ k.outbound = s.conn[c].outbound /\ SameStanding(k, s.conn[c])
  BY <1>1 DEF ConnectionStates, SameStanding
<1>3. counted = [one EXCEPT !.recent = s.recent + 1]
  BY <1>1 DEF ServerStates
<1>4. \/ Rejected(s, c) = Closed(counted, {c})
      \/ Rejected(s, c) = Closed(pruned, {c})
      \/ Rejected(s, c) = Sent(again, c, Frame("challenge", None))
  <2>1. counted.conn[c].failures = s.conn[c].failures + 1
    BY <1>1 DEF ServerStates, ConnectionStates
  <2>2. ~(counted.conn[c].failures < MaxAuthFailures) <=> counted.conn[c].failures >= MaxAuthFailures
    BY <1>1, <2>1, ConstantFacts
  <2>3. CASE counted.conn[c].failures >= MaxAuthFailures
    BY <2>2, <2>3 DEF Rejected
  <2>4. CASE counted.conn[c].failures < MaxAuthFailures /\ counted.recent >= MaxRecentFailures
    BY <2>2, <2>4 DEF Rejected
  <2>5. CASE counted.conn[c].failures < MaxAuthFailures /\ ~(counted.recent >= MaxRecentFailures)
    BY <2>2, <2>5 DEF Rejected
  <2> QED
    BY <2>2, <2>3, <2>4, <2>5
<1> HIDE DEF k
<1>5. /\ Alike(s, one)
      /\ \A d \in Connections : one.conn[d] = IF d = c THEN k ELSE s.conn[d]
  BY <1>2, ConnAlike
<1> HIDE DEF one, counted
<1>6. /\ counted \in ServerStates /\ counted.connections = one.connections
      /\ counted.active = one.active /\ counted.outcome = one.outcome
      /\ counted.socket = one.socket /\ counted.seen = one.seen
      /\ counted.handed = one.handed /\ counted.conn = one.conn
  BY <1>1, <1>3, <1>5 DEF Alike, ServerStates
<1>7. /\ Alike(s, counted)
      /\ \A d \in Connections : SameStanding(counted.conn[d], s.conn[d])
  BY <1>2, <1>5, <1>6 DEF Alike, SameStanding
<1>8. pruned \in ServerStates
  BY <1>6, ClosedFields DEF Pruned
<1>9. pruned.conn \in [Connections -> ConnectionStates] /\ pruned.conn[c] \in ConnectionStates
  BY <1>8, StateFields
<1>10. /\ e \in ConnectionStates /\ e.outbound = pruned.conn[c].outbound
       /\ e.authenticated = pruned.conn[c].authenticated
  <2> HIDE DEF pruned
  <2> QED
    BY <1>9 DEF ConnectionStates
<1>11. again = [pruned EXCEPT !.conn[c] = e]
  <2> HIDE DEF pruned
  <2> QED
    BY <1>8, <1>9 DEF ServerStates
<1> HIDE DEF e, again
<1>12. /\ Alike(pruned, again)
       /\ \A d \in Connections : again.conn[d] = IF d = c THEN e ELSE pruned.conn[d]
  <2> HIDE DEF pruned
  <2> QED
    BY <1>8, <1>10, <1>11, ConnAlike
<1>13. /\ again \in ServerStates
       /\ \A d \in Connections \ {c} : SameStanding(again.conn[d], pruned.conn[d])
       /\ again.conn[c].authenticated = pruned.conn[c].authenticated
  <2> HIDE DEF pruned
  <2> QED
    BY <1>10, <1>12 DEF Alike, SameStanding
<1> QED
  BY <1>4, <1>6, <1>7, <1>8, <1>12, <1>13

\* A frame of an authenticated plugin: it is alive, and then a request is settled
\* or its heartbeat acknowledged.
LEMMA ServedParts ==
  ASSUME NEW s \in ServerStates, NEW c \in Connections, NEW f \in PluginFrames
  PROVE  \E alive \in ServerStates :
           /\ Alike(s, alive)
           /\ \A d \in Connections : /\ alive.conn[d].authenticated = s.conn[d].authenticated
                                     /\ alive.conn[d].expired = s.conn[d].expired
           /\ \/ Served(s, c, f) = alive
              \/ Served(s, c, f) = Sent(alive, c, Frame("ack", None))
              \/ /\ f.id \in Requests /\ s.outcome[f.id] = "waiting"
                 /\ Served(s, c, f) = [alive EXCEPT !.outcome[f.id] = "answered"]
<1> DEFINE k == [s.conn[c] EXCEPT !.stale = FALSE]
           alive == [s EXCEPT !.conn[c].stale = FALSE]
<1>1. s.conn \in [Connections -> ConnectionStates] /\ s.conn[c] \in ConnectionStates
  BY StateFields
<1>2. /\ k \in ConnectionStates /\ k.outbound = s.conn[c].outbound
      /\ k.authenticated = s.conn[c].authenticated /\ k.expired = s.conn[c].expired
  BY <1>1 DEF ConnectionStates
<1>3. alive = [s EXCEPT !.conn[c] = k]
  BY <1>1 DEF ServerStates
<1>4. \/ Served(s, c, f) = alive
      \/ Served(s, c, f) = Sent(alive, c, Frame("ack", None))
      \/ /\ f.id \in Requests /\ s.outcome[f.id] = "waiting"
         /\ Served(s, c, f) = [alive EXCEPT !.outcome[f.id] = "answered"]
  BY Zenon DEF Served, Waiting
<1> HIDE DEF k, alive
<1>5. /\ Alike(s, alive)
      /\ \A d \in Connections : alive.conn[d] = IF d = c THEN k ELSE s.conn[d]
  BY <1>2, <1>3, ConnAlike
<1> QED
  BY <1>2, <1>4, <1>5 DEF Alike

\* What the plugin answers is taken off, and nothing else changes.
LEMMA AnsweringExact ==
  ASSUME NEW s \in ServerStates, NEW c \in Connections, NEW f \in PluginFrames
  PROVE  LET t == Answering(s, c, f)
         IN /\ t \in ServerStates
            /\ t.connections = s.connections /\ t.active = s.active /\ t.outcome = s.outcome
            /\ t.socket = s.socket /\ t.conn = s.conn /\ t.handed = s.handed
            /\ \A d \in Connections \ {c} : t.seen[d] = s.seen[d]
            /\ t.seen[c] \subseteq s.seen[c]
            /\ f.type = "authentication" => Frame("challenge", None) \notin t.seen[c]
<1> DEFINE gone == CASE f.type = "authentication" -> {Frame("challenge", None)}
                     [] f.type = "response" -> {Frame("request", f.id)}
                     [] OTHER -> {}
           seen == [s.seen EXCEPT ![c] = @ \ gone]
           t == Answering(s, c, f)
<1>1. s.seen \in [Connections -> SUBSET Frames]
  BY StateFields
<1>2. t = [s EXCEPT !.seen = seen]
  BY DEF Answering, ServerStates
<1>3. f.type = "authentication" => Frame("challenge", None) \in gone
  OBVIOUS
<1> HIDE DEF gone
<1>4. seen \in [Connections -> SUBSET Frames]
  BY <1>1
<1>5. seen[c] = s.seen[c] \ gone /\ \A d \in Connections \ {c} : seen[d] = s.seen[d]
  BY <1>1
<1> HIDE DEF seen, t
<1>6. /\ t \in ServerStates /\ t.connections = s.connections /\ t.active = s.active
      /\ t.outcome = s.outcome /\ t.conn = s.conn /\ t.socket = s.socket
      /\ t.seen = seen /\ t.handed = s.handed
  BY <1>2, <1>4 DEF ServerStates
<1> QED
  BY <1>3, <1>5, <1>6 DEF t

-----------------------------------------------------------------------------
(* The handlers keep the order of the frames of a request.                 *)

LEMMA EmptyInOrder ==
  ASSUME NEW r, NEW h
  PROVE  InOrder(<<>>, r, h) /\ \A f : ~Holds(<<>>, f)
  BY DEF InOrder, Holds

\* A request is refused or settled, and queues are emptied, but not the one in
\* which a request waits.
LEMMA SameInOrder ==
  ASSUME NEW s \in ServerStates, NEW t \in ServerStates, NEW to, NEW r \in Requests,
         RequestInOrder(s, to, r),
         t.handed[r] = s.handed[r],
         \/ t.outcome[r] = s.outcome[r]
         \/ s.outcome[r] = "none" /\ t.outcome[r] = "refused"
         \/ s.outcome[r] = "waiting" /\ t.outcome[r] \notin {"none", "refused", "waiting"},
         t.outcome[r] = "waiting" => t.active = s.active,
         \A c \in Connections :
           \/ t.conn[c].outbound = s.conn[c].outbound
           \/ t.conn[c].outbound = <<>> /\ (t.outcome[r] = "waiting" => c # t.active)
  PROVE  RequestInOrder(t, to, r)
<1>1. \A c \in Connections : \A f :
        Holds(t.conn[c].outbound, f) => Holds(s.conn[c].outbound, f)
  BY EmptyInOrder
<1>2. ASSUME NEW c \in Connections
      PROVE  /\ InOrder(t.conn[c].outbound, r, t.handed[r])
             /\ Holds(t.conn[c].outbound, Frame("request", r)) => c = to[r]
  <2>1. /\ InOrder(s.conn[c].outbound, r, s.handed[r])
        /\ Holds(s.conn[c].outbound, Frame("request", r)) => c = to[r]
    BY DEF RequestInOrder
  <2> QED
    BY <1>1, <2>1, EmptyInOrder
<1>3. t.outcome[r] \in {"none", "refused"} =>
        /\ t.handed[r] = 0
        /\ \A c \in Connections : /\ ~Holds(t.conn[c].outbound, Frame("request", r))
                                  /\ ~Holds(t.conn[c].outbound, Frame("cancel", r))
  <2>1. t.outcome[r] \in {"none", "refused"} => s.outcome[r] \in {"none", "refused"}
    OBVIOUS
  <2> QED
    BY <1>1, <2>1 DEF RequestInOrder
<1>4. ASSUME t.outcome[r] = "waiting"
      PROVE  /\ to[r] = t.active /\ t.active \in Connections
             /\ t.handed[r] = 1 \/ Holds(t.conn[t.active].outbound, Frame("request", r))
  <2>1. s.outcome[r] = "waiting" /\ t.active = s.active
    BY <1>4
  <2>2. /\ to[r] = s.active /\ s.active \in Connections
        /\ s.handed[r] = 1 \/ Holds(s.conn[s.active].outbound, Frame("request", r))
    BY <2>1 DEF RequestInOrder
  <2>3. t.conn[t.active].outbound = s.conn[s.active].outbound
    BY <1>4, <2>1, <2>2
  <2> QED
    BY <2>1, <2>2, <2>3
<1>5. t.handed[r] \in {0, 1}
  BY DEF RequestInOrder
<1> QED
  BY <1>2, <1>3, <1>4, <1>5 DEF RequestInOrder

LEMMA AlikeInOrder ==
  ASSUME NEW s \in ServerStates, NEW t, NEW to, NEW r \in Requests,
         RequestInOrder(s, to, r), Alike(s, t)
  PROVE  RequestInOrder(t, to, r)
  BY SameInOrder DEF Alike

LEMMA ClosedInOrder ==
  ASSUME NEW s \in ServerStates, NEW S, NEW to, NEW r \in Requests, RequestInOrder(s, to, r)
  PROVE  RequestInOrder(Closed(s, S), to, r)
<1> DEFINE t == Closed(s, S)
<1>1. /\ t \in ServerStates
      /\ t.active = IF s.active \in S THEN None ELSE s.active
      /\ t.outcome = [q \in Requests |->
           IF s.active \in S /\ q \in Waiting(s) THEN "lost" ELSE s.outcome[q]]
  BY ClosedFields
<1>2. /\ t.handed = s.handed
      /\ \A c \in Connections :
           t.conn[c].outbound = IF c \in S THEN <<>> ELSE s.conn[c].outbound
  BY ClosedExact
<1> HIDE DEF t
<1>3. t.outcome[r] = IF s.active \in S /\ s.outcome[r] = "waiting" THEN "lost" ELSE s.outcome[r]
  BY <1>1 DEF Waiting
<1>4. RequestInOrder(t, to, r)
  BY <1>1, <1>2, <1>3, SameInOrder
<1> QED
  BY <1>4 DEF t

\* A frame that is sent: not the request itself, and its cancellation only after
\* the request.
LEMMA SentInOrder ==
  ASSUME NEW s \in ServerStates, NEW c \in Connections, NEW f \in Frames,
         NEW to, NEW r \in Requests, RequestInOrder(s, to, r),
         f # Frame("request", r),
         f = Frame("cancel", r) => /\ s.outcome[r] \notin {"none", "refused"}
                                   /\ \/ s.handed[r] = 1
                                      \/ Holds(s.conn[c].outbound, Frame("request", r))
  PROVE  RequestInOrder(Sent(s, c, f), to, r)
<1> DEFINE t == Sent(s, c, f)
<1>1. CASE t = Reaches(s, c, {f})
  <2>1. /\ t \in ServerStates /\ t.active = s.active /\ t.outcome = s.outcome
        /\ t.conn = s.conn /\ t.handed[r] = s.handed[r]
    <3> HIDE DEF t
    <3>0. {f} \in SUBSET Frames
      OBVIOUS
    <3>1. \A q \in Requests : t.handed[q] =
            IF Frame("request", q) \in {f} THEN s.handed[q] + 1 ELSE s.handed[q]
      BY <1>1, <3>0, ReachesExact
    <3>2. /\ t \in ServerStates /\ t.active = s.active /\ t.outcome = s.outcome
          /\ t.conn = s.conn
      BY <1>1, <3>0, ReachesExact
    <3> QED
      BY <3>1, <3>2
  <2> HIDE DEF t
  <2>2. RequestInOrder(t, to, r)
    BY <2>1, SameInOrder
  <2> QED
    BY <2>2 DEF t
<1>2. CASE t = Closed(s, {c})
  BY <1>2, ClosedInOrder
<1>3. CASE Queued(s, t, c, f)
  <2> HIDE DEF t
  <2> DEFINE q == s.conn[c].outbound
  <2>1. q \in Seq(Frames)
    BY StateFields, ConnectionTypes
  <2>2. /\ t \in ServerStates /\ t.active = s.active /\ t.outcome = s.outcome
        /\ t.handed = s.handed
        /\ \A d \in Connections :
             t.conn[d].outbound = IF d = c THEN Append(q, f) ELSE s.conn[d].outbound
    BY <1>3 DEF Queued
  <2>3. /\ InOrder(q, r, s.handed[r])
        /\ Holds(q, Frame("request", r)) => c = to[r]
    BY DEF RequestInOrder
  <2>3a. s.handed[r] = 1 => s.handed[r] # 0
    OBVIOUS
  <2>4. InOrder(Append(q, f), r, s.handed[r])
    <3> HIDE DEF q
    <3>1. f = Frame("cancel", r) => s.handed[r] # 0 \/ Holds(q, Frame("request", r))
      BY <2>3a DEF q
    <3> QED
      BY <2>1, <2>3, <3>1, AppendInOrder
  <2>5. \A g : Holds(Append(q, f), g) <=> Holds(q, g) \/ g = f
    BY <2>1, Appended
  <2> HIDE DEF q
  <2>6. \A d \in Connections : \A g :
          Holds(t.conn[d].outbound, g) <=> Holds(s.conn[d].outbound, g) \/ (d = c /\ g = f)
    BY <2>2, <2>5 DEF q
  <2>7. ASSUME NEW d \in Connections
        PROVE  /\ InOrder(t.conn[d].outbound, r, t.handed[r])
               /\ Holds(t.conn[d].outbound, Frame("request", r)) => d = to[r]
    <3>1. /\ InOrder(s.conn[d].outbound, r, s.handed[r])
          /\ Holds(s.conn[d].outbound, Frame("request", r)) => d = to[r]
      BY DEF RequestInOrder
    <3> QED
      BY <2>2, <2>4, <2>6, <3>1
  <2>8. t.outcome[r] \in {"none", "refused"} =>
          /\ t.handed[r] = 0
          /\ \A d \in Connections : /\ ~Holds(t.conn[d].outbound, Frame("request", r))
                                    /\ ~Holds(t.conn[d].outbound, Frame("cancel", r))
    BY <2>2, <2>6 DEF RequestInOrder
  <2>9. t.outcome[r] = "waiting" =>
          /\ to[r] = t.active /\ t.active \in Connections
          /\ t.handed[r] = 1 \/ Holds(t.conn[t.active].outbound, Frame("request", r))
    BY <2>2, <2>6 DEF RequestInOrder
  <2>10. t.handed[r] \in {0, 1}
    BY <2>2 DEF RequestInOrder
  <2>11. RequestInOrder(t, to, r)
    BY <2>7, <2>8, <2>9, <2>10 DEF RequestInOrder
  <2> QED
    BY <2>11 DEF t
<1> QED
  BY <1>1, <1>2, <1>3, SentCases

\* Frames that are about no request.
LEMMA PlainInOrder ==
  ASSUME NEW s \in ServerStates, NEW c \in Connections, NEW to, NEW r \in Requests,
         RequestInOrder(s, to, r),
         NEW type \in {"challenge", "authenticated", "heartbeat", "ack"}
  PROVE  RequestInOrder(Sent(s, c, Frame(type, None)), to, r)
<1>1. Frame(type, None) \in Frames
  BY FrameTypes
<1>2. Frame(type, None) # Frame("request", r) /\ Frame(type, None) # Frame("cancel", r)
  BY FrameEqual
<1> QED
  BY <1>1, <1>2, SentInOrder

LEMMA AdmittedInOrder ==
  ASSUME NEW s \in ServerStates, NEW c \in Connections, WaitsSomewhere(s),
         NEW to, NEW r \in Requests, RequestInOrder(s, to, r)
  PROVE  RequestInOrder(Admitted(s, c), to, r)
<1> DEFINE free == Closed(s, {s.active} \ {None, c})
<1>1. PICK won \in ServerStates :
        /\ won.connections = free.connections /\ won.active = c
        /\ won.outcome = free.outcome /\ won.socket = free.socket
        /\ won.seen = free.seen /\ won.handed = free.handed
        /\ \A d \in Connections : won.conn[d].outbound = free.conn[d].outbound
        /\ \A d \in Connections \ {c} : SameStanding(won.conn[d], free.conn[d])
        /\ won.conn[c].authenticated
        /\ won.active = free.active \/ NobodyWaits(won)
        /\ Admitted(s, c) = Sent(won, c, Frame("authenticated", None))
  BY AdmittedParts
<1>2. free \in ServerStates /\ RequestInOrder(free, to, r)
  BY ClosedInOrder, ClosedFields
<1> HIDE DEF free
<1>3. RequestInOrder(won, to, r)
  BY <1>1, <1>2, SameInOrder DEF NobodyWaits
<1> QED
  BY <1>1, <1>3, PlainInOrder

LEMMA RejectedInOrder ==
  ASSUME NEW s \in ServerStates, NEW c \in Connections,
         NEW to, NEW r \in Requests, RequestInOrder(s, to, r)
  PROVE  RequestInOrder(Rejected(s, c), to, r)
<1>1. PICK counted \in ServerStates, again \in ServerStates :
        /\ Alike(s, counted)
        /\ Alike(Pruned(counted), again)
        /\ Pruned(counted) \in ServerStates
        /\ \/ Rejected(s, c) = Closed(counted, {c})
           \/ Rejected(s, c) = Closed(Pruned(counted), {c})
           \/ Rejected(s, c) = Sent(again, c, Frame("challenge", None))
  BY RejectedParts
<1>2. RequestInOrder(counted, to, r)
  BY <1>1, AlikeInOrder
<1>3. RequestInOrder(Pruned(counted), to, r)
  BY <1>2, ClosedInOrder DEF Pruned
<1>4. RequestInOrder(again, to, r)
  BY <1>1, <1>3, AlikeInOrder
<1> QED
  BY <1>1, <1>2, <1>3, <1>4, ClosedInOrder, PlainInOrder

LEMMA ServedInOrder ==
  ASSUME NEW s \in ServerStates, NEW c \in Connections, NEW f \in PluginFrames,
         NEW to, NEW r \in Requests, RequestInOrder(s, to, r)
  PROVE  RequestInOrder(Served(s, c, f), to, r)
<1>1. PICK alive \in ServerStates :
        /\ Alike(s, alive)
        /\ \/ Served(s, c, f) = alive
           \/ Served(s, c, f) = Sent(alive, c, Frame("ack", None))
           \/ /\ f.id \in Requests /\ s.outcome[f.id] = "waiting"
              /\ Served(s, c, f) = [alive EXCEPT !.outcome[f.id] = "answered"]
  BY ServedParts
<1>2. RequestInOrder(alive, to, r)
  BY <1>1, AlikeInOrder
<1>3. ASSUME f.id \in Requests, s.outcome[f.id] = "waiting"
      PROVE  RequestInOrder([alive EXCEPT !.outcome[f.id] = "answered"], to, r)
  <2> DEFINE t == [alive EXCEPT !.outcome[f.id] = "answered"]
  <2>1. alive.outcome \in [Requests -> Outcomes] /\ alive.outcome[f.id] = "waiting"
    BY <1>1, <1>3, StateFields DEF Alike
  <2>2. /\ t \in ServerStates /\ t.active = alive.active /\ t.conn = alive.conn
        /\ t.handed = alive.handed
        /\ t.outcome = [alive.outcome EXCEPT ![f.id] = "answered"]
    BY <1>3, <2>1 DEF ServerStates, Outcomes
  <2> HIDE DEF t
  <2>3. t.outcome[r] = IF r = f.id THEN "answered" ELSE alive.outcome[r]
    BY <1>3, <2>1, <2>2
  <2>4. RequestInOrder(t, to, r)
    BY <1>2, <2>1, <2>2, <2>3, SameInOrder
  <2> QED
    BY <2>4 DEF t
<1> QED
  BY <1>1, <1>2, <1>3, PlainInOrder

LEMMA IncomingInOrder ==
  ASSUME NEW s \in ServerStates, NEW c \in Connections, NEW f \in PluginFrames,
         WaitsSomewhere(s), NEW to, NEW r \in Requests, RequestInOrder(s, to, r)
  PROVE  RequestInOrder(Incoming(s, c, f), to, r)
<1>1. \/ Incoming(s, c, f) = Served(s, c, f) \/ Incoming(s, c, f) = Closed(s, {c})
      \/ Incoming(s, c, f) = Admitted(s, c) \/ Incoming(s, c, f) = Rejected(s, c)
      \/ Incoming(s, c, f) = s
  BY Zenon DEF Incoming, Authenticated
<1> QED
  BY <1>1, ServedInOrder, ClosedInOrder, AdmittedInOrder, RejectedInOrder

-----------------------------------------------------------------------------
(* What the steps change, field by field.                                  *)

LEMMA SocketExact ==
  ASSUME NEW s \in ServerStates, NEW c \in Connections,
         NEW x \in {"none", "open", "closing", "closed"}
  PROVE  LET t == [s EXCEPT !.socket[c] = x]
         IN /\ t \in ServerStates
            /\ t.connections = s.connections /\ t.active = s.active /\ t.outcome = s.outcome
            /\ t.conn = s.conn /\ t.seen = s.seen /\ t.handed = s.handed
            /\ \A d \in Connections : t.socket[d] = IF d = c THEN x ELSE s.socket[d]
<1> DEFINE socket == [s.socket EXCEPT ![c] = x]
           t == [s EXCEPT !.socket[c] = x]
<1>0. s.socket \in [Connections -> {"none", "open", "closing", "closed"}]
  BY StateFields
<1>1. socket \in [Connections -> {"none", "open", "closing", "closed"}]
  BY <1>0
<1>2. t = [s EXCEPT !.socket = socket]
  BY DEF ServerStates
<1>3. \A d \in Connections : socket[d] = IF d = c THEN x ELSE s.socket[d]
  BY <1>0
<1> HIDE DEF socket, t
<1>4. /\ t \in ServerStates /\ t.connections = s.connections /\ t.active = s.active
      /\ t.outcome = s.outcome /\ t.conn = s.conn /\ t.seen = s.seen
      /\ t.handed = s.handed /\ t.socket = socket
  BY <1>1, <1>2 DEF ServerStates
<1> QED
  BY <1>3, <1>4 DEF t

LEMMA OutcomeExact ==
  ASSUME NEW s \in ServerStates, NEW r \in Requests, NEW o \in Outcomes
  PROVE  LET t == [s EXCEPT !.outcome[r] = o]
         IN /\ t \in ServerStates
            /\ t.connections = s.connections /\ t.active = s.active /\ t.socket = s.socket
            /\ t.conn = s.conn /\ t.seen = s.seen /\ t.handed = s.handed
            /\ \A q \in Requests : t.outcome[q] = IF q = r THEN o ELSE s.outcome[q]
<1> DEFINE outcome == [s.outcome EXCEPT ![r] = o]
           t == [s EXCEPT !.outcome[r] = o]
<1>0. s.outcome \in [Requests -> Outcomes]
  BY StateFields
<1>1. outcome \in [Requests -> Outcomes]
  BY <1>0
<1>2. t = [s EXCEPT !.outcome = outcome]
  BY DEF ServerStates
<1>3. \A q \in Requests : outcome[q] = IF q = r THEN o ELSE s.outcome[q]
  BY <1>0
<1> HIDE DEF outcome, t
<1>4. /\ t \in ServerStates /\ t.connections = s.connections /\ t.active = s.active
      /\ t.outcome = outcome /\ t.conn = s.conn /\ t.seen = s.seen
      /\ t.handed = s.handed /\ t.socket = s.socket
  BY <1>1, <1>2 DEF ServerStates
<1> QED
  BY <1>3, <1>4 DEF t

LEMMA CreatedExact ==
  ASSUME NEW s \in ServerStates, NEW c \in Connections
  PROVE  LET t == [s EXCEPT !.connections = @ \cup {c}]
         IN /\ t \in ServerStates
            /\ t.connections = s.connections \cup {c} /\ t.active = s.active
            /\ t.outcome = s.outcome /\ t.socket = s.socket
            /\ t.conn = s.conn /\ t.seen = s.seen /\ t.handed = s.handed
<1>1. s.connections \cup {c} \subseteq Connections
  BY StateFields
<1> QED
  BY <1>1 DEF ServerStates

LEMMA ForgottenAlike ==
  ASSUME server \in ServerStates, FailureForgotten
  PROVE  Alike(server, server') /\ server'.conn = server.conn
<1> DEFINE n == server.recent - 1
<1>1. server.recent \in Nat
  BY StateFields
<1>2. server.recent > 0 /\ server' = [server EXCEPT !.recent = n]
  BY DEF FailureForgotten
<1>3. n \in Nat
  BY <1>1, <1>2
<1> HIDE DEF n
<1>4. /\ server' \in ServerStates
      /\ server'.connections = server.connections /\ server'.active = server.active
      /\ server'.outcome = server.outcome /\ server'.socket = server.socket
      /\ server'.seen = server.seen /\ server'.handed = server.handed
      /\ server'.conn = server.conn
  BY <1>2, <1>3 DEF ServerStates
<1> QED
  BY <1>4 DEF Alike

\* The steps of the clock and of a poll that begins or stops to wait touch no
\* queue and no session.
LEMMA ClockAlike ==
  ASSUME server \in ServerStates, NEW c \in Connections,
         \/ ChallengeExpires(c) \/ GoesStale(c) \/ PollTimesOut(c)
         \/ Poll(c) /\ server.conn[c].outbound = <<>>
  PROVE  \/ Answer(c)
         \/ /\ Alike(server, server')
            /\ \A d \in Connections :
                 /\ server'.conn[d].authenticated = server.conn[d].authenticated
                 /\ server.conn[d].expired => server'.conn[d].expired
<1>0. server.conn \in [Connections -> ConnectionStates] /\ server.conn[c] \in ConnectionStates
  BY StateFields
<1>2. ASSUME NEW k \in ConnectionStates, server' = [server EXCEPT !.conn[c] = k],
             k.outbound = server.conn[c].outbound,
             k.authenticated = server.conn[c].authenticated,
             server.conn[c].expired => k.expired
      PROVE  /\ Alike(server, server')
             /\ \A d \in Connections :
                  /\ server'.conn[d].authenticated = server.conn[d].authenticated
                  /\ server.conn[d].expired => server'.conn[d].expired
  BY <1>2, ConnAlike
<1>3. CASE ChallengeExpires(c)
  <2> DEFINE k == [server.conn[c] EXCEPT !.expired = TRUE]
  <2>1. server' = [server EXCEPT !.conn[c] = k]
    BY <1>0, <1>3 DEF ChallengeExpires, ServerStates
  <2>2. /\ k \in ConnectionStates /\ k.outbound = server.conn[c].outbound
        /\ k.authenticated = server.conn[c].authenticated /\ k.expired
    BY <1>0 DEF ConnectionStates
  <2> HIDE DEF k
  <2> QED
    BY <1>2, <2>1, <2>2
<1>4. CASE GoesStale(c)
  <2> DEFINE k == [server.conn[c] EXCEPT !.stale = TRUE]
  <2>1. server' = [server EXCEPT !.conn[c] = k]
    BY <1>0, <1>4 DEF GoesStale, ServerStates
  <2>2. /\ k \in ConnectionStates /\ k.outbound = server.conn[c].outbound
        /\ k.authenticated = server.conn[c].authenticated
        /\ k.expired = server.conn[c].expired
    BY <1>0 DEF ConnectionStates
  <2> HIDE DEF k
  <2> QED
    BY <1>2, <2>1, <2>2
<1>5. ASSUME NEW w \in {"waiting", "woken"}, server' = [server EXCEPT !.conn[c].waiter = w]
      PROVE  /\ Alike(server, server')
             /\ \A d \in Connections :
                  /\ server'.conn[d].authenticated = server.conn[d].authenticated
                  /\ server.conn[d].expired => server'.conn[d].expired
  <2> DEFINE k == [server.conn[c] EXCEPT !.waiter = w]
  <2>1. server' = [server EXCEPT !.conn[c] = k]
    BY <1>0, <1>5 DEF ServerStates
  <2>2. /\ k \in ConnectionStates /\ k.outbound = server.conn[c].outbound
        /\ k.authenticated = server.conn[c].authenticated
        /\ k.expired = server.conn[c].expired
    BY <1>0 DEF ConnectionStates
  <2> HIDE DEF k
  <2> QED
    BY <1>2, <2>1, <2>2
<1>6. CASE PollTimesOut(c) \/ Poll(c)
  BY <1>5, <1>6 DEF PollTimesOut, Poll
<1> QED
  BY <1>3, <1>4, <1>6

\* A poll is answered: frames from the front of its queue, which the plugin gets
\* or not.
LEMMA AnswerExact ==
  ASSUME server \in ServerStates, NEW c \in Connections, Answer(c)
  PROVE  LET queue == server.conn[c].outbound
         IN \E n \in 0 .. Len(queue) :
              /\ server' \in ServerStates
              /\ server'.connections = server.connections /\ server'.active = server.active
              /\ server'.outcome = server.outcome /\ server'.socket = server.socket
              /\ \A d \in Connections :
                   /\ SameStanding(server'.conn[d], server.conn[d])
                   /\ server'.conn[d].outbound = IF d = c THEN Rest(queue, n)
                                                          ELSE server.conn[d].outbound
                   /\ d # c => server'.seen[d] = server.seen[d]
              /\ \A f \in server'.seen[c] : f \in server.seen[c] \/ Holds(queue, f)
              /\ \A r \in Requests : server'.handed[r] =
                   IF Taken(queue, n, Frame("request", r))
                   THEN server.handed[r] + 1 ELSE server.handed[r]
<1> DEFINE queue == server.conn[c].outbound
           dequeued(n) == [server EXCEPT !.conn[c].outbound = Rest(queue, n),
                                         !.conn[c].waiter = "none"]
           sent(n) == {Batch(queue, n)[i] : i \in 1 .. n}
<1>1. PICK n \in 0 .. Len(queue) :
        server' \in {Reaches(dequeued(n), c, sent(n)),
                     [Reaches(dequeued(n), c, sent(n)) EXCEPT !.seen = server.seen]}
  BY DEF Answer
<1> DEFINE k == [server.conn[c] EXCEPT !.outbound = Rest(queue, n), !.waiter = "none"]
           t == dequeued(n)
           u == Reaches(t, c, sent(n))
<1>2. /\ server.conn \in [Connections -> ConnectionStates]
      /\ server.conn[c] \in ConnectionStates /\ queue \in Seq(Frames)
      /\ server.seen \in [Connections -> SUBSET Frames]
  BY StateFields, ConnectionTypes
<1>3. Rest(queue, n) \in Seq(Frames) /\ sent(n) \in SUBSET Frames
  BY <1>2, RestType
<1>4. \A f : f \in sent(n) <=> Taken(queue, n, f)
  <2>1. \A i \in 1 .. n : Batch(queue, n)[i] = queue[i]
    BY <1>2 DEF Batch
  <2> QED
    BY <2>1 DEF Taken
<1>5. \A f \in sent(n) : Holds(queue, f)
  <2>1. \A i \in 1 .. n : i \in DOMAIN queue
    BY <1>2
  <2> QED
    BY <1>4, <2>1 DEF Holds, Taken
<1>6. /\ k \in ConnectionStates /\ k.outbound = Rest(queue, n)
      /\ SameStanding(k, server.conn[c])
  BY <1>2, <1>3 DEF ConnectionStates, SameStanding
<1>7. t = [server EXCEPT !.conn[c] = k]
  BY <1>2 DEF ServerStates
<1> HIDE DEF k, t, sent, queue
<1>8. /\ t \in ServerStates
      /\ t.connections = server.connections /\ t.active = server.active
      /\ t.outcome = server.outcome /\ t.socket = server.socket
      /\ t.seen = server.seen /\ t.handed = server.handed
      /\ \A d \in Connections : t.conn[d] = IF d = c THEN k ELSE server.conn[d]
  BY <1>6, <1>7, OneConn
<1>9. /\ u \in ServerStates
      /\ u.connections = t.connections /\ u.active = t.active /\ u.outcome = t.outcome
      /\ u.socket = t.socket /\ u.conn = t.conn
      /\ \A d \in Connections \ {c} : u.seen[d] = t.seen[d]
      /\ \A f \in u.seen[c] : f \in t.seen[c] \/ f \in sent(n)
      /\ \A r \in Requests : u.handed[r] =
           IF Frame("request", r) \in sent(n) THEN t.handed[r] + 1 ELSE t.handed[r]
  BY <1>3, <1>8, ReachesExact
<1> HIDE DEF u
<1>10. server' = u \/ server' = [u EXCEPT !.seen = server.seen]
  BY <1>1 DEF t, u
<1>11. /\ server' \in ServerStates
       /\ server'.connections = u.connections /\ server'.active = u.active
       /\ server'.outcome = u.outcome /\ server'.socket = u.socket /\ server'.conn = u.conn
       /\ server'.handed = u.handed
       /\ server'.seen = u.seen \/ server'.seen = server.seen
  BY <1>2, <1>9, <1>10 DEF ServerStates
<1>12. \A d \in Connections :
         /\ SameStanding(server'.conn[d], server.conn[d])
         /\ server'.conn[d].outbound = IF d = c THEN Rest(queue, n) ELSE server.conn[d].outbound
  BY <1>6, <1>8, <1>9, <1>11 DEF SameStanding
<1>13. /\ \A d \in Connections : d # c => server'.seen[d] = server.seen[d]
       /\ \A f \in server'.seen[c] : f \in server.seen[c] \/ Holds(queue, f)
  BY <1>5, <1>8, <1>9, <1>11
<1>14. \A r \in Requests : server'.handed[r] =
         IF Taken(queue, n, Frame("request", r)) THEN server.handed[r] + 1 ELSE server.handed[r]
  BY <1>4, <1>8, <1>9, <1>11
<1> QED
  BY <1>8, <1>9, <1>11, <1>12, <1>13, <1>14 DEF queue

-----------------------------------------------------------------------------
(* The steps keep the order of the frames of a request.                    *)

LEMMA SocketInOrder ==
  ASSUME NEW s \in ServerStates, NEW c \in Connections, NEW to, NEW r \in Requests,
         NEW x \in {"none", "open", "closing", "closed"}, RequestInOrder(s, to, r)
  PROVE  RequestInOrder([s EXCEPT !.socket[c] = x], to, r)
<1> DEFINE t == [s EXCEPT !.socket[c] = x]
<1>1. /\ t \in ServerStates /\ t.active = s.active /\ t.outcome = s.outcome
      /\ t.conn = s.conn /\ t.handed = s.handed
  BY SocketExact
<1> HIDE DEF t
<1>2. RequestInOrder(t, to, r)
  BY <1>1, SameInOrder
<1> QED
  BY <1>2 DEF t

LEMMA ConnectionInOrder ==
  ASSUME ServerInv, NEW c \in Connections, NEW r \in Requests,
         RequestInOrder(server, sentTo, r),
         Open(c) \/ HelloDeadline(c) \/ Hello(c)
  PROVE  RequestInOrder(server', sentTo', r)
<1> DEFINE pruned == Pruned(server)
           created == [pruned EXCEPT !.connections = @ \cup {c}]
           challenge == Frame("challenge", None)
<1>1. sentTo' = sentTo /\ server \in ServerStates
  BY InvFacts DEF Open, HelloDeadline, Hello
<1>2. pruned \in ServerStates /\ RequestInOrder(pruned, sentTo, r)
  BY PrunedFacts, InvFacts, ClosedInOrder DEF Pruned
<1>3. /\ Frame("challenge", None) \in Frames
      /\ {challenge} \in SUBSET Frames
      /\ Frame("challenge", None) # Frame("request", r)
  BY FrameTypes, FrameEqual
<1>4. \A s \in ServerStates, x \in {"none", "open", "closing", "closed"} :
        RequestInOrder(s, sentTo, r) => RequestInOrder([s EXCEPT !.socket[c] = x], sentTo, r)
  BY SocketInOrder
<1>5. CASE Open(c)
  <2>1. \/ server' = pruned
        \/ server' = [pruned EXCEPT !.socket[c] = "open"]
    BY <1>5 DEF Open
  <2> HIDE DEF pruned
  <2> QED
    BY <1>1, <1>2, <1>4, <2>1
<1>6. CASE HelloDeadline(c)
  BY <1>1, <1>4, <1>6 DEF HelloDeadline
<1>7. CASE Hello(c)
  <2>1. \/ server' = Closed(pruned, {c})
        \/ server' = Reaches(created, c, {challenge})
        \/ server' = Sent(created, c, challenge)
    BY <1>7 DEF Hello
  <2> HIDE DEF pruned
  <2>2. /\ created \in ServerStates /\ created.active = pruned.active
        /\ created.outcome = pruned.outcome /\ created.conn = pruned.conn
        /\ created.handed = pruned.handed
    BY <1>2, CreatedExact
  <2> HIDE DEF created
  <2>3. RequestInOrder(created, sentTo, r)
    BY <1>2, <2>2, SameInOrder
  <2>4. RequestInOrder(Sent(created, c, challenge), sentTo, r)
    BY <2>2, <2>3, PlainInOrder
  <2>5. RequestInOrder(Reaches(created, c, {challenge}), sentTo, r)
    <3> DEFINE t == Reaches(created, c, {challenge})
    <3>1. \A q \in Requests : t.handed[q] =
            IF Frame("request", q) \in {challenge} THEN created.handed[q] + 1 ELSE created.handed[q]
      BY <1>3, <2>2, ReachesExact
    <3>2. /\ t \in ServerStates /\ t.active = created.active /\ t.outcome = created.outcome
          /\ t.conn = created.conn
      BY <1>3, <2>2, ReachesExact
    <3> HIDE DEF t
    <3>3. t.handed[r] = created.handed[r]
      BY <1>3, <3>1
    <3>4. RequestInOrder(t, sentTo, r)
      BY <2>2, <2>3, <3>2, <3>3, SameInOrder
    <3> QED
      BY <3>4 DEF t
  <2> QED
    BY <1>1, <1>2, <2>1, <2>4, <2>5, ClosedInOrder
<1> QED
  BY <1>5, <1>6, <1>7

LEMMA FramesInOrder ==
  ASSUME ServerInv, NEW c \in Connections, NEW r \in Requests,
         RequestInOrder(server, sentTo, r),
         \/ c \notin HttpConnections /\ (SocketCloses(c) \/ SocketFrame(c))
         \/ c \in HttpConnections /\ (SendStarts(c) \/ SendEnds(c) \/ Leave(c))
  PROVE  RequestInOrder(server', sentTo', r)
<1>1. sentTo' = sentTo /\ server \in ServerStates /\ WaitsSomewhere(server)
  BY InvFacts DEF SocketCloses, SocketFrame, SendStarts, SendEnds, Leave
<1>2. CASE SocketCloses(c)
  <2> DEFINE closed == [server EXCEPT !.socket[c] = "closed"]
  <2>1. server' = Closed(closed, {c}) \/ server' = closed
    BY <1>2 DEF SocketCloses
  <2>2. /\ closed \in ServerStates /\ closed.active = server.active
        /\ closed.outcome = server.outcome /\ closed.conn = server.conn
        /\ closed.handed = server.handed
    BY <1>1, SocketExact
  <2> HIDE DEF closed
  <2>3. RequestInOrder(closed, sentTo, r)
    BY <1>1, <2>2, SameInOrder
  <2> QED
    BY <1>1, <2>1, <2>2, <2>3, ClosedInOrder
<1>3. ASSUME NEW f \in PluginFrames
      PROVE  LET t == Answering(server, c, f)
             IN t \in ServerStates /\ WaitsSomewhere(t) /\ RequestInOrder(t, sentTo, r)
  <2> DEFINE t == Answering(server, c, f)
  <2>1. /\ t \in ServerStates /\ t.active = server.active /\ t.outcome = server.outcome
        /\ t.conn = server.conn /\ t.handed = server.handed
    BY <1>1, AnsweringExact
  <2> HIDE DEF t
  <2>2. WaitsSomewhere(t)
    BY <1>1, <2>1 DEF WaitsSomewhere, NobodyWaits
  <2>3. RequestInOrder(t, sentTo, r)
    BY <1>1, <2>1, SameInOrder
  <2> QED
    BY <2>1, <2>2, <2>3 DEF t
<1>4. CASE SocketFrame(c)
  <2>1. PICK f \in PluginFrames : server' = Incoming(Answering(server, c, f), c, f)
    BY <1>4 DEF SocketFrame
  <2> QED
    BY <1>1, <1>3, <2>1, IncomingInOrder
<1>5. CASE SendStarts(c)
  BY <1>1, <1>3, <1>5 DEF SendStarts
<1>6. CASE SendEnds(c) /\ c \in HttpConnections
  <2>1. PICK f \in reading[c] : server' \in {Incoming(server, c, f), server}
    BY <1>6 DEF SendEnds
  <2>2. f \in PluginFrames
    BY <1>6, <2>1 DEF ServerInv
  <2> QED
    BY <1>1, <2>1, <2>2, IncomingInOrder
<1>7. CASE Leave(c)
  <2>1. server' \in {server, Closed(server, {c})}
    BY <1>7 DEF Leave
  <2> QED
    BY <1>1, <2>1, ClosedInOrder
<1> QED
  BY <1>2, <1>4, <1>5, <1>6, <1>7

\* A poll hands over the front of its queue, whether or not it arrives.
LEMMA AnswerInOrder ==
  ASSUME ServerInv, NEW c \in Connections, NEW r \in Requests,
         RequestInOrder(server, sentTo, r), Answer(c), sentTo' = sentTo
  PROVE  RequestInOrder(server', sentTo', r)
<1> DEFINE queue == server.conn[c].outbound
<1>0. server \in ServerStates
  BY InvFacts
<1>a. queue \in Seq(Frames)
  BY <1>0, StateFields, ConnectionTypes
<1>1. PICK n \in 0 .. Len(queue) :
        /\ server' \in ServerStates
        /\ server'.active = server.active /\ server'.outcome = server.outcome
        /\ \A d \in Connections : server'.conn[d].outbound =
             IF d = c THEN Rest(queue, n) ELSE server.conn[d].outbound
        /\ \A q \in Requests : server'.handed[q] =
             IF Taken(queue, n, Frame("request", q))
             THEN server.handed[q] + 1 ELSE server.handed[q]
  BY <1>0, AnswerExact
<1> DEFINE h == server.handed[r]
           h2 == server'.handed[r]
           req == Frame("request", r)
<1>2. /\ h \in {0, 1} /\ InOrder(queue, r, h)
      /\ \A d \in Connections : InOrder(server.conn[d].outbound, r, h)
      /\ \A d \in Connections : Holds(server.conn[d].outbound, req) => d = sentTo[r]
  BY DEF RequestInOrder
<1>3. h2 = IF Taken(queue, n, req) THEN h + 1 ELSE h
  BY <1>1
<1> HIDE DEF queue, h, h2, req
<1>4. /\ h2 \in {0, 1} /\ (h = 1 => h2 = 1)
      /\ InOrder(Rest(queue, n), r, h2)
      /\ Holds(queue, req) => h2 = 1 \/ Holds(Rest(queue, n), req)
      /\ \A g : Holds(Rest(queue, n), g) => Holds(queue, g)
  <2>1. n \in 0 .. Len(queue)
    BY <1>1
  <2>2. h \in {0, 1} /\ InOrder(queue, r, h)
    BY <1>2
  <2> QED
    BY <1>a, <1>3, <2>1, <2>2, RestInOrder DEF req
<1>5. \A d \in Connections : \A g : Holds(server'.conn[d].outbound, g) => Holds(server.conn[d].outbound, g)
  BY <1>1, <1>4 DEF queue
<1>6. h2 = h \/ Holds(queue, req)
  <2>1. \A i \in 1 .. n : i \in DOMAIN queue
    BY <1>a
  <2> QED
    BY <1>3, <2>1 DEF Holds, Taken
<1>7. ASSUME NEW d \in Connections
      PROVE  /\ InOrder(server'.conn[d].outbound, r, h2)
             /\ Holds(server'.conn[d].outbound, req) => d = sentTo[r]
  <2>1. Holds(server'.conn[d].outbound, req) => d = sentTo[r]
    BY <1>2, <1>5
  <2>2. CASE d = c
    BY <1>1, <1>4, <2>1, <2>2
  <2>3. CASE d # c /\ h2 = h
    BY <1>1, <1>2, <2>1, <2>3
  <2>4. CASE d # c /\ h2 # h
    <3>1. h2 = 1 /\ Holds(server.conn[c].outbound, req) /\ c = sentTo[r]
      BY <1>2, <1>4, <1>6, <2>4 DEF queue
    <3>2. ~Holds(server.conn[d].outbound, req)
      BY <1>2, <2>4, <3>1
    <3>3. server'.conn[d].outbound = server.conn[d].outbound
      BY <1>1, <2>4
    <3>4. InOrder(server'.conn[d].outbound, r, h2)
      BY <3>1, <3>2, <3>3 DEF InOrder, Holds, req
    <3> QED
      BY <2>1, <3>4
  <2> QED
    BY <2>2, <2>3, <2>4
<1>8. server'.outcome[r] \in {"none", "refused"} =>
        /\ h2 = 0
        /\ \A d \in Connections : /\ ~Holds(server'.conn[d].outbound, req)
                                  /\ ~Holds(server'.conn[d].outbound, Frame("cancel", r))
  BY <1>1, <1>5, <1>6 DEF RequestInOrder, queue, h, req
<1>9. server'.outcome[r] = "waiting" =>
        /\ sentTo[r] = server'.active /\ server'.active \in Connections
        /\ h2 = 1 \/ Holds(server'.conn[server'.active].outbound, req)
  BY <1>1, <1>4 DEF RequestInOrder, queue, h, req
<1> QED
  BY <1>4, <1>7, <1>8, <1>9 DEF RequestInOrder, h2, req

LEMMA PollInOrder ==
  ASSUME ServerInv, NEW c \in Connections, NEW r \in Requests,
         RequestInOrder(server, sentTo, r),
         \/ ChallengeExpires(c) \/ GoesStale(c) \/ PollTimesOut(c) \/ Poll(c)
         \/ PollAnswers(c)
  PROVE  RequestInOrder(server', sentTo', r)
<1>1. sentTo' = sentTo /\ server \in ServerStates
  BY InvFacts
     DEF ChallengeExpires, GoesStale, PollTimesOut, Poll, PollAnswers
<1>2. Answer(c) \/ Alike(server, server')
  BY <1>1, ClockAlike DEF Poll, PollAnswers
<1> QED
  BY <1>1, <1>2, AnswerInOrder, AlikeInOrder

LEMMA HeartbeatInOrder ==
  ASSUME ServerInv, NEW r \in Requests, RequestInOrder(server, sentTo, r), Heartbeat
  PROVE  RequestInOrder(server', sentTo', r)
<1> DEFINE pruned == Pruned(server)
           a == pruned.active
<1>1. /\ pruned \in ServerStates /\ RequestInOrder(pruned, sentTo, r)
      /\ a \in Connections \cup {None}
  BY PrunedFacts, InvFacts, ClosedInOrder, StateFields DEF Pruned
<1>2. /\ sentTo' = sentTo
      /\ \/ server' = pruned \/ server' = Closed(pruned, {a})
         \/ a # None /\ server' = Sent(pruned, a, Frame("heartbeat", None))
  BY DEF Heartbeat
<1> HIDE DEF pruned
<1> QED
  BY <1>1, <1>2, ClosedInOrder, PlainInOrder

\* A request is sent: it is new, so that nothing of it is in any queue.
LEMMA RequestOrdered ==
  ASSUME ServerInv, Ordered(server, sentTo), NEW r \in Requests, Request(r)
  PROVE  Ordered(server', sentTo')
<1> DEFINE t == [server EXCEPT !.outcome[r] = "waiting"]
           a == server.active
           f == Frame("request", r)
<1>1. /\ server.outcome[r] = "none" /\ a # None
      /\ server' = Sent(t, a, f)
      /\ sentTo' = [sentTo EXCEPT ![r] = a]
  BY DEF Request
<1>2. /\ server \in ServerStates /\ a \in Connections /\ f \in Frames
      /\ sentTo \in [Requests -> Connections \cup {None}]
  BY <1>1, InvFacts, FrameTypes DEF ServerInv
<1>3. /\ t \in ServerStates /\ t.active = a /\ t.conn = server.conn
      /\ t.handed = server.handed /\ t.socket = server.socket
      /\ \A q \in Requests : t.outcome[q] = IF q = r THEN "waiting" ELSE server.outcome[q]
  <2>1. "waiting" \in Outcomes
    BY DEF Outcomes
  <2> QED
    BY <1>2, <2>1, OutcomeExact
<1> HIDE DEF t
<1>4. ASSUME NEW q \in Requests, q # r
      PROVE  RequestInOrder(server', sentTo', q)
  <2>1. RequestInOrder(server, sentTo, q)
    BY DEF Ordered
  <2>2. RequestInOrder(t, sentTo, q)
    BY <1>2, <1>3, <1>4, <2>1, SameInOrder
  <2>3. f # Frame("request", q) /\ f # Frame("cancel", q)
    BY <1>4, FrameEqual
  <2>4. RequestInOrder(server', sentTo, q)
    BY <1>1, <1>2, <1>3, <2>2, <2>3, SentInOrder
  <2>5. sentTo'[q] = sentTo[q]
    BY <1>1, <1>2, <1>4
  <2> HIDE DEF a, f
  <2> QED
    BY <2>4, <2>5 DEF RequestInOrder
<1>5. RequestInOrder(server', sentTo', r)
  <2>1. sentTo'[r] = a
    BY <1>1, <1>2
  <2>2. /\ server.handed[r] = 0
        /\ \A c \in Connections : /\ ~Holds(server.conn[c].outbound, Frame("request", r))
                                  /\ ~Holds(server.conn[c].outbound, Frame("cancel", r))
    BY <1>1 DEF Ordered, RequestInOrder
  <2>3. \A c \in Connections : \A h : InOrder(server.conn[c].outbound, r, h)
    BY <2>2 DEF InOrder, Holds
  <2> HIDE DEF a, f
  <2>4. CASE server' = Reaches(t, a, {f})
    <3>0. {f} \in SUBSET Frames
      BY <1>2
    <3>1. \A q \in Requests : server'.handed[q] =
            IF Frame("request", q) \in {f} THEN t.handed[q] + 1 ELSE t.handed[q]
      BY <1>2, <1>3, <2>4, <3>0, ReachesExact
    <3>2. /\ server' \in ServerStates /\ server'.active = t.active
          /\ server'.outcome = t.outcome /\ server'.conn = t.conn
      BY <1>2, <1>3, <2>4, <3>0, ReachesExact
    <3>3. server'.handed[r] = 1
      BY <1>3, <2>2, <3>1 DEF f
    <3> QED
      BY <1>2, <1>3, <2>1, <2>2, <2>3, <3>2, <3>3 DEF RequestInOrder
  <2>5. CASE server' = Closed(t, {a})
    <3>1. /\ server'.active = IF t.active \in {a} THEN None ELSE t.active
          /\ server'.outcome = [q \in Requests |->
               IF t.active \in {a} /\ q \in Waiting(t) THEN "lost" ELSE t.outcome[q]]
      BY <1>3, <2>5, ClosedFields
    <3>2. /\ server'.handed = t.handed
          /\ \A c \in Connections :
               server'.conn[c].outbound = IF c \in {a} THEN <<>> ELSE t.conn[c].outbound
      BY <1>3, <2>5, ClosedExact
    <3>3. server'.outcome[r] = "lost" /\ server'.handed[r] = 0
      BY <1>3, <2>2, <3>1, <3>2 DEF Waiting
    <3>4. \A c \in Connections : /\ InOrder(server'.conn[c].outbound, r, 0)
                                 /\ ~Holds(server'.conn[c].outbound, Frame("request", r))
      BY <1>3, <2>2, <2>3, <3>2, EmptyInOrder
    <3> QED
      BY <3>3, <3>4 DEF RequestInOrder
  <2>6. CASE Queued(t, server', a, f)
    <3> DEFINE q == server.conn[a].outbound
    <3>1. q \in Seq(Frames)
      <4>1. server.conn[a] \in ConnectionStates
        BY <1>2, StateFields
      <4> QED
        BY <4>1, ConnectionTypes
    <3>2. /\ server'.active = a /\ server'.outcome[r] = "waiting"
          /\ server'.handed[r] = 0
          /\ \A d \in Connections : server'.conn[d].outbound =
               IF d = a THEN Append(q, f) ELSE server.conn[d].outbound
      BY <1>3, <2>2, <2>6 DEF Queued
    <3>3. InOrder(q, r, 0) /\ ~Holds(q, Frame("request", r))
      BY <1>2, <2>2, <2>3
    <3> HIDE DEF q
    <3>4. InOrder(Append(q, f), r, 0)
      <4>1. f # Frame("cancel", r)
        BY FrameEqual DEF f
      <4> QED
        BY <1>2, <3>1, <3>3, <4>1, AppendInOrder
    <3>5. Holds(Append(q, f), Frame("request", r))
      BY <1>2, <3>1, Appended DEF f
    <3>6. ASSUME NEW d \in Connections
          PROVE  /\ InOrder(server'.conn[d].outbound, r, 0)
                 /\ Holds(server'.conn[d].outbound, Frame("request", r)) => d = a
      BY <2>2, <2>3, <3>2, <3>4
    <3>7. Holds(server'.conn[server'.active].outbound, Frame("request", r))
      BY <1>2, <3>2, <3>5
    <3> QED
      BY <1>2, <2>1, <3>2, <3>6, <3>7 DEF RequestInOrder
  <2> QED
    BY <1>1, <1>2, <1>3, <2>4, <2>5, <2>6, SentCases
<1> QED
  BY <1>4, <1>5 DEF Ordered

\* A request is refused before it is sent, or given up after that: then its
\* cancellation goes to the session that has or will get the request.
LEMMA GivenUpInOrder ==
  ASSUME ServerInv, NEW r \in Requests, Refuse(r) \/ Abort(r) \/ Deadline(r),
         NEW q \in Requests,
         RequestInOrder(server, sentTo, q)
  PROVE  RequestInOrder(server', sentTo', q)
<1>1. server \in ServerStates /\ Good(server, stage, sentTo) /\ sentTo' = sentTo
  BY InvFacts DEF Refuse, Abort, Deadline, GiveUp
<1>2. CASE Refuse(r)
  <2>1. server.outcome[r] = "none" /\ server' = [server EXCEPT !.outcome[r] = "refused"]
    BY <1>2 DEF Refuse
  <2>2. "refused" \in Outcomes
    BY DEF Outcomes
  <2>3. /\ server' \in ServerStates /\ server'.active = server.active
        /\ server'.conn = server.conn /\ server'.handed = server.handed
        /\ \A p \in Requests : server'.outcome[p] = IF p = r THEN "refused" ELSE server.outcome[p]
    BY <1>1, <2>1, <2>2, OutcomeExact
  <2> QED
    BY <1>1, <2>1, <2>3, SameInOrder
<1>3. CASE Abort(r) \/ Deadline(r)
  <2>1. PICK why \in {"cancelled", "timedOut"} : GiveUp(r, why)
    BY <1>3 DEF Abort, Deadline
  <2> DEFINE t == [server EXCEPT !.outcome[r] = why]
             a == sentTo[r]
             f == Frame("cancel", r)
  <2>2. /\ server.outcome[r] = "waiting"
        /\ server' = Sent(t, a, f)
    BY <2>1 DEF GiveUp, Waiting
  <2>3. a = server.active /\ a \in Connections /\ f \in Frames
    BY <1>1, <2>2, InvFacts, FrameTypes DEF Good, WaitsActive
  <2>4. why \in Outcomes
    BY DEF Outcomes
  <2>5. /\ t \in ServerStates /\ t.active = server.active
        /\ t.conn = server.conn /\ t.handed = server.handed
        /\ \A p \in Requests : t.outcome[p] = IF p = r THEN why ELSE server.outcome[p]
    BY <1>1, <2>4, OutcomeExact
  <2> HIDE DEF t
  <2>6. RequestInOrder(t, sentTo, q)
    BY <1>1, <2>2, <2>5, SameInOrder
  <2>7. f # Frame("request", q)
    BY FrameEqual
  <2>8. f = Frame("cancel", q) => /\ t.outcome[q] \notin {"none", "refused"}
                                  /\ \/ t.handed[q] = 1
                                     \/ Holds(t.conn[a].outbound, Frame("request", q))
    <3>1. f = Frame("cancel", q) => q = r
      BY FrameEqual
    <3> HIDE DEF a, f
    <3>2. q = r => /\ server.handed[q] = 1 \/ Holds(server.conn[a].outbound, Frame("request", q))
      BY <2>2, <2>3 DEF RequestInOrder
    <3> QED
      BY <2>5, <3>1, <3>2
  <2> HIDE DEF a, f
  <2>9. RequestInOrder(server', sentTo, q)
    BY <2>2, <2>3, <2>5, <2>6, <2>7, <2>8, SentInOrder
  <2> QED
    BY <1>1, <2>9
<1> QED
  BY <1>2, <1>3

LEMMA OrderedStep ==
  ASSUME ServerInv, Ordered(server, sentTo), [Next]_vars
  PROVE  Ordered(server', sentTo')
<1>1. CASE UNCHANGED vars
  BY <1>1 DEF vars
<1>2. CASE \E r \in Requests : Request(r)
  BY <1>2, RequestOrdered
<1>3. ASSUME Next, ~ \E r \in Requests : Request(r), NEW q \in Requests
      PROVE  RequestInOrder(server', sentTo', q)
  <2>0. RequestInOrder(server, sentTo, q)
    BY DEF Ordered
  <2>1. ASSUME NEW c \in Connections, ConnectionNext(c)
        PROVE  RequestInOrder(server', sentTo', q)
    BY <2>0, <2>1, ConnectionInOrder, PollInOrder DEF ConnectionNext
  <2>2. ASSUME NEW c \in Connections \ HttpConnections, SocketNext(c)
        PROVE  RequestInOrder(server', sentTo', q)
    BY <2>0, <2>2, FramesInOrder DEF SocketNext
  <2>3. ASSUME NEW c \in HttpConnections, HttpNext(c)
        PROVE  RequestInOrder(server', sentTo', q)
    <3>1. c \in Connections
      BY ConstantFacts
    <3> QED
      BY <2>0, <2>3, <3>1, FramesInOrder, PollInOrder DEF HttpNext
  <2>4. ASSUME NEW r \in Requests, Refuse(r) \/ Abort(r) \/ Deadline(r)
        PROVE  RequestInOrder(server', sentTo', q)
    BY <2>0, <2>4, GivenUpInOrder
  <2>5. CASE Heartbeat
    BY <2>0, <2>5, HeartbeatInOrder
  <2>6. CASE FailureForgotten
    <3>1. server \in ServerStates /\ sentTo' = sentTo
      BY <2>6, InvFacts DEF FailureForgotten
    <3> QED
      BY <2>0, <2>6, <3>1, ForgottenAlike, AlikeInOrder
  <2> QED
    BY <1>3, <2>1, <2>2, <2>3, <2>4, <2>5, <2>6 DEF Next
<1> QED
  BY <1>1, <1>2, <1>3 DEF Ordered

LEMMA OrderedInvariant == Spec => []Ordered(server, sentTo)
<1>1. Init => Ordered(server, sentTo)
  <2> SUFFICES ASSUME Init, NEW r \in Requests
               PROVE  RequestInOrder(server, sentTo, r)
    BY DEF Ordered
  <2>1. /\ server.handed[r] = 0 /\ server.outcome[r] = "none"
        /\ \A c \in Connections : server.conn[c].outbound = <<>>
    BY DEF Init, NewConnection
  <2> QED
    BY <2>1, EmptyInOrder DEF RequestInOrder
<1>2. ServerInv /\ Ordered(server, sentTo) /\ [Next]_vars => Ordered(server, sentTo)'
  BY OrderedStep
<1> QED
  BY <1>1, <1>2, ServerInvariant, PTL DEF Spec

\* A request is handed to a plugin at most once, stands in a queue only before
\* that, and its cancellation never overtakes it: whether the session uses a
\* socket or polls, whatever is enqueued, drained, lost on the way or closed.
THEOREM HandedInOrder == Spec => []HandedOverInOrder
<1>1. ServerInv /\ Ordered(server, sentTo) => HandedOverInOrder
  <2> SUFFICES ASSUME Ordered(server, sentTo)
               PROVE  HandedOverInOrder
    OBVIOUS
  <2>1. \A r \in Requests : server.handed[r] \in {0, 1}
    BY DEF Ordered, RequestInOrder
  <2>2. ASSUME NEW c \in Connections, NEW i \in DOMAIN server.conn[c].outbound, NEW r \in Requests
        PROVE  LET queue == server.conn[c].outbound
               IN /\ queue[i] = Frame("request", r) => server.handed[r] = 0
                  /\ queue[i] = Frame("cancel", r) /\ server.handed[r] = 0
                       => \E j \in 1 .. i - 1 : queue[j] = Frame("request", r)
    <3>1. InOrder(server.conn[c].outbound, r, server.handed[r])
      BY DEF Ordered, RequestInOrder
    <3> QED
      BY <3>1 DEF InOrder
  <2>3. \A r \in Requests : server.handed[r] <= 1
    BY <2>1
  <2> QED
    BY <2>2, <2>3 DEF HandedOverInOrder
<1> QED
  BY <1>1, ServerInvariant, OrderedInvariant, PTL

-----------------------------------------------------------------------------
(* The handlers bring nobody back, and do not drop a healthy session.      *)

\* Why the active session may be dropped by a handler.
Excused(s) ==
  \/ s.conn[s.active].stale
  \/ s.socket[s.active] # "open" /\ Len(s.conn[s.active].outbound) >= MaxOutbound

Dropped(s, t) == s.active # None /\ t.active # s.active

\* The answer to the last challenge has been taken.
Spent(s, rd, c) ==
  \/ c \in Strangers
  \/ IF c \in HttpConnections THEN Authentication \notin rd[c] ELSE Challenge \notin s.seen[c]

LEMMA SpentNotAwaited ==
  ASSUME NEW s, NEW rd, NEW c \in Connections, Spent(s, rd, c)
  PROVE  ~Awaited(s, rd, c)
  BY DEF Spent, Awaited, Offered

\* Queues and what a plugin has seen do not grow, and a connection that may still
\* win the session stays, or was ended by its plugin.
LEMMA ReachSame ==
  ASSUME NEW s \in ServerStates, NEW t \in ServerStates, NEW rd, NEW lf, NEW st,
         Reach(s, rd, lf, st), ActiveThere(t, lf),
         \A d \in Connections :
           /\ s.conn[d].authenticated => t.conn[d].authenticated
           /\ t.conn[d].authenticated => s.conn[d].authenticated \/ st[d] = "met"
           /\ t.conn[d].outbound = s.conn[d].outbound \/ t.conn[d].outbound = <<>>
           /\ t.seen[d] \subseteq s.seen[d]
           /\ Awaited(t, rd, d) =>
                \/ d \in lf
                \/ Awaited(s, rd, d) /\ (d \in s.connections => d \in t.connections)
  PROVE  Reach(t, rd, lf, st)
<1>1. OnlyAnswers(t, rd)
  BY ConstantFacts DEF Reach, OnlyAnswers
<1>2. ASSUME NEW d \in Connections
      PROVE  Untouched(t, st, d)
  <2>1. Untouched(s, st, d)
    BY DEF Reach
  <2>2. \A f : Holds(t.conn[d].outbound, f) => Holds(s.conn[d].outbound, f)
    BY EmptyInOrder
  <2>3. st[d] # "met" =>
          t.seen[d] = {} /\ t.conn[d].outbound = <<>> /\ ~t.conn[d].authenticated
    BY <2>1 DEF Untouched
  <2>4. ~t.conn[d].authenticated => \A r \in Requests :
          /\ Frame("request", r) \notin t.seen[d]
          /\ ~Holds(t.conn[d].outbound, Frame("request", r))
    BY <2>1, <2>2 DEF Untouched
  <2> QED
    BY <2>3, <2>4 DEF Untouched
<1>3. \A d \in Connections : Awaited(t, rd, d) => d \in t.connections \cup lf
  BY DEF Reach
<1> QED
  BY <1>1, <1>2, <1>3 DEF Reach

LEMMA ClosedStands ==
  ASSUME NEW s \in ServerStates, NEW S
  PROVE  /\ Closed(s, S) \in ServerStates
         /\ Closed(s, S).connections = s.connections \ S
         /\ Closed(s, S).active = IF s.active \in S THEN None ELSE s.active
<1>1. Closed(s, S) \in ServerStates
  BY ClosedFields
<1>2. Closed(s, S).connections = s.connections \ S
  BY SMTT(30) DEF Closed
<1>3. Closed(s, S).active = IF s.active \in S THEN None ELSE s.active
  BY ClosedFields
<1> QED
  BY <1>1, <1>2, <1>3

LEMMA ClosedReach ==
  ASSUME NEW s \in ServerStates, NEW S, NEW rd, NEW lf, NEW st, Reach(s, rd, lf, st),
         \A c \in S : ~Awaited(s, rd, c) \/ c \in lf
  PROVE  Reach(Closed(s, S), rd, lf, st)
<1> DEFINE t == Closed(s, S)
<1>1. /\ t \in ServerStates /\ t.connections = s.connections \ S
      /\ t.active = IF s.active \in S THEN None ELSE s.active
  BY ClosedStands
<1>2. /\ t.seen = s.seen
      /\ \A c \in Connections :
           /\ t.socket[c] = IF c \in S /\ s.socket[c] = "open" THEN "closing" ELSE s.socket[c]
           /\ t.conn[c].outbound = IF c \in S THEN <<>> ELSE s.conn[c].outbound
           /\ SameStanding(t.conn[c], s.conn[c])
  BY ClosedExact
<1> HIDE DEF t
<1>3. s.active \in Connections \cup {None}
  BY StateFields
<1>4. ActiveThere(t, lf)
  <2>1. CASE t.active # None
    <3>1. t.active = s.active /\ s.active \notin S /\ s.active \in Connections
      BY <1>1, <1>3, <2>1
    <3>2. s.active \in s.connections \cup lf /\ s.conn[s.active].authenticated
      BY <2>1, <3>1 DEF Reach, ActiveThere
    <3> QED
      BY <1>1, <1>2, <3>1, <3>2 DEF ActiveThere, SameStanding
  <2> QED
    BY <2>1 DEF ActiveThere
<1>5. ASSUME NEW d \in Connections, Awaited(t, rd, d)
      PROVE  Awaited(s, rd, d)
  <2>1. Offered(s, rd, d)
    BY <1>2, <1>5 DEF Awaited, Offered
  <2> QED
    BY <1>2, <1>5, <2>1 DEF Awaited, SameStanding
<1>6. \A d \in Connections : Awaited(t, rd, d) =>
        \/ d \in lf
        \/ Awaited(s, rd, d) /\ (d \in s.connections => d \in t.connections)
  BY <1>1, <1>5
<1>7. \A d \in Connections :
        /\ t.conn[d].authenticated = s.conn[d].authenticated
        /\ t.conn[d].outbound = s.conn[d].outbound \/ t.conn[d].outbound = <<>>
        /\ t.seen[d] \subseteq s.seen[d]
  BY <1>2 DEF SameStanding
<1>8. Reach(t, rd, lf, st)
  BY <1>1, <1>4, <1>6, <1>7, ReachSame
<1> QED
  BY <1>8 DEF t

\* Expired challenges are not answered any more, and the active session is not
\* under authentication.
LEMMA PrunedReach ==
  ASSUME NEW s \in ServerStates, NEW rd, NEW lf, NEW st, Reach(s, rd, lf, st)
  PROVE  Reach(Pruned(s), rd, lf, st) /\ Pruned(s).active = s.active
<1> DEFINE S == {c \in Challenged(s) : s.conn[c].expired}
<1>1. \A c \in S : ~Awaited(s, rd, c)
  BY DEF Awaited
<1>2. s.active \notin S
  <2>1. s.connections \subseteq Connections
    BY StateFields
  <2> QED
    BY <2>1, ConstantFacts DEF Reach, ActiveThere, Challenged
<1>3. Pruned(s) = Closed(s, S)
  BY DEF Pruned
<1> HIDE DEF S
<1>4. Closed(s, S).active = s.active
  BY <1>2, ClosedFields
<1> QED
  BY <1>1, <1>3, <1>4, ClosedReach

LEMMA AlikeReach ==
  ASSUME NEW s \in ServerStates, NEW t, NEW rd, NEW lf, NEW st, Reach(s, rd, lf, st),
         Alike(s, t),
         \A d \in Connections : /\ t.conn[d].authenticated = s.conn[d].authenticated
                                /\ s.conn[d].expired => t.conn[d].expired
  PROVE  Reach(t, rd, lf, st)
<1>1. s.active \in Connections \cup {None}
  BY StateFields
<1>2. ActiveThere(t, lf)
  BY <1>1 DEF Reach, ActiveThere, Alike
<1>3. \A d \in Connections : Awaited(t, rd, d) => Awaited(s, rd, d)
  BY DEF Awaited, Offered, Alike
<1> QED
  BY <1>2, <1>3, ReachSame DEF Alike

\* A frame joins a queue, or reaches the plugin at once.
LEMMA QueuedReach ==
  ASSUME NEW s \in ServerStates, NEW t, NEW rd, NEW lf, NEW st, Reach(s, rd, lf, st),
         NEW c \in Connections, NEW f \in Frames, Queued(s, t, c, f),
         st[c] = "met", f.type = "request" => s.conn[c].authenticated
  PROVE  Reach(t, rd, lf, st)
<1>1. s.active \in Connections \cup {None} /\ s.conn[c].outbound \in Seq(Frames)
  BY StateFields, ConnectionTypes
<1>2. ActiveThere(t, lf)
  BY <1>1 DEF Reach, ActiveThere, Queued, SameStanding
<1>3. OnlyAnswers(t, rd)
  BY ConstantFacts DEF Reach, OnlyAnswers, Queued, SameStanding
<1>4. ASSUME NEW d \in Connections
      PROVE  Untouched(t, st, d)
  <2>1. Untouched(s, st, d)
    BY DEF Reach
  <2>2. /\ t.conn[d].outbound = IF d = c THEN Append(s.conn[c].outbound, f)
                                         ELSE s.conn[d].outbound
        /\ t.conn[d].authenticated = s.conn[d].authenticated /\ t.seen = s.seen
    BY DEF Queued, SameStanding
  <2>3. CASE d # c
    BY <2>1, <2>2, <2>3 DEF Untouched
  <2>4. CASE d = c
    <3>1. \A g : Holds(t.conn[d].outbound, g) <=> Holds(s.conn[d].outbound, g) \/ g = f
      BY <1>1, <2>2, <2>4, Appended
    <3>2. \A r \in Requests : f = Frame("request", r) => s.conn[c].authenticated
      BY FrameFields
    <3> QED
      BY <2>1, <2>2, <2>4, <3>1, <3>2 DEF Untouched
  <2> QED
    BY <2>3, <2>4
<1>5. ASSUME NEW d \in Connections, Awaited(t, rd, d)
      PROVE  d \in t.connections \cup lf
  <2>1. Awaited(s, rd, d)
    BY <1>5 DEF Awaited, Offered, Queued, SameStanding
  <2> QED
    BY <2>1 DEF Reach, Queued
<1> QED
  BY <1>2, <1>3, <1>4, <1>5 DEF Reach

LEMMA ReachesReach ==
  ASSUME NEW s \in ServerStates, NEW rd, NEW lf, NEW st, Reach(s, rd, lf, st),
         NEW c \in Connections, NEW f \in Frames,
         st[c] = "met", f.type = "request" => s.conn[c].authenticated,
         f = Challenge => c \in HttpConnections \cup Strangers \cup s.connections \cup lf
  PROVE  Reach(Reaches(s, c, {f}), rd, lf, st)
<1> DEFINE t == Reaches(s, c, {f})
<1>0. {f} \in SUBSET Frames /\ s.active \in Connections \cup {None}
  BY StateFields
<1>1. /\ t \in ServerStates
      /\ t.connections = s.connections /\ t.active = s.active
      /\ t.socket = s.socket /\ t.conn = s.conn
      /\ \A d \in Connections \ {c} : t.seen[d] = s.seen[d]
      /\ \A g : g \in t.seen[c] <=>
           g \in s.seen[c] \/ (g \in {f} /\ g.type \in {"challenge", "request"})
  BY <1>0, ReachesExact
<1> HIDE DEF t
<1>2. ActiveThere(t, lf) /\ OnlyAnswers(t, rd)
  BY <1>1 DEF Reach, ActiveThere, OnlyAnswers
<1>3. ASSUME NEW d \in Connections
      PROVE  Untouched(t, st, d)
  <2>1. Untouched(s, st, d)
    BY DEF Reach
  <2>2. CASE d # c
    BY <1>1, <2>1, <2>2 DEF Untouched
  <2>3. CASE d = c
    <3>1. \A r \in Requests : f = Frame("request", r) => s.conn[c].authenticated
      BY FrameFields
    <3> QED
      BY <1>1, <2>1, <2>3, <3>1 DEF Untouched
  <2> QED
    BY <2>2, <2>3
<1>4. ASSUME NEW d \in Connections, Awaited(t, rd, d)
      PROVE  d \in t.connections \cup lf
  <2>1. CASE Awaited(s, rd, d)
    BY <1>1, <2>1 DEF Reach
  <2>2. CASE ~Awaited(s, rd, d)
    <3>1. Offered(t, rd, d) /\ ~Offered(s, rd, d) /\ d \notin Strangers
      BY <1>1, <1>4, <2>2 DEF Awaited
    <3>2. d \notin HttpConnections /\ Challenge \in t.seen[d] /\ Challenge \notin s.seen[d]
      BY <1>1, <3>1 DEF Offered
    <3>3. d = c /\ f = Challenge
      BY <1>1, <3>2
    <3> QED
      BY <1>1, <3>1, <3>2, <3>3
  <2> QED
    BY <2>1, <2>2
<1>5. Reach(t, rd, lf, st)
  BY <1>2, <1>3, <1>4 DEF Reach
<1> QED
  BY <1>5 DEF t

LEMMA SentReach ==
  ASSUME NEW s \in ServerStates, NEW rd, NEW lf, NEW st, Reach(s, rd, lf, st),
         NEW c \in Connections, NEW f \in Frames,
         st[c] = "met", f.type = "request" => s.conn[c].authenticated,
         ~Awaited(s, rd, c),
         f = Challenge /\ s.socket[c] = "open" => c \in Strangers \cup s.connections \cup lf
  PROVE  Reach(Sent(s, c, f), rd, lf, st)
<1>1. CASE s.socket[c] = "open" /\ Sent(s, c, f) = Reaches(s, c, {f})
  BY <1>1, ReachesReach
<1>2. CASE Sent(s, c, f) = Closed(s, {c})
  BY <1>2, ClosedReach
<1>3. CASE Queued(s, Sent(s, c, f), c, f)
  BY <1>3, QueuedReach
<1> QED
  BY <1>1, <1>2, <1>3, SentCases

\* A session is dropped by a frame only when it cannot take it.
LEMMA SentKeeps ==
  ASSUME NEW s \in ServerStates, NEW c \in Connections, NEW f \in Frames,
         Dropped(s, Sent(s, c, f))
  PROVE  /\ s.active = c /\ s.socket[c] # "open"
         /\ \/ f.type = "request" /\ f.id \in Oversized
            \/ Len(s.conn[c].outbound) >= MaxOutbound
<1>0. {f} \in SUBSET Frames
  OBVIOUS
<1>1. CASE Sent(s, c, f) = Reaches(s, c, {f})
  <2>1. Reaches(s, c, {f}).active = s.active
    BY <1>0, ReachesExact
  <2> QED
    BY <1>1, <2>1 DEF Dropped
<1>2. CASE /\ s.socket[c] # "open" /\ Sent(s, c, f) = Closed(s, {c})
           /\ \/ f.type = "request" /\ f.id \in Oversized
              \/ Len(s.conn[c].outbound) >= MaxOutbound
  <2>1. Closed(s, {c}).active = IF s.active \in {c} THEN None ELSE s.active
    BY ClosedFields
  <2> QED
    BY <1>2, <2>1 DEF Dropped
<1>3. CASE Queued(s, Sent(s, c, f), c, f)
  BY <1>3 DEF Queued, Dropped
<1> QED
  BY <1>1, <1>2, <1>3, SentCases

\* A plugin wins the session: the one it displaces is stale.
LEMMA AdmittedReach ==
  ASSUME NEW s \in ServerStates, NEW rd, NEW lf, NEW st, Reach(s, rd, lf, st),
         WaitsSomewhere(s), NEW c \in Connections,
         st[c] = "met", c \in s.connections \cup lf, ~s.conn[c].authenticated,
         ~Occupied(s, c)
  PROVE  /\ Reach(Admitted(s, c), rd, lf, st)
         /\ Dropped(s, Admitted(s, c)) => Excused(s)
<1> DEFINE S == {s.active} \ {None, c}
           free == Closed(s, S)
           f == Frame("authenticated", None)
<1>1. PICK won \in ServerStates :
        /\ won.connections = free.connections /\ won.active = c
        /\ won.outcome = free.outcome /\ won.socket = free.socket
        /\ won.seen = free.seen /\ won.handed = free.handed
        /\ \A d \in Connections : won.conn[d].outbound = free.conn[d].outbound
        /\ \A d \in Connections \ {c} : SameStanding(won.conn[d], free.conn[d])
        /\ won.conn[c].authenticated
        /\ won.active = free.active \/ NobodyWaits(won)
        /\ Admitted(s, c) = Sent(won, c, Frame("authenticated", None))
  BY AdmittedParts
<1>2. \A d \in S : ~Awaited(s, rd, d)
  BY DEF Reach, ActiveThere, Awaited
<1>3. c \notin S
  OBVIOUS
<1> HIDE DEF S
<1>4. free \in ServerStates /\ Reach(free, rd, lf, st) /\ c \in free.connections \cup lf
  BY <1>2, <1>3, ClosedReach, ClosedStands
<1> HIDE DEF free
<1>5. ActiveThere(won, lf)
  BY <1>1, <1>4 DEF ActiveThere
<1>6. \A d \in Connections :
        /\ free.conn[d].authenticated => won.conn[d].authenticated
        /\ won.conn[d].authenticated => free.conn[d].authenticated \/ st[d] = "met"
        /\ won.conn[d].outbound = free.conn[d].outbound
        /\ won.seen[d] \subseteq free.seen[d]
        /\ Awaited(won, rd, d) => Awaited(free, rd, d)
  <2>1. ASSUME NEW d \in Connections \ {c}
        PROVE  /\ won.conn[d].authenticated = free.conn[d].authenticated
               /\ Awaited(won, rd, d) => Awaited(free, rd, d)
    BY <1>1, <2>1 DEF SameStanding, Awaited, Offered
  <2>2. ~Awaited(won, rd, c)
    BY <1>1 DEF Awaited
  <2> QED
    BY <1>1, <2>1, <2>2
<1>7. Reach(won, rd, lf, st)
  BY <1>1, <1>4, <1>5, <1>6, ReachSame
<1>8. f \in Frames /\ f.type # "request" /\ f # Challenge
  BY FrameTypes, FrameFields, FrameEqual DEF Challenge
<1> HIDE DEF f
<1>9. Reach(Sent(won, c, f), rd, lf, st)
  <2>1. ~Awaited(won, rd, c)
    BY <1>1 DEF Awaited
  <2> QED
    BY <1>7, <1>8, <2>1, SentReach
<1>10. s.active # None => s.conn[s.active].stale
  <2>1. s.active # None => s.active # c
    BY DEF Reach, ActiveThere
  <2> QED
    BY <2>1 DEF Occupied
<1> QED
  BY <1>1, <1>9, <1>10 DEF Dropped, Excused, f

\* A plugin is rejected: what it is challenged with again does not reach it, when
\* its challenge had expired, and the active session is somebody else.
LEMMA RejectedReach ==
  ASSUME NEW s \in ServerStates, NEW rd, NEW lf, NEW st, Reach(s, rd, lf, st),
         NEW c \in Connections,
         st[c] = "met", c \in s.connections, ~s.conn[c].authenticated,
         ~Proves(s, c), Spent(s, rd, c)
  PROVE  /\ Reach(Rejected(s, c), rd, lf, st)
         /\ ~Dropped(s, Rejected(s, c))
<1>1. PICK counted \in ServerStates, again \in ServerStates :
        /\ Alike(s, counted)
        /\ \A d \in Connections : SameStanding(counted.conn[d], s.conn[d])
        /\ Alike(Pruned(counted), again)
        /\ \A d \in Connections \ {c} : SameStanding(again.conn[d], Pruned(counted).conn[d])
        /\ again.conn[c].authenticated = Pruned(counted).conn[c].authenticated
        /\ Pruned(counted) \in ServerStates
        /\ \/ Rejected(s, c) = Closed(counted, {c})
           \/ Rejected(s, c) = Closed(Pruned(counted), {c})
           \/ Rejected(s, c) = Sent(again, c, Frame("challenge", None))
  BY RejectedParts
<1> DEFINE pruned == Pruned(counted)
           S == {d \in Challenged(counted) : counted.conn[d].expired}
<1>2. Reach(counted, rd, lf, st) /\ counted.active = s.active /\ counted.seen = s.seen
  <2>1. \A d \in Connections : /\ counted.conn[d].authenticated = s.conn[d].authenticated
                               /\ s.conn[d].expired => counted.conn[d].expired
    BY <1>1 DEF SameStanding
  <2>2. Reach(counted, rd, lf, st)
    BY <1>1, <2>1, AlikeReach
  <2> QED
    BY <1>1, <2>2 DEF Alike
<1>3. Reach(pruned, rd, lf, st) /\ pruned.active = s.active
  BY <1>2, PrunedReach
<1>4. /\ pruned.seen = s.seen
      /\ \A d \in Connections :
           pruned.socket[d] = IF d \in S /\ counted.socket[d] = "open" THEN "closing"
                              ELSE counted.socket[d]
  <2>1. pruned = Closed(counted, S)
    BY DEF Pruned
  <2> HIDE DEF S, pruned
  <2> QED
    BY <1>1, <1>2, <2>1, ClosedExact
<1>5. Spent(counted, rd, c) /\ Spent(pruned, rd, c) /\ Spent(again, rd, c)
  BY <1>1, <1>2, <1>4 DEF Spent, Alike
<1>6. c \notin Strangers => c \in S
  <2>1. c \notin Strangers => s.conn[c].expired
    BY DEF Proves
  <2>2. c \in counted.connections /\ ~counted.conn[c].authenticated
        /\ counted.conn[c].expired = s.conn[c].expired
    BY <1>1 DEF Alike, SameStanding
  <2> QED
    BY <2>1, <2>2 DEF Challenged
<1> HIDE DEF S, pruned
<1>7. c \notin Strangers => again.socket[c] # "open"
  BY <1>1, <1>4, <1>6 DEF Alike, pruned
<1>8. Reach(again, rd, lf, st) /\ again.active = s.active
  <2>1. pruned \in ServerStates /\ Alike(pruned, again)
        /\ again.conn[c].authenticated = pruned.conn[c].authenticated
        /\ \A d \in Connections \ {c} : SameStanding(again.conn[d], pruned.conn[d])
    BY <1>1 DEF pruned
  <2>2. pruned.active \in Connections \cup {None}
    BY <2>1, StateFields
  <2>3. \A d \in Connections : again.conn[d].authenticated = pruned.conn[d].authenticated
    BY <2>1 DEF SameStanding
  <2>4. ActiveThere(again, lf)
    BY <1>3, <2>1, <2>2, <2>3 DEF Reach, ActiveThere, Alike
  <2>5. \A d \in Connections : Awaited(again, rd, d) => Awaited(pruned, rd, d)
    <3>1. ~Awaited(again, rd, c)
      BY <1>5, SpentNotAwaited
    <3> QED
      BY <2>1, <3>1 DEF Awaited, Offered, SameStanding, Alike
  <2> QED
    BY <1>3, <2>1, <2>3, <2>4, <2>5, ReachSame DEF Alike
<1>9. s.active # c
  BY ConstantFacts DEF Reach, ActiveThere
<1> DEFINE f == Frame("challenge", None)
<1>10. f \in Frames /\ f.type = "challenge"
  BY FrameTypes, FrameFields
<1> HIDE DEF f
<1>11. Reach(Sent(again, c, f), rd, lf, st)
  <2>1. ~Awaited(again, rd, c)
    BY <1>5, SpentNotAwaited
  <2>2. again.socket[c] = "open" => c \in Strangers
    BY <1>7
  <2> QED
    BY <1>8, <1>10, <2>1, <2>2, SentReach
<1>12. ~Dropped(s, Sent(again, c, f))
  <2>1. ~Dropped(again, Sent(again, c, f))
    BY <1>1, <1>8, <1>9, <1>10, SentKeeps
  <2> QED
    BY <1>8, <2>1 DEF Dropped
<1>13. /\ Reach(Closed(counted, {c}), rd, lf, st) /\ ~Dropped(s, Closed(counted, {c}))
       /\ Reach(Closed(pruned, {c}), rd, lf, st) /\ ~Dropped(s, Closed(pruned, {c}))
  <2>1. ~Awaited(counted, rd, c) /\ ~Awaited(pruned, rd, c)
    BY <1>5, SpentNotAwaited DEF pruned
  <2>2. pruned \in ServerStates
    BY <1>1 DEF pruned
  <2>3. /\ Closed(counted, {c}).active = s.active
        /\ Closed(pruned, {c}).active = s.active
    BY <1>1, <1>2, <1>3, <1>9, <2>2, ClosedStands
  <2> QED
    BY <1>1, <1>2, <1>3, <2>1, <2>2, <2>3, ClosedReach DEF Dropped
<1> QED
  BY <1>1, <1>11, <1>12, <1>13 DEF pruned, f

\* An authenticated plugin is served: it loses its session only when it does not
\* take the acknowledgement.
LEMMA ServedReach ==
  ASSUME NEW s \in ServerStates, NEW rd, NEW lf, NEW st, Reach(s, rd, lf, st),
         NEW c \in Connections, NEW f \in PluginFrames, s.conn[c].authenticated
  PROVE  /\ Reach(Served(s, c, f), rd, lf, st)
         /\ Dropped(s, Served(s, c, f)) => Excused(s)
<1>1. PICK alive \in ServerStates :
        /\ Alike(s, alive)
        /\ \A d \in Connections : /\ alive.conn[d].authenticated = s.conn[d].authenticated
                                  /\ alive.conn[d].expired = s.conn[d].expired
        /\ \/ Served(s, c, f) = alive
           \/ Served(s, c, f) = Sent(alive, c, Frame("ack", None))
           \/ /\ f.id \in Requests /\ s.outcome[f.id] = "waiting"
              /\ Served(s, c, f) = [alive EXCEPT !.outcome[f.id] = "answered"]
  BY ServedParts
<1>2. Reach(alive, rd, lf, st) /\ alive.active = s.active
  BY <1>1, AlikeReach DEF Alike
<1> DEFINE g == Frame("ack", None)
<1>3. g \in Frames /\ g.type # "request" /\ g # Challenge
  BY FrameTypes, FrameFields, FrameEqual DEF Challenge
<1> HIDE DEF g
<1>4. st[c] = "met"
  BY DEF Reach, Untouched
<1>5. Reach(Sent(alive, c, g), rd, lf, st)
  <2>1. ~Awaited(alive, rd, c)
    BY <1>1 DEF Awaited
  <2> QED
    BY <1>2, <1>3, <1>4, <2>1, SentReach
<1>6. Dropped(s, Sent(alive, c, g)) => Excused(s)
  <2>1. ASSUME Dropped(alive, Sent(alive, c, g))
        PROVE  alive.active = c /\ alive.socket[c] # "open"
               /\ Len(alive.conn[c].outbound) >= MaxOutbound
    BY <1>1, <1>3, <2>1, SentKeeps
  <2>2. /\ alive.active = s.active /\ alive.socket = s.socket
        /\ alive.conn[c].outbound = s.conn[c].outbound
    BY <1>1 DEF Alike
  <2> QED
    BY <2>1, <2>2 DEF Dropped, Excused
<1>7. ASSUME f.id \in Requests
      PROVE  LET t == [alive EXCEPT !.outcome[f.id] = "answered"]
             IN Reach(t, rd, lf, st) /\ ~Dropped(s, t)
  <2> DEFINE t == [alive EXCEPT !.outcome[f.id] = "answered"]
  <2>1. "answered" \in Outcomes
    BY DEF Outcomes
  <2>2. /\ t \in ServerStates
        /\ t.connections = alive.connections /\ t.active = alive.active
        /\ t.socket = alive.socket /\ t.conn = alive.conn /\ t.seen = alive.seen
    BY <1>7, <2>1, OutcomeExact
  <2> HIDE DEF t
  <2>3. ActiveThere(t, lf) /\ \A d \in Connections : Awaited(t, rd, d) => Awaited(alive, rd, d)
    BY <1>2, <2>2 DEF Reach, ActiveThere, Awaited, Offered
  <2>4. Reach(t, rd, lf, st)
    BY <1>2, <2>2, <2>3, ReachSame
  <2>5. ~Dropped(s, t)
    BY <1>2, <2>2 DEF Dropped
  <2> QED
    BY <2>4, <2>5 DEF t
<1>8. ~Dropped(s, alive)
  BY <1>2 DEF Dropped
<1> QED
  BY <1>1, <1>2, <1>5, <1>6, <1>7, <1>8 DEF g

LEMMA IncomingReach ==
  ASSUME NEW s \in ServerStates, NEW rd, NEW lf, NEW st, Reach(s, rd, lf, st),
         WaitsSomewhere(s), NEW c \in Connections, NEW f \in PluginFrames,
         st[c] = "met", s.conn[c].authenticated \/ Spent(s, rd, c),
         ~s.conn[c].authenticated /\ f.type = "authentication" /\ Proves(s, c)
           => c \in s.connections \cup lf
  PROVE  /\ Reach(Incoming(s, c, f), rd, lf, st)
         /\ Dropped(s, Incoming(s, c, f)) => Excused(s)
<1>1. CASE s.conn[c].authenticated
  <2>1. Incoming(s, c, f) = Served(s, c, f)
    BY <1>1 DEF Incoming
  <2> QED
    BY <1>1, <2>1, ServedReach
<1>2. ASSUME ~s.conn[c].authenticated
      PROVE  Reach(Closed(s, {c}), rd, lf, st) /\ ~Dropped(s, Closed(s, {c}))
  <2>1. ~Awaited(s, rd, c)
    BY <1>2, SpentNotAwaited
  <2>2. s.active # c
    BY <1>2, ConstantFacts DEF Reach, ActiveThere
  <2>3. Closed(s, {c}).active = s.active
    BY <2>2, ClosedStands
  <2> QED
    BY <2>1, <2>3, ClosedReach DEF Dropped
<1>3. CASE ~s.conn[c].authenticated /\ f.type # "authentication"
  <2>1. Incoming(s, c, f) = Closed(s, {c})
    BY <1>3 DEF Incoming
  <2> QED
    BY <1>2, <1>3, <2>1
<1>4. CASE ~s.conn[c].authenticated /\ f.type = "authentication"
  <2>1. Incoming(s, c, f) = Authenticated(s, c)
    BY <1>4 DEF Incoming
  <2>2. CASE Proves(s, c) /\ Occupied(s, c)
    <3>1. Authenticated(s, c) = Closed(s, {c})
      BY <2>2 DEF Authenticated
    <3> QED
      BY <1>2, <1>4, <2>1, <3>1
  <2>3. CASE Proves(s, c) /\ ~Occupied(s, c)
    <3>1. Authenticated(s, c) = Admitted(s, c)
      BY <2>3 DEF Authenticated
    <3> QED
      BY <1>4, <2>1, <2>3, <3>1, AdmittedReach
  <2>4. CASE ~Proves(s, c) /\ c \in s.connections
    <3>1. Authenticated(s, c) = Rejected(s, c)
      BY <2>4 DEF Authenticated
    <3> QED
      BY <1>4, <2>1, <2>4, <3>1, RejectedReach
  <2>5. CASE ~Proves(s, c) /\ c \notin s.connections
    <3>1. Authenticated(s, c) = s
      BY <2>5 DEF Authenticated
    <3> QED
      BY <2>1, <3>1 DEF Dropped
  <2> QED
    BY <2>2, <2>3, <2>4, <2>5
<1> QED
  BY <1>1, <1>3, <1>4

-----------------------------------------------------------------------------
(* The steps bring nobody back, and keep a healthy session.                *)

\* What HealthySessionKept says of a step.
HealthyKept ==
  LET a == server.active IN
    a # None /\ server'.active # a =>
      \/ a \in left'
      \/ server.conn[a].stale
      \/ server.socket[a] # "open" /\ Len(server.conn[a].outbound) >= MaxOutbound
      \/ server.socket[a] # "open" /\ \E r \in Oversized : sentTo'[r] = a

Reachable == Reach(server, reading, left, stage)

LEMMA ReachMoves ==
  ASSUME NEW s, NEW rd, NEW lf, NEW st, NEW rd2, NEW lf2, NEW st2, Reach(s, rd, lf, st),
         lf \subseteq lf2,
         \A c \in HttpConnections : rd2[c] \subseteq rd[c],
         \A c \in Connections : st2[c] # "met" => st[c] # "met"
  PROVE  Reach(s, rd2, lf2, st2)
<1>1. ActiveThere(s, lf2)
  BY DEF Reach, ActiveThere
<1>2. OnlyAnswers(s, rd2)
  BY DEF Reach, OnlyAnswers
<1>3. \A c \in Connections : Untouched(s, st2, c)
  BY DEF Reach, Untouched
<1>4. \A c \in Connections : Awaited(s, rd2, c) => Awaited(s, rd, c)
  BY DEF Awaited, Offered
<1> QED
  BY <1>1, <1>2, <1>3, <1>4 DEF Reach

\* A socket opens before anything was sent over it, or it closes.
LEMMA SocketReach ==
  ASSUME NEW s \in ServerStates, NEW rd, NEW lf, NEW st, Reach(s, rd, lf, st),
         NEW c \in Connections, NEW x \in {"none", "open", "closing", "closed"},
         x # "closed" => s.seen[c] = {}
  PROVE  LET t == [s EXCEPT !.socket[c] = x]
         IN t \in ServerStates /\ Reach(t, rd, lf, st) /\ t.active = s.active
<1> DEFINE t == [s EXCEPT !.socket[c] = x]
<1>1. /\ t \in ServerStates
      /\ t.connections = s.connections /\ t.active = s.active
      /\ t.conn = s.conn /\ t.seen = s.seen
      /\ \A d \in Connections : t.socket[d] = IF d = c THEN x ELSE s.socket[d]
  <2>1. /\ t \in ServerStates
        /\ t.connections = s.connections /\ t.active = s.active /\ t.outcome = s.outcome
        /\ t.conn = s.conn /\ t.seen = s.seen /\ t.handed = s.handed
        /\ \A d \in Connections : t.socket[d] = IF d = c THEN x ELSE s.socket[d]
    BY SocketExact
  <2> HIDE DEF t
  <2> QED
    BY <2>1
<1> HIDE DEF t
<1>2. ActiveThere(t, lf)
  BY <1>1 DEF Reach, ActiveThere
<1>3. \A d \in Connections : Awaited(t, rd, d) => Awaited(s, rd, d)
  BY <1>1 DEF Awaited, Offered
<1>4. Reach(t, rd, lf, st)
  BY <1>1, <1>2, <1>3, ReachSame
<1> QED
  BY <1>1, <1>4 DEF t

LEMMA OutcomeReach ==
  ASSUME NEW s \in ServerStates, NEW rd, NEW lf, NEW st, Reach(s, rd, lf, st),
         NEW r \in Requests, NEW o \in Outcomes
  PROVE  Reach([s EXCEPT !.outcome[r] = o], rd, lf, st)
<1> DEFINE t == [s EXCEPT !.outcome[r] = o]
<1>1. /\ t \in ServerStates
      /\ t.connections = s.connections /\ t.active = s.active
      /\ t.socket = s.socket /\ t.conn = s.conn /\ t.seen = s.seen
  BY OutcomeExact
<1> HIDE DEF t
<1>2. ActiveThere(t, lf) /\ \A d \in Connections : Awaited(t, rd, d) => Awaited(s, rd, d)
  BY <1>1 DEF Reach, ActiveThere, Awaited, Offered
<1>3. Reach(t, rd, lf, st)
  BY <1>1, <1>2, ReachSame
<1> QED
  BY <1>3 DEF t

LEMMA ActiveFacts ==
  ASSUME ServerInv, Reachable, server.active # None
  PROVE  /\ server.active \in Connections /\ server.conn[server.active].authenticated
         /\ stage[server.active] = "met" /\ ~Awaited(server, reading, server.active)
<1>1. server.active \in Connections /\ server.conn[server.active].authenticated
  BY InvFacts DEF Reachable, Reach, ActiveThere
<1> QED
  BY <1>1 DEF Reachable, Reach, Untouched, Awaited

LEMMA OpenReach ==
  ASSUME ServerInv, Reachable, NEW c \in Connections, Open(c)
  PROVE  Reachable' /\ HealthyKept
<1> DEFINE pruned == Pruned(server)
<1>1. /\ stage[c] = "new" /\ UNCHANGED <<reading, left>>
      /\ \/ stage' = [stage EXCEPT ![c] = "gone"] /\ server' = pruned
         \/ /\ stage' = [stage EXCEPT ![c] = "hello"]
            /\ server' \in {pruned, [pruned EXCEPT !.socket[c] = "open"]}
  BY DEF Open
<1>2. /\ pruned \in ServerStates /\ Reach(pruned, reading, left, stage)
      /\ pruned.active = server.active
  BY InvFacts, PrunedFacts, PrunedReach DEF Reachable
<1> HIDE DEF pruned
<1>3. \A d \in Connections : stage'[d] # "met" => stage[d] # "met"
  BY <1>1 DEF ServerInv
<1>4. Reach(pruned, reading', left', stage')
  BY <1>1, <1>2, <1>3, ReachMoves
<1>5. pruned.seen[c] = {}
  BY <1>1, <1>2 DEF Reach, Untouched
<1>6. LET t == [pruned EXCEPT !.socket[c] = "open"]
      IN Reach(t, reading', left', stage') /\ t.active = pruned.active
  BY <1>2, <1>4, <1>5, SocketReach
<1>7. Reach(server', reading', left', stage') /\ server'.active = server.active
  BY <1>1, <1>2, <1>4, <1>6
<1> QED
  BY <1>7 DEF Reachable, HealthyKept

LEMMA HelloDeadlineReach ==
  ASSUME ServerInv, Reachable, NEW c \in Connections, HelloDeadline(c)
  PROVE  Reachable' /\ HealthyKept
<1>1. /\ stage[c] = "hello" /\ UNCHANGED <<reading, left>>
      /\ stage' = [stage EXCEPT ![c] = IF c \in HttpConnections THEN "gone" ELSE "late"]
      /\ server' \in {server, [server EXCEPT !.socket[c] = "closing"]}
  BY DEF HelloDeadline
<1>2. server \in ServerStates /\ server.seen[c] = {}
  BY <1>1, InvFacts DEF Reachable, Reach, Untouched
<1>3. \A d \in Connections : stage'[d] # "met" => stage[d] # "met"
  BY <1>1 DEF ServerInv
<1>4. Reach(server, reading', left', stage')
  BY <1>1, <1>3, ReachMoves DEF Reachable
<1>5. LET t == [server EXCEPT !.socket[c] = "closing"]
      IN Reach(t, reading', left', stage') /\ t.active = server.active
  BY <1>2, <1>4, SocketReach
<1>6. Reach(server', reading', left', stage') /\ server'.active = server.active
  BY <1>1, <1>4, <1>5
<1> QED
  BY <1>6 DEF Reachable, HealthyKept

LEMMA HelloReach ==
  ASSUME ServerInv, Reachable, NEW c \in Connections, Hello(c)
  PROVE  Reachable' /\ HealthyKept
<1> DEFINE pruned == Pruned(server)
           created == [pruned EXCEPT !.connections = @ \cup {c}]
<1>1. /\ stage[c] \in {"hello", "late"} /\ UNCHANGED <<reading, left>>
      /\ \/ stage' = [stage EXCEPT ![c] = "gone"] /\ server' = Closed(pruned, {c})
         \/ /\ stage' = [stage EXCEPT ![c] = "met"]
            /\ server' \in {Reaches(created, c, {Challenge}), Sent(created, c, Challenge)}
  BY DEF Hello, Challenge
<1>2. /\ pruned \in ServerStates /\ Reach(pruned, reading, left, stage)
      /\ pruned.active = server.active
  BY InvFacts, PrunedFacts, PrunedReach DEF Reachable
<1> HIDE DEF pruned
<1>3. \A d \in Connections : stage'[d] # "met" => stage[d] # "met"
  BY <1>1 DEF ServerInv
<1>4. Reach(pruned, reading', left', stage')
  BY <1>1, <1>2, <1>3, ReachMoves
<1>5. /\ pruned.seen[c] = {} /\ ~pruned.conn[c].authenticated
      /\ c \in HttpConnections => reading[c] = {}
  BY <1>1, <1>2 DEF Reach, Untouched, ServerInv
<1>6. ~Awaited(pruned, reading', c)
  BY <1>1, <1>5 DEF Awaited, Offered
<1>7. pruned.active # c
  BY <1>5, <1>2, ConstantFacts DEF Reach, ActiveThere
<1>8. CASE stage' = [stage EXCEPT ![c] = "gone"] /\ server' = Closed(pruned, {c})
  <2>1. Reach(server', reading', left', stage')
    BY <1>2, <1>4, <1>6, <1>8, ClosedReach
  <2>2. server'.active = server.active
    BY <1>2, <1>7, <1>8, ClosedStands
  <2> QED
    BY <2>1, <2>2 DEF Reachable, HealthyKept
<1>9. CASE /\ stage' = [stage EXCEPT ![c] = "met"]
           /\ server' \in {Reaches(created, c, {Challenge}), Sent(created, c, Challenge)}
  <2>1. /\ created \in ServerStates
        /\ created.connections = pruned.connections \cup {c} /\ created.active = pruned.active
        /\ created.socket = pruned.socket /\ created.conn = pruned.conn
        /\ created.seen = pruned.seen
    BY <1>2, CreatedExact
  <2> HIDE DEF created
  <2>2. /\ ActiveThere(created, left')
        /\ \A d \in Connections : Awaited(created, reading', d) => Awaited(pruned, reading', d)
    BY <1>4, <2>1 DEF Reach, ActiveThere, Awaited, Offered
  <2>3. Reach(created, reading', left', stage')
    BY <1>2, <1>4, <2>1, <2>2, ReachSame
  <2>4. /\ Challenge \in Frames /\ Challenge.type = "challenge"
        /\ {Challenge} \in SUBSET Frames /\ stage'[c] = "met"
    BY <1>9, FrameTypes, FrameFields DEF Challenge, ServerInv
  <2>5. c \in created.connections /\ ~Awaited(created, reading', c)
    BY <1>6, <2>1, <2>2
  <2>6. /\ Reach(Reaches(created, c, {Challenge}), reading', left', stage')
        /\ Reach(Sent(created, c, Challenge), reading', left', stage')
    BY <2>1, <2>3, <2>4, <2>5, ReachesReach, SentReach
  <2>7. ~Dropped(created, Sent(created, c, Challenge))
    BY <1>7, <2>1, <2>4, SentKeeps
  <2>8. Reaches(created, c, {Challenge}).active = created.active
    BY <2>1, <2>4, ReachesExact
  <2>9. ~Dropped(server, server')
    BY <1>2, <1>9, <2>1, <2>7, <2>8 DEF Dropped
  <2> QED
    BY <1>9, <2>6, <2>9 DEF Reachable, HealthyKept, Dropped
<1> QED
  BY <1>1, <1>8, <1>9

LEMMA SocketClosesReach ==
  ASSUME ServerInv, Reachable, NEW c \in Connections, SocketCloses(c)
  PROVE  Reachable' /\ HealthyKept
<1> DEFINE closed == [server EXCEPT !.socket[c] = "closed"]
<1>1. /\ stage' = [stage EXCEPT ![c] = IF @ = "met" THEN "met" ELSE "gone"]
      /\ server' \in {Closed(closed, {c}), closed}
      /\ left' = left \cup {c} /\ reading' = reading
  BY DEF SocketCloses
<1>2. \A d \in Connections : stage'[d] # "met" => stage[d] # "met"
  <2>1. stage \in [Connections -> Stages]
    BY DEF ServerInv
  <2>2. \A d \in Connections \ {c} : stage'[d] = stage[d]
    BY <1>1, <2>1
  <2>3. stage'[c] # "met" => stage[c] # "met"
    BY <1>1, <2>1
  <2> SUFFICES ASSUME NEW d \in Connections
               PROVE  stage'[d] # "met" => stage[d] # "met"
    OBVIOUS
  <2>4. CASE d = c
    BY <2>3, <2>4
  <2>5. CASE d # c
    BY <2>2, <2>5
  <2> QED
    BY <2>4, <2>5
<1>3. server \in ServerStates /\ Reach(server, reading', left', stage')
  <2>1. left \subseteq left' /\ \A d \in HttpConnections : reading'[d] \subseteq reading[d]
    BY <1>1
  <2>2. Reach(server, reading, left, stage)
    BY DEF Reachable
  <2> HIDE DEF closed
  <2>3. Reach(server, reading', left', stage')
    BY <1>2, <2>1, <2>2, ReachMoves
  <2> QED
    BY <2>3, InvFacts
<1>4. /\ closed \in ServerStates /\ Reach(closed, reading', left', stage')
      /\ closed.active = server.active
  BY <1>3, SocketReach
<1> HIDE DEF closed
<1>5. c \in left'
  BY <1>1
<1>6. Reach(Closed(closed, {c}), reading', left', stage')
  BY <1>4, <1>5, ClosedReach
<1>7. Closed(closed, {c}).active = closed.active \/ closed.active = c
  BY <1>4, ClosedStands
<1> QED
  BY <1>1, <1>4, <1>5, <1>6, <1>7 DEF Reachable, HealthyKept

\* A frame of a plugin is taken, and does not come a second time.
LEMMA AnsweringReach ==
  ASSUME ServerInv, Reachable, NEW c \in Connections, NEW f \in PluginFrames, Says(c, f)
  PROVE  LET t == Answering(server, c, f)
         IN /\ t \in ServerStates /\ Reach(t, reading, left, stage)
            /\ t.active = server.active /\ t.conn = server.conn /\ t.socket = server.socket
            /\ t.connections = server.connections
            /\ t.outcome = server.outcome
            /\ f.type = "authentication" => Challenge \notin t.seen[c] /\ f = Authentication
            /\ f.type # "authentication" => c \in Strangers \/ server.conn[c].authenticated
<1> DEFINE t == Answering(server, c, f)
<1>0. server \in ServerStates
  BY InvFacts
<1>1. /\ t \in ServerStates
      /\ t.connections = server.connections /\ t.active = server.active
      /\ t.outcome = server.outcome
      /\ t.socket = server.socket /\ t.conn = server.conn
      /\ \A d \in Connections \ {c} : t.seen[d] = server.seen[d]
      /\ t.seen[c] \subseteq server.seen[c]
      /\ f.type = "authentication" => Challenge \notin t.seen[c]
  BY <1>0, AnsweringExact DEF Challenge
<1> HIDE DEF t
<1>2. ActiveThere(t, left) /\ \A d \in Connections : t.seen[d] \subseteq server.seen[d]
  BY <1>1 DEF Reachable, Reach, ActiveThere
<1>3. \A d \in Connections : Awaited(t, reading, d) => Awaited(server, reading, d)
  BY <1>1, <1>2 DEF Awaited, Offered
<1>4. Reach(t, reading, left, stage)
  BY <1>0, <1>1, <1>2, <1>3, ReachSame DEF Reachable
<1>5. f.type = "authentication" => f = Authentication
  BY DEF PluginFrames, Authentication, Frame
<1>6. f.type # "authentication" => c \in Strangers \/ server.conn[c].authenticated
  <2>1. CASE f.type = "response"
    <3>1. f.id \in Requests
      BY <2>1 DEF PluginFrames
    <3>2. Frame("request", f.id) \in server.seen[c]
      BY <2>1 DEF Says
    <3> QED
      BY <3>1, <3>2 DEF Reachable, Reach, Untouched
  <2>2. CASE f.type # "response"
    BY <2>2 DEF Says
  <2> QED
    BY <2>1, <2>2
<1> QED
  BY <1>1, <1>4, <1>5, <1>6 DEF t

LEMMA SocketFrameReach ==
  ASSUME ServerInv, Reachable, NEW c \in Connections \ HttpConnections, SocketFrame(c)
  PROVE  Reachable' /\ HealthyKept
<1>1. /\ stage[c] = "met" /\ server.socket[c] \in {"open", "closing"}
      /\ UNCHANGED <<stage, reading, left>>
  BY DEF SocketFrame
<1>2. PICK f \in PluginFrames : Says(c, f) /\ server' = Incoming(Answering(server, c, f), c, f)
  BY DEF SocketFrame
<1> DEFINE t == Answering(server, c, f)
<1>3. /\ t \in ServerStates /\ Reach(t, reading, left, stage)
      /\ t.active = server.active /\ t.conn = server.conn /\ t.socket = server.socket
      /\ t.connections = server.connections
      /\ t.outcome = server.outcome
      /\ f.type = "authentication" => Challenge \notin t.seen[c] /\ f = Authentication
      /\ f.type # "authentication" => c \in Strangers \/ server.conn[c].authenticated
  BY <1>2, AnsweringReach
<1> HIDE DEF t
<1>4. WaitsSomewhere(t)
  BY <1>3, InvFacts DEF WaitsSomewhere, NobodyWaits
<1>5. t.conn[c].authenticated \/ Spent(t, reading, c)
  BY <1>3 DEF Spent
<1>6. ~t.conn[c].authenticated /\ f.type = "authentication" /\ Proves(t, c)
        => c \in t.connections \cup left
  <2>1. f.type = "authentication" => Challenge \in server.seen[c]
    BY <1>2 DEF Says, Challenge
  <2>2. ~t.conn[c].authenticated /\ f.type = "authentication" /\ Proves(t, c)
          => Awaited(server, reading, c)
    BY <1>1, <1>3, <2>1 DEF Proves, Awaited, Offered
  <2> QED
    BY <1>3, <2>2 DEF Reachable, Reach
<1>7. /\ Reach(Incoming(t, c, f), reading, left, stage)
      /\ Dropped(t, Incoming(t, c, f)) => Excused(t)
  BY <1>1, <1>3, <1>4, <1>5, <1>6, IncomingReach
<1>8. server' = Incoming(t, c, f)
  BY <1>2 DEF t
<1> QED
  BY <1>1, <1>3, <1>7, <1>8 DEF Reachable, HealthyKept, Dropped, Excused

LEMMA SendStartsReach ==
  ASSUME ServerInv, Reachable, NEW c \in HttpConnections, SendStarts(c)
  PROVE  Reachable' /\ HealthyKept
<1>0. c \in Connections
  BY ConstantFacts
<1>1. UNCHANGED <<stage, left>>
  BY DEF SendStarts
<1>2. PICK f \in PluginFrames :
        /\ Says(c, f) /\ server' = Answering(server, c, f)
        /\ reading' = IF c \in server.connections THEN [reading EXCEPT ![c] = @ \cup {f}]
                      ELSE reading
  BY DEF SendStarts
<1>3. /\ server' \in ServerStates /\ Reach(server', reading, left, stage)
      /\ server'.active = server.active /\ server'.conn = server.conn
      /\ server'.connections = server.connections
      /\ f.type = "authentication" => f = Authentication
      /\ f.type # "authentication" => c \in Strangers \/ server.conn[c].authenticated
  BY <1>0, <1>2, AnsweringReach
<1>4. \A d \in HttpConnections :
        reading'[d] = IF d = c /\ c \in server.connections THEN reading[d] \cup {f} ELSE reading[d]
  BY <1>2 DEF ServerInv
<1>5. OnlyAnswers(server', reading')
  BY <1>3, <1>4 DEF Reach, OnlyAnswers
<1>6. ASSUME NEW d \in Connections, Awaited(server', reading', d)
      PROVE  d \in server'.connections \cup left
  <2>1. CASE d = c /\ c \in server.connections
    BY <1>3, <2>1
  <2>2. CASE ~(d = c /\ c \in server.connections)
    <3>1. Awaited(server', reading, d)
      BY <1>4, <1>6, <2>2 DEF Awaited, Offered
    <3> QED
      BY <1>3, <3>1 DEF Reach
  <2> QED
    BY <2>1, <2>2
<1>7. Reach(server', reading', left, stage)
  BY <1>3, <1>5, <1>6 DEF Reach
<1> QED
  BY <1>1, <1>3, <1>7 DEF Reachable, HealthyKept

LEMMA SendEndsReach ==
  ASSUME ServerInv, Reachable, NEW c \in HttpConnections, SendEnds(c)
  PROVE  Reachable' /\ HealthyKept
<1>0. c \in Connections /\ server \in ServerStates /\ WaitsSomewhere(server)
  BY InvFacts, ConstantFacts
<1>1. UNCHANGED <<stage, left>>
  BY DEF SendEnds
<1>2. PICK f \in reading[c] : /\ reading' = [reading EXCEPT ![c] = @ \ {f}]
                              /\ server' \in {Incoming(server, c, f), server}
  BY DEF SendEnds
<1>3. /\ f \in PluginFrames /\ stage[c] = "met"
      /\ reading'[c] = reading[c] \ {f}
      /\ \A d \in HttpConnections : reading'[d] \subseteq reading[d]
  BY <1>2 DEF ServerInv
<1>4. Reach(server, reading', left, stage)
  BY <1>3, ReachMoves DEF Reachable
<1>5. server.conn[c].authenticated \/ Spent(server, reading', c)
  BY <1>2, <1>3 DEF Reachable, Reach, OnlyAnswers, Spent
<1>6. ~server.conn[c].authenticated /\ f.type = "authentication" /\ Proves(server, c)
        => c \in server.connections \cup left
  <2>1. f.type = "authentication" => f = Authentication
    BY <1>3 DEF PluginFrames, Authentication, Frame
  <2>2. ~server.conn[c].authenticated /\ f.type = "authentication" /\ Proves(server, c)
          => Awaited(server, reading, c)
    BY <1>2, <2>1 DEF Proves, Awaited, Offered
  <2> QED
    BY <1>0, <2>2 DEF Reachable, Reach
<1>7. /\ Reach(Incoming(server, c, f), reading', left, stage)
      /\ Dropped(server, Incoming(server, c, f)) => Excused(server)
  BY <1>0, <1>3, <1>4, <1>5, <1>6, IncomingReach
<1> QED
  BY <1>1, <1>2, <1>4, <1>7 DEF Reachable, HealthyKept, Dropped, Excused

LEMMA AnswerReach ==
  ASSUME ServerInv, Reachable, NEW c \in HttpConnections, Answer(c),
         UNCHANGED <<stage, reading, left>>
  PROVE  Reachable' /\ HealthyKept
<1> DEFINE queue == server.conn[c].outbound
<1>0. c \in Connections /\ server \in ServerStates
  BY InvFacts, ConstantFacts
<1>1. PICK n \in 0 .. Len(queue) :
        /\ server' \in ServerStates
        /\ server'.connections = server.connections /\ server'.active = server.active
        /\ server'.socket = server.socket
        /\ \A d \in Connections :
             /\ SameStanding(server'.conn[d], server.conn[d])
             /\ server'.conn[d].outbound = IF d = c THEN Rest(queue, n)
                                                    ELSE server.conn[d].outbound
             /\ d # c => server'.seen[d] = server.seen[d]
        /\ \A f \in server'.seen[c] : f \in server.seen[c] \/ Holds(queue, f)
  BY <1>0, AnswerExact
<1>a. queue \in Seq(Frames)
  BY <1>0, StateFields, ConnectionTypes
<1> HIDE DEF queue
<1>2. /\ \A f : Holds(Rest(queue, n), f) => Holds(queue, f)
      /\ queue = <<>> => Rest(queue, n) = <<>>
  <2>1. /\ Len(queue) \in Nat /\ DOMAIN queue = 1 .. Len(queue) /\ n \in 0 .. Len(queue)
        /\ DOMAIN Rest(queue, n) = 1 .. Len(queue) - n
        /\ \A i \in 1 .. Len(queue) - n : Rest(queue, n)[i] = queue[n + i]
    BY <1>a, <1>1 DEF Rest
  <2>2. \A i \in DOMAIN Rest(queue, n) : n + i \in DOMAIN queue /\ Rest(queue, n)[i] = queue[n + i]
    BY <2>1
  <2>3. Rest(queue, n) \in Seq(Frames)
    BY <1>a, <1>1, RestType
  <2>4. queue = <<>> => Len(Rest(queue, n)) = 0
    BY <2>1, <2>3
  <2> QED
    BY <2>2, <2>3, <2>4 DEF Holds
<1>3. server.active \in Connections \cup {None}
  BY <1>0, StateFields
<1>4. ActiveThere(server', left)
  BY <1>1, <1>3 DEF Reachable, Reach, ActiveThere, SameStanding
<1>5. OnlyAnswers(server', reading)
  BY <1>1, ConstantFacts DEF Reachable, Reach, OnlyAnswers, SameStanding
<1>6. ASSUME NEW d \in Connections
      PROVE  Untouched(server', stage, d)
  <2>1. Untouched(server, stage, d)
    BY DEF Reachable, Reach
  <2>2. CASE d # c
    BY <1>1, <2>1, <2>2 DEF Untouched, SameStanding
  <2>3. CASE d = c
    <3>1. /\ server'.conn[d].authenticated = server.conn[d].authenticated
          /\ server'.conn[d].outbound = Rest(queue, n)
          /\ queue = server.conn[d].outbound
      BY <1>1, <2>3 DEF SameStanding, queue
    <3>2. stage[d] # "met" =>
            server'.seen[d] = {} /\ server'.conn[d].outbound = <<>> /\ ~server'.conn[d].authenticated
      BY <1>1, <1>2, <2>1, <2>3, <3>1, EmptyInOrder DEF Untouched
    <3>3. ~server'.conn[d].authenticated => \A r \in Requests :
            /\ Frame("request", r) \notin server'.seen[d]
            /\ ~Holds(server'.conn[d].outbound, Frame("request", r))
      BY <1>1, <1>2, <2>1, <2>3, <3>1 DEF Untouched
    <3> QED
      BY <3>2, <3>3 DEF Untouched
  <2> QED
    BY <2>2, <2>3
<1>7. ASSUME NEW d \in Connections, Awaited(server', reading, d)
      PROVE  d \in server'.connections \cup left
  <2>1. Awaited(server, reading, d)
    BY <1>1, <1>7 DEF Awaited, Offered, SameStanding
  <2> QED
    BY <1>1, <2>1 DEF Reachable, Reach
<1> QED
  BY <1>1, <1>4, <1>5, <1>6, <1>7 DEF Reachable, Reach, HealthyKept

LEMMA PollReach ==
  ASSUME ServerInv, Reachable, NEW c \in HttpConnections,
         Poll(c) \/ PollTimesOut(c) \/ PollAnswers(c)
  PROVE  Reachable' /\ HealthyKept
<1>0. c \in Connections /\ server \in ServerStates
  BY InvFacts, ConstantFacts
<1>1. UNCHANGED <<stage, reading, left>>
  BY DEF Poll, PollTimesOut, PollAnswers
<1>2. \/ Answer(c)
      \/ /\ Alike(server, server')
         /\ \A d \in Connections :
              /\ server'.conn[d].authenticated = server.conn[d].authenticated
              /\ server.conn[d].expired => server'.conn[d].expired
  BY <1>0, ClockAlike DEF Poll, PollAnswers
<1>3. CASE Answer(c)
  BY <1>1, <1>3, AnswerReach
<1>4. CASE /\ Alike(server, server')
           /\ \A d \in Connections :
                /\ server'.conn[d].authenticated = server.conn[d].authenticated
                /\ server.conn[d].expired => server'.conn[d].expired
  <2>1. Reach(server', reading, left, stage)
    BY <1>0, <1>4, AlikeReach DEF Reachable
  <2> QED
    BY <1>1, <1>4, <2>1 DEF Reachable, HealthyKept, Alike
<1> QED
  BY <1>2, <1>3, <1>4

LEMMA ClockReach ==
  ASSUME ServerInv, Reachable,
         FailureForgotten \/ \E c \in Connections : ChallengeExpires(c) \/ GoesStale(c)
  PROVE  Reachable' /\ HealthyKept
<1>0. server \in ServerStates
  BY InvFacts
<1>1. UNCHANGED <<stage, reading, left>>
  BY DEF FailureForgotten, ChallengeExpires, GoesStale
<1>2. /\ Alike(server, server')
      /\ \A d \in Connections :
           /\ server'.conn[d].authenticated = server.conn[d].authenticated
           /\ server.conn[d].expired => server'.conn[d].expired
  <2>1. CASE FailureForgotten
    BY <1>0, <2>1, ForgottenAlike
  <2>2. ASSUME NEW c \in Connections, ChallengeExpires(c) \/ GoesStale(c)
        PROVE  /\ Alike(server, server')
               /\ \A d \in Connections :
                    /\ server'.conn[d].authenticated = server.conn[d].authenticated
                    /\ server.conn[d].expired => server'.conn[d].expired
    <3>1. server.conn \in [Connections -> ConnectionStates] /\ server.conn[c] \in ConnectionStates
      BY <1>0, StateFields
    <3>2. PICK k \in {[server.conn[c] EXCEPT !.expired = TRUE],
                      [server.conn[c] EXCEPT !.stale = TRUE]} :
            server' = [server EXCEPT !.conn[c] = k]
      BY <1>0, <2>2, <3>1 DEF ChallengeExpires, GoesStale, ServerStates
    <3>3. /\ k \in ConnectionStates /\ k.outbound = server.conn[c].outbound
          /\ k.authenticated = server.conn[c].authenticated
          /\ server.conn[c].expired => k.expired
      BY <3>1, <3>2 DEF ConnectionStates
    <3> QED
      BY <1>0, <3>2, <3>3, ConnAlike
  <2> QED
    BY <2>1, <2>2
<1>3. Reach(server', reading, left, stage)
  BY <1>0, <1>2, AlikeReach DEF Reachable
<1> QED
  BY <1>1, <1>2, <1>3 DEF Reachable, HealthyKept, Alike

LEMMA LeaveReach ==
  ASSUME ServerInv, Reachable, NEW c \in HttpConnections, Leave(c)
  PROVE  Reachable' /\ HealthyKept
<1>0. c \in Connections /\ server \in ServerStates
  BY InvFacts, ConstantFacts
<1>1. /\ left' = left \cup {c} /\ UNCHANGED <<stage, reading>>
      /\ server' \in {server, Closed(server, {c})}
  BY DEF Leave
<1>2. Reach(server, reading, left', stage)
  BY <1>1, ReachMoves DEF Reachable
<1>3. Reach(Closed(server, {c}), reading, left', stage)
  BY <1>0, <1>1, <1>2, ClosedReach
<1>4. Closed(server, {c}).active = server.active \/ server.active = c
  BY <1>0, ClosedStands
<1> QED
  BY <1>1, <1>2, <1>3, <1>4 DEF Reachable, HealthyKept

LEMMA RefuseReach ==
  ASSUME ServerInv, Reachable, NEW r \in Requests, Refuse(r)
  PROVE  Reachable' /\ HealthyKept
<1> DEFINE t == [server EXCEPT !.outcome[r] = "refused"]
<1>1. server' = t /\ UNCHANGED <<stage, reading, left>>
  BY DEF Refuse
<1>2. server \in ServerStates /\ "refused" \in Outcomes
  BY InvFacts DEF Outcomes
<1>3. t.active = server.active /\ Reach(t, reading, left, stage)
  BY <1>2, OutcomeExact, OutcomeReach DEF Reachable
<1> HIDE DEF t
<1> QED
  BY <1>1, <1>3 DEF Reachable, HealthyKept

\* A frame of a request goes to the active session, with the outcome that the
\* request has then.
LEMMA OutgoingReach ==
  ASSUME ServerInv, Reachable, NEW r \in Requests, NEW o \in Outcomes, server.active # None,
         NEW f \in Frames, f # Challenge
  PROVE  LET t == Sent([server EXCEPT !.outcome[r] = o], server.active, f)
         IN /\ Reach(t, reading, left, stage)
            /\ t.active # server.active =>
                 /\ server.socket[server.active] # "open"
                 /\ \/ f.type = "request" /\ f.id \in Oversized
                    \/ Len(server.conn[server.active].outbound) >= MaxOutbound
<1> DEFINE u == [server EXCEPT !.outcome[r] = o]
           a == server.active
<1>0. server \in ServerStates
  BY InvFacts
<1>1. /\ a \in Connections /\ server.conn[a].authenticated
      /\ stage[a] = "met" /\ ~Awaited(server, reading, a)
  BY ActiveFacts
<1>2. /\ u \in ServerStates /\ u.active = a
      /\ u.conn = server.conn /\ u.socket = server.socket
  BY <1>0, OutcomeExact
<1>3. Reach(u, reading, left, stage)
  BY <1>0, OutcomeReach DEF Reachable
<1> HIDE DEF u
<1>4. u.conn[a].authenticated /\ ~Awaited(u, reading, a)
  BY <1>1, <1>2 DEF Awaited
<1> HIDE DEF a
<1>5. Reach(Sent(u, a, f), reading, left, stage)
  BY <1>1, <1>2, <1>3, <1>4, SentReach
<1>6. ASSUME Sent(u, a, f).active # a
      PROVE  /\ u.socket[a] # "open"
             /\ \/ f.type = "request" /\ f.id \in Oversized
                \/ Len(u.conn[a].outbound) >= MaxOutbound
  <2>1. Dropped(u, Sent(u, a, f))
    BY <1>2, <1>6 DEF Dropped, a
  <2> QED
    BY <1>1, <1>2, <2>1, SentKeeps
<1> QED
  BY <1>2, <1>5, <1>6 DEF a, u

LEMMA RequestReach ==
  ASSUME ServerInv, Reachable, NEW r \in Requests, Request(r)
  PROVE  Reachable' /\ HealthyKept
<1> DEFINE t == Sent([server EXCEPT !.outcome[r] = "waiting"], server.active, Frame("request", r))
           f == Frame("request", r)
<1>1. /\ server.active # None /\ server' = t /\ UNCHANGED <<stage, reading, left>>
      /\ sentTo' = [sentTo EXCEPT ![r] = server.active]
  BY DEF Request
<1>2. f \in Frames /\ f # Challenge /\ f.id = r /\ "waiting" \in Outcomes
  BY FrameTypes, FrameFields, FrameEqual DEF Challenge, Outcomes
<1> HIDE DEF f
<1>3. /\ Reach(t, reading, left, stage)
      /\ t.active # server.active =>
           /\ server.socket[server.active] # "open"
           /\ \/ f.type = "request" /\ f.id \in Oversized
              \/ Len(server.conn[server.active].outbound) >= MaxOutbound
  BY <1>1, <1>2, OutgoingReach DEF f
<1> HIDE DEF t
<1>4. sentTo'[r] = server.active
  BY <1>1, InvFacts DEF ServerInv
<1>5. HealthyKept
  BY <1>1, <1>2, <1>3, <1>4 DEF HealthyKept
<1> QED
  BY <1>1, <1>3, <1>5 DEF Reachable

LEMMA GiveUpReach ==
  ASSUME ServerInv, Reachable, NEW r \in Requests, Abort(r) \/ Deadline(r)
  PROVE  Reachable' /\ HealthyKept
<1>1. PICK why \in {"cancelled", "timedOut"} : GiveUp(r, why)
  BY DEF Abort, Deadline
<1> DEFINE t == Sent([server EXCEPT !.outcome[r] = why], server.active, Frame("cancel", r))
           f == Frame("cancel", r)
<1>2. sentTo[r] = server.active /\ server.active # None
  BY <1>1, InvFacts DEF GiveUp, Waiting, Good, WaitsActive
<1>3. server' = t /\ UNCHANGED <<stage, reading, left>>
  BY <1>1, <1>2 DEF GiveUp
<1>4. f \in Frames /\ f # Challenge /\ f.type # "request" /\ why \in Outcomes
  BY FrameTypes, FrameFields, FrameEqual DEF Challenge, Outcomes
<1> HIDE DEF f
<1>5. /\ Reach(t, reading, left, stage)
      /\ t.active # server.active =>
           /\ server.socket[server.active] # "open"
           /\ \/ f.type = "request" /\ f.id \in Oversized
              \/ Len(server.conn[server.active].outbound) >= MaxOutbound
  BY <1>2, <1>4, OutgoingReach DEF f
<1> HIDE DEF t
<1>6. HealthyKept
  BY <1>3, <1>4, <1>5 DEF HealthyKept
<1> QED
  BY <1>3, <1>5, <1>6 DEF Reachable

LEMMA HeartbeatReach ==
  ASSUME ServerInv, Reachable, Heartbeat
  PROVE  Reachable' /\ HealthyKept
<1> DEFINE S == {c \in Challenged(server) : server.conn[c].expired}
           pruned == Pruned(server)
           a == server.active
           f == Frame("heartbeat", None)
<1>1. /\ pruned \in ServerStates /\ Reach(pruned, reading, left, stage)
      /\ pruned.active = a
  BY InvFacts, PrunedFacts, PrunedReach DEF Reachable
<1>2. UNCHANGED <<stage, reading, left>>
  BY DEF Heartbeat
<1>3. \/ a = None /\ server' = pruned
      \/ a # None /\ pruned.conn[a].stale /\ server' = Closed(pruned, {a})
      \/ a # None /\ server' = Sent(pruned, a, f)
  BY <1>1 DEF Heartbeat
<1>4. CASE a = None /\ server' = pruned
  BY <1>1, <1>2, <1>4 DEF Reachable, HealthyKept
<1>5. ASSUME a # None
      PROVE  /\ a \in Connections /\ stage[a] = "met" /\ ~Awaited(pruned, reading, a)
             /\ pruned.conn[a].stale = server.conn[a].stale
             /\ pruned.socket[a] = server.socket[a]
             /\ pruned.conn[a].outbound = server.conn[a].outbound
  <2>1. /\ a \in Connections /\ server.conn[a].authenticated /\ stage[a] = "met"
    BY <1>5, ActiveFacts
  <2>2. a \notin S
    BY <2>1 DEF Challenged
  <2>3. pruned = Closed(server, S)
    BY DEF Pruned
  <2> HIDE DEF S, pruned, a
  <2>4. /\ pruned.socket[a] = server.socket[a]
        /\ pruned.conn[a].outbound = server.conn[a].outbound
        /\ SameStanding(pruned.conn[a], server.conn[a])
    BY <2>1, <2>2, <2>3, InvFacts, ClosedExact
  <2> QED
    BY <2>1, <2>4 DEF SameStanding, Awaited
<1>6. f \in Frames /\ f # Challenge /\ f.type # "request"
  BY FrameTypes, FrameFields, FrameEqual DEF Challenge
<1> HIDE DEF pruned, f
<1>7. CASE a # None /\ pruned.conn[a].stale /\ server' = Closed(pruned, {a})
  <2>1. Reach(server', reading, left, stage)
    BY <1>1, <1>5, <1>7, ClosedReach
  <2>2. server.conn[a].stale
    BY <1>5, <1>7
  <2> QED
    BY <1>2, <2>1, <2>2 DEF Reachable, HealthyKept
<1>8. CASE a # None /\ server' = Sent(pruned, a, f)
  <2>1. Reach(server', reading, left, stage)
    BY <1>1, <1>5, <1>6, <1>8, SentReach
  <2>2. ASSUME server'.active # a
        PROVE  server.socket[a] # "open" /\ Len(server.conn[a].outbound) >= MaxOutbound
    <3>1. Dropped(pruned, Sent(pruned, a, f))
      BY <1>1, <1>8, <2>2 DEF Dropped
    <3> QED
      BY <1>1, <1>5, <1>6, <1>8, <3>1, SentKeeps
  <2> QED
    BY <1>2, <2>1, <2>2 DEF Reachable, HealthyKept
<1> QED
  BY <1>3, <1>4, <1>7, <1>8

LEMMA ReachStep ==
  ASSUME ServerInv, Reachable, [Next]_vars
  PROVE  Reachable' /\ HealthyKept
<1>1. CASE UNCHANGED vars
  BY <1>1 DEF vars, Reachable, HealthyKept
<1>2. ASSUME NEW c \in Connections, ConnectionNext(c)
      PROVE  Reachable' /\ HealthyKept
  BY <1>2, OpenReach, HelloDeadlineReach, HelloReach, ClockReach DEF ConnectionNext
<1>3. ASSUME NEW c \in Connections \ HttpConnections, SocketNext(c)
      PROVE  Reachable' /\ HealthyKept
  BY <1>3, SocketClosesReach, SocketFrameReach DEF SocketNext
<1>4. ASSUME NEW c \in HttpConnections, HttpNext(c)
      PROVE  Reachable' /\ HealthyKept
  BY <1>4, SendStartsReach, SendEndsReach, PollReach, LeaveReach DEF HttpNext
<1>5. ASSUME NEW r \in Requests, Refuse(r) \/ Request(r) \/ Abort(r) \/ Deadline(r)
      PROVE  Reachable' /\ HealthyKept
  BY <1>5, RefuseReach, RequestReach, GiveUpReach
<1>6. CASE Heartbeat \/ FailureForgotten
  BY <1>6, HeartbeatReach, ClockReach
<1> QED
  BY <1>1, <1>2, <1>3, <1>4, <1>5, <1>6 DEF Next

LEMMA ReachInvariant == Spec => []Reachable
<1>1. Init => Reachable
  <2> SUFFICES ASSUME Init
               PROVE  Reachable
    OBVIOUS
  <2>1. /\ server.active = None
        /\ \A c \in Connections :
             /\ server.seen[c] = {} /\ server.conn[c].outbound = <<>>
             /\ ~server.conn[c].authenticated
             /\ ~Holds(server.conn[c].outbound, Challenge)
        /\ \A c \in HttpConnections : reading[c] = {}
    BY EmptyInOrder DEF Init, NewConnection
  <2>2. ActiveThere(server, left) /\ OnlyAnswers(server, reading)
    BY <2>1 DEF ActiveThere, OnlyAnswers
  <2>3. \A c \in Connections : Untouched(server, stage, c)
    BY <2>1, EmptyInOrder DEF Untouched
  <2>4. \A c \in Connections : ~Awaited(server, reading, c)
    BY <2>1 DEF Awaited, Offered
  <2> QED
    BY <2>2, <2>3, <2>4 DEF Reachable, Reach
<1>2. ServerInv /\ Reachable /\ [Next]_vars => Reachable'
  BY ReachStep
<1> QED
  BY <1>1, <1>2, ServerInvariant, PTL DEF Spec

\* The active session is registered, so that frames and polls find it, or its
\* own plugin has ended it: a session that was closed while the body of its
\* answer was being read does not become active afterwards.
THEOREM ActiveCanBeReached == Spec => []ActiveIsReachable
<1>1. Reachable => ActiveIsReachable
  BY DEF Reachable, Reach, ActiveThere, ActiveIsReachable
<1> QED
  BY <1>1, ReachInvariant, PTL

\* No step takes the session from a healthy plugin: another plugin that
\* authenticates is turned away, a failed or expired one is closed alone, and a
\* session ends only when it is stale, when its plugin leaves, or when it does
\* not take a frame.
THEOREM HealthyStays == Spec => HealthySessionKept
<1>1. ServerInv /\ Reachable /\ [Next]_vars => [HealthyKept]_vars
  BY ReachStep
<1>2. HealthyKept <=>
        LET a == server.active IN
          a # None /\ server'.active # a =>
            \/ a \in left'
            \/ server.conn[a].stale
            \/ server.socket[a] # "open" /\ Len(server.conn[a].outbound) >= MaxOutbound
            \/ server.socket[a] # "open" /\ \E r \in Oversized : sentTo'[r] = a
  BY DEF HealthyKept
<1> QED
  BY <1>1, <1>2, ServerInvariant, ReachInvariant, PTL DEF Spec, HealthySessionKept

=============================================================================
