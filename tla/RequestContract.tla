-------------------------- MODULE RequestContract ---------------------------
(***************************************************************************)
(* What the plugin promises to the callers of its requests: the work of a  *)
(* request is refused without having been touched, or it is run once, to   *)
(* its end, while no other work runs; and every caller that was accepted   *)
(* is answered in the end.                                                 *)
(*                                                                         *)
(* In which order requests are served, when they are refused and what the  *)
(* answers say is left to the implementation, RequestQueue.                *)
(***************************************************************************)

CONSTANT Requests

VARIABLE state  \* What has become of each request.

Init == state = [r \in Requests |-> "new"]

\* The moves of one request; several may move in one step.
Moves ==
  {<<"new", "waiting">>, <<"new", "running">>, <<"new", "refused">>,
   <<"waiting", "running">>, <<"waiting", "refused">>, <<"running", "done">>}

Running == {r \in Requests : state[r] = "running"}

Next ==
  /\ \A r \in Requests : state'[r] = state[r] \/ <<state[r], state'[r]>> \in Moves
  /\ \A r, s \in Running' : r = s

Answered ==
  \A r \in Requests :
    state[r] \in {"waiting", "running"} ~> state[r] \in {"done", "refused"}

Safety == Init /\ [][Next]_state

Spec == Safety /\ Answered

=============================================================================
