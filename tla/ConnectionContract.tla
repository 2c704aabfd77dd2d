------------------------- MODULE ConnectionContract -------------------------
(***************************************************************************)
(* What the panel promises about its connection to the bridge: until the   *)
(* user disconnects it keeps trying, as long as there is a token.          *)
(***************************************************************************)

VARIABLE standing  \* How the panel stands to the bridge.

Standings == {"off", "waiting", "trying", "online"}

Init == standing = "off"

\* The user wants to be connected or pairs a token; or not any more.
Want == standing = "off" /\ standing' = "waiting"

Leave == standing # "off" /\ standing' = "off"

\* An attempt begins, and comes to its end.
Try == standing = "waiting" /\ standing' = "trying"

TryEnds == standing = "trying" /\ standing' \in {"online", "waiting"}

\* The session is lost.
Lose == standing = "online" /\ standing' = "waiting"

Next == Want \/ Leave \/ Try \/ TryEnds \/ Lose

Safety == Init /\ [][Next]_standing

Spec ==
  /\ Safety
  /\ WF_standing(Try)
  /\ WF_standing(TryEnds)

=============================================================================
