----------------------------- MODULE PeerSession -----------------------------
(***************************************************************************)
(* What a Peer promises the rest of the node (class comment of Peer): a    *)
(* connection is first secured, then initialized, then up, and a peer that *)
(* is leaving, or lost its connection, is not up again before all of this  *)
(* has been repeated on a new connection.                                  *)
(***************************************************************************)
VARIABLES
  outbound,  \* the node dialed: a lost connection is dialed again
  phase

Init == outbound \in BOOLEAN /\ phase = "securing"

Secure     == phase = "securing" /\ phase' = "initializing"
Initialize == phase = "initializing" /\ phase' = "up"
Leave      == phase \in {"initializing", "up"} /\ phase' = "leaving"
Lose       == phase # "down" /\ phase' = "down"
Redial     == outbound /\ phase = "down" /\ phase' = "securing"

Next ==
  /\ Secure \/ Initialize \/ Leave \/ Lose \/ Redial
  /\ UNCHANGED outbound

Spec == Init /\ [][Next]_<<outbound, phase>>
=============================================================================
