---------------------------- MODULE MCGossipSync ----------------------------
(* A remote node of each kind. *)
EXTENDS GossipSync

CONSTANTS Standard, Legacy, None

OfEachKind ==
  [p \in Peers |-> CASE p = Standard -> "standard" [] p = Legacy -> "legacy" [] OTHER -> "none"]
=============================================================================
