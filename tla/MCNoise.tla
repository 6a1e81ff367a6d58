------------------------------- MODULE MCNoise -------------------------------
(* Small instances of Noise: the initiator has the responder's static key *)
(* or that of another node.                                               *)
EXTENDS Noise

AnyKey == {Static(Responder), Static("another")}
=============================================================================
