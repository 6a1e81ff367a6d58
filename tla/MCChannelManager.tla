-------------------------- MODULE MCChannelManager --------------------------
(* Small instances of ChannelManager: two channels with one fundee each,  *)
(* or every channel with the same fundee.                                 *)
EXTENDS ChannelManager, TLC

CONSTANTS c1, c2, p1, p2

TwoPeers == (c1 :> p1) @@ (c2 :> p2)

(* The two channels with their fundees are alike. *)
Swaps == {(c1 :> c2) @@ (c2 :> c1) @@ (p1 :> p2) @@ (p2 :> p1)}

BadSignedOrReady == {<<"funding_signed", FALSE>>, <<"channel_ready", TRUE>>}

OnePeer == [c \in Channel |-> p1]
=============================================================================
