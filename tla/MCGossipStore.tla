--------------------------- MODULE MCGossipStore ---------------------------
EXTENDS GossipStore, TLC

CONSTANTS c1, c2, n1, n2, n3

TwoChannels == (c1 :> <<n1, n2>>) @@ (c2 :> <<n1, n3>>)

Channels(S) == [op : {"channel"}, c : S, ok : {TRUE}]
Messages ==
    Channels({c1, c2})
    \cup {[op |-> "update", c |-> c1, d |-> 0, at |-> i, ok |-> i = 2] : i \in {1, 2}}
    \cup [op : {"update"}, c : {c1}, d : {1}, at : {1}, ok : {TRUE}]
    \cup [op : {"node"}, n : {n1}, at : {1}, ok : {TRUE}]

=============================================================================
