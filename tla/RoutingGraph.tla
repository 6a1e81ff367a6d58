---------------------------- MODULE RoutingGraph ----------------------------
(***************************************************************************)
(* The graph of channels a GraphManager builds from gossip messages        *)
(* (graph/graph-manager.ts, graph.ts, channel.ts, node.ts), as operators   *)
(* on a record that stands for the object Graph.  GossipStore composes it  *)
(* with the filter and the stores.                                         *)
(***************************************************************************)
EXTENDS Naturals

CONSTANTS
    Channel,    \* short channel ids
    Node,       \* node ids
    Ends        \* Ends[c] = <<node id 1, node id 2>> of channel c

ASSUME EndsAssumption == Ends \in [Channel -> Node \X Node]

Direction == {0, 1}

(***************************************************************************)
(* A channel is absent, known without its outpoint (plain), or with it.    *)
(***************************************************************************)
EmptyGraph == [channels |-> [c \in Channel |-> "none"],
               nodes    |-> {},
               links    |-> [n \in Node |-> {}],
               settings |-> [k \in Channel \X Direction |-> 0],
               lastUpdate |-> [n \in Node |-> 0]]

EndsOf(c) == {Ends[c][1], Ends[c][2]}

linkChannel(g, c) ==
    [g EXCEPT !.links = [n \in Node |-> IF n \in EndsOf(c) THEN @[n] \cup {c} ELSE @[n]]]

unlinkFirstOnly(g, c) ==    \* a variant that detaches the first node only
    [g EXCEPT !.links[Ends[c][1]] = @ \ {c}]

unlinkChannel(g, c) ==
    [g EXCEPT !.links = [n \in Node |-> IF n \in EndsOf(c) THEN @[n] \ {c} ELSE @[n]]]

(***************************************************************************)
(* graph.addChannel, after the missing nodes were added.  The channel is a *)
(* new object: it has no settings.                                         *)
(***************************************************************************)
addChannel(g, c, k) ==
    linkChannel([g EXCEPT !.channels[c] = k,
                          !.nodes = @ \cup EndsOf(c),
                          !.settings = [e \in Channel \X Direction |->
                                           IF e[1] = c THEN 0 ELSE @[e]]], c)

onAnnouncement(g, c, k) == IF g.channels[c] # "none" THEN g ELSE addChannel(g, c, k)

(***************************************************************************)
(* An update of an unknown channel is an error event and is dropped; an    *)
(* update as old as the settings replaces them, an older one does not.     *)
(***************************************************************************)
IsUnknown(g, c) == g.channels[c] = "none"

onUpdate(g, c, d, t) ==
    IF IsUnknown(g, c) \/ g.settings[<<c, d>>] > t
    THEN g
    ELSE [g EXCEPT !.settings[<<c, d>>] = t]

onNode(g, n, t) == [g EXCEPT !.nodes = @ \cup {n}, !.lastUpdate[n] = t]

(***************************************************************************)
(* GraphManager.removeChannel looks for the outpoint: a channel known only *)
(* from a plain announcement has none and stays.                           *)
(***************************************************************************)
removeChannel(g, c) ==
    IF g.channels[c] # "extended"
    THEN g
    ELSE unlinkChannel([g EXCEPT !.channels[c] = "none",
                                 !.settings = [e \in Channel \X Direction |->
                                                  IF e[1] = c THEN 0 ELSE @[e]]], c)

=============================================================================
