---------------------------- MODULE GossipStore -----------------------------
(***************************************************************************)
(* Gossip messages on their way through GossipManager.onWireMessage and    *)
(* GossipFilter into a gossip store, and on to a GraphManager as the graph *)
(* example wires it; the removal of channels whose outpoint is spent, by a *)
(* monitor that runs beside the filter; crashes and restarts, after which  *)
(* start() goes through the stored channels while messages come in.        *)
(*                                                                         *)
(* The store is a GossipMemoryStore or a RocksdbGossipStore.  Every await  *)
(* of the code is a place where another process may run: a handler is a    *)
(* sequence `todo` of operations, and an action takes the first of them.   *)
(* A list of channels in the database is read by one operation and written *)
(* by the next, and what another process wrote in between is overwritten.  *)
(***************************************************************************)
EXTENDS RoutingGraph, Sequences, Functions

CONSTANTS
    Gossip,        \* the messages that peers may send
    Kinds,         \* the kinds of store to consider
    MaxReceived,   \* bound on messages received
    MaxRemovals,   \* bound on removals by the monitor
    MaxFaults      \* bound on crashes and failing writes

ChannelMessage == [op : {"channel"}, c : Channel, ok : BOOLEAN]
UpdateMessage == [op : {"update"}, c : Channel, d : Direction, at : Nat \ {0}, ok : BOOLEAN]
NodeMessage == [op : {"node"}, n : Node, at : Nat \ {0}, ok : BOOLEAN]

ASSUME GossipAssumption == Gossip \subseteq ChannelMessage \cup UpdateMessage \cup NodeMessage
ASSUME KindsAssumption == Kinds \subseteq {"memory", "rocksdb"}
ASSUME BoundAssumption == MaxReceived \in Nat /\ MaxRemovals \in Nat /\ MaxFaults \in Nat

None == [at |-> 0, ok |-> TRUE]
Key == Channel \X Direction
Process == {"filter", "monitor", "start"}

VARIABLES
    kind,          \* "memory" or "rocksdb"
    chainClient,   \* whether the filter and the manager have a chain client
    utxo,          \* the channels whose funding output is unspent
    store,         \* what the gossip store holds
    pending,       \* what the pending store holds
    todo,          \* the operations each process still has to do
    graph,         \* the object of RoutingGraph
    last,          \* history: the last update received, by channel and direction
    raced,         \* history: channels two processes worked on at one time
    cut,           \* history: channels whose handler ended between two writes
    lost,          \* history: links of a channel that the work on another one overwrote
    bound          \* messages received, removals, faults

vars == <<kind, chainClient, utxo, store, pending, todo, graph, last, raced, cut, lost, bound>>

EmptyStore == [ann  |-> [c \in Channel |-> "none"],
               out  |-> {},
               link |-> [n \in Node |-> {}],
               upd  |-> [k \in Key |-> 0],
               node |-> [n \in Node |-> 0]]

EmptyPending == [upd |-> [k \in Key |-> None], node |-> [n \in Node |-> None]]

Init ==
    /\ kind \in Kinds
    /\ chainClient \in BOOLEAN
    /\ utxo = Channel
    /\ store = EmptyStore
    /\ pending = EmptyPending
    /\ todo = [p \in Process |-> <<>>]
    /\ graph = EmptyGraph
    /\ last = [k \in Key |-> None]
    /\ raced = {}
    /\ cut = {}
    /\ lost = {}
    /\ bound = [received |-> 0, removals |-> 0, faults |-> 0]

-----------------------------------------------------------------------------
(***************************************************************************)
(* The operations of a handler.  Doing is the guard of the action of an    *)
(* operation, Then replaces it by what follows from it, and Stop is the    *)
(* return of an error.                                                     *)
(***************************************************************************)
Doing(p, op) == todo[p] # <<>> /\ Head(todo[p]).op = op
Job(p) == Head(todo[p])
Then(p, ops) == todo' = [todo EXCEPT ![p] = ops \o Tail(@)]
Stop(p) == todo' = [todo EXCEPT ![p] = <<>>]

Op(op, c) == [op |-> op, c |-> c]
LinkOp(op, c, i) == [op |-> op, c |-> c, n |-> Ends[c][i]]

ChannelsOf(ops) == {o.c : o \in {x \in Range(ops) : "c" \in DOMAIN x}}
LeftUndone(ops) ==
    {o.c : o \in {x \in Range(ops) : x.op \in
        {"link", "unlink", "putLinks", "dropUpd", "dropAnn", "flushUpdates", "flushNodes", "take", "takeNode", "putUpd"}}}

(***************************************************************************)
(* saveChannelAnnouncement and then the rest of the announcement's handler *)
(***************************************************************************)
SaveOpsOneEnd(c, k) ==      \* a variant that links the first node twice
    << [op |-> "putAnn", c |-> c, k |-> k], LinkOp("link", c, 1), LinkOp("link", c, 1),
       Op("flushUpdates", c), Op("flushNodes", c) >>

SaveOps(c, k) ==
    << [op |-> "putAnn", c |-> c, k |-> k] >>
    \o (IF k = "extended" THEN << Op("putOut", c) >> ELSE <<>>)
    \o << LinkOp("link", c, 1), LinkOp("link", c, 2), Op("flushUpdates", c), Op("flushNodes", c) >>

(***************************************************************************)
(* deleteChannelAnnouncement of either store.  The database keeps the      *)
(* outpoint's key, which then leads nowhere.                               *)
(***************************************************************************)
DeleteOpsAnnFirst(c) ==     \* a variant that deletes the announcement first
    IF kind = "memory"
    THEN << Op("forget", c) >>
    ELSE << Op("dropAnn", c), [op |-> "dropUpd", c |-> c, d |-> 0], [op |-> "dropUpd", c |-> c, d |-> 1],
            LinkOp("unlink", c, 1), LinkOp("unlink", c, 2) >>

DeleteOps(c) ==
    IF kind = "memory"
    THEN << Op("forget", c) >>
    ELSE << [op |-> "dropUpd", c |-> c, d |-> 0], [op |-> "dropUpd", c |-> c, d |-> 1],
            LinkOp("unlink", c, 1), LinkOp("unlink", c, 2), Op("dropAnn", c) >>

(***************************************************************************)
(* What findChannelAnnouncement returns: the database reads every value as *)
(* an ExtendedChannelAnnouncementMessage.                                  *)
(***************************************************************************)
Found(c) ==
    IF kind = "rocksdb" /\ store.ann[c] # "none" THEN "extended" ELSE store.ann[c]

-----------------------------------------------------------------------------
(***************************************************************************)
(* GossipManager.onWireMessage hands the message to the filter.  What the  *)
(* filter does not reject goes to the graph, as it came from the peer,     *)
(* when the handler is done (PeerManager.afterPeerMessage).                *)
(***************************************************************************)
onWireMessage(m) ==
    /\ todo["filter"] = <<>>
    /\ bound.received < MaxReceived
    /\ bound' = [bound EXCEPT !.received = @ + 1]
    /\ todo' = [todo EXCEPT !["filter"] = << m, [op |-> "deliver", m |-> m] >>]
    /\ last' = IF m.op = "update" THEN [last EXCEPT ![<<m.c, m.d>>] = [at |-> m.at, ok |-> m.ok]]
                                  ELSE last
    /\ UNCHANGED <<kind, chainClient, utxo, store, pending, graph, lost>>

_validateChannelAnnouncement(p) ==
    /\ Doing(p, "channel")
    /\ LET c == Job(p).c IN
       \/ /\ Found(c) = "extended" \/ (Found(c) = "plain" /\ ~chainClient)
          /\ Then(p, <<>>)
       \/ /\ Found(c) = "none" \/ (Found(c) = "plain" /\ chainClient)
          /\ IF ~Job(p).ok THEN Stop(p)
             ELSE Then(p, IF chainClient THEN << Op("chain", c) >> ELSE SaveOps(c, "plain"))
    /\ UNCHANGED <<kind, chainClient, utxo, store, pending, graph, last, bound, lost>>

(***************************************************************************)
(* Block hash, block, transaction, output and script are asked for.  Any   *)
(* of them may be missing, and is if the output is spent.                  *)
(***************************************************************************)
_validateOnChain(p) ==
    /\ Doing(p, "chain")
    /\ \/ /\ Job(p).c \in utxo
          /\ Then(p, SaveOps(Job(p).c, "extended"))
       \/ Stop(p)
    /\ UNCHANGED <<kind, chainClient, utxo, store, pending, graph, last, bound, lost>>

(***************************************************************************)
(* The pending updates, then the pending announcements of the two nodes,   *)
(* are taken out of the pending store and validated one after the other.   *)
(***************************************************************************)
TakenOnce(c) ==             \* a variant that looks for direction 0 only
    IF pending.upd[<<c, 0>>] # None THEN << [op |-> "take", c |-> c, d |-> 0] >> ELSE <<>>

Taken(c) ==
    (IF pending.upd[<<c, 0>>] # None THEN << [op |-> "take", c |-> c, d |-> 0] >> ELSE <<>>)
    \o (IF pending.upd[<<c, 1>>] # None THEN << [op |-> "take", c |-> c, d |-> 1] >> ELSE <<>>)

TakenNodes(c) ==
    (IF pending.node[Ends[c][1]] # None THEN << LinkOp("takeNode", c, 1) >> ELSE <<>>)
    \o (IF pending.node[Ends[c][2]] # None THEN << LinkOp("takeNode", c, 2) >> ELSE <<>>)

_flushPending(p) ==
    /\ \/ Doing(p, "flushUpdates") /\ Then(p, Taken(Job(p).c))
       \/ Doing(p, "flushNodes") /\ Then(p, TakenNodes(Job(p).c))
    /\ UNCHANGED <<kind, chainClient, utxo, store, pending, graph, last, bound, lost>>

deletePending(p) ==
    /\ \/ /\ Doing(p, "take")
          /\ LET k == <<Job(p).c, Job(p).d>> IN
             /\ pending' = [pending EXCEPT !.upd[k] = None]
             /\ Then(p, << [op |-> "update", c |-> k[1], d |-> k[2],
                            at |-> pending.upd[k].at, ok |-> pending.upd[k].ok] >>)
       \/ /\ Doing(p, "takeNode")
          /\ LET n == Job(p).n IN
             /\ pending' = [pending EXCEPT !.node[n] = None]
             /\ Then(p, << [op |-> "node", n |-> n,
                            at |-> pending.node[n].at, ok |-> pending.node[n].ok] >>)
    /\ UNCHANGED <<kind, chainClient, utxo, store, graph, last, bound, lost>>

_validateChannelUpdate(p) ==
    /\ Doing(p, "update")
    /\ LET c == Job(p).c
           d == Job(p).d IN
       \/ /\ store.ann[c] = "none"
          /\ pending' = [pending EXCEPT !.upd[<<c, d>>] = [at |-> Job(p).at, ok |-> Job(p).ok]]
          /\ Then(p, <<>>)
       \/ /\ store.ann[c] # "none"
          /\ IF store.upd[<<c, d>>] >= Job(p).at THEN Then(p, <<>>)
             ELSE IF ~Job(p).ok THEN Stop(p)
             ELSE Then(p, << [op |-> "putUpd", c |-> c, d |-> d, at |-> Job(p).at] >>)
          /\ UNCHANGED pending
    /\ UNCHANGED <<kind, chainClient, utxo, store, graph, last, bound, lost>>

_validateNodeAnnouncement(p) ==
    /\ Doing(p, "node")
    /\ LET n == Job(p).n
           isNew == store.node[n] < Job(p).at IN
       \/ /\ ~isNew
          /\ Then(p, <<>>)
          /\ UNCHANGED pending
       \/ /\ isNew /\ store.link[n] = {}
          /\ pending' = [pending EXCEPT !.node[n] = [at |-> Job(p).at, ok |-> Job(p).ok]]
          /\ Then(p, <<>>)
       \/ /\ isNew /\ store.link[n] # {}
          /\ IF Job(p).ok THEN Then(p, << [op |-> "putNode", n |-> n, at |-> Job(p).at] >>)
                          ELSE Stop(p)
          /\ UNCHANGED pending
    /\ UNCHANGED <<kind, chainClient, utxo, store, graph, last, bound, lost>>

-----------------------------------------------------------------------------
(***************************************************************************)
(* The writes of a store, one per action.                                  *)
(***************************************************************************)
putAnnouncement(p) ==
    /\ Doing(p, "putAnn")
    /\ store' = [store EXCEPT !.ann[Job(p).c] = Job(p).k]
    /\ Then(p, <<>>)
    /\ UNCHANGED <<kind, chainClient, utxo, pending, graph, last, bound, lost>>

putOutpoint(p) ==
    /\ Doing(p, "putOut")
    /\ store' = [store EXCEPT !.out = @ \cup {Job(p).c}]
    /\ Then(p, <<>>)
    /\ UNCHANGED <<kind, chainClient, utxo, pending, graph, last, bound, lost>>

putUpdate(p) ==
    /\ Doing(p, "putUpd")
    /\ store' = [store EXCEPT !.upd[<<Job(p).c, Job(p).d>>] = Job(p).at]
    /\ Then(p, <<>>)
    /\ UNCHANGED <<kind, chainClient, utxo, pending, graph, last, bound, lost>>

putNode(p) ==
    /\ Doing(p, "putNode")
    /\ store' = [store EXCEPT !.node[Job(p).n] = Job(p).at]
    /\ Then(p, <<>>)
    /\ UNCHANGED <<kind, chainClient, utxo, pending, graph, last, bound, lost>>

(***************************************************************************)
(* _saveNodeChannel and _deleteNodeChannel: the database reads the list of *)
(* the node, and writes it back only if that changes it.                   *)
(***************************************************************************)
Linked(op, s, c) == IF op = "link" THEN s \cup {c} ELSE s \ {c}

readLinks(p) ==
    /\ \E op \in {"link", "unlink"} :
          /\ Doing(p, op)
          /\ LET n == Job(p).n
                 list == Linked(op, store.link[n], Job(p).c) IN
             IF kind = "memory"
             THEN /\ store' = [store EXCEPT !.link[n] = list]
                  /\ Then(p, <<>>)
             ELSE /\ Then(p, IF list = store.link[n] THEN <<>>
                             ELSE << [op |-> "putLinks", c |-> Job(p).c, n |-> n, list |-> list] >>)
                  /\ UNCHANGED store
    /\ UNCHANGED <<kind, chainClient, utxo, pending, graph, last, bound, lost>>

_putNodeChannels(p) ==
    /\ Doing(p, "putLinks")
    /\ LET n == Job(p).n
           differ == {c \in Channel : (c \in Job(p).list) # (c \in store.link[n])} IN
       /\ store' = [store EXCEPT !.link[n] = Job(p).list]
       /\ lost' = (lost \cup (differ \X {n})) \ {<<Job(p).c, n>>}
    /\ Then(p, <<>>)
    /\ UNCHANGED <<kind, chainClient, utxo, pending, graph, last, bound>>

dropUpdate(p) ==
    /\ Doing(p, "dropUpd")
    /\ store' = [store EXCEPT !.upd[<<Job(p).c, Job(p).d>>] = 0]
    /\ last' = [last EXCEPT ![<<Job(p).c, Job(p).d>>] = None]
    /\ Then(p, <<>>)
    /\ UNCHANGED <<kind, chainClient, utxo, pending, graph, bound, lost>>

dropAnnouncement(p) ==
    /\ Doing(p, "dropAnn")
    /\ store' = [store EXCEPT !.ann[Job(p).c] = "none"]
    /\ Then(p, <<>>)
    /\ UNCHANGED <<kind, chainClient, utxo, pending, graph, last, bound, lost>>

(***************************************************************************)
(* deleteChannelAnnouncement of GossipMemoryStore, which has no await once *)
(* the message is found.  It deletes the update of direction 0 twice and   *)
(* that of direction 1 not at all.                                         *)
(***************************************************************************)
forgetChannel(s, c) ==
    [s EXCEPT !.ann[c] = "none",
              !.out = IF s.ann[c] = "extended" THEN @ \ {c} ELSE @,
              !.upd[<<c, 0>>] = 0,
              !.link = [n \in Node |-> IF n \in EndsOf(c) THEN @[n] \ {c} ELSE @[n]]]

deleteFromMemory(p) ==
    /\ Doing(p, "forget")
    /\ LET c == Job(p).c IN
       /\ store' = IF store.ann[c] = "none" THEN store ELSE forgetChannel(store, c)
       /\ last' = [last EXCEPT ![<<c, 0>>] = None, ![<<c, 1>>] = None]
    /\ Then(p, <<>>)
    /\ UNCHANGED <<kind, chainClient, utxo, pending, graph, bound, lost>>

(***************************************************************************)
(* The handler is done: the message, as the peer sent it, goes to the      *)
(* graph, whether it was stored, was queued or is old.                     *)
(***************************************************************************)
deliver(p) ==
    /\ Doing(p, "deliver")
    /\ LET m == Job(p).m IN
       graph' = CASE m.op = "channel" -> onAnnouncement(graph, m.c, "plain")
                  [] m.op = "update"  -> onUpdate(graph, m.c, m.d, m.at)
                  [] m.op = "node"    -> onNode(graph, m.n, m.at)
    /\ Then(p, <<>>)
    /\ UNCHANGED <<kind, chainClient, utxo, store, pending, last, bound, lost>>

-----------------------------------------------------------------------------
(***************************************************************************)
(* A funding output is spent, and the monitor is told: the channel is      *)
(* looked up by its outpoint and removed; the graph is told of it too.     *)
(***************************************************************************)
removeChannelByOutpoint(c) ==
    /\ todo["monitor"] = <<>>
    /\ c \in utxo
    /\ bound.removals < MaxRemovals
    /\ bound' = [bound EXCEPT !.removals = @ + 1]
    /\ utxo' = utxo \ {c}
    /\ todo' = [todo EXCEPT !["monitor"] =
                   IF c \in store.out /\ store.ann[c] # "none" THEN DeleteOps(c) ELSE <<>>]
    /\ graph' = removeChannel(graph, c)
    /\ UNCHANGED <<kind, chainClient, store, pending, last, lost>>

(***************************************************************************)
(* A write fails: the promise is rejected and the rest of the handler is   *)
(* not executed.  The manager's catch makes it an error result.            *)
(***************************************************************************)
WriteFails(p) ==
    /\ kind = "rocksdb"
    /\ bound.faults < MaxFaults
    /\ \E op \in {"putAnn", "putOut", "putUpd", "putNode", "putLinks", "dropUpd", "dropAnn"} :
          Doing(p, op)
    /\ bound' = [bound EXCEPT !.faults = @ + 1]
    /\ Stop(p)
    /\ cut' = cut \cup LeftUndone(todo[p])
    /\ UNCHANGED <<kind, chainClient, utxo, store, pending, graph, last, lost>>

(***************************************************************************)
(* The process ends and is started again: what was in memory is gone.      *)
(* start() reads the channels and goes through them, and the application   *)
(* fills its graph with allMessages(): every channel with its updates, and *)
(* the nodes.  A value stored without a chain client has no outpoint, and  *)
(* with one start() throws on it: that configuration is left out.          *)
(***************************************************************************)
allMessages(s) ==
    LET known == {c \in Channel : s.ann[c] # "none"}
        nodes == {n \in Node : s.node[n] # 0} IN
    [channels |-> s.ann,
     nodes    |-> nodes \cup UNION {EndsOf(c) : c \in known},
     links    |-> [n \in Node |-> {c \in known : n \in EndsOf(c)}],
     settings |-> [k \in Key |-> IF k[1] \in known THEN s.upd[k] ELSE 0],
     lastUpdate |-> s.node]

CrashAndRestart ==
    /\ bound.faults < MaxFaults
    /\ bound' = [bound EXCEPT !.faults = @ + 1]
    /\ cut' = cut \cup UNION {LeftUndone(todo[p]) : p \in Process}
    /\ LET kept == IF kind = "rocksdb" THEN store ELSE EmptyStore IN
       /\ store' = kept
       /\ graph' = allMessages(kept)
       /\ todo' = [p \in Process |->
                      IF p = "start" /\ chainClient
                      THEN << [op |-> "sweep", cs |-> {c \in Channel : kept.ann[c] = "extended"}] >>
                      ELSE <<>>]
    /\ pending' = EmptyPending
    /\ last' = [k \in Key |-> None]
    /\ UNCHANGED <<kind, chainClient, utxo, lost>>

(***************************************************************************)
(* The loop of start() over the channels it read: each output is asked for *)
(* when its turn comes, and the channel is removed if that is spent.  By   *)
(* then the monitor may have removed it.  onWireMessage does not ask       *)
(* whether the manager is started: messages are handled beside the loop.   *)
(***************************************************************************)
_validateUtxos(p) ==
    /\ Doing(p, "sweep")
    /\ \/ /\ Job(p).cs = {}
          /\ Then(p, <<>>)
       \/ \E c \in Job(p).cs :
             Then(p, (IF c \in utxo \/ store.ann[c] = "none" THEN <<>> ELSE DeleteOps(c))
                     \o << [op |-> "sweep", cs |-> Job(p).cs \ {c}] >>)
    /\ UNCHANGED <<kind, chainClient, utxo, store, pending, graph, last, bound, lost>>

-----------------------------------------------------------------------------
Step(p) ==
    \/ _validateChannelAnnouncement(p) \/ _validateOnChain(p) \/ _flushPending(p)
    \/ deletePending(p) \/ _validateChannelUpdate(p) \/ _validateNodeAnnouncement(p)
    \/ putAnnouncement(p) \/ putOutpoint(p) \/ putUpdate(p) \/ putNode(p) \/ readLinks(p)
    \/ _putNodeChannels(p) \/ dropUpdate(p) \/ dropAnnouncement(p) \/ deleteFromMemory(p)
    \/ deliver(p) \/ _validateUtxos(p)

Races == {c \in Channel : \E p \in Process :
              c \in ChannelsOf(todo[p]) /\ \E q \in Process \ {p} : c \in ChannelsOf(todo[q])}

StoppedShort(p) == IF todo[p] # <<>> /\ todo'[p] = <<>> THEN LeftUndone(Tail(todo[p])) ELSE {}

Next ==
    /\ \/ /\ \/ \E m \in Gossip : onWireMessage(m)
             \/ \E p \in Process : Step(p)
             \/ \E c \in Channel : removeChannelByOutpoint(c)
          /\ cut' = cut \cup UNION {StoppedShort(p) : p \in Process}
       \/ \E p \in Process : WriteFails(p)
       \/ CrashAndRestart
    /\ raced' = raced \cup Races'

Spec == Init /\ [][Next]_vars

-----------------------------------------------------------------------------
(***************************************************************************)
(* The type of the variables.                                              *)
(***************************************************************************)
Stamp == [at : Nat, ok : BOOLEAN]

Operation ==
    Gossip
    \cup [op : {"update"}, c : Channel, d : Direction, at : Nat, ok : BOOLEAN]
    \cup [op : {"node"}, n : Node, at : Nat, ok : BOOLEAN]
    \cup [op : {"chain", "putOut", "flushUpdates", "flushNodes", "dropAnn", "forget"}, c : Channel]
    \cup [op : {"putAnn"}, c : Channel, k : {"plain", "extended"}]
    \cup [op : {"link", "unlink", "takeNode"}, c : Channel, n : Node]
    \cup [op : {"putLinks"}, c : Channel, n : Node, list : SUBSET Channel]
    \cup [op : {"take", "dropUpd"}, c : Channel, d : Direction]
    \cup [op : {"putUpd"}, c : Channel, d : Direction, at : Nat]
    \cup [op : {"putNode"}, n : Node, at : Nat]
    \cup [op : {"deliver"}, m : Gossip]
    \cup [op : {"sweep"}, cs : SUBSET Channel]

StoreType == [ann  : [Channel -> {"none", "plain", "extended"}],
              out  : SUBSET Channel,
              link : [Node -> SUBSET Channel],
              upd  : [Key -> Nat],
              node : [Node -> Nat]]

GraphType == [channels   : [Channel -> {"none", "plain", "extended"}],
              nodes      : SUBSET Node,
              links      : [Node -> SUBSET Channel],
              settings   : [Key -> Nat],
              lastUpdate : [Node -> Nat]]

TypeOK ==
    /\ kind \in {"memory", "rocksdb"}
    /\ chainClient \in BOOLEAN
    /\ utxo \subseteq Channel
    /\ store \in StoreType
    /\ pending \in [upd : [Key -> Stamp], node : [Node -> Stamp]]
    /\ todo \in [Process -> Seq(Operation)]
    /\ graph \in GraphType
    /\ last \in [Key -> Stamp]
    /\ raced \subseteq Channel
    /\ cut \subseteq Channel
    /\ lost \subseteq Channel \X Node
    /\ bound \in [received : Nat, removals : Nat, faults : Nat]

(***************************************************************************)
(* A crash or a failing write at any point leaves nothing that belongs to  *)
(* a channel without the announcement of the channel: it is written first  *)
(* and deleted last.  Two handlers that work on that channel at one time   *)
(* may break this.  A handler for another channel can only bring back a    *)
(* link, by writing the list that it had read before the link was deleted; *)
(* and the store in memory forgets the update of direction 1.              *)
(***************************************************************************)
NothingDangles ==
    \A c \in Channel \ raced :
        store.ann[c] = "none" =>
            /\ \A n \in Node : c \in store.link[n] => <<c, n>> \in lost
            /\ store.upd[<<c, 0>>] = 0
            /\ kind = "rocksdb" => store.upd[<<c, 1>>] = 0

(***************************************************************************)
(* A channel that is announced is listed at both of its nodes, unless its  *)
(* handler is still at work, was cut off by a crash or a failing write, or *)
(* worked beside another handler of that channel; or its link was lost to  *)
(* a handler of another channel, which wrote the list of the node as it    *)
(* was before.  Nothing else takes a link away.                            *)
(***************************************************************************)
AnnouncedIsLinked ==
    \A c \in Channel \ (raced \cup cut \cup UNION {ChannelsOf(todo[p]) : p \in Process}) :
        store.ann[c] # "none" => \A n \in EndsOf(c) : c \in store.link[n] \/ <<c, n>> \in lost

(***************************************************************************)
(* Between two messages, the last update received for a direction of a     *)
(* channel waits in the pending store while the channel is not announced,  *)
(* however many came before it, and is stored, or not newer than what is   *)
(* stored, once it is; unless its signature is wrong, or the handler of    *)
(* the announcement stopped before its turn.                               *)
(***************************************************************************)
LastIsHeld ==
    todo["filter"] = <<>> =>
        \A k \in Key :
            (last[k] # None /\ k[1] \notin raced \cup cut) =>
                IF store.ann[k[1]] = "none"
                THEN pending.upd[k] = last[k]
                ELSE last[k].ok => store.upd[k] >= last[k].at

(***************************************************************************)
(* The graph is symmetric, whatever it is told in whatever order: the      *)
(* channels listed at a node are the known channels that end there, and    *)
(* there are settings only for known channels.                             *)
(***************************************************************************)
GraphIsWhole ==
    \A c \in Channel :
        /\ \A n \in Node : c \in graph.links[n] <=> (graph.channels[c] # "none" /\ n \in EndsOf(c))
        /\ graph.channels[c] # "none" => EndsOf(c) \subseteq graph.nodes
        /\ graph.channels[c] = "none" => \A d \in Direction : graph.settings[<<c, d>>] = 0

=============================================================================
