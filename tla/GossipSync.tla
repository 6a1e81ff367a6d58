------------------------------ MODULE GossipSync ------------------------------
(***************************************************************************)
(* The synchronization of GossipManager: the first peer that is ready is   *)
(* asked for all channels, with one query_channel_range and then as many   *)
(* query_short_channel_ids as its answer needs (GossipQueriesSync, with    *)
(* ChannelRangeQuery, ChannelsQuery and GossipSyncWatcher), while the      *)
(* relay is stopped.  Then every peer is told to send what is new          *)
(* (GossipQueriesReceiver).                                                *)
(*                                                                         *)
(* Events are handled one at a time, in the LightningEventQueue; a handler *)
(* that throws stalls it, but not the promises and timers of a sync.  Each *)
(* time a peer is ready it gets a new GossipPeer, and the sync task of an  *)
(* older one is not heard of again.  LightningEventMuxer does not tell     *)
(* GossipManager that a peer has gone; onPeerClose is modelled as the      *)
(* class has it.                                                           *)
(*                                                                         *)
(* A channel is counted, not named, and heights are counted in steps.  The *)
(* gossip that answers a query is left out: GossipSyncWatcher waits until  *)
(* none has come for a while.  A remote node sends nothing it was not      *)
(* asked for, and what it did not send before a connection ended is lost.  *)
(***************************************************************************)
EXTENDS Integers, Sequences

CONSTANTS
  Peers,
  Style,         \* how each remote node answers query_channel_range
  ChunkSize,     \* ChannelsQuery.chunkSize
  Target,        \* the height up to which channels are asked for
  MaxPart,       \* bound: channels in a reply
  MaxChannels,   \* bound: channels of a remote node
  MaxConnections \* bound: connections that get Ready

(* One that marks a reply as incomplete if it knows nothing of the chain,  *)
(* one that marks all parts but the last so, one without gossip_queries.   *)
Styles == {"standard", "legacy", "none"}

ASSUME GossipSyncAssumption ==
  /\ Style \in [Peers -> Styles]
  /\ ChunkSize \in Nat \ {0} /\ Target \in Nat
  /\ MaxPart \in Nat /\ MaxChannels \in Nat /\ MaxConnections \in Nat

VARIABLES
  started,     \* started
  syncState,   \* syncState
  relaying,    \* gossipRelay.state
  peers,       \* the keys of GossipManager.peers
  syncTask,    \* the task of the GossipPeer of each peer, 0 if undefined
  receiving,   \* the peers whose GossipQueriesReceiver is Receiving
  tasks,       \* every GossipQueriesSync there was
  stalled,     \* has a handler thrown?
  up,          \* the peers that are Ready
  announced,   \* the PeerReady events that are queued for each peer
  connections, \* how often a peer got Ready
  owed,        \* what each remote node has been asked and not answered
  begun        \* history: had start() ended when the last sync began?

manager == <<started, syncState, relaying, peers, syncTask, receiving, tasks, stalled, begun>>
remote == <<up, announced, connections, owed>>
vars == <<manager, remote>>

SyncState == {"Unsynced", "Syncing", "Synced"}
Done == {"Complete", "Failed"}
Stage == {"AwaitingChannelRange", "AwaitingChannels", "AwaitingMessages"} \cup Done
Task == [peer : Peers, stage : Stage, legacy : BOOLEAN,
         results : Nat,   \* channels reported
         queue : Nat,     \* channels yet to be asked for
         asked : Nat]     \* channels asked for

TypeOK ==
  /\ started \in BOOLEAN /\ relaying \in BOOLEAN /\ stalled \in BOOLEAN /\ begun \in BOOLEAN
  /\ syncState \in SyncState
  /\ peers \subseteq Peers /\ up \subseteq Peers /\ receiving \subseteq peers
  /\ tasks \in Seq(Task)
  /\ syncTask \in [Peers -> 0..Len(tasks)]
  /\ announced \in [Peers -> Nat] /\ connections \in Nat
  /\ owed \in [Peers -> [range : BOOLEAN, ends : Nat]]

NothingOwed == [range |-> FALSE, ends |-> 0]

Init ==
  /\ started = FALSE /\ syncState = "Unsynced" /\ relaying = FALSE
  /\ peers = {} /\ receiving = {} /\ tasks = <<>> /\ stalled = FALSE /\ begun = FALSE
  /\ syncTask = [p \in Peers |-> 0]
  /\ up = {}
  /\ announced = [p \in Peers |-> 0] /\ connections = 0
  /\ owed = [p \in Peers |-> NothingOwed]

-----------------------------------------------------------------------------
(* start(), when the chain is synchronized and the state restored. *)
Start ==
  /\ ~started
  /\ started' = TRUE /\ relaying' = TRUE
  /\ UNCHANGED <<syncState, peers, syncTask, receiving, tasks, stalled, begun, remote>>

(* A Peer gets Ready, or loses its connection. *)
Connect(p) ==
  /\ p \notin up /\ connections < MaxConnections /\ connections' = connections + 1
  /\ up' = up \cup {p} /\ announced' = [announced EXCEPT ![p] = @ + 1]
  /\ owed' = [owed EXCEPT ![p] = NothingOwed]
  /\ UNCHANGED manager

Lose(p) ==
  /\ p \in up
  /\ up' = up \ {p}
  /\ UNCHANGED <<announced, connections, owed, manager>>

-----------------------------------------------------------------------------
(* What follows when a sync ends.  The receivers of all peers are          *)
(* activated, in the order of the map; sendMessage throws for a peer that  *)
(* is not Ready, and the sync counts as failed.  The first mutant leaves   *)
(* the relay stopped, the second stops at a peer without gossip_queries.   *)
KeepStopped == FALSE
Restarted == TRUE

GossipQueries(p) == Style[p] # "none"
Receivers(P) == {p \in P : GossipQueries(p)}
EnabledUntilNone(P) == IF P = Receivers(P) THEN P ELSE {}
Enabled(P) == Receivers(P)

SyncSucceeds(P, R) ==
  /\ relaying' = Restarted
  /\ IF Receivers(P) \subseteq up
       THEN syncState' = "Synced" /\ receiving' = R \cup Enabled(P)
       ELSE /\ syncState' = "Unsynced"
            /\ \E E \in SUBSET (Receivers(P) \cap up) : receiving' = R \cup E

SyncFails(R) == syncState' = "Unsynced" /\ relaying' = Restarted /\ receiving' = R

(* _syncPeer, syncRange and queryRange, up to the answer of the remote     *)
(* node.  R are the receivers without that of the new GossipPeer.  A peer  *)
(* without gossip_queries has nothing to wait for.                         *)
NewTask(p, stage) ==
  [peer |-> p, stage |-> stage, legacy |-> FALSE, results |-> 0, queue |-> 0, asked |-> 0]

SyncNothing(p, R) ==
  /\ ~GossipQueries(p)
  /\ SyncSucceeds(peers \cup {p}, R)
  /\ syncTask' = [syncTask EXCEPT ![p] = 0]
  /\ UNCHANGED <<tasks, owed>>

SyncRange(p, R) ==
  /\ GossipQueries(p)
  /\ syncTask' = [syncTask EXCEPT ![p] = Len(tasks) + 1]
  /\ \/ /\ p \in up
        /\ syncState' = "Syncing" /\ relaying' = FALSE /\ receiving' = R
        /\ tasks' = Append(tasks, NewTask(p, "AwaitingChannelRange"))
        /\ owed' = [owed EXCEPT ![p].range = TRUE]
     \/ /\ p \notin up
        /\ SyncFails(R)
        /\ tasks' = Append(tasks, NewTask(p, "Failed"))
        /\ UNCHANGED owed

SyncPeer(p, R) ==
  /\ SyncNothing(p, R) \/ SyncRange(p, R)
  /\ begun' = started
  /\ UNCHANGED stalled

(* enableGossip from onPeerReady, where sendMessage may throw. *)
EnableGossip(p, R) ==
  /\ receiving' = R \cup (Receivers({p}) \cap up)
  /\ stalled' = ~(Receivers({p}) \subseteq up)
  /\ syncTask' = [syncTask EXCEPT ![p] = 0]
  /\ UNCHANGED <<syncState, relaying, tasks, owed, begun>>

(* The mutant lets every peer synchronize until one has. *)
NotYetSynced == syncState # "Synced"
MaySync == syncState = "Unsynced"

OnPeerReady(p) ==
  /\ ~stalled
  /\ announced[p] > 0
  /\ announced' = [announced EXCEPT ![p] = @ - 1]
  /\ peers' = peers \cup {p}
  /\ IF MaySync THEN SyncPeer(p, receiving \ {p}) ELSE EnableGossip(p, receiving \ {p})
  /\ UNCHANGED <<started, up, connections>>

OnPeerClose(p) ==
  /\ ~stalled
  /\ p \in peers \ up
  /\ peers' = peers \ {p} /\ receiving' = receiving \ {p}
  /\ syncTask' = [syncTask EXCEPT ![p] = 0]
  /\ UNCHANGED <<started, syncState, relaying, tasks, stalled, begun, remote>>

-----------------------------------------------------------------------------
(* The task that a message of p is for. *)
Hears(p, stage) == p \in peers /\ syncTask[p] # 0 /\ tasks[syncTask[p]].stage = stage

(* A message that no task waits for.  With p forgotten findPeer is         *)
(* undefined, and the handler throws.                                      *)
Unheard(p) ==
  /\ stalled' = (p \notin peers)
  /\ UNCHANGED <<started, syncState, relaying, peers, syncTask, receiving, tasks, begun>>

Progress(p, t) ==
  /\ tasks' = [tasks EXCEPT ![syncTask[p]] = t]
  /\ UNCHANGED <<started, syncState, relaying, peers, syncTask, receiving, stalled, begun>>

(* The task fails, and with it the sync; the GossipPeer keeps the task. *)
TaskFails(p, t) ==
  /\ tasks' = [tasks EXCEPT ![syncTask[p]] = [t EXCEPT !.stage = "Failed"]]
  /\ SyncFails(receiving)
  /\ UNCHANGED <<started, peers, syncTask, stalled, begun>>

(* ChannelsQuery: what was reported is asked for in chunks, the first even *)
(* if nothing was.                                                         *)
Chunk(t) == IF t.queue < ChunkSize THEN t.queue ELSE ChunkSize
SendQuery(t) == [t EXCEPT !.queue = @ - Chunk(t), !.asked = @ + Chunk(t)]
Query(t) == SendQuery([t EXCEPT !.stage = "AwaitingChannels", !.queue = t.results])

(* ChannelRangeQuery: a reply with n channels and blocks up to `height`.   *)
(* The mutant of _handleReply's last condition asks for a later one.       *)
IsLegacyReply(full, n) == ~full /\ n > 0

Reported(t, full, n) ==
  [t EXCEPT !.legacy = @ \/ IsLegacyReply(full, n), !.results = @ + n]

Beyond(height) == height > Target
Covers(height) == height >= Target

Refuses(t, full) == IF t.legacy THEN full /\ t.results = 0 ELSE ~full
Completes(t, full, height) ==
  /\ ~Refuses(t, full)
  /\ IF t.legacy THEN full ELSE Covers(height)

(* The parts in which a remote node may answer, and the last of them. *)
MayReply(p, full, n, height) ==
  CASE Style[p] = "standard" -> full \/ n = 0
    [] Style[p] = "legacy"   -> (full \/ n > 0) /\ height = Target
    [] OTHER                 -> FALSE

IsLast(p, full, height) ==
  IF Style[p] = "legacy" THEN full ELSE ~full \/ height >= Target

Owes(p, more, end) ==
  owed' = [owed EXCEPT ![p] = [range |-> more, ends |-> @.ends + end]]

HandleReplyChannelRange(p, full, n, height) ==
  LET t == Reported(tasks[syncTask[p]], full, n)
      more == ~IsLast(p, full, height)
  IN
    \/ Refuses(t, full) /\ TaskFails(p, t) /\ Owes(p, more, 0)
    \/ Completes(t, full, height) /\ p \in up /\ Progress(p, Query(t)) /\ Owes(p, more, 1)
    \/ Completes(t, full, height) /\ p \notin up /\ TaskFails(p, t) /\ Owes(p, more, 0)
    \/ ~Refuses(t, full) /\ ~Completes(t, full, height) /\ Progress(p, t) /\ Owes(p, more, 0)

ReplyChannelRange(p, full, n, height) ==
  /\ ~stalled
  /\ owed[p].range
  /\ MayReply(p, full, n, height)
  /\ \/ /\ Hears(p, "AwaitingChannelRange")
        /\ tasks[syncTask[p]].results + n <= MaxChannels
        /\ HandleReplyChannelRange(p, full, n, height)
     \/ /\ ~Hears(p, "AwaitingChannelRange")
        /\ Unheard(p)
        /\ Owes(p, ~IsLast(p, full, height), 0)
  /\ UNCHANGED <<up, announced, connections>>

PartOfRange(p) ==
  \E full \in BOOLEAN, n \in 0..MaxPart, height \in 0..(Target + 1) :
    ~IsLast(p, full, height) /\ ReplyChannelRange(p, full, n, height)

EndOfRange(p) ==
  \E full \in BOOLEAN, n \in 0..MaxPart, height \in 0..(Target + 1) :
    IsLast(p, full, height) /\ ReplyChannelRange(p, full, n, height)

-----------------------------------------------------------------------------
(* reply_short_channel_ids_end.  The mutant forgets the last channel.   *)
MoreThanOne(t) == t.queue > 1
MoreToAsk(t) == t.queue > 0

HandleReplyShortChannelIdsEnd(p, complete) ==
  LET t == tasks[syncTask[p]] IN
    \/ ~complete /\ TaskFails(p, t) /\ Owes(p, owed[p].range, -1)
    \/ /\ complete /\ ~MoreToAsk(t)
       /\ Progress(p, [t EXCEPT !.stage = "AwaitingMessages"])
       /\ Owes(p, owed[p].range, -1)
    \/ complete /\ MoreToAsk(t) /\ p \in up /\ Progress(p, SendQuery(t)) /\ UNCHANGED owed
    \/ /\ complete /\ MoreToAsk(t) /\ p \notin up
       /\ tasks' = [tasks EXCEPT ![syncTask[p]] = [t EXCEPT !.queue = @ - Chunk(t)]]
       /\ stalled' = TRUE
       /\ UNCHANGED <<started, syncState, relaying, peers, syncTask, receiving, begun>>
       /\ Owes(p, owed[p].range, -1)

ReplyShortChannelIdsEnd(p, complete) ==
  /\ ~stalled
  /\ owed[p].ends > 0
  /\ \/ Hears(p, "AwaitingChannels") /\ HandleReplyShortChannelIdsEnd(p, complete)
     \/ ~Hears(p, "AwaitingChannels") /\ Unheard(p) /\ Owes(p, owed[p].range, -1)
  /\ UNCHANGED <<up, announced, connections>>

(* GossipSyncWatcher._onTimeout, and what awaited it. *)
OnTimeout(k) ==
  /\ tasks[k].stage = "AwaitingMessages"
  /\ tasks' = [tasks EXCEPT ![k] = [tasks[k] EXCEPT !.stage = "Complete"]]
  /\ syncTask' = [p \in Peers |-> IF syncTask[p] = k THEN 0 ELSE syncTask[p]]
  /\ SyncSucceeds(peers, receiving)
  /\ UNCHANGED <<started, peers, stalled, begun, remote>>

Next ==
  \/ Start
  \/ \E p \in Peers :
       \/ Connect(p) \/ Lose(p) \/ OnPeerReady(p) \/ OnPeerClose(p)
       \/ PartOfRange(p) \/ EndOfRange(p)
       \/ \E complete \in BOOLEAN : ReplyShortChannelIdsEnd(p, complete)
  \/ \E k \in DOMAIN tasks : OnTimeout(k)

Spec == Init /\ [][Next]_vars

(* Events are handled, timers fire, and a remote node ends its answers. *)
FairSpec ==
  /\ Spec
  /\ WF_vars(\E k \in DOMAIN tasks : OnTimeout(k))
  /\ \A p \in Peers :
       /\ WF_vars(OnPeerReady(p))
       /\ WF_vars(EndOfRange(p))
       /\ WF_vars(\E complete \in BOOLEAN : ReplyShortChannelIdsEnd(p, complete))

-----------------------------------------------------------------------------
Unfinished == {k \in DOMAIN tasks : tasks[k].stage \notin Done}

(* The state is "syncing" exactly while one task is not done: no second    *)
(* sync begins beside it, and none ends without a new one being possible   *)
(* (_syncPeer, onPeerReady).                                               *)
OneSync ==
  IF syncState = "Syncing" THEN \E k \in DOMAIN tasks : Unfinished = {k} ELSE Unfinished = {}

(* Relaying stops while a sync goes on, and only then, whatever becomes of *)
(* it: unless start() ends during the sync, and turns it on (start,        *)
(* _syncPeer).                                                             *)
RelayFollows ==
  started /\ (syncState = "Syncing" => begun) => (relaying <=> syncState # "Syncing")

(* A sync that did not fail has asked for every channel that was reported, *)
(* in whatever parts and chunks (ChannelRangeQuery, ChannelsQuery).        *)
AllAsked ==
  \A k \in DOMAIN tasks : tasks[k].stage \in {"AwaitingMessages", "Complete"} =>
    tasks[k].queue = 0 /\ tasks[k].asked = tasks[k].results

(* Once synchronized, every peer with gossip_queries was told to send what *)
(* is new, whether it came before, during or after the sync (_syncPeer,    *)
(* onPeerReady).                                                           *)
EnabledWhenSynced ==
  syncState = "Synced" /\ ~stalled => Receivers(peers) \subseteq receiving

(* The inductive invariant: what each task has asked for and what it has   *)
(* yet to ask for is what was reported; a failed handler may lose a chunk. *)
Counted(t, halted) ==
  /\ t.stage = "AwaitingChannelRange" => t.queue = 0 /\ t.asked = 0
  /\ t.stage = "AwaitingChannels" => halted \/ t.asked + t.queue = t.results
  /\ t.stage \in {"AwaitingMessages", "Complete"} => t.queue = 0 /\ t.asked = t.results

TasksAreCounted == \A k \in DOMAIN tasks : Counted(tasks[k], stalled)

IInv ==
  /\ TypeOK /\ OneSync /\ TasksAreCounted
  /\ RelayFollows /\ (begun => started)
  /\ EnabledWhenSynced

(* A sync ends, unless a handler throws or its peer loses the connection   *)
(* or is ready once more: then it goes on for ever.                        *)
Interrupted ==
  \E k \in Unfinished : tasks[k].peer \notin up \/ syncTask[tasks[k].peer] # k

SyncEnds == syncState = "Syncing" ~> syncState # "Syncing" \/ stalled \/ Interrupted
=============================================================================
