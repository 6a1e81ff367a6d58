------------------------------ MODULE GossipRelay ------------------------------
(***************************************************************************)
(* GossipRelay: a queue of hot messages and, for each peer, the index of   *)
(* the first one it has not been sent.  A timer sends each peer what is    *)
(* behind its index and prunes the queue.  A message replaces an older one *)
(* of the same subject: a channel_announcement is never replaced, a        *)
(* channel_update or node_announcement by one with a later timestamp.      *)
(*                                                                         *)
(* GossipManager stops the relay while it synchronizes, and adds a peer    *)
(* each time it is ready.  Peer.sendMessage throws when the Peer is not    *)
(* Ready; the timer has no handler for that, so the peers not yet visited  *)
(* get nothing, nothing is pruned, and the process ends unless the         *)
(* application catches what is uncaught.                                   *)
(***************************************************************************)
EXTENDS Integers, Sequences, FiniteSets, SequencesExt

CONSTANTS
  Peers,
  Subjects,      \* channels, the two ends of channels, nodes
  Fixed,         \* the subjects of channel_announcements
  MaxStamp,      \* bound: the timestamps of messages
  MaxQueueLen,   \* maxQueueLen
  MaxEnqueued,   \* bound: messages that enter the queue
  MaxAdded       \* bound: calls of addPeer for each peer

ASSUME GossipRelayAssumption ==
  /\ Fixed \subseteq Subjects
  /\ MaxStamp \in Nat /\ MaxQueueLen \in Nat
  /\ MaxEnqueued \in Nat /\ MaxAdded \in Nat

VARIABLES
  queue,     \* _queue
  index,     \* _peers: the index of each peer that is relayed to
  active,    \* _state
  ready,     \* the peers whose Peer is Ready
  entered,   \* history: the messages that entered the queue are numbered
  replaced,  \* history: those that a newer message has replaced
  sent,      \* history: the messages sent to each peer, in order
  since,     \* history: the last message in the queue when a peer was added
  late,      \* history: replacements, since then, in front of its index
  added      \* history: how often it was added

history == <<entered, replaced, sent, since, late, added>>
vars == <<queue, index, active, ready, history>>

Stamp(s) == IF s \in Fixed THEN {0} ELSE 0..MaxStamp
Message == [subject : Subjects, stamp : 0..MaxStamp, number : Nat]
Relayed == DOMAIN index

TypeOK ==
  /\ queue \in Seq(Message)
  /\ Relayed \subseteq Peers
  /\ index \in [Relayed -> 0..Len(queue)]
  /\ active \in BOOLEAN
  /\ ready \subseteq Peers
  /\ entered \in Nat /\ replaced \subseteq 1..entered
  /\ sent \in [Peers -> Seq(Nat)]
  /\ since \in [Peers -> Nat] /\ late \in [Peers -> Nat] /\ added \in [Peers -> Nat]

Init ==
  /\ queue = <<>> /\ index = [p \in {} |-> 0] /\ active = FALSE /\ ready = {}
  /\ entered = 0 /\ replaced = {}
  /\ sent = [p \in Peers |-> <<>>]
  /\ since = [p \in Peers |-> 0] /\ late = [p \in Peers |-> 0]
  /\ added = [p \in Peers |-> 0]

-----------------------------------------------------------------------------
Start ==
  /\ ~active /\ active' = TRUE
  /\ UNCHANGED <<queue, index, ready, history>>

Stop ==
  /\ active /\ active' = FALSE
  /\ UNCHANGED <<queue, index, ready, history>>

(* A peer starts behind the last message of the queue. *)
AddPeer(p) ==
  /\ added[p] < MaxAdded
  /\ index' = [q \in Relayed \cup {p} |-> IF q = p THEN Len(queue) ELSE index[q]]
  /\ since' = [since EXCEPT ![p] = entered]
  /\ late' = [late EXCEPT ![p] = 0]
  /\ added' = [added EXCEPT ![p] = @ + 1]
  /\ UNCHANGED <<queue, active, ready, entered, replaced, sent>>

RemovePeer(p) ==
  /\ p \in Relayed
  /\ index' = [q \in Relayed \ {p} |-> index[q]]
  /\ UNCHANGED <<queue, active, ready, history>>

(* The Peer gets Ready, or loses its connection. *)
PeerReady(p) == p \notin ready /\ ready' = ready \cup {p} /\ UNCHANGED <<queue, index, active, history>>
PeerLost(p)  == p \in ready /\ ready' = ready \ {p} /\ UNCHANGED <<queue, index, active, history>>

-----------------------------------------------------------------------------
(* _findChanAnn, _findChanUpd, _findNodeAnn: the place of the message of a *)
(* subject in the queue, of which there is never a second one.             *)
Places(s) == {i \in DOMAIN queue : queue[i].subject = s}

New(s, t) == [subject |-> s, stamp |-> t, number |-> entered + 1]

EnqueueFirst(s, t) ==
  /\ Places(s) = {}
  /\ queue' = Append(queue, New(s, t))
  /\ UNCHANGED <<replaced, late>>

(* The older message leaves its place and the newer one joins the end; the *)
(* indices stay as they are, so that the messages behind that place move   *)
(* one position towards them.                                              *)
Outdated(i, t) == queue[i].stamp < t

Replace(i, t) ==
  /\ Outdated(i, t)
  /\ queue' = Append(RemoveAt(queue, i), New(queue[i].subject, t))
  /\ replaced' = replaced \cup {queue[i].number}
  /\ late' = [p \in Peers |-> IF p \in Relayed /\ i <= index[p] THEN late[p] + 1 ELSE late[p]]

Enqueue(s, t) ==
  /\ active
  /\ entered < MaxEnqueued
  /\ EnqueueFirst(s, t) \/ (s \notin Fixed /\ \E i \in Places(s) : Replace(i, t))
  /\ entered' = entered + 1
  /\ UNCHANGED <<index, active, ready, sent, since, added>>

-----------------------------------------------------------------------------
(* _flushToPeer: what is behind the index, in order.  With nothing there   *)
(* the index stays as it is.                                               *)
Behind(p) == SubSeq(queue, index[p] + 1, Len(queue))
Numbers(q) == [i \in DOMAIN q |-> q[i].number]

FlushedToPeers(P) ==
  sent' = [p \in Peers |-> IF p \in P THEN sent[p] \o Numbers(Behind(p)) ELSE sent[p]]

(* The mutants forget to move the index. *)
KeepIndex(p) == index[p]
FlushedIndex(p) == IF index[p] < Len(queue) THEN Len(queue) ELSE index[p]

(* _pruneQueue.  The mutant leaves the indices where they are. *)
DeleteCount == IF Len(queue) > MaxQueueLen THEN Len(queue) - MaxQueueLen ELSE 0
NotMoved == 0
Moved == DeleteCount

Blocked == {p \in Relayed \ ready : index[p] < Len(queue)}

OnTimer ==
  /\ active
  /\ Blocked = {}
  /\ FlushedToPeers(Relayed)
  /\ queue' = SubSeq(queue, DeleteCount + 1, Len(queue))
  /\ index' = [p \in Relayed |-> FlushedIndex(p) - Moved]
  /\ UNCHANGED <<active, ready, entered, replaced, since, late, added>>

(* sendMessage throws for the first peer visited that is not Ready. *)
OnTimerThrows ==
  /\ active
  /\ Blocked # {}
  /\ \E P \in SUBSET (Relayed \ Blocked) :
       /\ FlushedToPeers(P)
       /\ index' = [p \in Relayed |-> IF p \in P THEN FlushedIndex(p) ELSE index[p]]
  /\ UNCHANGED <<queue, active, ready, entered, replaced, since, late, added>>

Next ==
  \/ Start \/ Stop \/ OnTimer \/ OnTimerThrows
  \/ \E p \in Peers : AddPeer(p) \/ RemovePeer(p) \/ PeerReady(p) \/ PeerLost(p)
  \/ \E s \in Subjects : \E t \in Stamp(s) : Enqueue(s, t)

Spec == Init /\ [][Next]_vars

-----------------------------------------------------------------------------
Waiting(p) == {queue[i].number : i \in (index[p] + 1)..Len(queue)}
Got(p) == {sent[p][i] : i \in DOMAIN sent[p]}

(* The messages that entered the queue after the peer was added, and that  *)
(* it was not sent, is not going to be sent, and that nothing newer has    *)
(* replaced.                                                               *)
Missed(p) == ((since[p] + 1)..entered) \ (Waiting(p) \cup Got(p) \cup replaced)

(* No message is sent to a peer twice, nor before an older one, whatever   *)
(* is replaced, pruned or thrown, however often the peer is added          *)
(* (_flushToPeer, _pruneQueue).                                            *)
OnceInOrder ==
  \A p \in Peers : \A i, j \in DOMAIN sent[p] : i < j => sent[p][i] < sent[p][j]

(* Each replacement in front of its index costs a peer at most one         *)
(* message, and nothing else does: not pruning, not a flush that throws,   *)
(* not stopping the relay (enqueue, _pruneQueue).                          *)
OneMissPerReplacement ==
  \A p \in Relayed : Cardinality(Missed(p)) <= late[p]

(* The inductive invariant: the queue is in the order in which messages    *)
(* entered it, and what waits for a peer is newer than what it was sent.   *)
QueueInOrder ==
  /\ \A i \in DOMAIN queue : queue[i].number \in 1..entered
  /\ \A i, j \in DOMAIN queue : i < j => queue[i].number < queue[j].number

SentInOrder ==
  /\ \A p \in Peers : \A i \in DOMAIN sent[p] : sent[p][i] \in 1..entered
  /\ \A p \in Relayed : \A i \in DOMAIN sent[p], j \in (index[p] + 1)..Len(queue) :
       sent[p][i] < queue[j].number

IInv == TypeOK /\ QueueInOrder /\ SentInOrder /\ OnceInOrder /\ OneMissPerReplacement

=============================================================================
