------------------------------ MODULE EventQueue ------------------------------
(***************************************************************************)
(* The LightningEventQueue, fed by the peers of the PeerManager and the    *)
(* producer of blocks, and the LightningEventMuxer it hands events to: one *)
(* event is handled at a time, however long its handler waits.             *)
(*                                                                         *)
(* A Peer is here the Readable it extends: Peer pushes to its buffer what  *)
(* it reads in one turn, up to the high water mark, and once for each such *)
(* turn the stream emits "readable".  It emits "ready" when a connection   *)
(* is initialized, "close" only if it closes after disconnect(), and       *)
(* nothing when a connection is lost.                                      *)
(*                                                                         *)
(* JavaScript runs to completion: between the turns of process() that need *)
(* not wait nothing else happens (Quiet).                                  *)
(***************************************************************************)
EXTENDS Integers, Sequences, SequencesExt

CONSTANTS
  Peers,
  HighWater,        \* highWaterMark of each Peer
  Sends,            \* the kinds of messages each remote node sends
  MayThrow,         \* do handlers throw?
  MaxConnections,   \* bound: connections of each peer
  MaxMessages,      \* bound: messages pushed by each peer
  MaxBlocks         \* bound: blocks connected

Kind == {"known", "unknown"}   \* unknown: MessageFactory returns undefined

ASSUME EventQueueAssumption ==
  /\ HighWater \in [Peers -> Nat \ {0}]
  /\ Sends \in [Peers -> SUBSET Kind]
  /\ MayThrow \in BOOLEAN
  /\ MaxConnections \in Nat /\ MaxMessages \in Nat /\ MaxBlocks \in Nat

VARIABLES
  connections, \* how often each peer was ready
  up,          \* the peers that are ready
  left,        \* the peers that closed after disconnect()
  buffer,      \* the messages in the buffer of each Peer
  queue,       \* LightningEventQueue.queue
  processing,  \* LightningEventQueue.processing
  current,     \* the event the muxer is handling, None or Thrown
  readied,     \* history: the peers whose PeerReady event was taken
  pushed,      \* history: messages of each peer pushed to its buffer...
  done,        \* ... and how many of them were handled, or dropped as unknown
  blocks       \* blocks connected so far

peers == <<connections, up, left>>
vars == <<peers, buffer, queue, processing, current, readied, pushed, done, blocks>>

Readable(p)     == <<"PeerReadable", p>>
Ready(p)        == <<"PeerReady", p>>
Disconnected(p) == <<"PeerDisconnected", p>>
Message(p)      == <<"PeerMessage", p>>
Block           == <<"BlockConnected">>
None            == <<"None">>
Thrown          == <<"Thrown">>

Pushable == {Block} \cup UNION {{Readable(p), Ready(p), Disconnected(p)} : p \in Peers}
Handling == (Pushable \ {Readable(p) : p \in Peers}) \cup {Message(p) : p \in Peers}

TypeOK ==
  /\ connections \in [Peers -> 0..MaxConnections]
  /\ up \subseteq Peers /\ left \subseteq Peers /\ readied \subseteq Peers
  /\ buffer \in [Peers -> Seq(Kind)]
  /\ \A p \in Peers : Len(buffer[p]) <= HighWater[p]
  /\ queue \in Seq(Pushable)
  /\ processing \in BOOLEAN
  /\ current \in Handling \cup {None, Thrown}
  /\ pushed \in [Peers -> Nat] /\ done \in [Peers -> Nat]
  /\ blocks \in Nat

Init ==
  /\ connections = [p \in Peers |-> 0] /\ up = {} /\ left = {}
  /\ buffer = [p \in Peers |-> <<>>]
  /\ queue = <<>> /\ processing = FALSE /\ current = None
  /\ readied = {}
  /\ pushed = [p \in Peers |-> 0] /\ done = [p \in Peers |-> 0]
  /\ blocks = 0

-----------------------------------------------------------------------------
(* push().  The mutant puts the event in front. *)
PutFirst(q, e) == <<e>> \o q
Put(q, e) == Append(q, e)

Push(e) == queue' = Put(queue, e) /\ UNCHANGED <<processing, current, readied, done>>

Quiet == current # Thrown /\ (processing \/ queue = <<>>)

(* A connection is initialized, lost, or closes after disconnect(). *)
OnReady(p) ==
  /\ Quiet /\ p \notin up \cup left
  /\ connections[p] < MaxConnections
  /\ connections' = [connections EXCEPT ![p] = @ + 1]
  /\ up' = up \cup {p}
  /\ Push(Ready(p))
  /\ UNCHANGED <<left, buffer, pushed, blocks>>

OnLost(p) ==
  /\ Quiet /\ p \in up
  /\ up' = up \ {p}
  /\ UNCHANGED <<connections, left, buffer, queue, processing, current, readied,
                 pushed, done, blocks>>

OnClose(p) ==
  /\ Quiet /\ p \in up
  /\ up' = up \ {p} /\ left' = left \cup {p}
  /\ Push(Disconnected(p))
  /\ UNCHANGED <<connections, buffer, pushed, blocks>>

(* What fits the buffer: the Peer pauses when it is full.                  *)
Room(p) == HighWater[p] - Len(buffer[p])

(* Messages are pushed to the buffer, also those of a connection that is   *)
(* gone, and "readable" is emitted for all of them.                        *)
OnReadable(p) ==
  /\ Quiet /\ connections[p] > 0
  /\ \E n \in 1..Room(p) :
       /\ pushed[p] + n <= MaxMessages
       /\ \E batch \in [1..n -> Sends[p]] : buffer' = [buffer EXCEPT ![p] = @ \o batch]
       /\ pushed' = [pushed EXCEPT ![p] = @ + n]
  /\ Push(Readable(p))
  /\ UNCHANGED <<peers, blocks>>

OnBlockConnected ==
  /\ Quiet /\ blocks < MaxBlocks
  /\ blocks' = blocks + 1
  /\ Push(Block)
  /\ UNCHANGED <<peers, buffer, pushed>>

-----------------------------------------------------------------------------
(* process() takes an event. *)
Take(e) == ~processing /\ queue # <<>> /\ Head(queue) = e

(* The flag after a turn that had nothing to handle; the mutant keeps it.  *)
StillProcessing == TRUE
NotProcessing == FALSE

(* The event of a read that found a message is queued again, as there may  *)
(* be more, and the others are not; the mutants have it wrong.             *)
Forgotten(q, e) == q
Again(q, e) == Put(q, e)
Dropped(q, e) == q

(* A read that finds nothing. *)
ReadNothing(p) ==
  /\ Take(Readable(p)) /\ buffer[p] = <<>>
  /\ queue' = Dropped(Tail(queue), Readable(p)) /\ processing' = NotProcessing
  /\ UNCHANGED <<peers, buffer, current, readied, pushed, done, blocks>>

(* An unknown message is undefined, which is taken for an empty buffer. *)
ReadUnknown(p) ==
  /\ Take(Readable(p)) /\ buffer[p] # <<>> /\ Head(buffer[p]) = "unknown"
  /\ queue' = Dropped(Tail(queue), Readable(p)) /\ processing' = NotProcessing
  /\ buffer' = [buffer EXCEPT ![p] = Tail(@)]
  /\ done' = [done EXCEPT ![p] = @ + 1]
  /\ UNCHANGED <<peers, current, readied, pushed, blocks>>

ReadMessage(p) ==
  /\ Take(Readable(p)) /\ buffer[p] # <<>> /\ Head(buffer[p]) = "known"
  /\ queue' = Again(Tail(queue), Readable(p)) /\ processing' = TRUE
  /\ buffer' = [buffer EXCEPT ![p] = Tail(@)]
  /\ current' = Message(p)
  /\ UNCHANGED <<peers, readied, pushed, done, blocks>>

(* Any other event. *)
TakeEvent(e) ==
  /\ Take(e)
  /\ queue' = Tail(queue) /\ processing' = TRUE
  /\ current' = e
  /\ readied' = readied \cup {p \in Peers : e = Ready(p)}
  /\ UNCHANGED <<peers, buffer, pushed, done, blocks>>

(* onEvent of the muxer returns... *)
Routed == Handling \ {Disconnected(p) : p \in Peers}

Handled ==
  /\ current \in Routed /\ current' = None
  /\ processing' = FALSE
  /\ done' = [p \in Peers |-> IF current = Message(p) THEN done[p] + 1 ELSE done[p]]
  /\ UNCHANGED <<peers, buffer, queue, readied, pushed, blocks>>

(* ... or throws, as it does for the events it does not route: process()   *)
(* does not catch it, the flag stays set and the rejection is unhandled,   *)
(* which ends the process (since version 15 of Node.js).                   *)
Throws ==
  /\ current \in IF MayThrow THEN Handling ELSE Handling \ Routed
  /\ current' = Thrown
  /\ UNCHANGED <<peers, buffer, queue, processing, readied, pushed, done, blocks>>

-----------------------------------------------------------------------------
Read(p) == ReadNothing(p) \/ ReadUnknown(p) \/ ReadMessage(p)

Process ==
  \/ \E p \in Peers : Read(p) \/ TakeEvent(Ready(p)) \/ TakeEvent(Disconnected(p))
  \/ TakeEvent(Block)

Next ==
  \/ \E p \in Peers : OnReady(p) \/ OnLost(p) \/ OnClose(p) \/ OnReadable(p)
  \/ OnBlockConnected
  \/ Process \/ Handled \/ Throws

Spec == Init /\ [][Next]_vars

(* What is queued is processed, and handlers return or throw. *)
Fairness == WF_vars(Process) /\ WF_vars(Handled \/ Throws)

FairSpec == Spec /\ Fairness
-----------------------------------------------------------------------------
Queued(e) == \E i \in DOMAIN queue : queue[i] = e

(* No wake-up is lost: a message waits in the buffer of a Peer only if a   *)
(* read of it is queued (PeerManager.addPeer, process).                    *)
NoLostWakeup == \A p \in Peers : buffer[p] # <<>> => Queued(Readable(p))

(* A message is handed to the managers only after they were told of its    *)
(* peer: its PeerReady event is in front of every read of it.              *)
ReadyFirst == \A p \in Peers : current = Message(p) => p \in readied

(* Every message that was read from the connection is handled, unless a    *)
(* handler throws.                                                         *)
MessagesHandled ==
  \A p \in Peers : \A k \in 1..MaxMessages :
    pushed[p] = k ~> done[p] >= k \/ current = Thrown
=============================================================================
