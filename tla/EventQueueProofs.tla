--------------------------- MODULE EventQueueProofs ---------------------------
(***************************************************************************)
(* Theorems about EventQueue, for all peers, buffers, messages and events: *)
(* the types, the order of the events of a peer, and that no wake-up is    *)
(* lost.                                                                   *)
(***************************************************************************)
EXTENDS EventQueue, SequenceTheorems, TLAPS

(* Nothing in a buffer was not sent. *)
BufferInv == \A p \in Peers : buffer[p] \in Seq(Sends[p])

(* The PeerReady event of a peer with a connection is queued or was taken, *)
(* and is in front of the reads.                                           *)
Announced(p) == p \in readied \/ Queued(Ready(p))

AnnouncedAt(p, i) ==
  p \in readied \/ \E j \in DOMAIN queue : j < i /\ queue[j] = Ready(p)

OrderInv ==
  \A p \in Peers :
    /\ connections[p] > 0 => Announced(p)
    /\ \A i \in DOMAIN queue : queue[i] = Readable(p) => AnnouncedAt(p, i)

IInv == TypeOK /\ BufferInv /\ OrderInv /\ ReadyFirst

-----------------------------------------------------------------------------
LEMMA Appending ==
  ASSUME NEW S, NEW q \in Seq(S), NEW e \in S
  PROVE  /\ Append(q, e) \in Seq(S)
         /\ DOMAIN q = 1..Len(q) /\ DOMAIN Append(q, e) = 1..Len(q) + 1
         /\ Len(q) \in Nat /\ Len(Append(q, e)) = Len(q) + 1
         /\ \A i \in 1..Len(q) : Append(q, e)[i] = q[i]
         /\ Append(q, e)[Len(q) + 1] = e
OBVIOUS

LEMMA Taking ==
  ASSUME NEW S, NEW q \in Seq(S), q # <<>>
  PROVE  /\ Tail(q) \in Seq(S) /\ Head(q) \in S /\ Head(q) = q[1]
         /\ DOMAIN q = 1..Len(q) /\ DOMAIN Tail(q) = 1..Len(q) - 1
         /\ Len(q) \in Nat \ {0} /\ Len(Tail(q)) = Len(q) - 1
         /\ \A i \in 1..Len(q) - 1 : Tail(q)[i] = q[i + 1]
OBVIOUS

LEMMA Events ==
  ASSUME NEW p \in Peers
  PROVE  /\ Readable(p) \in Pushable /\ Ready(p) \in Pushable
         /\ Disconnected(p) \in Pushable /\ Block \in Pushable
         /\ Ready(p) \in Handling /\ Disconnected(p) \in Handling
         /\ Block \in Handling /\ Message(p) \in Handling
<1>1. /\ Readable(p) \in Pushable /\ Ready(p) \in Pushable
      /\ Disconnected(p) \in Pushable /\ Block \in Pushable
  BY Zenon DEF Pushable
<1>2. \A r \in Peers : /\ Ready(p) # Readable(r) /\ Disconnected(p) # Readable(r)
                       /\ Block # Readable(r)
  BY DEF Readable, Ready, Disconnected, Block
<1> QED
  BY <1>1, <1>2, Zenon DEF Handling

LEMMA BlockEvent == Block \in Pushable /\ Block \in Handling
<1>1. \A r \in Peers : Block # Readable(r)
  BY DEF Readable, Block
<1> QED
  BY <1>1, Zenon DEF Pushable, Handling

LEMMA Distinct ==
  ASSUME NEW p, NEW r
  PROVE  /\ Readable(p) # Ready(r) /\ Readable(p) # Disconnected(r)
         /\ Ready(p) # Disconnected(r)
         /\ Readable(p) # Block /\ Ready(p) # Block
         /\ Message(p) # Ready(r) /\ Message(p) # Disconnected(r) /\ Message(p) # Block
         /\ Message(p) # None /\ Message(p) # Thrown
         /\ Readable(p) = Readable(r) => p = r
         /\ Ready(p) = Ready(r) => p = r
         /\ Message(p) = Message(r) => p = r
BY DEF Readable, Ready, Disconnected, Block, Message, None, Thrown

-----------------------------------------------------------------------------
(* What a push does to the order: the events queued before stay where they *)
(* are, and a read that is pushed has its peer announced.                  *)
LEMMA PushKeepsOrder ==
  ASSUME queue \in Seq(Pushable), OrderInv, NEW e \in Pushable,
         queue' = Append(queue, e), readied \subseteq readied',
         \A p \in Peers : e = Readable(p) => Announced(p),
         \A p \in Peers : connections'[p] > 0 => connections[p] > 0 \/ e = Ready(p)
  PROVE  OrderInv'
<1> SUFFICES ASSUME NEW p \in Peers
             PROVE  /\ connections'[p] > 0 => Announced(p)'
                    /\ \A i \in DOMAIN queue' : queue'[i] = Readable(p) => AnnouncedAt(p, i)'
  BY DEF OrderInv
<1>1. /\ DOMAIN queue = 1..Len(queue) /\ DOMAIN queue' = 1..Len(queue) + 1
      /\ Len(queue) \in Nat
      /\ \A i \in 1..Len(queue) : queue'[i] = queue[i]
      /\ queue'[Len(queue) + 1] = e
  BY Appending
<1>2. Announced(p) => Announced(p)'
  BY <1>1 DEF Announced, Queued
<1>3. e = Ready(p) => Announced(p)'
  BY <1>1 DEF Announced, Queued
<1>4. connections'[p] > 0 => Announced(p)'
  BY <1>2, <1>3 DEF OrderInv
<1>5. ASSUME NEW i \in DOMAIN queue', queue'[i] = Readable(p)
      PROVE  AnnouncedAt(p, i)'
  <2>1. CASE i \in 1..Len(queue)
    <3>1. AnnouncedAt(p, i)
      BY <1>1, <1>5, <2>1 DEF OrderInv
    <3> QED
      BY <1>1, <2>1, <3>1 DEF AnnouncedAt
  <2>2. CASE i = Len(queue) + 1
    <3>1. Announced(p)
      BY <1>1, <1>5, <2>2
    <3> QED
      BY <1>1, <2>2, <3>1 DEF Announced, AnnouncedAt, Queued
  <2> QED
    BY <1>1, <1>5, <2>1, <2>2
<1> QED
  BY <1>4, <1>5

(* A read at the head of the queue is of a peer that was told. *)
LEMMA HeadIsTold ==
  ASSUME queue \in Seq(Pushable), OrderInv, queue # <<>>,
         NEW p \in Peers, Head(queue) = Readable(p)
  PROVE  p \in readied
<1>1. /\ DOMAIN queue = 1..Len(queue) /\ Len(queue) \in Nat \ {0}
      /\ Head(queue) = queue[1]
  BY Taking
<1>2. AnnouncedAt(p, 1)
  BY <1>1 DEF OrderInv
<1> QED
  BY <1>1, <1>2 DEF AnnouncedAt

(* What a taken event does to it, be it queued again or not: a read that   *)
(* is taken has its peer told, and taking PeerReady tells it.              *)
LEMMA TakeKeepsOrder ==
  ASSUME queue \in Seq(Pushable), OrderInv, queue # <<>>,
         queue' \in {Tail(queue), Append(Tail(queue), Head(queue))},
         readied \subseteq readied',
         \A p \in Peers : Head(queue) = Ready(p) => p \in readied',
         UNCHANGED connections
  PROVE  OrderInv'
<1> SUFFICES ASSUME NEW p \in Peers
             PROVE  /\ connections[p] > 0 => Announced(p)'
                    /\ \A i \in DOMAIN queue' : queue'[i] = Readable(p) => AnnouncedAt(p, i)'
  BY DEF OrderInv
<1>1. /\ DOMAIN queue = 1..Len(queue)
      /\ Len(queue) \in Nat \ {0} /\ Head(queue) = queue[1]
      /\ Tail(queue) \in Seq(Pushable) /\ Len(Tail(queue)) = Len(queue) - 1
      /\ DOMAIN Tail(queue) = 1..Len(queue) - 1 /\ Head(queue) \in Pushable
      /\ \A i \in 1..Len(queue) - 1 : Tail(queue)[i] = queue[i + 1]
  BY Taking
<1>2. /\ \A i \in 1..Len(queue) - 1 : i \in DOMAIN queue' /\ queue'[i] = queue[i + 1]
      /\ \A i \in DOMAIN queue' : i \in 1..Len(queue) - 1
                                   \/ (i = Len(queue) /\ queue'[i] = Head(queue))
  <2>1. CASE queue' = Tail(queue)
    BY <1>1, <2>1
  <2>2. CASE queue' = Append(Tail(queue), Head(queue))
    <3>1. /\ DOMAIN queue' = 1..Len(queue) - 1 + 1
          /\ \A i \in 1..Len(queue) - 1 : queue'[i] = Tail(queue)[i]
          /\ queue'[Len(queue) - 1 + 1] = Head(queue)
      BY <1>1, <2>2, Appending
    <3>2. Len(queue) - 1 + 1 = Len(queue)
      BY <1>1
    <3>3. DOMAIN queue' = 1..Len(queue) /\ queue'[Len(queue)] = Head(queue)
      BY <3>1, <3>2, Zenon
    <3>4. 1..Len(queue) = (1..Len(queue) - 1) \cup {Len(queue)}
      BY <1>1
    <3>5. \A i \in 1..Len(queue) - 1 : i \in DOMAIN queue' /\ queue'[i] = queue[i + 1]
      BY <1>1, <3>1, <3>3, <3>4, Zenon
    <3>6. \A i \in DOMAIN queue' : i \in 1..Len(queue) - 1 \/ i = Len(queue)
      BY <3>3, <3>4, Zenon
    <3> QED
      BY <3>3, <3>5, <3>6, Zenon
  <2> QED
    BY <2>1, <2>2
<1>3. ASSUME NEW j \in DOMAIN queue, queue[j] = Ready(p)
      PROVE  p \in readied' \/ (j - 1 \in DOMAIN queue' /\ queue'[j - 1] = Ready(p))
  BY <1>1, <1>2, <1>3
<1>4. connections[p] > 0 => Announced(p)'
  BY <1>3 DEF OrderInv, Announced, Queued
<1>5. ASSUME NEW i \in DOMAIN queue', queue'[i] = Readable(p)
      PROVE  AnnouncedAt(p, i)'
  <2>1. CASE i \in 1..Len(queue) - 1
    <3>1. i + 1 \in DOMAIN queue /\ queue[i + 1] = Readable(p)
      BY <1>1, <1>2, <1>5, <2>1
    <3>2. AnnouncedAt(p, i + 1)
      BY <3>1 DEF OrderInv
    <3>3. CASE p \in readied
      BY <3>3 DEF AnnouncedAt
    <3>4. CASE \E j \in DOMAIN queue : j < i + 1 /\ queue[j] = Ready(p)
      <4>1. PICK j \in DOMAIN queue : j < i + 1 /\ queue[j] = Ready(p)
        BY <3>4
      <4>2. p \in readied' \/ (j - 1 \in DOMAIN queue' /\ queue'[j - 1] = Ready(p))
        BY <1>3, <4>1
      <4>3. j - 1 < i
        BY <1>1, <2>1, <4>1
      <4> QED
        BY <4>2, <4>3 DEF AnnouncedAt
    <3> QED
      BY <3>2, <3>3, <3>4 DEF AnnouncedAt
  <2>2. CASE i = Len(queue) /\ queue'[i] = Head(queue)
    <3>1. p \in readied
      BY <1>5, <2>2, HeadIsTold
    <3> QED
      BY <3>1 DEF AnnouncedAt
  <2> QED
    BY <1>2, <1>5, <2>1, <2>2
<1> QED
  BY <1>4, <1>5

-----------------------------------------------------------------------------
LEMMA BufferGrows ==
  ASSUME NEW S, NEW b \in Seq(S), NEW n \in Nat, NEW batch \in [1..n -> S]
  PROVE  /\ b \o batch \in Seq(S)
         /\ Len(b \o batch) = Len(b) + n
<1>1. batch \in Seq(S) /\ Len(batch) = n
  OBVIOUS
<1> QED
  BY <1>1

THEOREM Initially == Init => IInv
<1> SUFFICES ASSUME Init PROVE IInv
  OBVIOUS
<1> USE EventQueueAssumption DEF EventQueueAssumption
<1>1. TypeOK
  <2>1. /\ buffer \in [Peers -> Seq(Kind)]
        /\ \A p \in Peers : Len(buffer[p]) <= HighWater[p]
    BY DEF Init
  <2>2. connections \in [Peers -> 0..MaxConnections]
    BY DEF Init
  <2>3. pushed \in [Peers -> Nat] /\ done \in [Peers -> Nat] /\ blocks \in Nat
    BY DEF Init
  <2>4. queue \in Seq(Pushable)
    BY DEF Init
  <2> QED
    BY <2>1, <2>2, <2>3, <2>4, Zenon DEF Init, TypeOK
<1>2. BufferInv
  BY DEF Init, BufferInv
<1>3. OrderInv
  BY DEF Init, OrderInv
<1>4. ReadyFirst
  BY Distinct DEF Init, ReadyFirst
<1> QED
  BY <1>1, <1>2, <1>3, <1>4 DEF IInv

(***************************************************************************)
(* The steps, by what they do to the queue: an event is pushed, taken, or  *)
(* handled.                                                                *)
(***************************************************************************)
LEMMA PushStep ==
  ASSUME IInv, NEW e \in Pushable, Push(e),
         connections' \in [Peers -> 0..MaxConnections],
         up' \subseteq Peers, left' \subseteq Peers, blocks' \in Nat,
         \A p \in Peers : e = Readable(p) => connections[p] > 0,
         \A p \in Peers : connections'[p] > 0 => connections[p] > 0 \/ e = Ready(p),
         pushed' \in [Peers -> Nat],
         buffer' \in [Peers -> Seq(Kind)], BufferInv',
         \A p \in Peers : Len(buffer'[p]) <= HighWater[p]
  PROVE  IInv'
<1>1. queue \in Seq(Pushable) /\ queue' = Append(queue, e)
  BY Zenon DEF IInv, TypeOK, Push, Put
<1>2. queue' \in Seq(Pushable)
  BY <1>1, Appending
<1>3. TypeOK'
  BY <1>2, Zenon DEF IInv, TypeOK, Push
<1>4. OrderInv'
  <2>1. \A p \in Peers : e = Readable(p) => Announced(p)
    BY Zenon DEF IInv, OrderInv
  <2>2. readied \subseteq readied'
    BY DEF Push
  <2> QED
    BY <1>1, <2>1, <2>2, PushKeepsOrder, Zenon DEF IInv
<1>5. ReadyFirst'
  BY Zenon DEF IInv, ReadyFirst, Push, Message
<1> QED
  BY <1>3, <1>4, <1>5, Zenon DEF IInv

LEMMA TakeStep ==
  ASSUME IInv, NEW e \in Pushable, Take(e),
         queue' \in {Tail(queue), Append(Tail(queue), e)}, processing' \in BOOLEAN,
         current' \in Handling \cup {None, Thrown},
         readied' \subseteq Peers, readied \subseteq readied',
         \A p \in Peers : e = Ready(p) => p \in readied',
         \A p \in Peers : current' = Message(p) => p \in readied',
         done' \in [Peers -> Nat],
         buffer' \in [Peers -> Seq(Kind)], BufferInv',
         \A p \in Peers : Len(buffer'[p]) <= HighWater[p],
         UNCHANGED <<peers, pushed, blocks>>
  PROVE  IInv'
<1>1. queue \in Seq(Pushable) /\ queue # <<>> /\ Head(queue) = e
  BY Zenon DEF IInv, TypeOK, Take
<1>2. queue' \in Seq(Pushable)
  <2>1. Tail(queue) \in Seq(Pushable)
    BY <1>1, Taking, Zenon
  <2>2. Append(Tail(queue), e) \in Seq(Pushable)
    BY <2>1, Appending, Zenon
  <2> QED
    BY <2>1, <2>2
<1>3. TypeOK'
  BY <1>2, Zenon DEF IInv, TypeOK, peers
<1>4. OrderInv'
  BY <1>1, TakeKeepsOrder, Zenon DEF IInv, peers
<1>5. ReadyFirst'
  BY Zenon DEF ReadyFirst, Message
<1> QED
  BY <1>3, <1>4, <1>5, Zenon DEF IInv

(* Reading a message out of the buffer. *)
LEMMA BufferShrinks ==
  ASSUME IInv, NEW p \in Peers, buffer[p] # <<>>,
         buffer' = [buffer EXCEPT ![p] = Tail(@)]
  PROVE  /\ buffer' \in [Peers -> Seq(Kind)] /\ BufferInv'
         /\ \A r \in Peers : Len(buffer'[r]) <= HighWater[r]
<1>1. /\ buffer \in [Peers -> Seq(Kind)] /\ buffer[p] \in Seq(Sends[p])
      /\ \A r \in Peers : Len(buffer[r]) <= HighWater[r]
  BY Zenon DEF IInv, TypeOK, BufferInv
<1>2. /\ Tail(buffer[p]) \in Seq(Kind) /\ Tail(buffer[p]) \in Seq(Sends[p])
      /\ Len(Tail(buffer[p])) = Len(buffer[p]) - 1 /\ Len(buffer[p]) \in Nat
  BY <1>1, Taking
<1>3. HighWater[p] \in Nat /\ Len(Tail(buffer[p])) <= HighWater[p]
  BY <1>1, <1>2, EventQueueAssumption DEF EventQueueAssumption
<1>4. /\ buffer'[p] = Tail(buffer[p])
      /\ \A r \in Peers : r # p => buffer'[r] = buffer[r]
      /\ buffer' \in [Peers -> Seq(Kind)]
  BY <1>1, <1>2, Zenon
<1>5. BufferInv'
  BY <1>2, <1>4, Zenon DEF IInv, BufferInv
<1> QED
  BY <1>1, <1>3, <1>4, <1>5, Zenon

LEMMA Filling ==
  ASSUME IInv, NEW p \in Peers, OnReadable(p)
  PROVE  /\ connections[p] > 0
         /\ buffer' \in [Peers -> Seq(Kind)] /\ BufferInv'
         /\ \A r \in Peers : Len(buffer'[r]) <= HighWater[r]
         /\ pushed' \in [Peers -> Nat]
         /\ \A r \in Peers : r # p => buffer'[r] = buffer[r]
<1>0. PICK n \in 1..Room(p) :
        /\ \E batch \in [1..n -> Sends[p]] : buffer' = [buffer EXCEPT ![p] = @ \o batch]
        /\ pushed' = [pushed EXCEPT ![p] = @ + n]
  BY Zenon DEF OnReadable
<1>1. PICK batch \in [1..n -> Sends[p]] : buffer' = [buffer EXCEPT ![p] = @ \o batch]
  BY <1>0
<1>2. /\ buffer \in [Peers -> Seq(Kind)] /\ buffer[p] \in Seq(Sends[p])
      /\ \A r \in Peers : Len(buffer[r]) <= HighWater[r]
      /\ pushed \in [Peers -> Nat]
  BY Zenon DEF IInv, TypeOK, BufferInv
<1>3. HighWater[p] \in Nat /\ Sends[p] \subseteq Kind /\ Len(buffer[p]) \in Nat
  BY <1>2, EventQueueAssumption DEF EventQueueAssumption
<1>4. n \in Nat /\ n <= HighWater[p] - Len(buffer[p])
  BY <1>3 DEF Room
<1>5. /\ buffer[p] \o batch \in Seq(Sends[p]) /\ buffer[p] \o batch \in Seq(Kind)
      /\ Len(buffer[p] \o batch) = Len(buffer[p]) + n
  <2>1. batch \in [1..n -> Kind] /\ buffer[p] \in Seq(Kind)
    BY <1>2, <1>3
  <2> QED
    BY <1>2, <1>4, <2>1, BufferGrows
<1>6. /\ buffer'[p] = buffer[p] \o batch
      /\ \A r \in Peers : r # p => buffer'[r] = buffer[r]
      /\ buffer' \in [Peers -> Seq(Kind)]
  BY <1>1, <1>2, <1>5, Zenon
<1>7. BufferInv'
  BY <1>5, <1>6, Zenon DEF IInv, BufferInv
<1>8. Len(buffer'[p]) <= HighWater[p]
  BY <1>3, <1>4, <1>5, <1>6
<1>9. pushed' \in [Peers -> Nat]
  BY <1>0, <1>2, <1>4
<1>10. connections[p] > 0
  BY Zenon DEF OnReadable
<1> QED
  BY <1>2, <1>6, <1>7, <1>8, <1>9, <1>10, Zenon

LEMMA Pushes ==
  ASSUME IInv, NEW p \in Peers, OnReady(p) \/ OnClose(p) \/ OnReadable(p)
  PROVE  IInv'
<1> USE Events
<1>0. /\ connections \in [Peers -> 0..MaxConnections] /\ up \subseteq Peers
      /\ left \subseteq Peers /\ blocks \in Nat /\ pushed \in [Peers -> Nat]
      /\ buffer \in [Peers -> Seq(Kind)] /\ BufferInv
      /\ \A r \in Peers : Len(buffer[r]) <= HighWater[r]
  BY Zenon DEF IInv, TypeOK
<1>1. CASE OnReady(p)
  <2>1. connections' \in [Peers -> 0..MaxConnections]
    BY <1>0, <1>1, EventQueueAssumption DEF OnReady, EventQueueAssumption
  <2>2. \A r \in Peers : connections'[r] > 0 => connections[r] > 0 \/ Ready(p) = Ready(r)
    BY <1>0, <1>1, Zenon DEF OnReady
  <2>3. BufferInv'
    BY <1>0, <1>1, Zenon DEF BufferInv, OnReady
  <2>4. up' \subseteq Peers /\ left' \subseteq Peers
    BY <1>0, <1>1, Zenon DEF OnReady
  <2>5. \A r \in Peers : Ready(p) # Readable(r)
    BY Distinct
  <2> QED
    BY <1>0, <1>1, <2>1, <2>2, <2>3, <2>4, <2>5, PushStep, Zenon DEF OnReady
<1>2. CASE OnClose(p)
  <2>3. BufferInv'
    BY <1>0, <1>2, Zenon DEF BufferInv, OnClose
  <2>4. up' \subseteq Peers /\ left' \subseteq Peers
    BY <1>0, <1>2, Zenon DEF OnClose
  <2>5. \A r \in Peers : Disconnected(p) # Readable(r)
    BY Distinct
  <2> QED
    BY <1>0, <1>2, <2>3, <2>4, <2>5, PushStep, Zenon DEF OnClose
<1>3. CASE OnReadable(p)
  <2>5. \A r \in Peers : Readable(p) = Readable(r) => connections[r] > 0
    BY <1>3, Filling, Distinct, Zenon
  <2> QED
    BY <1>0, <1>3, <2>5, Filling, PushStep, Zenon DEF OnReadable, peers
<1> QED
  BY <1>1, <1>2, <1>3

LEMMA BlockPushes ==
  ASSUME IInv, OnBlockConnected
  PROVE  IInv'
<1>1. /\ connections \in [Peers -> 0..MaxConnections] /\ up \subseteq Peers
      /\ left \subseteq Peers /\ blocks \in Nat /\ pushed \in [Peers -> Nat]
      /\ buffer \in [Peers -> Seq(Kind)] /\ BufferInv
      /\ \A r \in Peers : Len(buffer[r]) <= HighWater[r]
  BY Zenon DEF IInv, TypeOK
<1>2. BufferInv'
  BY <1>1, Zenon DEF BufferInv, OnBlockConnected
<1>3. blocks' \in Nat
  BY <1>1 DEF OnBlockConnected
<1>4. \A r \in Peers : Block # Readable(r)
  BY Distinct
<1> QED
  BY <1>1, <1>2, <1>3, <1>4, BlockEvent, PushStep, Zenon DEF OnBlockConnected, peers

LEMMA Reads ==
  ASSUME IInv, NEW p \in Peers, Read(p)
  PROVE  IInv'
<1> DEFINE e == Readable(p)
<1>0. /\ done \in [Peers -> Nat] /\ readied \subseteq Peers
      /\ current \in Handling \cup {None, Thrown}
      /\ buffer \in [Peers -> Seq(Kind)] /\ BufferInv
      /\ \A r \in Peers : Len(buffer[r]) <= HighWater[r]
      /\ ReadyFirst
  BY Zenon DEF IInv, TypeOK
<1>1. /\ e \in Pushable /\ \A r \in Peers : e # Ready(r)
      /\ Message(p) \in Handling
  BY Events, Distinct, Zenon
<1>2. Take(e) /\ queue \in Seq(Pushable) /\ queue # <<>> /\ Head(queue) = e
  BY Zenon DEF IInv, TypeOK, Take, Read, ReadNothing, ReadUnknown, ReadMessage
<1>3. p \in readied
  BY <1>2, HeadIsTold, Zenon DEF IInv
<1> HIDE DEF e
<1>4. CASE ReadNothing(p)
  <2>1. BufferInv'
    BY <1>0, <1>4, Zenon DEF BufferInv, ReadNothing
  <2>2. processing' \in BOOLEAN
    BY <1>4 DEF ReadNothing, NotProcessing
  <2> QED
    BY <1>0, <1>1, <1>2, <1>4, <2>1, <2>2, TakeStep, Zenon DEF ReadNothing, Dropped, ReadyFirst
<1>5. CASE ReadUnknown(p)
  <2>1. done' \in [Peers -> Nat]
    BY <1>0, <1>5 DEF ReadUnknown
  <2>2. processing' \in BOOLEAN
    BY <1>5 DEF ReadUnknown, NotProcessing
  <2>3. buffer[p] # <<>> /\ buffer' = [buffer EXCEPT ![p] = Tail(@)]
    BY <1>5, Zenon DEF ReadUnknown
  <2> QED
    BY <1>0, <1>1, <1>2, <1>5, <2>1, <2>2, <2>3, BufferShrinks, TakeStep, Zenon
       DEF ReadUnknown, Dropped, ReadyFirst
<1>6. CASE ReadMessage(p)
  <2>1. \A r \in Peers : current' = Message(r) => r \in readied'
    BY <1>3, <1>6, Distinct, Zenon DEF ReadMessage
  <2>2. processing' \in BOOLEAN /\ readied' = readied
    BY <1>6 DEF ReadMessage
  <2>3. buffer[p] # <<>> /\ buffer' = [buffer EXCEPT ![p] = Tail(@)]
    BY <1>6, Zenon DEF ReadMessage
  <2>4. queue' = Append(Tail(queue), e)
    BY <1>6, Zenon DEF ReadMessage, Again, Put, e
  <2>5. done' = done /\ current' = Message(p) /\ UNCHANGED <<peers, pushed, blocks>>
    BY <1>6, Zenon DEF ReadMessage
  <2> QED
    BY <1>0, <1>1, <1>2, <2>1, <2>2, <2>3, <2>4, <2>5, BufferShrinks, TakeStep, Zenon
<1> QED
  BY <1>4, <1>5, <1>6, Zenon DEF Read

LEMMA TakesEvent ==
  ASSUME IInv, NEW e \in Pushable \cap Handling, TakeEvent(e),
         \A r \in Peers : e # Message(r)
  PROVE  IInv'
<1>1. /\ done \in [Peers -> Nat] /\ readied \subseteq Peers
      /\ buffer \in [Peers -> Seq(Kind)] /\ BufferInv
      /\ \A r \in Peers : Len(buffer[r]) <= HighWater[r]
  BY Zenon DEF IInv, TypeOK
<1>2. /\ Take(e) /\ queue' = Tail(queue) /\ processing' = TRUE /\ current' = e
      /\ UNCHANGED <<peers, buffer, pushed, done, blocks>>
  BY Zenon DEF TakeEvent
<1>3. /\ readied' \subseteq Peers /\ readied \subseteq readied'
      /\ \A r \in Peers : e = Ready(r) => r \in readied'
  BY <1>1, Zenon DEF TakeEvent
<1>4. BufferInv'
  BY <1>1, <1>2, Zenon DEF BufferInv
<1>5. processing' \in BOOLEAN
  BY <1>2
<1> QED
  BY <1>1, <1>2, <1>3, <1>4, <1>5, TakeStep, Zenon

(* The queue, the buffers and who was told stay as they are. *)
LEMMA OrderUnchanged ==
  ASSUME OrderInv, UNCHANGED <<connections, queue, readied>>
  PROVE  OrderInv'
<1>1. \A p \in Peers : Announced(p)' = Announced(p)
  BY Zenon DEF Announced, Queued, Ready
<1>2. \A p \in Peers : \A i \in DOMAIN queue : AnnouncedAt(p, i)' = AnnouncedAt(p, i)
  BY Zenon DEF AnnouncedAt, Ready
<1> QED
  BY <1>1, <1>2, Zenon DEF OrderInv, Readable

LEMMA Handles ==
  ASSUME IInv, Handled \/ Throws
  PROVE  IInv'
<1>1. \A p \in Peers : current' # Message(p)
  BY Distinct, Zenon DEF Handled, Throws
<1>2. UNCHANGED <<peers, buffer, queue, readied, pushed, blocks>>
  BY Zenon DEF Handled, Throws
<1>3. current' \in Handling \cup {None, Thrown}
  BY Zenon DEF Handled, Throws
<1>4. processing' \in BOOLEAN
  BY Zenon DEF Handled, Throws, IInv, TypeOK
<1>5. done' \in [Peers -> Nat]
  <2>1. CASE Handled
    <3>1. done \in [Peers -> Nat]
      BY Zenon DEF IInv, TypeOK
    <3> QED
      BY <2>1, <3>1 DEF Handled
  <2>2. CASE Throws
    BY <2>2, Zenon DEF Throws, IInv, TypeOK
  <2> QED
    BY <2>1, <2>2
<1>6. TypeOK'
  BY <1>2, <1>3, <1>4, <1>5, Zenon DEF IInv, TypeOK, peers
<1>7. BufferInv'
  BY <1>2, Zenon DEF IInv, BufferInv
<1>8. OrderInv'
  BY <1>2, OrderUnchanged, Zenon DEF IInv, peers
<1>9. ReadyFirst'
  BY <1>1, Zenon DEF ReadyFirst, Message
<1> QED
  BY <1>6, <1>7, <1>8, <1>9, Zenon DEF IInv

LEMMA Loses ==
  ASSUME IInv, NEW p \in Peers, OnLost(p)
  PROVE  IInv'
<1>1. TypeOK'
  BY Zenon DEF IInv, TypeOK, OnLost
<1>2. BufferInv' /\ ReadyFirst'
  BY Zenon DEF IInv, BufferInv, ReadyFirst, OnLost, Message
<1>3. OrderInv'
  BY OrderUnchanged, Zenon DEF IInv, OnLost
<1> QED
  BY <1>1, <1>2, <1>3, Zenon DEF IInv

LEMMA Stutters ==
  ASSUME IInv, UNCHANGED vars
  PROVE  IInv'
<1>1. TypeOK'
  BY Zenon DEF IInv, TypeOK, vars, peers
<1>2. BufferInv' /\ ReadyFirst'
  BY Zenon DEF IInv, BufferInv, ReadyFirst, vars, Message
<1>3. OrderInv'
  BY OrderUnchanged, Zenon DEF IInv, vars, peers
<1> QED
  BY <1>1, <1>2, <1>3, Zenon DEF IInv

THEOREM Consecution == IInv /\ [Next]_vars => IInv'
<1> SUFFICES ASSUME IInv, [Next]_vars PROVE IInv'
  OBVIOUS
<1>1. CASE \E p \in Peers : OnReady(p) \/ OnLost(p) \/ OnClose(p) \/ OnReadable(p)
  BY <1>1, Pushes, Loses, Zenon
<1>2. CASE OnBlockConnected
  BY <1>2, BlockPushes, Zenon
<1>3. CASE Process
  <2>1. \A p \in Peers : Read(p) => IInv'
    BY Reads
  <2>2. \A p \in Peers : TakeEvent(Ready(p)) => IInv'
    BY Events, Distinct, TakesEvent, Zenon
  <2>3. \A p \in Peers : TakeEvent(Disconnected(p)) => IInv'
    BY Events, Distinct, TakesEvent, Zenon
  <2>4. TakeEvent(Block) => IInv'
    BY BlockEvent, Distinct, TakesEvent, Zenon
  <2> QED
    BY <1>3, <2>1, <2>2, <2>3, <2>4, Zenon DEF Process
<1>4. CASE Handled \/ Throws
  BY <1>4, Handles, Zenon
<1>5. CASE UNCHANGED vars
  BY <1>5, Stutters, Zenon
<1> QED
  BY <1>1, <1>2, <1>3, <1>4, <1>5, Zenon DEF Next

-----------------------------------------------------------------------------
(* The inductive invariant, whatever the buffers hold and whoever throws. *)
THEOREM Invariance == Spec => []IInv
BY Initially, Consecution, PTL DEF Spec

(* Every variable keeps its type, and a Peer buffers no more than its high *)
(* water mark (Peer._onSocketReadable pauses).                             *)
THEOREM TypeCorrect == Spec => []TypeOK
<1>1. IInv => TypeOK
  BY Zenon DEF IInv
<1> QED
  BY <1>1, Invariance, PTL

(* The muxer hands a manager no message of a peer it was not told of: the  *)
(* event "ready" is queued before "readable" (PeerManager.addPeer).        *)
THEOREM ReadyComesFirst == Spec => []ReadyFirst
<1>1. IInv => ReadyFirst
  BY Zenon DEF IInv
<1> QED
  BY <1>1, Invariance, PTL

-----------------------------------------------------------------------------
(***************************************************************************)
(* No wake-up is lost, provided that a read which finds an unknown message *)
(* leaves nothing behind: the buffer holds one message, as it does by      *)
(* default, or there are no unknown ones.                                  *)
(***************************************************************************)
ReadsAll == \A p \in Peers : HighWater[p] = 1 \/ Sends[p] \subseteq {"known"}

LEMMA PushKeepsQueued ==
  ASSUME queue \in Seq(Pushable), NEW e \in Pushable, queue' = Append(queue, e)
  PROVE  Queued(e)' /\ \A p \in Peers : Queued(Readable(p)) => Queued(Readable(p))'
<1>1. /\ DOMAIN queue = 1..Len(queue) /\ DOMAIN queue' = 1..Len(queue) + 1
      /\ Len(queue) \in Nat
      /\ \A i \in 1..Len(queue) : queue'[i] = queue[i]
      /\ queue'[Len(queue) + 1] = e
  BY Appending
<1>2. \A x : (\E i \in DOMAIN queue : queue[i] = x) => \E i \in DOMAIN queue' : queue'[i] = x
  BY <1>1
<1>3. \E i \in DOMAIN queue' : queue'[i] = e
  BY <1>1
<1> QED
  BY <1>2, <1>3, Zenon DEF Queued, Readable

LEMMA TakeKeepsQueued ==
  ASSUME queue \in Seq(Pushable), queue # <<>>, NEW x \in Pushable, Head(queue) # x,
         NEW q \in Seq(Pushable), q = Tail(queue), Queued(x)
  PROVE  \E i \in DOMAIN q : q[i] = x
<1>1. /\ DOMAIN queue = 1..Len(queue) /\ DOMAIN q = 1..Len(queue) - 1
      /\ Len(queue) \in Nat \ {0} /\ Head(queue) = queue[1]
      /\ \A i \in 1..Len(queue) - 1 : q[i] = queue[i + 1]
  BY Taking
<1>2. PICK j \in DOMAIN queue : queue[j] = x
  BY DEF Queued
<1>3. j - 1 \in 1..Len(queue) - 1 /\ q[j - 1] = x
  BY <1>1, <1>2
<1> QED
  BY <1>1, <1>3

LEMMA WakeupsKept ==
  ASSUME ReadsAll, IInv, NoLostWakeup, [Next]_vars
  PROVE  NoLostWakeup'
<1>1. /\ queue \in Seq(Pushable) /\ buffer \in [Peers -> Seq(Kind)] /\ BufferInv
      /\ \A p \in Peers : Len(buffer[p]) <= HighWater[p]
  BY Zenon DEF IInv, TypeOK
<1>2. ASSUME NEW e \in Pushable, Push(e), UNCHANGED buffer
      PROVE  NoLostWakeup'
  BY <1>1, <1>2, PushKeepsQueued, Zenon DEF Push, Put, NoLostWakeup
<1>3. ASSUME NEW p \in Peers, OnReadable(p)
      PROVE  NoLostWakeup'
  <2>1. queue' = Append(queue, Readable(p)) /\ Readable(p) \in Pushable
    BY <1>3, Events, Zenon DEF OnReadable, Push, Put
  <2>2. \A r \in Peers : r # p => buffer'[r] = buffer[r]
    BY <1>3, Filling, Zenon
  <2> QED
    BY <1>1, <2>1, <2>2, PushKeepsQueued, Zenon DEF NoLostWakeup
<1>4. ASSUME NEW e \in Pushable, Take(e), queue' = Tail(queue),
             \A p \in Peers : /\ e = Readable(p) => buffer'[p] = <<>>
                              /\ e # Readable(p) => buffer'[p] = buffer[p]
      PROVE  NoLostWakeup'
  <2> SUFFICES ASSUME NEW p \in Peers, buffer'[p] # <<>>
               PROVE  \E i \in DOMAIN queue' : queue'[i] = Readable(p)
    BY Zenon DEF NoLostWakeup, Queued, Readable
  <2>1. Queued(Readable(p)) /\ e # Readable(p) /\ Readable(p) \in Pushable
    BY <1>4, Events, Zenon DEF NoLostWakeup
  <2>2. queue # <<>> /\ Head(queue) = e
    BY <1>4, Zenon DEF Take
  <2>3. Tail(queue) \in Seq(Pushable)
    BY <1>1, <2>2, Taking, Zenon
  <2> QED
    BY <1>1, <1>4, <2>1, <2>2, <2>3, TakeKeepsQueued, Zenon
<1>5. ASSUME NEW p \in Peers, Read(p)
      PROVE  NoLostWakeup'
  <2>1. Take(Readable(p)) /\ queue # <<>> /\ Head(queue) = Readable(p)
    BY <1>5, Zenon DEF Take, Read, ReadNothing, ReadUnknown, ReadMessage
  <2>2. /\ Readable(p) \in Pushable
        /\ \A r \in Peers : Readable(p) = Readable(r) => p = r
    BY Events, Distinct, Zenon
  <2>3. CASE ReadNothing(p)
    <3>1. queue' = Tail(queue) /\ buffer' = buffer /\ buffer[p] = <<>>
      BY <2>3, Zenon DEF ReadNothing, Dropped
    <3> QED
      BY <1>4, <2>1, <2>2, <3>1, Zenon
  <2>4. CASE ReadUnknown(p)
    <3>1. /\ queue' = Tail(queue) /\ buffer' = [buffer EXCEPT ![p] = Tail(@)]
          /\ buffer[p] # <<>> /\ Head(buffer[p]) = "unknown"
      BY <2>4, Zenon DEF ReadUnknown, Dropped
    <3>2. \A r \in Peers : r # p => buffer'[r] = buffer[r]
      BY <1>1, <3>1, Zenon
    <3>3. buffer'[p] = Tail(buffer[p]) /\ buffer[p] \in Seq(Sends[p])
      BY <1>1, <3>1, Zenon DEF BufferInv
    <3>4. Head(buffer[p]) \in Sends[p]
      BY <3>1, <3>3, Taking, Zenon
    <3>5. HighWater[p] = 1
      BY <3>1, <3>4 DEF ReadsAll
    <3>6. Len(buffer[p]) <= 1
      BY <1>1, <3>5
    <3>7. buffer'[p] = <<>>
      <4>1. Tail(buffer[p]) \in Seq(Sends[p]) /\ Len(Tail(buffer[p])) = Len(buffer[p]) - 1
            /\ Len(buffer[p]) \in Nat \ {0}
        BY <3>1, <3>3, Taking, Zenon
      <4>2. \A n \in Nat \ {0} : n <= 1 => n - 1 = 0
        OBVIOUS
      <4>3. Len(Tail(buffer[p])) = 0
        BY <3>6, <4>1, <4>2, Zenon
      <4> QED
        BY <3>3, <4>1, <4>3, EmptySeq, Zenon
    <3> QED
      BY <1>4, <2>1, <2>2, <3>1, <3>2, <3>7, Zenon
  <2>5. CASE ReadMessage(p)
    <3>1. /\ queue' = Append(Tail(queue), Readable(p))
          /\ buffer' = [buffer EXCEPT ![p] = Tail(@)]
      BY <2>5, Zenon DEF ReadMessage, Again, Put
    <3>2. \A r \in Peers : r # p => buffer'[r] = buffer[r]
      BY <1>1, <3>1, Zenon
    <3> DEFINE q == Tail(queue)
    <3>3. q \in Seq(Pushable)
      BY <1>1, <2>1, Taking, Zenon
    <3>4. \A r \in Peers : r # p => Readable(r) # Readable(p) /\ Readable(r) \in Pushable
      BY <2>2, Events, Zenon
    <3>5. \A r \in Peers : r # p /\ buffer'[r] # <<>> => \E i \in DOMAIN q : q[i] = Readable(r)
      BY <1>1, <2>1, <3>2, <3>3, <3>4, TakeKeepsQueued, Zenon DEF NoLostWakeup
    <3>6. queue' = Append(q, Readable(p))
      BY <3>1
    <3> HIDE DEF q
    <3>7. /\ DOMAIN q = 1..Len(q) /\ DOMAIN queue' = 1..Len(q) + 1 /\ Len(q) \in Nat
          /\ \A i \in 1..Len(q) : queue'[i] = q[i]
          /\ queue'[Len(q) + 1] = Readable(p)
      BY <2>2, <3>3, <3>6, Appending
    <3>8. \A i \in DOMAIN q : i \in DOMAIN queue' /\ queue'[i] = q[i]
      BY <3>7
    <3>9. Len(q) + 1 \in DOMAIN queue'
      BY <3>7
    <3> QED
      BY <3>5, <3>7, <3>8, <3>9, Zenon DEF NoLostWakeup, Queued, Readable
  <2> QED
    BY <1>5, <2>3, <2>4, <2>5, Zenon DEF Read
<1>6. ASSUME NEW e \in Pushable, TakeEvent(e), \A p \in Peers : e # Readable(p)
      PROVE  NoLostWakeup'
  BY <1>4, <1>6, Zenon DEF TakeEvent
<1>7. CASE UNCHANGED <<buffer, queue>>
  BY <1>7, Zenon DEF NoLostWakeup, Queued, Readable
<1>8. ASSUME NEW p \in Peers, OnReady(p) \/ OnClose(p) PROVE NoLostWakeup'
  BY <1>2, <1>8, Events, Zenon DEF OnReady, OnClose
<1>9. CASE OnBlockConnected
  BY <1>2, <1>9, BlockEvent, Zenon DEF OnBlockConnected
<1>10. CASE Process
  <2>1. ASSUME NEW p \in Peers, TakeEvent(Ready(p)) \/ TakeEvent(Disconnected(p))
        PROVE  NoLostWakeup'
    BY <1>6, <2>1, Events, Distinct, Zenon
  <2>2. TakeEvent(Block) => NoLostWakeup'
    BY <1>6, BlockEvent, Distinct, Zenon
  <2> QED
    BY <1>5, <1>10, <2>1, <2>2, Zenon DEF Process
<1>11. CASE Handled \/ Throws \/ (\E p \in Peers : OnLost(p)) \/ UNCHANGED vars
  BY <1>7, <1>11, Zenon DEF Handled, Throws, OnLost, vars
<1> QED
  BY <1>3, <1>8, <1>9, <1>10, <1>11, Zenon DEF Next

(* A message waits in the buffer of a Peer only if a read of it is queued, *)
(* where reads leave nothing behind (LightningEventQueue.process).         *)
THEOREM NoWakeupIsLost ==
  ASSUME ReadsAll
  PROVE  Spec => []NoLostWakeup
<1>1. Init => NoLostWakeup
  BY Zenon DEF Init, NoLostWakeup
<1>2. IInv /\ NoLostWakeup /\ [Next]_vars => NoLostWakeup'
  BY WakeupsKept
<1> QED
  BY <1>1, <1>2, Invariance, PTL DEF Spec
=============================================================================
