------------------------ MODULE ChannelManagerProofs ------------------------
(***************************************************************************)
(* Proofs about ChannelManager: its type correctness and the safety of the *)
(* opening of channels, for any number of channels, peers, blocks, lost    *)
(* connections and messages.                                               *)
(*                                                                         *)
(* Then proofs about the BlockWatcher, that tells it of the blocks: that   *)
(* it is a ChainFollower, and that what it knows is what its user was      *)
(* told, for all chains.                                                   *)
(***************************************************************************)
EXTENDS ChannelManager, Chains, SequenceTheorems, TLAPS

-----------------------------------------------------------------------------
(* Every name of a state is a string the type invariant knows. *)
LEMMA StateNames ==
  /\ Initializing \subseteq StateId /\ Funding \subseteq StateId
  /\ Dead \subseteq StateId /\ Normal \in StateId
  /\ AwaitingAccept \in StateId /\ AwaitingSigned \in StateId
  /\ NoChannelReady \in StateId /\ AwaitingDepth \in StateId
  /\ AwaitingReady \in StateId /\ Failing \in StateId /\ Abandoned \in StateId
BY DEF StateId, Initializing, Funding, Dead

(* The variables have their types in the initial state. *)
LEMMA InitType == Init => TypeOK
<1> SUFFICES ASSUME Init PROVE TypeOK
  OBVIOUS
<1>1. chan \in [Channel -> ChannelRecord]
  BY DEF Init, NewChannel, ChannelRecord
<1>2. disk \in [Channel -> ChannelRecord \cup {NotStored}]
  BY DEF Init
<1>3. /\ event \in Event
      /\ pending \in Transition \cup {NoTransition}
  BY DEF Init, Event
<1>4. /\ sent \in [Channel -> SUBSET Sent]
      /\ inbox \in [Peer -> Seq(Message)]
      /\ channels \in Seq(Channel)
  BY DEF Init
<1>5. replies \in [Channel -> [MessageType -> Nat]] /\ strays \subseteq Channel \X FoundByIdType
  BY DEF Init
<1> QED
  BY <1>1, <1>2, <1>3, <1>4, <1>5 DEF Init, TypeOK

(* The methods of Channel keep the type of a channel... *)
LEMMA RecordType ==
  ASSUME NEW r \in ChannelRecord, NEW x \in StateId \cup {"none"}, NEW n \in Nat
  PROVE  /\ [r EXCEPT !.state = x] \in ChannelRecord
         /\ AttachAcceptChannel(r, n) \in ChannelRecord
         /\ AttachFundingTx(r) \in ChannelRecord
         /\ (\A v \in BOOLEAN : AttachFundingSigned(r, v) \in ChannelRecord)
         /\ MarkConfirmed(r, n) \in ChannelRecord
         /\ AttachChannelReady(r) \in ChannelRecord
<1>1. [r EXCEPT !.state = x] \in ChannelRecord
  BY DEF ChannelRecord
<1>2. AttachAcceptChannel(r, n) \in ChannelRecord
  BY DEF ChannelRecord, AttachAcceptChannel
<1>3. /\ AttachFundingTx(r) \in ChannelRecord
      /\ \A v \in BOOLEAN : AttachFundingSigned(r, v) \in ChannelRecord
  BY DEF ChannelRecord, AttachFundingTx, AttachFundingSigned
<1>4. MarkConfirmed(r, n) \in ChannelRecord /\ AttachChannelReady(r) \in ChannelRecord
  BY DEF ChannelRecord, MarkConfirmed, AttachChannelReady
<1> QED
  BY <1>1, <1>2, <1>3, <1>4

(* ...and so does replacing a channel by what they return. *)
LEMMA UpdateType ==
  ASSUME NEW f \in [Channel -> ChannelRecord], NEW c \in Channel,
         NEW x \in StateId \cup {"none"}, NEW n \in Nat, NEW v \in BOOLEAN
  PROVE  /\ [f EXCEPT ![c].state = x] \in [Channel -> ChannelRecord]
         /\ [f EXCEPT ![c] = AttachFundingSigned(@, v)] \in [Channel -> ChannelRecord]
         /\ [f EXCEPT ![c] = MarkConfirmed(@, n)] \in [Channel -> ChannelRecord]
         /\ [f EXCEPT ![c] = AttachChannelReady(@)] \in [Channel -> ChannelRecord]
<1>1. /\ [f[c] EXCEPT !.state = x] \in ChannelRecord
      /\ AttachFundingSigned(f[c], v) \in ChannelRecord
      /\ MarkConfirmed(f[c], n) \in ChannelRecord
      /\ AttachChannelReady(f[c]) \in ChannelRecord
  BY RecordType
<1> QED
  BY <1>1

(* Sending a message keeps the type of what was sent. *)
LEMMA SendType ==
  ASSUME TypeOK, NEW c \in Channel, NEW n \in Nat,
         NEW t \in {"open_channel", "funding_created", "channel_ready"},
         Send(c, t, n)
  PROVE  sent' \in [Channel -> SUBSET Sent]
<1>1. sent \in [Channel -> SUBSET Sent]
  BY DEF TypeOK
<1>2. [type |-> t, number |-> n] \in Sent
  BY DEF Sent
<1>3. sent[c] \cup {[type |-> t, number |-> n]} \in SUBSET Sent
  BY <1>1, <1>2
<1> QED
  BY <1>1, <1>3 DEF Send

(* openChannel keeps the types. *)
LEMMA OpenType == ASSUME NEW c \in Channel, TypeOK, OpenChannel(c) PROVE TypeOK'
<1>1. CASE OpenBegin(c)
  BY <1>1 DEF TypeOK, OpenBegin, network, chain
<1>2. CASE OpenSend(c)
  <2>1. chan[c].ourNext \in Nat
    BY DEF TypeOK, ChannelRecord
  <2>2. sent' \in [Channel -> SUBSET Sent]
    <3>1. CASE Send(c, "open_channel", chan[c].ourNext)
      BY <2>1, <3>1, SendType
    <3> QED
      BY <1>2, <3>1 DEF TypeOK, OpenSend
  <2> QED
    BY <1>2, <2>2 DEF TypeOK, OpenSend, network, chain
<1>3. CASE OpenDone(c)
  <2>1. chan' \in [Channel -> ChannelRecord]
    <3>1. chan \in [Channel -> ChannelRecord] /\ AwaitingAccept \in StateId
      BY StateNames DEF TypeOK
    <3> QED
      BY <1>3, <3>1, UpdateType, 0 \in Nat, TRUE \in BOOLEAN DEF OpenDone
  <2>2. disk' \in [Channel -> ChannelRecord \cup {NotStored}]
    <3>1. chan'[c] \in ChannelRecord /\ disk \in [Channel -> ChannelRecord \cup {NotStored}]
      BY <2>1 DEF TypeOK
    <3> QED
      BY <1>3, <3>1 DEF OpenDone, Save
  <2>3. channels' \in Seq(Channel)
    <3>1. channels \in Seq(Channel)
      BY DEF TypeOK
    <3>2. Append(channels, c) \in Seq(Channel)
      BY <3>1
    <3> QED
      BY <1>3, <3>1, <3>2 DEF OpenDone
  <2> QED
    BY <1>3, <2>1, <2>2, <2>3 DEF TypeOK, OpenDone, network, chain
<1> QED
  BY <1>1, <1>2, <1>3 DEF OpenChannel

(* transitionState keeps the types. *)
LEMMA CommitType == ASSUME TypeOK, ControlInv, Commit PROVE TypeOK'
<1>1. pending \in Transition
  BY DEF ControlInv, Commit
<1>2. chan' \in [Channel -> ChannelRecord]
  <2>1. /\ chan \in [Channel -> ChannelRecord]
        /\ pending.channel \in Channel /\ pending.to \in StateId
    BY <1>1 DEF TypeOK, Transition
  <2> QED
    BY <2>1, UpdateType, 0 \in Nat, TRUE \in BOOLEAN DEF Commit
<1>3. disk' \in [Channel -> ChannelRecord \cup {NotStored}]
  BY <1>1, <1>2 DEF TypeOK, Commit, Transition, Save
<1> QED
  BY <1>2, <1>3 DEF TypeOK, Commit, Throw, network, chain

(* A peer's first message and the rest of its messages are messages, and  *)
(* taking the first changes the inbox only.                               *)
LEMMA TakeType ==
  ASSUME TypeOK, NEW p \in Peer, NEW type, Take(p, type)
  PROVE  /\ Head(inbox[p]) \in Message
         /\ Head(inbox[p]).channel \in Channel
         /\ Head(inbox[p]).type = type
         /\ Head(inbox[p]).depth \in Nat /\ Head(inbox[p]).valid \in BOOLEAN
         /\ inbox' \in [Peer -> Seq(Message)]
         /\ UNCHANGED <<ready, closed, replies, strays, drops>>
<1>1. inbox[p] \in Seq(Message) /\ inbox[p] # <<>>
  BY DEF TypeOK, Take
<1>2. Head(inbox[p]) \in Message /\ Tail(inbox[p]) \in Seq(Message)
  BY <1>1
<1> QED
  BY <1>2 DEF TypeOK, Take, Message

(* The handlers of the fundee's messages keep the types. *)
LEMMA HandlerType ==
  ASSUME TypeOK, NEW p \in Peer, HandleMessage(p) PROVE TypeOK'
<1> DEFINE m == Head(inbox[p])
           c == m.channel
<1>1. CASE AcceptInvalid(p)
  <2>1. Take(p, "accept_channel")
    BY <1>1 DEF AcceptInvalid
  <2>2. pending' \in Transition
    BY <1>1, <2>1, TakeType, StateNames DEF AcceptInvalid, Return, Transition
  <2> QED
    BY <1>1, <2>1, <2>2, TakeType DEF AcceptInvalid, TypeOK, Return, chain
<1>2. CASE AcceptValid(p)
  <2> DEFINE attached == AttachAcceptChannel(chan[c], m.depth)
  <2>1. Take(p, "accept_channel")
    BY <1>2 DEF AcceptValid
  <2>2. c \in Channel /\ m.depth \in Nat
    BY <2>1, TakeType
  <2>3. /\ attached \in ChannelRecord
        /\ AttachFundingTx(attached) \in ChannelRecord
    <3>1. chan[c] \in ChannelRecord
      BY <2>2 DEF TypeOK
    <3> QED
      BY <2>2, <3>1, RecordType
  <2>4. chan' \in [Channel -> ChannelRecord]
    BY <1>2, <2>2, <2>3 DEF AcceptValid, TypeOK
  <2>5. pending' \in Transition \cup {NoTransition} /\ pc' \in {"commit", "stalled"}
    BY <1>2, <2>2, StateNames DEF AcceptValid, Return, Throw, Transition
  <2>6. sent' \in [Channel -> SUBSET Sent]
    <3>1. CASE Send(c, "funding_created", 1)
      BY <2>2, <3>1, SendType
    <3> QED
      BY <1>2, <3>1 DEF TypeOK, AcceptValid
  <2> QED
    BY <1>2, <2>1, <2>4, <2>5, <2>6, TakeType DEF AcceptValid, TypeOK, chain
<1>3. CASE SignedInvalid(p)
  <2>1. Take(p, "funding_signed")
    BY <1>3 DEF SignedInvalid
  <2>2. pending' \in Transition
    BY <1>3, <2>1, TakeType, StateNames DEF SignedInvalid, Return, Transition
  <2> QED
    BY <1>3, <2>1, <2>2, TakeType DEF SignedInvalid, TypeOK, Return, chain
<1>4. CASE SignedValid(p)
  <2>1. Take(p, "funding_signed")
    BY <1>4 DEF SignedValid
  <2>2. c \in Channel
    BY <2>1, TakeType
  <2>3. chan' \in [Channel -> ChannelRecord]
    <3>1. chan \in [Channel -> ChannelRecord] /\ Normal \in StateId
      BY StateNames DEF TypeOK
    <3> QED
      BY <1>4, <2>1, <2>2, <3>1, TakeType, UpdateType, 0 \in Nat DEF SignedValid
  <2>4. /\ pending' \in Transition \cup {NoTransition}
        /\ pc' \in {"commit", "stalled"}
        /\ broadcast' \subseteq Channel
    BY <1>4, <2>2, StateNames DEF SignedValid, Return, Throw, Transition, TypeOK
  <2> QED
    BY <1>4, <2>1, <2>3, <2>4, TakeType DEF SignedValid, TypeOK
<1>5. CASE ReadyInvalid(p)
  <2>1. Take(p, "channel_ready")
    BY <1>5 DEF ReadyInvalid
  <2>2. pending' \in Transition
    BY <1>5, <2>1, TakeType, StateNames DEF ReadyInvalid, Return, Transition
  <2> QED
    BY <1>5, <2>1, <2>2, TakeType DEF ReadyInvalid, TypeOK, Return, chain
<1>6. CASE ReadyValid(p)
  <2>1. Take(p, "channel_ready")
    BY <1>6 DEF ReadyValid
  <2>2. c \in Channel
    BY <2>1, TakeType
  <2>3. chan' \in [Channel -> ChannelRecord]
    <3>1. chan \in [Channel -> ChannelRecord] /\ Normal \in StateId
      BY StateNames DEF TypeOK
    <3> QED
      BY <1>6, <2>2, <3>1, UpdateType, 0 \in Nat, TRUE \in BOOLEAN DEF ReadyValid
  <2>4. /\ pending' \in Transition \cup {NoTransition}
        /\ pc' \in {"idle", "loop", "commit", "stalled"}
    BY <1>6, <2>2, StateNames DEF ReadyValid, Return, Transition, TypeOK
  <2> QED
    BY <1>6, <2>1, <2>3, <2>4, TakeType DEF ReadyValid, TypeOK, chain
<1>7. CASE MessageDropped(p)
  <2>1. Take(p, m.type)
    BY <1>7 DEF MessageDropped
  <2>2. /\ pending' \in Transition \cup {NoTransition}
        /\ pc' \in {"idle", "loop", "commit", "stalled"}
    BY <1>7 DEF MessageDropped, Throw, TypeOK
  <2> QED
    BY <1>7, <2>1, <2>2, TakeType DEF MessageDropped, TypeOK, chain
<1> QED
  BY <1>1, <1>2, <1>3, <1>4, <1>5, <1>6, <1>7 DEF HandleMessage

(* The events that begin a loop over the channels keep the types. *)
LEMMA BeginType ==
  ASSUME TypeOK, BlockBegin \/ \E p \in Peer : GoneBegin(p) PROVE TypeOK'
<1>1. CASE BlockBegin
  <2>1. seen' \in Nat /\ event' \in Event
    BY <1>1 DEF TypeOK, BlockBegin, BlockAt, Event
  <2> QED
    BY <1>1, <2>1 DEF TypeOK, BlockBegin, network
<1>2. ASSUME NEW p \in Peer, GoneBegin(p) PROVE TypeOK'
  <2>1. event' \in Event
    BY <1>2 DEF GoneBegin, Gone, Event
  <2> QED
    BY <1>2, <2>1 DEF TypeOK, GoneBegin, chain
<1> QED
  BY <1>1, <1>2

(* The handlers that loop over the channels keep the types. *)
LEMMA LoopType == ASSUME TypeOK, ControlInv, HandleLoop PROVE TypeOK'
<1> DEFINE c == channels[at]
<1>1. at \in DOMAIN channels => c \in Channel
  BY DEF TypeOK
<1>2. CASE FundingConfirmed
  <2>1. c \in Channel /\ event.kind = "block" /\ event # NoEvent
    BY <1>1, <1>2 DEF FundingConfirmed, Looping, NoEvent
  <2>2. event.height \in Nat
    BY <2>1 DEF ControlInv, TypeOK
  <2>3. chan' \in [Channel -> ChannelRecord]
    <3>1. chan \in [Channel -> ChannelRecord] /\ Normal \in StateId
      BY StateNames DEF TypeOK
    <3> QED
      BY <1>2, <2>1, <2>2, <3>1, UpdateType, TRUE \in BOOLEAN DEF FundingConfirmed
  <2>4. pending' \in Transition
    BY <1>2, <2>1, StateNames DEF FundingConfirmed, Return, Transition
  <2> QED
    BY <1>2, <2>3, <2>4 DEF FundingConfirmed, Return, TypeOK, network, chain
<1>3. CASE FundingDepthReached
  <2>1. c \in Channel
    BY <1>1, <1>3 DEF FundingDepthReached, Looping
  <2>2. pending' \in Transition \cup {NoTransition} /\ pc' \in {"commit", "stalled"}
    BY <1>3, <2>1, StateNames DEF FundingDepthReached, Return, Throw, Transition
  <2>3. chan[c].ourNext \in Nat
    BY <2>1 DEF TypeOK, ChannelRecord
  <2>4. sent' \in [Channel -> SUBSET Sent]
    <3>1. CASE Send(c, "channel_ready", chan[c].ourNext)
      BY <2>1, <2>3, <3>1, SendType
    <3> QED
      BY <1>3, <3>1 DEF TypeOK, FundingDepthReached
  <2> QED
    BY <1>3, <2>2, <2>4 DEF FundingDepthReached, TypeOK, network, chain
<1>4. CASE BlockSkip \/ GoneSkip
  BY <1>4 DEF BlockSkip, GoneSkip, TypeOK, network, chain
<1>5. CASE Abandon
  <2>1. c \in Channel
    BY <1>1, <1>5 DEF Abandon, Looping
  <2>2. pending' \in Transition \cup {NoTransition} /\ pc' \in {"commit", "stalled"}
    BY <1>5, <2>1, StateNames DEF Abandon, Return, Throw, Transition
  <2>3. disk' \in [Channel -> ChannelRecord \cup {NotStored}]
    BY <1>5, <2>1 DEF Abandon, TypeOK
  <2> QED
    BY <1>5, <2>2, <2>3 DEF Abandon, TypeOK, network, chain
<1>6. CASE LoopEnd
  BY <1>6 DEF LoopEnd, TypeOK, Event, network, chain
<1> QED
  BY <1>2, <1>3, <1>4, <1>5, <1>6 DEF HandleLoop

(* The environment keeps the types. *)
LEMMA EnvironmentType ==
  ASSUME TypeOK,
         \/ \E c \in Channel : Fundee(c)
         \/ \E p \in Peer : Disconnect(p) \/ Reconnect(p)
         \/ \E p \in Peer, c \in Channel, m \in Strays : PeerStrays(p, c, m[1], m[2])
         \/ MineBlock
  PROVE  TypeOK'
<1>1. ASSUME NEW c \in Channel, NEW t \in MessageType, NEW ds \in SUBSET Nat,
             Reply(c, t, ds)
      PROVE  TypeOK'
  <2>1. PICK v \in Verdicts, d \in ds :
          inbox' = [inbox EXCEPT ![PeerOf[c]] =
                      Append(@, [type |-> t, channel |-> c, valid |-> v, depth |-> d])]
    BY <1>1 DEF Reply
  <2>2. [type |-> t, channel |-> c, valid |-> v, depth |-> d] \in Message
    BY ChannelManagerAssumption DEF ChannelManagerAssumption, Message
  <2>3. PeerOf[c] \in Peer
    BY ChannelManagerAssumption DEF ChannelManagerAssumption
  <2>4. inbox[PeerOf[c]] \in Seq(Message) /\ inbox \in [Peer -> Seq(Message)]
    BY <2>3 DEF TypeOK
  <2>5. Append(inbox[PeerOf[c]],
               [type |-> t, channel |-> c, valid |-> v, depth |-> d]) \in Seq(Message)
    BY <2>2, <2>4
  <2>6. inbox' \in [Peer -> Seq(Message)]
    BY <2>1, <2>3, <2>4, <2>5
  <2>7. replies' \in [Channel -> [MessageType -> Nat]]
    <3>1. replies \in [Channel -> [MessageType -> Nat]]
      BY DEF TypeOK
    <3>2. [replies[c] EXCEPT ![t] = @ + 1] \in [MessageType -> Nat]
      BY <3>1
    <3> QED
      BY <1>1, <3>1, <3>2 DEF Reply
  <2> QED
    BY <1>1, <2>6, <2>7 DEF Reply, TypeOK, manager, chain
<1>2. ASSUME NEW c \in Channel, Fundee(c) PROVE TypeOK'
  <2>1. Depths \in SUBSET Nat /\ {0} \in SUBSET Nat
    BY ChannelManagerAssumption DEF ChannelManagerAssumption
  <2>2. PICK t \in MessageType, ds \in SUBSET Nat : Reply(c, t, ds)
    BY <1>2, <2>1 DEF Fundee, PeerAccepts, PeerSigns, PeerReady, MessageType
  <2> QED
    BY <1>1, <2>2
<1>3. ASSUME NEW p \in Peer, Disconnect(p) PROVE TypeOK'
  <2>1. PICK n \in 0..Len(inbox[p]) :
          inbox' = [inbox EXCEPT ![p] = SubSeq(@, 1, n)]
    BY <1>3 DEF Disconnect
  <2>2. SubSeq(inbox[p], 1, n) \in Seq(Message)
    BY DEF TypeOK
  <2>3. inbox' \in [Peer -> Seq(Message)]
    BY <2>1, <2>2 DEF TypeOK
  <2> QED
    BY <1>3, <2>3 DEF Disconnect, TypeOK, manager, chain
<1>4. ASSUME NEW p \in Peer, Reconnect(p) PROVE TypeOK'
  BY <1>4 DEF Reconnect, TypeOK, manager, chain
<1>5. CASE MineBlock
  <2>1. confirmed' \in [Channel -> Nat] /\ tip' \in Nat
    BY <1>5 DEF MineBlock, TypeOK
  <2> QED
    BY <1>5, <2>1 DEF MineBlock, TypeOK, manager, network
<1>6. ASSUME NEW p \in Peer, NEW c \in Channel, NEW m \in Strays, PeerStrays(p, c, m[1], m[2])
      PROVE  TypeOK'
  <2>1. PICK t \in FoundByIdType, v \in BOOLEAN : t = m[1] /\ v = m[2]
    <3>1. m = <<"funding_signed", FALSE>> \/ m \in {"channel_ready"} \X BOOLEAN
      BY ChannelManagerAssumption DEF ChannelManagerAssumption
    <3>2. m[1] \in FoundByIdType /\ m[2] \in BOOLEAN
      <4>1. CASE m = <<"funding_signed", FALSE>>
        BY <4>1 DEF FoundByIdType
      <4>2. CASE m \in {"channel_ready"} \X BOOLEAN
        <5>1. PICK v \in BOOLEAN : m = <<"channel_ready", v>>
          BY <4>2
        <5> QED
          BY <5>1 DEF FoundByIdType
      <4> QED
        BY <3>1, <4>1, <4>2
    <3> QED
      BY <3>2
  <2>2. [type |-> t, channel |-> c, valid |-> v, depth |-> 0] \in Message
    BY DEF Message, MessageType, FoundByIdType
  <2>3. /\ inbox' = [inbox EXCEPT ![p] =
                      Append(@, [type |-> t, channel |-> c, valid |-> v, depth |-> 0])]
        /\ strays' = strays \cup {<<c, t>>}
        /\ UNCHANGED <<ready, closed, replies, drops, manager, chain>>
    BY <1>6, <2>1 DEF PeerStrays
  <2>4. inbox[p] \in Seq(Message) /\ inbox \in [Peer -> Seq(Message)]
    BY DEF TypeOK
  <2>5. inbox' \in [Peer -> Seq(Message)]
    BY <2>2, <2>3, <2>4
  <2> QED
    BY <2>3, <2>5 DEF TypeOK, manager, chain
<1> QED
  BY <1>2, <1>3, <1>4, <1>5, <1>6

-----------------------------------------------------------------------------
(* A loop that is not done is at a channel of the manager. *)
LEMMA LoopingChannel ==
  ASSUME TypeOK, NEW k, Looping(k)
  PROVE  channels[at] \in Channel /\ Registered(channels[at]) /\ pc = "loop"
BY DEF TypeOK, Looping, Registered

(* A channel that is appended is registered, next to those that were. *)
LEMMA RegisteredAppend ==
  ASSUME channels \in Seq(Channel), NEW c \in Channel, channels' = Append(channels, c)
  PROVE  \A d \in Channel : Registered(d)' <=> Registered(d) \/ d = c
<1>1. /\ Len(channels') = Len(channels) + 1
      /\ channels'[Len(channels) + 1] = c
      /\ \A i \in 1..Len(channels) : channels'[i] = channels[i]
      /\ DOMAIN channels' = 1..(Len(channels) + 1)
      /\ DOMAIN channels = 1..Len(channels)
      /\ Len(channels) \in Nat
  OBVIOUS
<1> QED
  BY <1>1 DEF Registered

(* A record of a channel is told from an empty place in storage. *)
LEMMA RecordIsStored == ASSUME NEW r \in ChannelRecord PROVE r # NotStored
<1>1. "not stored" \notin StateId \cup {"none"}
  BY DEF StateId, Initializing, Funding, Dead, AwaitingAccept, AwaitingSigned,
         NoChannelReady, AwaitingDepth, AwaitingReady, Failing, Abandoned, Normal
<1>2. r.state \in StateId \cup {"none"}
  BY DEF ChannelRecord
<1>3. NotStored.state = "not stored"
  BY DEF NotStored
<1> QED
  BY <1>1, <1>2, <1>3

(* What a channel was sent after one more message. *)
LEMMA HasSentSend ==
  ASSUME TypeOK, NEW c \in Channel, NEW t, NEW n, Send(c, t, n)
  PROVE  \A d \in Channel :
           HasSent(d, "channel_ready")' <=>
             HasSent(d, "channel_ready") \/ (d = c /\ t = "channel_ready")
<1>1. /\ sent'[c] = sent[c] \cup {[type |-> t, number |-> n]}
      /\ \A d \in Channel : d # c => sent'[d] = sent[d]
  BY DEF TypeOK, Send
<1>2. [type |-> t, number |-> n].type = t
  OBVIOUS
<1> QED
  BY <1>1, <1>2 DEF HasSent

(* The messages left in the inbox were in it before. *)
LEMMA TakeInv ==
  ASSUME IInv, NEW p \in Peer, NEW type, Take(p, type)
  PROVE  /\ InboxInv'
         /\ type = "channel_ready" => ReadyCame(Head(inbox[p]).channel)
<1>1. inbox \in [Peer -> Seq(Message)] /\ inbox[p] # <<>>
  BY DEF IInv, TypeOK, Take
<1>2. /\ \A i \in DOMAIN Tail(inbox[p]) :
           i + 1 \in DOMAIN inbox[p] /\ Tail(inbox[p])[i] = inbox[p][i + 1]
      /\ 1 \in DOMAIN inbox[p] /\ Head(inbox[p]) = inbox[p][1]
  BY <1>1
<1>3. /\ inbox' = [inbox EXCEPT ![p] = Tail(@)]
      /\ replies' = replies /\ strays' = strays /\ Head(inbox[p]).type = type
  BY DEF Take
<1>4. \A q \in Peer : q # p => inbox'[q] = inbox[q]
  BY <1>1, <1>3
<1>5. inbox'[p] = Tail(inbox[p])
  BY <1>1, <1>3
<1>6. InboxInv
  BY DEF IInv
<1>7. \A d : ReadyCame(d)' <=> ReadyCame(d)
  BY <1>3 DEF ReadyCame
<1>8. ASSUME NEW q \in Peer, NEW i \in DOMAIN inbox'[q]
      PROVE  inbox'[q][i].type = "channel_ready" => ReadyCame(inbox'[q][i].channel)
  <2>1. PICK j \in DOMAIN inbox[q] : inbox'[q][i] = inbox[q][j]
    <3>1. CASE q = p
      <4>1. i \in DOMAIN Tail(inbox[p]) /\ inbox'[q][i] = Tail(inbox[p])[i]
        BY <1>5, <3>1
      <4>2. i + 1 \in DOMAIN inbox[q] /\ inbox'[q][i] = inbox[q][i + 1]
        BY <1>2, <3>1, <4>1
      <4> QED
        BY <4>2
    <3>2. CASE q # p
      BY <1>4, <3>2
    <3> QED
      BY <3>1, <3>2
  <2>2. PICK m : m = inbox[q][j]
    OBVIOUS
  <2>3. m.type = "channel_ready" => ReadyCame(m.channel)
    BY <1>6, <2>2, Zenon DEF InboxInv
  <2> QED
    BY <2>1, <2>2, <2>3
<1>9. InboxInv'
  <2> SUFFICES ASSUME NEW q \in Peer, NEW i \in DOMAIN inbox'[q],
                      inbox'[q][i].type = "channel_ready"
               PROVE  ReadyCame(inbox[q][i].channel)'
    BY DEF InboxInv
  <2>1. PICK d : d = inbox'[q][i].channel
    OBVIOUS
  <2>2. ReadyCame(d)
    BY <1>8, <2>1
  <2> QED
    BY <1>7, <2>1, <2>2
<1> QED
  BY <1>2, <1>3, <1>6, <1>9 DEF InboxInv

-----------------------------------------------------------------------------
(* From here on the names of the states stand for their strings. *)
USE DEF AwaitingAccept, AwaitingSigned, NoChannelReady, AwaitingDepth, AwaitingReady,
        Failing, Normal, Abandoned, Initializing, Funding, Dead

(* A channel that is updated, and the others, after the update. *)
LEMMA UpdateFields ==
  ASSUME NEW f \in [Channel -> ChannelRecord], NEW c \in Channel, NEW x, NEW n, NEW v
  PROVE  /\ [f EXCEPT ![c].state = x][c] = [f[c] EXCEPT !.state = x]
         /\ [f EXCEPT ![c] = AttachFundingSigned(@, v)][c] = AttachFundingSigned(f[c], v)
         /\ [f EXCEPT ![c] = MarkConfirmed(@, n)][c] = MarkConfirmed(f[c], n)
         /\ [f EXCEPT ![c] = AttachChannelReady(@)][c] = AttachChannelReady(f[c])
         /\ \A d \in Channel : d # c =>
              /\ [f EXCEPT ![c].state = x][d] = f[d]
              /\ [f EXCEPT ![c] = AttachFundingSigned(@, v)][d] = f[d]
              /\ [f EXCEPT ![c] = MarkConfirmed(@, n)][d] = f[d]
              /\ [f EXCEPT ![c] = AttachChannelReady(@)][d] = f[d]
OBVIOUS

(* The fields of a channel after its state is assigned. *)
LEMMA StateFields ==
  ASSUME NEW r \in ChannelRecord, NEW x
  PROVE  LET s == [r EXCEPT !.state = x]
         IN /\ s.state = x /\ s.minDepth = r.minDepth /\ s.funded = r.funded
            /\ s.sig = r.sig /\ s.confHeight = r.confHeight
            /\ s.theirNext = r.theirNext
BY DEF ChannelRecord

(* A step that leaves a channel alone keeps its invariant. *)
LEMMA FrameInv ==
  ASSUME NEW d \in Channel, ChannelInv(d),
         chan'[d] = chan[d], disk'[d] = disk[d], opening'[d] = opening[d],
         HasSent(d, "channel_ready")' <=> HasSent(d, "channel_ready"),
         Registered(d)' <=> Registered(d),
         d \in broadcast' <=> d \in broadcast,
         confirmed'[d] = confirmed[d], ReadyCame(d)' <=> ReadyCame(d),
         seen \in Nat, seen' \in Nat, seen' >= seen,
         confirmed[d] \in Nat, chan[d].minDepth \in Nat,
         Entering(d)' <=> Entering(d),
         Entering(d) => pending' = pending,
         pc = "stalled" => pc' = "stalled"
  PROVE  ChannelInv(d)'
<1>1. OpeningInv(d)'
  BY DEF ChannelInv, OpeningInv
<1>2. \A S : InOrEntering(d, S)' <=> InOrEntering(d, S)
  BY DEF InOrEntering
<1>3. HasChannelReady(d)' <=> HasChannelReady(d)
  BY DEF HasChannelReady
<1>4. ProgressInv(d)'
  BY <1>2, <1>3 DEF ChannelInv, ProgressInv
<1>5. StoredUpTo(d)' <=> StoredUpTo(d)
  BY DEF StoredUpTo
<1>6. /\ Entering(d) => (SavedBefore(d)' <=> SavedBefore(d))
      /\ OneBehind(d)' <=> OneBehind(d)
      /\ SigUnsaved(d) => SigUnsaved(d)'
  BY DEF SavedBefore, OneBehind, SigUnsaved
<1>7. StorageInv(d)'
  BY <1>5, <1>6 DEF ChannelInv, StorageInv
<1> QED
  BY <1>1, <1>4, <1>7 DEF ChannelInv

(* What storage lacks after a step is of the one channel it is about.     *)
LEMMA AloneStep ==
  ASSUME IInv, NEW c \in Channel, pc # "stalled",
         \A d \in Channel : d # c =>
           /\ ~Entering(d) /\ chan'[d] = chan[d] /\ disk'[d] = disk[d]
           /\ Registered(d)' <=> Registered(d)
           /\ d \in broadcast' <=> d \in broadcast
  PROVE  AloneInv'
<1>1. ASSUME NEW d \in Channel, d # c PROVE ~Lags(d)' /\ ~SigUnsaved(d)'
  <2>1. ~SigUnsaved(d) /\ StorageInv(d)
    BY <1>1 DEF IInv, ChannelInv, SigUnsaved
  <2>2. ~Lags(d)'
    BY <1>1, <2>1 DEF StorageInv, Lags, StoredUpTo
  <2>3. ~SigUnsaved(d)'
    BY <1>1, <2>1 DEF StorageInv, SigUnsaved
  <2> QED
    BY <2>2, <2>3
<1> QED
  BY <1>1 DEF AloneInv

(* A step that touches no channel, nor the control of a handler.          *)
LEMMA AloneFrame ==
  ASSUME IInv, UNCHANGED <<channels, chan, disk, broadcast>>,
         \/ UNCHANGED <<pc, pending>>
         \/ pc \notin {"commit", "stalled"} /\ pc' \notin {"commit", "stalled"}
  PROVE  AloneInv'
<1>1. ASSUME NEW d \in Channel
      PROVE  /\ Lags(d)' <=> Lags(d)
             /\ SigUnsaved(d)' <=> SigUnsaved(d)
  BY DEF Lags, Registered, StoredUpTo, SigUnsaved, Entering
<1> QED
  BY <1>1 DEF IInv, AloneInv

(* A handler of one channel leaves the others alone. *)
LEMMA OthersInv ==
  ASSUME IInv, TypeOK', NEW c \in Channel, pc \in {"idle", "loop"},
         UNCHANGED <<channels, opening, confirmed, replies, strays, seen>>,
         \A d \in Channel : d # c =>
           /\ chan'[d] = chan[d] /\ disk'[d] = disk[d]
           /\ HasSent(d, "channel_ready")' <=> HasSent(d, "channel_ready")
           /\ d \in broadcast' <=> d \in broadcast,
         pc' = "commit" => pending'.channel = c
  PROVE  AloneInv' /\ \A d \in Channel : d # c => ChannelInv(d)'
<1>0. AloneInv'
  <2>1. \A d \in Channel : (Registered(d)' <=> Registered(d)) /\ ~Entering(d)
    BY DEF Registered, Entering
  <2> QED
    BY <2>1, AloneStep
<1> SUFFICES ASSUME NEW d \in Channel, d # c PROVE ChannelInv(d)'
  BY <1>0
<1>1. ChannelInv(d) /\ seen \in Nat /\ confirmed[d] \in Nat /\ chan[d].minDepth \in Nat
  BY DEF IInv, TypeOK, ChannelRecord
<1>2. Registered(d)' <=> Registered(d)
  BY DEF Registered
<1>3. ~Entering(d) /\ ~Entering(d)'
  BY DEF Entering
<1>4. ReadyCame(d)' <=> ReadyCame(d)
  BY DEF ReadyCame
<1> QED
  BY <1>1, <1>2, <1>3, <1>4, FrameInv

(* What a handler that returns a state, or throws, leaves of the control. *)
LEMMA ReturnControl ==
  ASSUME IInv, NEW c \in Channel, NEW to \in StateId, Return(c, to), Registered(c),
         UNCHANGED <<channels, event, seen>>, to # AwaitingAccept,
         chan'[c].state \notin Dead,
         to = AwaitingSigned => chan'[c].state = AwaitingAccept,
         <<chan'[c].state, to>> \in Transitions
  PROVE  ControlInv'
<1>1. pending' \in Transition /\ pending'.channel = c /\ pending'.to = to
  BY DEF Return, Transition
<1> QED
  BY <1>1 DEF IInv, ControlInv, Return, Registered

LEMMA ThrowControl ==
  ASSUME IInv, Throw, UNCHANGED <<event, seen>> PROVE ControlInv'
BY DEF IInv, ControlInv, Throw

(* openChannel keeps the invariant: no other handler knows the channel.   *)
LEMMA OpenInv ==
  ASSUME IInv, TypeOK', NEW c \in Channel, OpenChannel(c) PROVE IInv'
<1>1. /\ UNCHANGED <<pc, event, at, pending, network, chain>>
      /\ ControlInv /\ InboxInv /\ ChannelInv(c) /\ ~Registered(c)
      /\ chan[c].state = "none"
  BY DEF OpenChannel, OpenBegin, OpenSend, OpenDone, IInv, TypeOK, ChannelInv, OpeningInv
<1>2. \A d \in Channel : HasSent(d, "channel_ready")' <=> HasSent(d, "channel_ready")
  <2>1. CASE sent' = sent
    BY <2>1 DEF HasSent
  <2>2. CASE Send(c, "open_channel", chan[c].ourNext)
    BY <2>2, HasSentSend DEF IInv
  <2> QED
    BY <2>1, <2>2 DEF OpenChannel, OpenBegin, OpenSend, OpenDone
<1>3. ~Entering(c) /\ ~Entering(c)'
  BY <1>1 DEF ControlInv, Entering
<1>4. \A d \in Channel : d # c =>
        /\ chan'[d] = chan[d] /\ disk'[d] = disk[d] /\ opening'[d] = opening[d]
        /\ Registered(d)' <=> Registered(d)
  BY RegisteredAppend, ZenonT(30)
     DEF OpenChannel, OpenBegin, OpenSend, OpenDone, IInv, TypeOK, Registered, Save
<1>5. \/ /\ UNCHANGED <<chan, disk, channels>>
         /\ opening[c] \in {"no", "creating"}
      \/ /\ chan' = [chan EXCEPT ![c].state = AwaitingAccept]
         /\ opening[c] = "saving" /\ opening'[c] \in {"done", "failed"}
         /\ Registered(c)' => opening'[c] = "done" /\ disk'[c] = chan'[c]
  BY <1>1 DEF OpenChannel, OpenBegin, OpenSend, OpenDone, IInv, TypeOK, Registered, Save
<1>6. \/ chan'[c] = chan[c]
      \/ chan'[c].state = AwaitingAccept /\ chan'[c].theirNext = chan[c].theirNext
  <2>1. chan \in [Channel -> ChannelRecord] /\ chan[c] \in ChannelRecord
    BY DEF IInv, TypeOK
  <2>2. CASE chan' = [chan EXCEPT ![c].state = AwaitingAccept]
    <3>1. chan'[c] = [chan[c] EXCEPT !.state = AwaitingAccept]
      BY <2>1, <2>2, UpdateFields
    <3> QED
      BY <2>1, <3>1, StateFields
  <2> QED
    BY <1>5, <2>2
<1>7. c \notin broadcast /\ ~HasSent(c, "channel_ready")
  BY <1>1, <1>5 DEF ChannelInv, OpeningInv
<1>8. ControlInv'
  BY <1>1, <1>3, <1>4 DEF ControlInv, Entering, Transition, chain
<1>9. InboxInv'
  BY <1>1 DEF InboxInv, ReadyCame, network
<1>10. ASSUME NEW d \in Channel, d # c PROVE ChannelInv(d)'
  <2>1. /\ ChannelInv(d) /\ seen \in Nat /\ confirmed[d] \in Nat
        /\ chan[d].minDepth \in Nat
    BY DEF IInv, TypeOK, ChannelRecord
  <2>2. Entering(d)' <=> Entering(d)
    BY <1>1 DEF Entering
  <2> QED
    BY <1>1, <1>2, <1>4, <1>10, <2>1, <2>2, FrameInv DEF ReadyCame, network, chain
<1>11. OpeningInv(c)'
  <2>1. CASE UNCHANGED <<chan, disk, channels>>
    BY <1>1, <1>2, <1>7, <2>1 DEF OpeningInv, Registered, chain
  <2>2. CASE opening'[c] \in {"done", "failed"} /\ (Registered(c)' => opening'[c] = "done")
    BY <1>1, <1>2, <1>7, <2>2 DEF OpeningInv, chain
  <2> QED
    BY <1>5, <2>1, <2>2
<1>12. ProgressInv(c)'
  <2>1. \A S : ~(AwaitingAccept \in S) /\ ~("none" \in S) => ~InOrEntering(c, S)'
    BY <1>1, <1>3, <1>6 DEF InOrEntering
  <2>2. HasChannelReady(c)' <=> HasChannelReady(c)
    BY <1>6 DEF HasChannelReady
  <2> QED
    BY <1>1, <1>2, <1>7, <2>1, <2>2 DEF ChannelInv, ProgressInv, ReadyCame, network
<1>13. StorageInv(c)'
  <2>1. chan'[c] # NotStored
    BY RecordIsStored DEF TypeOK
  <2>2. Registered(c)' => StoredUpTo(c)'
    BY <1>1, <1>5, <2>1 DEF StoredUpTo, Registered
  <2> QED
    BY <1>1, <1>7, <2>2 DEF StorageInv, chain
<1>14. AloneInv'
  <2>1. ~Lags(c)' /\ ~SigUnsaved(c)'
    <3>1. chan'[c] # NotStored
      BY RecordIsStored DEF TypeOK
    <3> QED
      BY <1>1, <1>5, <1>7, <3>1 DEF Lags, StoredUpTo, Registered, SigUnsaved, chain
  <2>2. \A d \in Channel : d # c => (Lags(d)' <=> Lags(d)) /\ (SigUnsaved(d)' <=> SigUnsaved(d))
    BY <1>1, <1>4 DEF Lags, StoredUpTo, SigUnsaved, Entering, chain
  <2> QED
    BY <2>1, <2>2 DEF IInv, AloneInv
<1> QED
  BY <1>8, <1>9, <1>10, <1>11, <1>12, <1>13, <1>14 DEF IInv, ChannelInv

(* A handler that only fails a channel keeps the invariant. *)
LEMMA FailInv ==
  ASSUME IInv, TypeOK', InboxInv', NEW c \in Channel, Registered(c), pc = "idle",
         chan[c].state \in {AwaitingAccept, AwaitingSigned, AwaitingDepth, AwaitingReady},
         Return(c, Failing),
         UNCHANGED <<channels, opening, chan, disk, event, sent, replies, strays, chain>>
  PROVE  IInv'
<1>1. ControlInv'
  BY ReturnControl, StateNames DEF Transitions, chain
<1>2. AloneInv' /\ \A d \in Channel : d # c => ChannelInv(d)'
  BY OthersInv DEF Return, HasSent, chain
<1>3. ChannelInv(c) /\ ~Entering(c)
  BY DEF IInv, Entering
<1>4. Entering(c)' /\ pending'.to = Failing
  BY DEF Return, Entering
<1>5. OpeningInv(c)'
  BY <1>3, <1>4 DEF ChannelInv, OpeningInv, Registered, HasSent, chain
<1>6. StorageInv(c)'
  BY <1>3, <1>4 DEF ChannelInv, StorageInv, StoredUpTo, SavedBefore, SigUnsaved, Registered, chain
<1>7. ProgressInv(c)'
  BY <1>3, <1>4 DEF ChannelInv, ProgressInv, InOrEntering, HasChannelReady, HasSent,
                    ReadyCame, chain
<1> QED
  BY <1>1, <1>2, <1>5, <1>6, <1>7 DEF IInv, ChannelInv

(* A valid accept_channel keeps the invariant. *)
LEMMA AcceptValidInv ==
  ASSUME IInv, TypeOK', NEW p \in Peer, AcceptValid(p) PROVE IInv'
<1>0. PICK c \in Channel : c = Head(inbox[p]).channel
  BY TakeType DEF AcceptValid, IInv
<1>1. InboxInv' /\ pc = "idle" /\ UNCHANGED <<ready, closed, replies, strays, drops>>
  BY TakeInv, TakeType DEF AcceptValid, IInv, Take
<1> DEFINE attached ==
             AttachAcceptChannel(chan[c], Head(inbox[p]).depth)
<1>2. /\ Registered(c) /\ chan[c].state = AwaitingAccept
      /\ UNCHANGED <<channels, opening, disk, event, at, chain>>
  BY <1>0 DEF AcceptValid
<1>3. /\ chan \in [Channel -> ChannelRecord] /\ chan[c] \in ChannelRecord
      /\ ChannelInv(c) /\ ~Entering(c)
  BY <1>1 DEF IInv, TypeOK, Entering
<1>4. c \notin broadcast /\ ~HasSent(c, "channel_ready")
  BY <1>2, <1>3 DEF ChannelInv, OpeningInv
<1>5. /\ attached.state = AwaitingAccept /\ attached.theirNext = 1
      /\ AttachFundingTx(attached).state = AwaitingAccept
      /\ AttachFundingTx(attached).theirNext = 1
      /\ AttachFundingTx(attached).funded
  BY <1>2, <1>3 DEF ChannelRecord, AttachAcceptChannel, AttachFundingTx
<1>6. \A d \in Channel : HasSent(d, "channel_ready")' <=> HasSent(d, "channel_ready")
  <2>1. CASE sent' = sent
    BY <2>1 DEF HasSent
  <2>2. CASE Send(c, "funding_created", 1)
    BY <1>1, <2>2, HasSentSend DEF IInv
  <2> QED
    BY <1>0, <2>1, <2>2 DEF AcceptValid
<1>7. \/ chan' = [chan EXCEPT ![c] = attached] /\ Throw
      \/ /\ chan' = [chan EXCEPT ![c] = AttachFundingTx(attached)]
         /\ Return(c, AwaitingSigned) \/ Throw
  BY <1>0 DEF AcceptValid
<1>8. /\ \A d \in Channel : d # c => chan'[d] = chan[d]
      /\ chan'[c].state = AwaitingAccept /\ chan'[c].theirNext = 1
      /\ (Return(c, AwaitingSigned) /\ chan'[c].funded) \/ Throw
  BY <1>1, <1>3, <1>5, <1>7
<1>9. ControlInv'
  BY <1>1, <1>2, <1>8, ReturnControl, ThrowControl, StateNames DEF Transitions, chain
<1>10. AloneInv' /\ \A d \in Channel : d # c => ChannelInv(d)'
  BY <1>1, <1>2, <1>6, <1>8, OthersInv DEF Return, Throw, chain
<1>11. OpeningInv(c)'
  BY <1>1, <1>2, <1>3, <1>4, <1>6, <1>8
     DEF ChannelInv, OpeningInv, Registered, Return, Throw, Entering, chain
<1>12. ProgressInv(c)'
  BY <1>1, <1>2, <1>3, <1>4, <1>6, <1>8
     DEF ProgressInv, InOrEntering, Entering, Return, Throw, HasChannelReady, chain
<1>13. StorageInv(c)'
  <2>1. disk[c] = chan[c] /\ disk[c] # NotStored
    BY <1>1, <1>2, <1>3 DEF ChannelInv, StorageInv, StoredUpTo
  <2> QED
    BY <1>2, <1>4, <1>8, <2>1
       DEF StorageInv, SavedBefore, OneBehind, Registered, Return, Throw, Entering, chain
<1> QED
  BY <1>1, <1>9, <1>10, <1>11, <1>12, <1>13 DEF IInv, ChannelInv

(* A valid funding_signed keeps the invariant: the channel is in storage  *)
(* with its funding transaction before that is broadcast.                 *)
LEMMA SignedValidInv ==
  ASSUME IInv, TypeOK', NEW p \in Peer, SignedValid(p) PROVE IInv'
<1>0. PICK c \in Channel : c = Head(inbox[p]).channel
  BY TakeType DEF SignedValid, IInv
<1>1. InboxInv' /\ pc = "idle" /\ UNCHANGED <<ready, closed, replies, strays, drops>>
  BY TakeInv, TakeType DEF SignedValid, IInv, Take
<1>2. /\ Registered(c) /\ chan[c].funded /\ chan[c].state = AwaitingSigned
      /\ UNCHANGED <<channels, opening, disk, event, at, sent, confirmed, tip, seen>>
      /\ \A d \in Channel : d # c => (d \in broadcast' <=> d \in broadcast)
  BY <1>0 DEF SignedValid, FoundById
<1>3. /\ chan \in [Channel -> ChannelRecord] /\ chan[c] \in ChannelRecord
      /\ ChannelInv(c) /\ ~Entering(c)
  BY <1>1 DEF IInv, TypeOK, Entering
<1>a. chan' = [chan EXCEPT ![c] = AttachFundingSigned(@, TRUE)]
  <2>1. Head(inbox[p]).valid \in BOOLEAN
    BY TakeType DEF SignedValid, IInv
  <2>2. Head(inbox[p]).valid = TRUE
    BY <2>1 DEF SignedValid, validateFundingSignedMessage
  <2> QED
    BY <1>0, <2>2 DEF SignedValid
<1>4. opening[c] = "done" /\ disk[c] = chan[c] /\ disk[c] # NotStored
  BY <1>1, <1>2, <1>3 DEF ChannelInv, OpeningInv, StorageInv, StoredUpTo
<1>5. /\ \A d \in Channel : d # c => chan'[d] = chan[d]
      /\ chan'[c] = AttachFundingSigned(chan[c], TRUE)
  BY <1>3, <1>a, UpdateFields
<1>6. /\ chan'[c].state = AwaitingSigned /\ chan'[c].theirNext = chan[c].theirNext
      /\ chan'[c].funded /\ chan'[c].sig = "valid" /\ chan'[c].minDepth = chan[c].minDepth
  BY <1>2, <1>3, <1>5 DEF AttachFundingSigned, ChannelRecord
<1>7. (Throw /\ broadcast' = broadcast) \/ Return(c, NoChannelReady)
  BY <1>0 DEF SignedValid
<1>8. ControlInv'
  BY <1>1, <1>2, <1>6, <1>7, ReturnControl, ThrowControl, StateNames DEF Transitions
<1>9. AloneInv' /\ \A d \in Channel : d # c => ChannelInv(d)'
  BY <1>1, <1>2, <1>5, <1>7, OthersInv DEF Return, Throw, HasSent
<1>10. OpeningInv(c)'
  BY <1>1, <1>2, <1>3, <1>4, <1>6, <1>7
     DEF ChannelInv, OpeningInv, Registered, HasSent, Return, Throw, Entering
<1>11. ProgressInv(c)'
  BY <1>1, <1>2, <1>3, <1>6, <1>7
     DEF ChannelInv, ProgressInv, InOrEntering, Entering, Return, Throw, HasChannelReady,
         HasSent, ReadyCame
<1>12. StorageInv(c)'
  <2>1. c \notin broadcast
    BY <1>1, <1>2, <1>3 DEF ChannelInv, StorageInv
  <2>2. CASE Throw /\ broadcast' = broadcast
    BY <1>2, <1>4, <1>6, <2>1, <2>2 DEF StorageInv, OneBehind, Registered, Throw
  <2>3. CASE Return(c, NoChannelReady)
    BY <1>2, <1>4, <1>6, <2>3 DEF StorageInv, SavedBefore, SigUnsaved, Return, Entering
  <2> QED
    BY <1>7, <2>2, <2>3
<1> QED
  BY <1>1, <1>8, <1>9, <1>10, <1>11, <1>12 DEF IInv, ChannelInv

(* A valid channel_ready keeps the invariant. *)
LEMMA ReadyValidInv ==
  ASSUME IInv, TypeOK', NEW p \in Peer, ReadyValid(p) PROVE IInv'
<1>0. PICK c \in Channel : c = Head(inbox[p]).channel
  BY TakeType DEF ReadyValid, IInv
<1>1. /\ InboxInv' /\ pc = "idle" /\ UNCHANGED <<ready, closed, replies, strays, drops>>
      /\ ReadyCame(c)
  BY <1>0, TakeInv, TakeType DEF ReadyValid, IInv, Take
<1>2. /\ Registered(c) /\ chan[c].state \in {AwaitingDepth, AwaitingReady}
      /\ UNCHANGED <<channels, opening, disk, event, at, sent, chain>>
  BY <1>0 DEF ReadyValid, FoundById
<1>3. /\ chan \in [Channel -> ChannelRecord] /\ chan[c] \in ChannelRecord
      /\ ChannelInv(c) /\ ~Entering(c)
  BY <1>1 DEF IInv, TypeOK, Entering
<1>4. StoredUpTo(c) /\ chan[c].theirNext > 0 /\ chan[c].theirNext \in Nat
  BY <1>1, <1>2, <1>3 DEF ChannelInv, StorageInv, ProgressInv, InOrEntering, ChannelRecord
<1>5. /\ \A d \in Channel : d # c => chan'[d] = chan[d]
      /\ chan'[c] = AttachChannelReady(chan[c])
  BY <1>0, <1>3, UpdateFields DEF ReadyValid
<1>6. /\ chan'[c].state = chan[c].state /\ chan'[c].theirNext > 1
      /\ chan'[c].funded = chan[c].funded /\ chan'[c].sig = chan[c].sig
      /\ chan'[c].minDepth = chan[c].minDepth /\ chan'[c].confHeight = chan[c].confHeight
  BY <1>3, <1>4, <1>5 DEF AttachChannelReady, ChannelRecord
<1>7. \/ chan[c].state = AwaitingReady /\ Return(c, Normal)
      \/ chan[c].state = AwaitingDepth /\ UNCHANGED <<pc, pending>>
  BY <1>0, <1>2 DEF ReadyValid
<1>8. ControlInv'
  <2>1. CASE Return(c, Normal)
    BY <1>2, <1>6, <1>7, <2>1, ReturnControl, StateNames DEF Transitions, Return, chain
  <2>2. CASE UNCHANGED <<pc, pending>>
    BY <1>1, <1>2, <2>2 DEF IInv, ControlInv, chain
  <2> QED
    BY <1>7, <2>1, <2>2
<1>9. AloneInv' /\ \A d \in Channel : d # c => ChannelInv(d)'
  BY <1>1, <1>2, <1>5, <1>7, OthersInv DEF Return, HasSent, chain
<1>10. OpeningInv(c)'
  BY <1>2, <1>3, <1>6 DEF ChannelInv, OpeningInv, Registered, HasSent, chain
<1>11. StorageInv(c)'
  <2>1. chan[c].state = AwaitingDepth => StoredUpTo(c)'
    BY <1>2, <1>3, <1>4, <1>5, <1>6 DEF StoredUpTo, ChannelRecord, AttachChannelReady
  <2>2. StoredUpTo(c)' \/ (Entering(c)' /\ SavedBefore(c)')
    BY <1>2, <1>4, <1>6, <1>7, <2>1 DEF Return, Entering, SavedBefore, StoredUpTo
  <2>3. c \in broadcast => disk[c].sig = "valid"
    BY <1>3, <1>4, <1>2 DEF ChannelInv, StorageInv, StoredUpTo, SigUnsaved, ChannelRecord
  <2> QED
    BY <1>2, <1>3, <1>6, <2>2, <2>3 DEF ChannelInv, StorageInv, chain
<1>12. ProgressInv(c)'
  <2>1. /\ HasChannelReady(c)' /\ ReadyCame(c)' /\ chan'[c].theirNext > 0
    BY <1>1, <1>3, <1>4, <1>5, <1>6
       DEF HasChannelReady, AttachChannelReady, ChannelRecord, ReadyCame
  <2>2. HasSent(c, "channel_ready")' <=> HasSent(c, "channel_ready")
    BY <1>2 DEF HasSent
  <2>3. ProgressInv(c)
    BY <1>3 DEF ChannelInv
  <2>4. CASE Return(c, Normal) /\ chan[c].state = AwaitingReady
    BY <1>2, <1>6, <2>1, <2>2, <2>3, <2>4 DEF ProgressInv, InOrEntering, Entering, Return, chain
  <2>5. CASE UNCHANGED <<pc, pending>> /\ chan[c].state = AwaitingDepth
    BY <1>1, <1>2, <1>6, <2>1, <2>2, <2>3, <2>5 DEF ProgressInv, InOrEntering, Entering, chain
  <2> QED
    BY <1>7, <2>4, <2>5
<1> QED
  BY <1>8, <1>9, <1>10, <1>11, <1>12, <1>1 DEF IInv, ChannelInv

(* The handlers of the fundee's messages keep the invariant. *)
LEMMA HandleMessageInv ==
  ASSUME IInv, TypeOK', NEW p \in Peer, HandleMessage(p) PROVE IInv'
<1>1. ASSUME AcceptInvalid(p) \/ SignedInvalid(p) \/ ReadyInvalid(p) PROVE IInv'
  <2>0. PICK c \in Channel : c = Head(inbox[p]).channel
    BY <1>1, TakeType DEF AcceptInvalid, SignedInvalid, ReadyInvalid, IInv
  <2>1. InboxInv' /\ pc = "idle" /\ replies' = replies /\ strays' = strays
    BY <1>1, TakeInv DEF AcceptInvalid, SignedInvalid, ReadyInvalid, Take
  <2> QED
    BY <1>1, <2>0, <2>1, FailInv
       DEF AcceptInvalid, SignedInvalid, ReadyInvalid, FoundById, chain
<1>2. CASE MessageDropped(p)
  <2>1. InboxInv' /\ pc = "idle" /\ replies' = replies /\ strays' = strays
    BY <1>2, TakeInv DEF MessageDropped, Take
  <2>2. /\ UNCHANGED <<channels, opening, chan, disk, event, at, sent, chain>>
        /\ Throw \/ UNCHANGED <<pc, pending>>
    BY <1>2 DEF MessageDropped
  <2>3. ControlInv'
    BY <2>1, <2>2, ThrowControl DEF IInv, ControlInv, Registered, chain
  <2>4. ASSUME NEW d \in Channel PROVE ChannelInv(d)'
    <3>1. /\ ChannelInv(d) /\ seen \in Nat /\ seen' = seen
          /\ confirmed[d] \in Nat /\ chan[d].minDepth \in Nat
          /\ ~Entering(d) /\ ~Entering(d)'
      BY <2>1, <2>2 DEF IInv, TypeOK, ChannelRecord, Throw, Entering, chain
    <3> QED
      BY <2>1, <2>2, <3>1, FrameInv DEF HasSent, Registered, ReadyCame, chain
  <2>5. AloneInv'
    <3>1. PICK c \in Channel : c = Head(inbox[p]).channel
      BY <1>2, TakeType DEF MessageDropped, IInv
    <3>2. \A d \in Channel : ~Entering(d) /\ (Registered(d)' <=> Registered(d))
      BY <2>1, <2>2 DEF Entering, Registered
    <3> QED
      BY <2>1, <2>2, <3>1, <3>2, AloneStep DEF chain
  <2> QED
    BY <2>1, <2>3, <2>4, <2>5 DEF IInv
<1> QED
  BY <1>1, <1>2, AcceptValidInv, SignedValidInv, ReadyValidInv DEF HandleMessage

(* The begin of a loop, a channel it skips and its end leave the channels  *)
(* alone.                                                                  *)
LEMMA QuietInv ==
  ASSUME IInv, TypeOK',
         \/ BlockBegin \/ BlockSkip \/ GoneSkip \/ LoopEnd
         \/ \E p \in Peer : GoneBegin(p)
  PROVE  IInv'
<1>1. /\ UNCHANGED <<channels, opening, chan, disk, pending, sent, replies, strays>>
      /\ UNCHANGED <<broadcast, confirmed, tip>>
      /\ pc \notin {"commit", "stalled"} /\ pc' \notin {"commit", "stalled"}
      /\ seen \in Nat /\ seen' \in Nat /\ seen' >= seen
  BY DEF BlockBegin, BlockSkip, GoneSkip, LoopEnd, GoneBegin, Looping,
         IInv, TypeOK, network, chain
<1>2. ControlInv'
  <2>1. CASE BlockBegin
    BY <1>1, <2>1 DEF BlockBegin, BlockAt, NoEvent, ControlInv, IInv, TypeOK
  <2>2. CASE BlockSkip \/ GoneSkip
    BY <2>2 DEF BlockSkip, GoneSkip, Looping, ControlInv, IInv, chain
  <2>3. CASE LoopEnd
    BY <2>3 DEF LoopEnd, ControlInv
  <2>4. CASE \E p \in Peer : GoneBegin(p)
    BY <2>4 DEF GoneBegin, Gone, NoEvent, ControlInv
  <2> QED
    BY <2>1, <2>2, <2>3, <2>4
<1>3. InboxInv'
  BY <1>1 DEF BlockBegin, BlockSkip, GoneSkip, LoopEnd, GoneBegin, IInv, InboxInv, ReadyCame,
              network
<1>4. ASSUME NEW d \in Channel PROVE ChannelInv(d)'
  <2>1. ChannelInv(d) /\ confirmed[d] \in Nat /\ chan[d].minDepth \in Nat
    BY DEF IInv, TypeOK, ChannelRecord
  <2>2. ~Entering(d) /\ ~Entering(d)'
    BY <1>1 DEF Entering
  <2> QED
    BY <1>1, <2>1, <2>2, FrameInv DEF HasSent, Registered, ReadyCame
<1>5. AloneInv'
  BY <1>1, AloneFrame
<1> QED
  BY <1>2, <1>3, <1>4, <1>5 DEF IInv

(* A block that confirms a funding transaction keeps the invariant. *)
LEMMA FundingConfirmedInv ==
  ASSUME IInv, TypeOK', FundingConfirmed PROVE IInv'
<1>0. PICK c \in Channel : c = channels[at] /\ Registered(c) /\ pc = "loop"
  BY LoopingChannel DEF FundingConfirmed, IInv
<1>1. /\ chan[c].state = NoChannelReady /\ confirmed[c] = event.height
      /\ event # NoEvent /\ event.kind = "block" /\ Return(c, AwaitingDepth)
      /\ chan' = [chan EXCEPT ![c] = MarkConfirmed(@, event.height)]
      /\ UNCHANGED <<channels, opening, disk, event, sent, network, chain>>
  BY <1>0 DEF FundingConfirmed, Looping, InBlock, NoEvent
<1>2. /\ chan \in [Channel -> ChannelRecord] /\ chan[c] \in ChannelRecord
      /\ ChannelInv(c) /\ ~Entering(c) /\ seen \in Nat
  BY <1>0 DEF IInv, TypeOK, Entering
<1>3. confirmed[c] > 0
  BY <1>1 DEF IInv, ControlInv
<1>4. /\ \A d \in Channel : d # c => chan'[d] = chan[d]
      /\ chan'[c] = MarkConfirmed(chan[c], event.height)
  BY <1>1, <1>2, UpdateFields
<1>5. /\ chan'[c].state = NoChannelReady /\ chan'[c].theirNext = chan[c].theirNext
      /\ chan'[c].funded = chan[c].funded /\ chan'[c].sig = chan[c].sig
      /\ chan'[c].minDepth = chan[c].minDepth /\ chan'[c].confHeight = confirmed[c]
  BY <1>1, <1>2, <1>4 DEF MarkConfirmed, ChannelRecord
<1>6. ControlInv'
  BY <1>0, <1>1, <1>5, ReturnControl, StateNames DEF Transitions, chain
<1>7. InboxInv'
  BY <1>1 DEF IInv, InboxInv, ReadyCame, network
<1>8. AloneInv' /\ \A d \in Channel : d # c => ChannelInv(d)'
  BY <1>0, <1>1, <1>4, OthersInv DEF Return, HasSent, network, chain
<1>9. OpeningInv(c)' /\ StorageInv(c)'
  <2>1. disk[c] # NotStored /\ disk[c] = chan[c]
    BY <1>0, <1>1, <1>2 DEF ChannelInv, StorageInv, StoredUpTo
  <2>2. OpeningInv(c)'
    BY <1>1, <1>2, <1>5 DEF ChannelInv, OpeningInv, Registered, HasSent, chain
  <2> QED
    BY <1>1, <1>2, <1>5, <2>1, <2>2
       DEF ChannelInv, StorageInv, SavedBefore, SigUnsaved, Registered, Return, Entering, chain
<1>10. ProgressInv(c)'
  BY <1>1, <1>2, <1>3, <1>5
     DEF ChannelInv, ProgressInv, InOrEntering, Entering, Return, HasChannelReady,
         HasSent, ReadyCame, network, chain
<1> QED
  BY <1>6, <1>7, <1>8, <1>9, <1>10 DEF IInv, ChannelInv

(* The block in which the depth is reached keeps the invariant. *)
LEMMA FundingDepthReachedInv ==
  ASSUME IInv, TypeOK', FundingDepthReached PROVE IInv'
<1>0. PICK c \in Channel : c = channels[at] /\ Registered(c) /\ pc = "loop"
  BY LoopingChannel DEF FundingDepthReached, IInv
<1>1. /\ chan[c].state = AwaitingDepth
      /\ event.height >= chan[c].confHeight + chan[c].minDepth - 1
      /\ event # NoEvent /\ event.kind = "block"
      /\ \/ /\ Send(c, "channel_ready", chan[c].ourNext)
            /\ Return(c, IF HasChannelReady(c) THEN Normal ELSE AwaitingReady)
         \/ Throw /\ UNCHANGED sent
      /\ UNCHANGED <<channels, opening, chan, disk, event, network, chain>>
  BY <1>0 DEF FundingDepthReached, Looping, DepthReached, ReadyHeight, NoEvent
<1>2. /\ chan[c] \in ChannelRecord /\ confirmed[c] \in Nat
      /\ ChannelInv(c) /\ ~Entering(c) /\ seen \in Nat
  BY <1>0 DEF IInv, TypeOK, Entering
<1>3. confirmed[c] # 0 /\ seen + 1 >= confirmed[c] + chan[c].minDepth
  <2>1. event.height = seen
    BY <1>1 DEF IInv, ControlInv
  <2>2. confirmed[c] # 0 /\ chan[c].confHeight = confirmed[c]
    BY <1>1, <1>2 DEF ChannelInv, ProgressInv, InOrEntering
  <2>3. chan[c].minDepth \in Nat
    BY <1>2 DEF ChannelRecord
  <2> QED
    BY <1>1, <1>2, <2>1, <2>2, <2>3
<1>4. \/ /\ \A d \in Channel :
              HasSent(d, "channel_ready")' <=> HasSent(d, "channel_ready") \/ d = c
         /\ Return(c, IF HasChannelReady(c) THEN Normal ELSE AwaitingReady)
      \/ /\ \A d \in Channel :
              HasSent(d, "channel_ready")' <=> HasSent(d, "channel_ready")
         /\ Throw
  <2>1. CASE Throw /\ UNCHANGED sent
    BY <2>1 DEF HasSent
  <2>2. CASE /\ Send(c, "channel_ready", chan[c].ourNext)
             /\ Return(c, IF HasChannelReady(c) THEN Normal ELSE AwaitingReady)
    <3>1. TypeOK /\ Send(c, "channel_ready", chan[c].ourNext)
      BY <2>2 DEF IInv
    <3>2. \A d \in Channel :
            HasSent(d, "channel_ready")' <=> HasSent(d, "channel_ready") \/ d = c
      BY <3>1, HasSentSend
    <3> QED
      BY <2>2, <3>2
  <2> QED
    BY <1>1, <2>1, <2>2
<1>5. ControlInv'
  BY <1>0, <1>1, ReturnControl, ThrowControl, StateNames DEF Transitions, chain
<1>6. InboxInv'
  BY <1>1 DEF IInv, InboxInv, ReadyCame, network
<1>7. AloneInv' /\ \A d \in Channel : d # c => ChannelInv(d)'
  BY <1>0, <1>1, <1>4, OthersInv DEF Return, Throw, network, chain
<1>8. OpeningInv(c)' /\ StorageInv(c)'
  <2>1. StoredUpTo(c) /\ disk[c].state = chan[c].state
    <3>1. StoredUpTo(c)
      BY <1>0, <1>2 DEF ChannelInv, StorageInv
    <3> QED
      BY <1>2, <3>1 DEF StoredUpTo, ChannelRecord
  <2>2. c \in broadcast => disk[c].sig = "valid"
    BY <1>0, <1>2 DEF ChannelInv, StorageInv, SigUnsaved
  <2>3. OpeningInv(c)'
    BY <1>0, <1>1, <1>2, <1>4 DEF ChannelInv, OpeningInv, Registered, chain
  <2>4. StoredUpTo(c)'
    BY <1>1, <2>1 DEF StoredUpTo
  <2> QED
    BY <1>0, <1>1, <1>2, <2>2, <2>3, <2>4 DEF ChannelInv, StorageInv, chain
<1>9. ProgressInv(c)'
  BY <1>1, <1>2, <1>3, <1>4
     DEF ChannelInv, ProgressInv, InOrEntering, Entering, Return, Throw, HasChannelReady,
         ReadyCame, network, chain
<1> QED
  BY <1>5, <1>6, <1>7, <1>8, <1>9 DEF IInv, ChannelInv

(* A lost connection of a channel that still initializes keeps the        *)
(* invariant: its funding transaction was not broadcast.                  *)
LEMMA AbandonInv == ASSUME IInv, TypeOK', Abandon PROVE IInv'
<1>0. PICK c \in Channel : c = channels[at] /\ Registered(c) /\ pc = "loop"
  BY LoopingChannel DEF Abandon, IInv
<1>1. /\ chan[c].state \in Initializing
      /\ \A d \in Channel : d # c => disk'[d] = disk[d]
      /\ \/ Return(c, Abandoned) /\ disk'[c] = NotStored
         \/ Throw /\ UNCHANGED disk
      /\ UNCHANGED <<channels, opening, chan, event, sent, network, chain>>
  BY <1>0 DEF Abandon, IInv, TypeOK
<1>2. ChannelInv(c) /\ ~Entering(c)
  BY <1>0 DEF IInv, Entering
<1>3. c \notin broadcast
  BY <1>0, <1>1, <1>2 DEF ChannelInv, StorageInv
<1>4. ControlInv'
  BY <1>0, <1>1, ReturnControl, ThrowControl, StateNames DEF Transitions, chain
<1>5. InboxInv'
  BY <1>1 DEF IInv, InboxInv, ReadyCame, network
<1>6. AloneInv' /\ \A d \in Channel : d # c => ChannelInv(d)'
  BY <1>0, <1>1, OthersInv DEF Return, Throw, HasSent, network, chain
<1>7. OpeningInv(c)' /\ StorageInv(c)'
  <2>1. OpeningInv(c)'
    BY <1>1, <1>2 DEF ChannelInv, OpeningInv, Registered, HasSent, chain
  <2>2. StoredUpTo(c)
    BY <1>0, <1>2 DEF ChannelInv, StorageInv
  <2>3. CASE Return(c, Abandoned) /\ disk'[c] = NotStored
    BY <1>1, <1>3, <2>1, <2>3 DEF StorageInv, SavedBefore, Return, Entering, chain
  <2>4. CASE Throw /\ UNCHANGED disk
    <3>1. StoredUpTo(c)'
      BY <1>1, <2>2, <2>4 DEF StoredUpTo
    <3> QED
      BY <1>1, <1>3, <2>1, <3>1 DEF StorageInv, chain
  <2> QED
    BY <1>1, <2>3, <2>4
<1>8. ProgressInv(c)'
  BY <1>1, <1>2
     DEF ChannelInv, ProgressInv, InOrEntering, Entering, Return, Throw, HasChannelReady,
         HasSent, ReadyCame, network, chain
<1> QED
  BY <1>4, <1>5, <1>6, <1>7, <1>8 DEF IInv, ChannelInv

(* transitionState keeps the invariant. *)
LEMMA CommitInv == ASSUME IInv, TypeOK', Commit PROVE IInv'
<1>0. /\ pending.channel \in Channel /\ Registered(pending.channel)
      /\ pending.to \in StateId \ {AwaitingAccept}
      /\ pending.to = AwaitingSigned => chan[pending.channel].state = AwaitingAccept
      /\ <<chan[pending.channel].state, pending.to>> \in Transitions
      /\ pc = "commit"
  BY DEF IInv, ControlInv, Commit, Transition
<1>1. PICK c \in Channel : c = pending.channel
  BY <1>0
<1>2. PICK to \in StateId \ {AwaitingAccept} : to = pending.to
  BY <1>0
<1>3. /\ chan' = [chan EXCEPT ![c].state = to]
      /\ \/ /\ disk' = [disk EXCEPT ![c] = chan'[c]]
            /\ pc' = IF event = NoEvent THEN "idle" ELSE "loop"
         \/ pc' = "stalled" /\ UNCHANGED disk
      /\ UNCHANGED <<channels, opening, event, at, sent, network, chain>>
  BY <1>1, <1>2 DEF Commit, Throw, Save
<1>4. /\ chan \in [Channel -> ChannelRecord] /\ chan[c] \in ChannelRecord
      /\ ChannelInv(c) /\ Entering(c) /\ Registered(c)
  BY <1>0, <1>1 DEF IInv, TypeOK, Entering
<1>5. /\ \A d \in Channel : d # c => chan'[d] = chan[d] /\ disk'[d] = disk[d]
      /\ chan'[c] = [chan[c] EXCEPT !.state = to]
      /\ disk'[c] = chan'[c] \/ (disk'[c] = disk[c] /\ pc' = "stalled")
  BY <1>3, <1>4, UpdateFields DEF IInv, TypeOK
<1>6. /\ chan'[c].state = to /\ chan'[c].theirNext = chan[c].theirNext
      /\ chan'[c].funded = chan[c].funded /\ chan'[c].sig = chan[c].sig
      /\ chan'[c].minDepth = chan[c].minDepth /\ chan'[c].confHeight = chan[c].confHeight
      /\ chan'[c] # NotStored
  <2>1. chan' \in [Channel -> ChannelRecord]
    BY DEF TypeOK
  <2>2. chan'[c] # NotStored
    BY <2>1, RecordIsStored
  <2> QED
    BY <1>4, <1>5, <2>2, StateFields
<1>7. ControlInv'
  BY <1>3 DEF IInv, ControlInv, chain
<1>8. InboxInv'
  BY <1>3 DEF IInv, InboxInv, ReadyCame, network
<1>9. ASSUME NEW d \in Channel, d # c PROVE ChannelInv(d)'
  <2>1. /\ ChannelInv(d) /\ seen \in Nat /\ confirmed[d] \in Nat
        /\ chan[d].minDepth \in Nat /\ ~Entering(d)
    BY <1>1, <1>9 DEF IInv, TypeOK, ChannelRecord, Entering
  <2>2. ~Entering(d)'
    BY <1>3 DEF Entering
  <2> QED
    BY <1>0, <1>3, <1>5, <1>9, <2>1, <2>2, FrameInv
       DEF HasSent, Registered, ReadyCame, network, chain
<1>10. OpeningInv(c)'
  BY <1>3, <1>4, <1>6 DEF ChannelInv, OpeningInv, Registered, HasSent, chain
<1>11. ProgressInv(c)'
  BY <1>2, <1>3, <1>4, <1>6
     DEF ChannelInv, ProgressInv, InOrEntering, Entering, HasChannelReady, HasSent,
         ReadyCame, network, chain
<1>12. StorageInv(c)'
  <2>1. \/ StoredUpTo(c)'
        \/ pc' = "stalled" /\ (OneBehind(c)' \/ chan'[c].state = Abandoned)
    <3>1. CASE disk'[c] = chan'[c]
      BY <1>6, <3>1 DEF StoredUpTo
    <3>2. CASE disk'[c] = disk[c] /\ pc' = "stalled"
      <4>1. \/ disk[c] # NotStored /\ disk[c].state = chan[c].state
            \/ disk[c] = NotStored /\ to = Abandoned
        <5>1. CASE StoredUpTo(c)
          BY <1>4, <5>1 DEF StoredUpTo, ChannelRecord
        <5> QED
          BY <1>0, <1>2, <1>4, <5>1 DEF ChannelInv, StorageInv, SavedBefore
      <4> QED
        BY <1>0, <1>1, <1>2, <1>6, <3>2, <4>1 DEF OneBehind
    <3> QED
      BY <1>5, <3>1, <3>2
  <2>2. c \in broadcast => chan[c].state # AwaitingAccept
    BY <1>4 DEF ChannelInv, OpeningInv
  <2> QED
    <3>1. c \in broadcast' =>
            /\ chan'[c].funded /\ chan'[c].sig = "valid"
            /\ disk'[c] # NotStored /\ disk'[c].funded
            /\ disk'[c].sig = "valid" \/ SigUnsaved(c)'
      BY <1>3, <1>4, <1>5, <1>6 DEF ChannelInv, StorageInv, SigUnsaved, chain
    <3>2. c \in broadcast' => chan'[c].state \notin Initializing \/ pc' = "stalled"
      BY <1>0, <1>1, <1>2, <1>3, <1>4, <1>6, <2>2 DEF ChannelInv, StorageInv, chain
    <3> QED
      BY <2>1, <3>1, <3>2 DEF StorageInv
<1>13. AloneInv'
  <2>1. \A d \in Channel : d # c => ~Entering(d) /\ (Registered(d)' <=> Registered(d))
    BY <1>1, <1>3 DEF Entering, Registered
  <2> QED
    BY <1>0, <1>3, <1>5, <2>1, AloneStep DEF chain
<1> QED
  BY <1>7, <1>8, <1>9, <1>10, <1>11, <1>12, <1>13 DEF IInv, ChannelInv

(* What the environment does with the messages of a channel: a            *)
(* channel_ready that came has come, and one in an inbox has come.        *)
LEMMA AppendInv ==
  ASSUME IInv, NEW p \in Peer, NEW msg, inbox' = [inbox EXCEPT ![p] = Append(@, msg)],
         \A d \in Channel : ReadyCame(d) => ReadyCame(d)',
         msg.type = "channel_ready" => ReadyCame(msg.channel)'
  PROVE  InboxInv'
<1>1. inbox \in [Peer -> Seq(Message)]
  BY DEF IInv, TypeOK
<1>2. ASSUME NEW q \in Peer, NEW i \in DOMAIN inbox'[q], inbox'[q][i].type = "channel_ready"
      PROVE  ReadyCame(inbox[q][i].channel)'
  <2>1. \/ i \in DOMAIN inbox[q] /\ inbox'[q][i] = inbox[q][i]
        \/ inbox'[q][i] = msg
    BY <1>1, <1>2
  <2>2. CASE i \in DOMAIN inbox[q] /\ inbox'[q][i] = inbox[q][i]
    <3>1. inbox[q][i] \in Message
      BY <1>1, <2>2
    <3>2. PICK d \in Channel : d = inbox[q][i].channel
      BY <3>1 DEF Message
    <3>3. ReadyCame(d)
      BY <1>2, <2>2, <3>2 DEF IInv, InboxInv
    <3> QED
      BY <2>2, <3>2, <3>3
  <2>3. CASE inbox'[q][i] = msg
    <3>1. PICK d : d = msg.channel
      OBVIOUS
    <3> QED
      BY <1>2, <2>3, <3>1
  <2> QED
    BY <2>1, <2>2, <2>3
<1> QED
  BY <1>2 DEF InboxInv

(* The environment keeps the invariant. *)
LEMMA EnvironmentInv ==
  ASSUME IInv, TypeOK',
         \/ \E c \in Channel : Fundee(c)
         \/ \E p \in Peer : Disconnect(p) \/ Reconnect(p)
         \/ \E p \in Peer, c \in Channel, m \in Strays : PeerStrays(p, c, m[1], m[2])
         \/ MineBlock
  PROVE  IInv'
<1> USE DEF MessageType
<1>1. ASSUME NEW c \in Channel, NEW t \in MessageType, NEW ds \in SUBSET Nat, Reply(c, t, ds)
      PROVE  /\ UNCHANGED manager /\ UNCHANGED <<broadcast, seen, confirmed>>
             /\ \A d \in Channel : ReadyCame(d) => ReadyCame(d)'
             /\ InboxInv'
  <2>1. replies \in [Channel -> [MessageType -> Nat]] /\ "channel_ready" \in MessageType
    BY DEF IInv, TypeOK
  <2>2. replies' = [replies EXCEPT ![c] = [replies[c] EXCEPT ![t] = @ + 1]] /\ strays' = strays
    BY <1>1 DEF Reply
  <2>3. \A d \in Channel : \A u \in MessageType :
          replies'[d][u] = replies[d][u] \/ replies'[d][u] = replies[d][u] + 1
    BY <2>1, <2>2
  <2>4. \A d \in Channel : ReadyCame(d) => ReadyCame(d)'
    BY <2>1, <2>2, <2>3 DEF ReadyCame
  <2>5. t = "channel_ready" => ReadyCame(c)'
    BY <2>1, <2>2 DEF ReadyCame
  <2>6. PICK msg : /\ msg.type = t /\ msg.channel = c
                   /\ inbox' = [inbox EXCEPT ![PeerOf[c]] = Append(@, msg)]
    BY <1>1 DEF Reply
  <2>7. PeerOf[c] \in Peer
    BY ChannelManagerAssumption DEF ChannelManagerAssumption
  <2>8. InboxInv'
    BY <2>4, <2>5, <2>6, <2>7, AppendInv
  <2> QED
    BY <1>1, <2>4, <2>8 DEF Reply, chain
<1>2. ASSUME NEW p \in Peer, NEW c \in Channel, NEW m \in Strays, PeerStrays(p, c, m[1], m[2])
      PROVE  /\ UNCHANGED manager /\ UNCHANGED <<broadcast, seen, confirmed>>
             /\ \A d \in Channel : ReadyCame(d) => ReadyCame(d)'
             /\ InboxInv'
  <2>1. PICK t, v : t = m[1] /\ v = m[2]
    OBVIOUS
  <2>2. /\ strays' = strays \cup {<<c, t>>} /\ replies' = replies
        /\ inbox' = [inbox EXCEPT ![p] =
                       Append(@, [type |-> t, channel |-> c, valid |-> v, depth |-> 0])]
        /\ UNCHANGED <<manager, chain>>
    BY <1>2, <2>1 DEF PeerStrays
  <2>3. PICK msg : msg = [type |-> t, channel |-> c, valid |-> v, depth |-> 0]
    OBVIOUS
  <2>4. \A d \in Channel : ReadyCame(d) => ReadyCame(d)'
    BY <2>2 DEF ReadyCame
  <2>5. msg.type = "channel_ready" => ReadyCame(msg.channel)'
    BY <2>2, <2>3 DEF ReadyCame
  <2>6. InboxInv'
    BY <2>2, <2>3, <2>4, <2>5, AppendInv
  <2> QED
    BY <2>2, <2>4, <2>6 DEF chain
<1>3. ASSUME NEW p \in Peer, Disconnect(p)
      PROVE  /\ UNCHANGED manager /\ UNCHANGED <<broadcast, seen, confirmed>>
             /\ \A d \in Channel : ReadyCame(d) => ReadyCame(d)'
             /\ InboxInv'
  <2>1. PICK n \in 0..Len(inbox[p]) : inbox' = [inbox EXCEPT ![p] = SubSeq(@, 1, n)]
    BY <1>3 DEF Disconnect
  <2>2. inbox \in [Peer -> Seq(Message)]
    BY DEF IInv, TypeOK
  <2>3. \A q \in Peer : \A i \in DOMAIN inbox'[q] :
          i \in DOMAIN inbox[q] /\ inbox'[q][i] = inbox[q][i]
    BY <2>1, <2>2
  <2> QED
    BY <1>3, <2>3 DEF IInv, InboxInv, ReadyCame, Disconnect, chain
<1>4. ASSUME MineBlock \/ \E p \in Peer : Reconnect(p)
      PROVE  /\ UNCHANGED manager /\ UNCHANGED <<broadcast, seen>>
             /\ \A d \in Channel : ReadyCame(d) => ReadyCame(d)'
             /\ InboxInv'
  BY <1>4 DEF MineBlock, Reconnect, network, chain, IInv, InboxInv, ReadyCame
<1>5. /\ UNCHANGED manager /\ UNCHANGED <<broadcast, seen>>
      /\ \A d \in Channel : confirmed[d] # 0 => confirmed'[d] = confirmed[d]
      /\ \A d \in Channel : ReadyCame(d) => ReadyCame(d)'
      /\ InboxInv'
  <2>1. CASE \E c \in Channel : Fundee(c)
    <3>1. Depths \in SUBSET Nat /\ {0} \in SUBSET Nat
      BY ChannelManagerAssumption DEF ChannelManagerAssumption
    <3>2. PICK c \in Channel, t \in MessageType, ds \in SUBSET Nat : Reply(c, t, ds)
      BY <2>1, <3>1 DEF Fundee, PeerAccepts, PeerSigns, PeerReady
    <3> QED
      BY <1>1, <3>2
  <2>2. CASE \E p \in Peer, c \in Channel, m \in Strays : PeerStrays(p, c, m[1], m[2])
    BY <1>2, <2>2
  <2>3. CASE \E p \in Peer : Disconnect(p)
    BY <1>3, <2>3
  <2>4. CASE \E p \in Peer : Reconnect(p)
    BY <1>4, <2>4 DEF Reconnect, chain, ReadyCame
  <2>5. CASE MineBlock
    BY <1>4, <2>5 DEF MineBlock, network, IInv, TypeOK, ReadyCame
  <2> QED
    BY <2>1, <2>2, <2>3, <2>4, <2>5
<1>6. ControlInv'
  BY <1>5 DEF IInv, ControlInv, Registered, manager
<1>7. ASSUME NEW d \in Channel PROVE ChannelInv(d)'
  <2>1. ChannelInv(d)
    BY DEF IInv
  <2>2. OpeningInv(d)'
    BY <1>5, <2>1 DEF ChannelInv, OpeningInv, Registered, HasSent, manager
  <2>3. StorageInv(d)'
    BY <1>5, <2>1 DEF ChannelInv, StorageInv, StoredUpTo, Registered, Entering, SavedBefore,
                      OneBehind, SigUnsaved, manager
  <2>4. ProgressInv(d)'
    BY <1>5, <2>1 DEF ChannelInv, ProgressInv, InOrEntering, Entering, HasChannelReady,
                      HasSent, manager
  <2> QED
    BY <2>2, <2>3, <2>4 DEF ChannelInv
<1>8. AloneInv'
  BY <1>5, AloneFrame DEF manager
<1> QED
  BY <1>5, <1>6, <1>7, <1>8 DEF IInv

-----------------------------------------------------------------------------
(* The invariant is inductive. *)
LEMMA InitInv == Init => IInv
<1> SUFFICES ASSUME Init PROVE IInv
  OBVIOUS
<1>1. TypeOK
  BY InitType
<1>2. ControlInv /\ InboxInv
  BY DEF Init, ControlInv, InboxInv
<1>3. ASSUME NEW c \in Channel PROVE ChannelInv(c)
  BY DEF Init, ChannelInv, OpeningInv, ProgressInv, StorageInv, InOrEntering, Entering,
         Registered, HasSent, HasChannelReady, NewChannel
<1>4. AloneInv
  BY DEF Init, AloneInv, Lags, Registered, SigUnsaved
<1> QED
  BY <1>1, <1>2, <1>3, <1>4 DEF IInv

LEMMA NextInv == IInv /\ [Next]_vars => IInv'
<1> SUFFICES ASSUME IInv, [Next]_vars PROVE IInv'
  OBVIOUS
<1>0. TypeOK /\ ControlInv
  BY DEF IInv
<1>1. ASSUME NEW c \in Channel, OpenChannel(c) PROVE IInv'
  BY <1>0, <1>1, OpenType, OpenInv
<1>2. ASSUME NEW p \in Peer, HandleMessage(p) PROVE IInv'
  BY <1>0, <1>2, HandlerType, HandleMessageInv
<1>3. CASE BlockBegin \/ \E p \in Peer : GoneBegin(p)
  BY <1>0, <1>3, BeginType, QuietInv
<1>4. CASE HandleLoop
  <2>1. TypeOK'
    BY <1>0, <1>4, LoopType
  <2> QED
    BY <1>4, <2>1, FundingConfirmedInv, FundingDepthReachedInv, AbandonInv, QuietInv
       DEF HandleLoop
<1>5. CASE Commit
  BY <1>0, <1>5, CommitType, CommitInv
<1>6. CASE \/ \E c \in Channel : Fundee(c)
           \/ \E p \in Peer : Disconnect(p) \/ Reconnect(p)
           \/ \E p \in Peer, c \in Channel, m \in Strays : PeerStrays(p, c, m[1], m[2])
           \/ MineBlock
  BY <1>0, <1>6, EnvironmentType, EnvironmentInv
<1>7. CASE UNCHANGED vars
  <2>1. UNCHANGED <<channels, opening, chan, disk, pc, event, at, pending, sent>>
    BY <1>7 DEF vars, manager
  <2>2. /\ UNCHANGED <<inbox, ready, closed, replies, strays, drops>>
        /\ UNCHANGED <<broadcast, confirmed, tip, seen>>
    BY <1>7 DEF vars, network, chain
  <2>3. TypeOK'
    BY <1>0, <2>1, <2>2 DEF TypeOK
  <2>4. ControlInv' /\ InboxInv'
    BY <2>1, <2>2 DEF IInv, ControlInv, InboxInv, ReadyCame, Registered
  <2>5. ASSUME NEW d \in Channel PROVE ChannelInv(d)'
    <3>1. ReadyCame(d)' <=> ReadyCame(d)
      BY <2>2 DEF ReadyCame
    <3> QED
      BY <2>1, <2>2, <3>1
         DEF IInv, ChannelInv, OpeningInv, ProgressInv, StorageInv, StoredUpTo, SavedBefore,
             OneBehind, SigUnsaved, InOrEntering, Entering, Registered, HasSent,
             HasChannelReady
  <2>6. AloneInv'
    BY <2>1, <2>2, AloneFrame
  <2> QED
    BY <2>3, <2>4, <2>5, <2>6 DEF IInv
<1> QED
  BY <1>1, <1>2, <1>3, <1>4, <1>5, <1>6, <1>7 DEF Next

THEOREM Invariance == Spec => []IInv
BY InitInv, NextInv, PTL DEF Spec

(* Every variable keeps its type. *)
THEOREM TypeCorrect == Spec => []TypeOK
<1>1. IInv => TypeOK
  BY DEF IInv
<1> QED
  BY <1>1, Invariance, PTL

(* A funding transaction is broadcast only with the fundee's valid        *)
(* signature held and the funding transaction in storage, whatever call   *)
(* fails and whatever connection is lost.  The signature itself reaches   *)
(* storage after the broadcast, and at most one is still to be stored.    *)
THEOREM FundsAreSafe == Spec => []BroadcastIsStored
<1>1. ASSUME IInv PROVE BroadcastIsStored
  <2>1. ASSUME NEW c \in broadcast, NEW d \in broadcast, SigUnsaved(c), SigUnsaved(d)
        PROVE  c = d
    BY <1>1, <2>1 DEF IInv, TypeOK, AloneInv
  <2>2. ASSUME NEW c \in broadcast
        PROVE  /\ chan[c].funded /\ chan[c].sig = "valid"
               /\ disk[c] # NotStored /\ disk[c].funded
               /\ disk[c].sig = "valid" \/ SigUnsaved(c)
    BY <1>1 DEF IInv, TypeOK, ChannelInv, StorageInv
  <2> QED
    BY <2>1, <2>2 DEF BroadcastIsStored
<1> QED
  BY <1>1, Invariance, PTL

(* channel_ready is sent only when the funding transaction is deep enough. *)
THEOREM DepthIsAwaited == Spec => []ReadyIsDeep
<1>1. IInv => ReadyIsDeep
  BY DEF IInv, ChannelInv, ProgressInv, ReadyIsDeep
<1> QED
  BY <1>1, Invariance, PTL

(* A channel becomes usable only when its channel_ready was sent and one  *)
(* has come for it, from whichever peer.                                  *)
THEOREM UseIsMutual == Spec => []NormalIsMutual
<1>1. IInv => NormalIsMutual
  BY DEF IInv, ChannelInv, ProgressInv, InOrEntering, NormalIsMutual
<1> QED
  BY <1>1, Invariance, PTL

(* At every moment storage holds every registered channel that is not     *)
(* abandoned as memory does, up to a channel_ready taken early, but for   *)
(* one, that is at most one transition behind.                            *)
THEOREM StorageFollows == Spec => []StoredUpToReady
<1>1. ASSUME IInv PROVE StoredUpToReady
  <2>1. ASSUME NEW c \in Channel, Lags(c)
        PROVE  (Entering(c) \/ pc = "stalled") /\ OneBehind(c)
    <3>1. \/ Entering(c) /\ SavedBefore(c)
          \/ pc = "stalled" /\ OneBehind(c)
      BY <1>1, <2>1 DEF IInv, ChannelInv, StorageInv, Lags
    <3>2. CASE Entering(c) /\ SavedBefore(c)
      <4>1. disk[c] = NotStored => chan[c].state \in Initializing
        <5>1. <<chan[c].state, pending.to>> \in Transitions
          BY <1>1, <3>2 DEF IInv, ControlInv, Entering
        <5>2. Abandoned \notin {AwaitingSigned, NoChannelReady, AwaitingDepth, AwaitingReady,
                                Normal, Failing}
          BY DEF Abandoned, AwaitingSigned, NoChannelReady, AwaitingDepth, AwaitingReady,
                 Normal, Failing
        <5> QED
          BY <3>2, <5>1, <5>2 DEF SavedBefore, Transitions
      <4> QED
        BY <3>2, <4>1 DEF SavedBefore, OneBehind
    <3> QED
      BY <3>1, <3>2
  <2>2. ASSUME NEW c \in Channel, NEW d \in Channel, Lags(c), Lags(d) PROVE c = d
    BY <1>1, <2>2 DEF IInv, AloneInv
  <2> QED
    BY <2>1, <2>2 DEF StoredUpToReady
<1> QED
  BY <1>1, Invariance, PTL

(* A failed or abandoned channel is left alone by every step. *)
THEOREM TheDeadStayDead == Spec => DeadStaysDead
<1> DEFINE Dies(c) == chan[c].state \in Dead =>
             /\ chan'[c] = chan[c]
             /\ sent'[c] = sent[c]
             /\ c \in broadcast' => c \in broadcast
<1>1. ASSUME IInv, [Next]_vars, NEW c \in Channel, chan[c].state \in Dead
      PROVE  /\ chan'[c] = chan[c]
             /\ sent'[c] = sent[c]
             /\ c \in broadcast' => c \in broadcast
  <2>0. /\ chan \in [Channel -> ChannelRecord] /\ sent \in [Channel -> SUBSET Sent]
        /\ ControlInv /\ OpeningInv(c)
    BY <1>1 DEF IInv, TypeOK, ChannelInv
  <2>1. ASSUME NEW d \in Channel, OpenChannel(d)
        PROVE  chan'[c] = chan[c] /\ sent'[c] = sent[c] /\ broadcast' = broadcast
    <3>1. opening[d] \in {"no", "creating", "saving"} => chan[d].state = "none"
      BY <1>1 DEF IInv, ChannelInv, OpeningInv
    <3>2. c # d
      BY <1>1, <2>1, <3>1 DEF OpenChannel, OpenBegin, OpenSend, OpenDone
    <3> QED
      BY <2>0, <2>1, <3>2 DEF OpenChannel, OpenBegin, OpenSend, OpenDone, Send, chain
  <2>2. ASSUME NEW p \in Peer, HandleMessage(p)
        PROVE  /\ chan'[c] = chan[c] /\ sent'[c] = sent[c]
               /\ c \in broadcast' => c \in broadcast
    <3>1. CASE AcceptValid(p)
      BY <1>1, <2>0, <3>1 DEF AcceptValid, Send, chain
    <3>2. CASE SignedValid(p)
      BY <1>1, <2>0, <3>2 DEF SignedValid
    <3>3. CASE ReadyValid(p)
      BY <1>1, <2>0, <3>3 DEF ReadyValid, chain
    <3>4. CASE AcceptInvalid(p) \/ SignedInvalid(p) \/ ReadyInvalid(p) \/ MessageDropped(p)
      BY <3>4 DEF AcceptInvalid, SignedInvalid, ReadyInvalid, MessageDropped, chain
    <3> QED
      BY <2>2, <3>1, <3>2, <3>3, <3>4 DEF HandleMessage
  <2>3. CASE HandleLoop
    <3>1. CASE FundingConfirmed
      BY <1>1, <2>0, <3>1 DEF FundingConfirmed, chain
    <3>2. CASE FundingDepthReached
      BY <1>1, <2>0, <3>2 DEF FundingDepthReached, Send, chain
    <3>3. CASE BlockSkip \/ Abandon \/ GoneSkip \/ LoopEnd
      BY <3>3 DEF BlockSkip, Abandon, GoneSkip, LoopEnd, chain
    <3> QED
      BY <2>3, <3>1, <3>2, <3>3 DEF HandleLoop
  <2>4. CASE Commit
    <3>1. c # pending.channel
      BY <1>1, <2>0, <2>4 DEF ControlInv, Commit
    <3> QED
      BY <2>0, <2>4, <3>1 DEF Commit, chain
  <2>5. CASE \/ BlockBegin \/ \E p \in Peer : GoneBegin(p) \/ Disconnect(p) \/ Reconnect(p)
             \/ MineBlock \/ \E d \in Channel : Fundee(d)
             \/ \E p \in Peer, d \in Channel, m \in Strays : PeerStrays(p, d, m[1], m[2])
    BY <2>5 DEF PeerStrays, BlockBegin, GoneBegin, Disconnect, Reconnect, MineBlock, Fundee, PeerAccepts,
                PeerSigns, PeerReady, Reply, manager, chain
  <2>6. CASE UNCHANGED vars
    BY <2>6 DEF vars, manager, chain
  <2> QED
    BY <1>1, <2>1, <2>2, <2>3, <2>4, <2>5, <2>6 DEF Next
<1>2. IInv /\ [Next]_vars => [\A c \in Channel : Dies(c)]_vars
  BY <1>1
<1> QED
  BY <1>2, Invariance, PTL DEF Spec, DeadStaysDead

-----------------------------------------------------------------------------
(* The BlockWatcher: its variables are those of Chains and BlockWatcher,   *)
(* but for `wait`, which is its pc.                                        *)
VARIABLES best, known, syncing, wait, target, held, timer, running, failed

Watcher == INSTANCE BlockWatcher WITH pc <- wait

USE BlockAssumption

(* The first blocks of a chain. *)
LEMMA AtProperties ==
  ASSUME NEW b \in Seq(Branch), NEW n \in 0..Len(b)
  PROVE  /\ Watcher!At(b, n) \in Seq(Branch) /\ Len(Watcher!At(b, n)) = n
         /\ \A i \in 1..n : Watcher!At(b, n)[i] = b[i]
<1>1. Len(b) \in Nat /\ n \in Nat
  BY LenProperties
<1>2. \A i \in 1..n : b[i] \in Branch
  BY <1>1, ElementOfSeq
<1>3. /\ SubSeq(b, 1, n) \in Seq(Branch)
      /\ Len(SubSeq(b, 1, n)) = IF 1 <= n THEN n - 1 + 1 ELSE 0
      /\ \A i \in 1..n - 1 + 1 : SubSeq(b, 1, n)[i] = b[1 + i - 1]
  <2>1. 1 \in Int /\ n \in Int
    BY <1>1
  <2> QED
    BY <2>1, <1>2, SubSeqProperties
<1>4. \A i \in 1..n : 1 + i - 1 = i /\ i \in 1..n - 1 + 1
  BY <1>1
<1> QED
  BY <1>1, <1>3, <1>4 DEF Watcher!At

LEMMA AtAt ==
  ASSUME NEW b \in Seq(Branch), NEW n \in 0..Len(b), NEW m \in 0..n
  PROVE  Watcher!At(Watcher!At(b, n), m) = Watcher!At(b, m)
<1>1. Len(b) \in Nat /\ n \in Nat /\ m \in 0..Len(b)
  BY LenProperties
<1>2. Watcher!At(b, n) \in Seq(Branch) /\ Len(Watcher!At(b, n)) = n /\ \A i \in 1..n : Watcher!At(b, n)[i] = b[i]
  BY AtProperties
<1>3. /\ Watcher!At(Watcher!At(b, n), m) \in Seq(Branch) /\ Len(Watcher!At(Watcher!At(b, n), m)) = m
      /\ \A i \in 1..m : Watcher!At(Watcher!At(b, n), m)[i] = Watcher!At(b, n)[i]
  BY <1>2, AtProperties
<1>4. Watcher!At(b, m) \in Seq(Branch) /\ Len(Watcher!At(b, m)) = m /\ \A i \in 1..m : Watcher!At(b, m)[i] = b[i]
  BY <1>1, AtProperties
<1>5. \A i \in 1..m : Watcher!At(Watcher!At(b, n), m)[i] = Watcher!At(b, m)[i]
  BY <1>1, <1>2, <1>3, <1>4
<1> QED
  BY <1>3, <1>4, <1>5, SeqEqual

LEMMA AtAll == ASSUME NEW b \in Seq(Branch) PROVE Watcher!At(b, Len(b)) = b
<1>1. Len(b) \in 0..Len(b)
  BY LenProperties
<1>2. /\ Watcher!At(b, Len(b)) \in Seq(Branch) /\ Len(Watcher!At(b, Len(b))) = Len(b)
      /\ \A i \in 1..Len(b) : Watcher!At(b, Len(b))[i] = b[i]
  BY <1>1, AtProperties
<1> QED
  BY <1>2, SeqEqual

(* A block is its own ancestor, the first block is one of every block, and *)
(* the ancestors of an ancestor are ancestors.                             *)
LEMMA AncestorProperties ==
  ASSUME NEW b \in Seq(Branch)
  PROVE  /\ b \in Watcher!Ancestors(b) /\ <<>> \in Watcher!Ancestors(b)
         /\ \A c \in Watcher!Ancestors(b) :
              c \in Seq(Branch) /\ c = Watcher!At(b, Len(c)) /\ Len(c) \in 0..Len(b)
              /\ Watcher!Ancestors(c) \subseteq Watcher!Ancestors(b)
<1>0. Len(b) \in Nat
  BY LenProperties
<1>1. b \in Watcher!Ancestors(b)
  BY <1>0, AtAll DEF Watcher!Ancestors
<1>2. <<>> \in Watcher!Ancestors(b)
  <2>1. 0 \in 0..Len(b)
    BY <1>0
  <2>2. Watcher!At(b, 0) \in Seq(Branch) /\ Len(Watcher!At(b, 0)) = 0
    BY <2>1, AtProperties
  <2>3. Watcher!At(b, 0) = <<>>
    BY <2>2, EmptySeq
  <2> QED
    BY <2>1, <2>3 DEF Watcher!Ancestors
<1>3. ASSUME NEW c \in Watcher!Ancestors(b)
      PROVE  c \in Seq(Branch) /\ c = Watcher!At(b, Len(c)) /\ Len(c) \in 0..Len(b)
             /\ Watcher!Ancestors(c) \subseteq Watcher!Ancestors(b)
  <2>1. PICK n \in 0..Len(b) : c = Watcher!At(b, n)
    BY DEF Watcher!Ancestors
  <2>2. c \in Seq(Branch) /\ Len(c) = n
    BY <2>1, AtProperties
  <2>3. ASSUME NEW m \in 0..n PROVE Watcher!At(c, m) \in Watcher!Ancestors(b)
    <3>1. m \in 0..Len(b)
      BY <1>0
    <3> QED
      BY <2>1, <3>1, AtAt DEF Watcher!Ancestors
  <2> QED
    BY <2>1, <2>2, <2>3 DEF Watcher!Ancestors
<1> QED
  BY <1>1, <1>2, <1>3

(* What the watcher connects follows what it knows. *)
LEMMA NextProperties ==
  ASSUME NEW b \in Seq(Branch), NEW k \in Watcher!Ancestors(b), k # b
  PROVE  /\ Watcher!At(b, Len(k) + 1) \in Watcher!Ancestors(b)
         /\ Watcher!At(b, Len(k) + 1) # <<>> /\ Watcher!Front(Watcher!At(b, Len(k) + 1)) = k
<1>0. Len(b) \in Nat
  BY LenProperties
<1>1. k \in Seq(Branch) /\ k = Watcher!At(b, Len(k)) /\ Len(k) \in 0..Len(b)
  BY AncestorProperties
<1>2. Len(k) # Len(b)
  BY <1>1, AtAll
<1>3. Len(k) + 1 \in 0..Len(b) /\ Len(k) + 1 # 0 /\ Len(k) \in 0..(Len(k) + 1)
      /\ Len(k) + 1 - 1 = Len(k)
  BY <1>0, <1>1, <1>2
<1> DEFINE n == Watcher!At(b, Len(k) + 1)
<1>4. n \in Seq(Branch) /\ Len(n) = Len(k) + 1
  BY <1>3, AtProperties
<1>5. n # <<>>
  BY <1>3, <1>4, EmptySeq
<1>6. Watcher!Front(n) = Watcher!At(n, Len(k))
  BY <1>3, <1>4 DEF Watcher!Front, Watcher!At
<1>7. Watcher!At(n, Len(k)) = Watcher!At(b, Len(k))
  BY <1>3, AtAt
<1> QED
  BY <1>1, <1>3, <1>5, <1>6, <1>7 DEF Watcher!Ancestors

LEMMA FrontProperties ==
  ASSUME NEW b \in Seq(Branch), b # <<>>
  PROVE  Watcher!Front(b) \in Watcher!Ancestors(b) /\ Watcher!Front(b) # b
<1>1. Len(b) \in Nat \ {0}
  BY EmptySeq
<1>2. Len(b) - 1 \in 0..Len(b) /\ Len(b) - 1 # Len(b)
  BY <1>1
<1>3. Watcher!Front(b) = Watcher!At(b, Len(b) - 1)
  BY DEF Watcher!Front, Watcher!At
<1>4. Len(Watcher!Front(b)) = Len(b) - 1
  BY <1>2, <1>3, AtProperties
<1> QED
  BY <1>2, <1>3, <1>4 DEF Watcher!Ancestors

LEMMA AncestorsOfBlock == \A b \in Block : Watcher!Ancestors(b) \subseteq Block
BY DEF Watcher!Ancestors, Watcher!At
-----------------------------------------------------------------------------
LEMMA WatcherInit == Watcher!Init => Watcher!IInv
<1> SUFFICES ASSUME Watcher!Init PROVE Watcher!IInv
  OBVIOUS
<1>1. /\ best \in Block /\ best \in Seq(Branch)
      /\ known # None => known \in Block /\ known \in Seq(Branch)
  BY DEF Watcher!Init
<1>2. best \in Watcher!Ancestors(best) /\ <<>> \in Watcher!Ancestors(best)
      /\ \A c \in Watcher!Ancestors(best) : Watcher!Ancestors(c) \subseteq Watcher!Ancestors(best)
  BY <1>1, AncestorProperties
<1>3. known # None =>
        known \in Watcher!Ancestors(known)
        /\ \A c \in Watcher!Ancestors(known) : Watcher!Ancestors(c) \subseteq Watcher!Ancestors(known)
  BY <1>1, AncestorProperties
<1>4. /\ Watcher!Ancestors(best) \subseteq Block
      /\ known # None => Watcher!Ancestors(known) \subseteq Block
  BY <1>1, AncestorsOfBlock
<1>5. Watcher!TypeOK
  BY <1>1, <1>2, <1>3, <1>4 DEF Watcher!Init, Watcher!TypeOK
<1>6. Watcher!ChainInv
  BY <1>2, <1>3 DEF Watcher!Init, Watcher!ChainInv, Watcher!OnChain
<1>7. Watcher!SyncInv /\ Watcher!KnownIsView
  BY DEF Watcher!Init, Watcher!SyncInv, Watcher!KnownIsView
<1> QED
  BY <1>5, <1>6, <1>7 DEF Watcher!IInv

LEMMA MineKeeps == Watcher!IInv /\ Watcher!Mine => Watcher!IInv'
<1> SUFFICES ASSUME Watcher!IInv, Watcher!Mine PROVE Watcher!IInv'
  OBVIOUS
<1>0. PICK b \in Block : /\ best' = b /\ mined' = mined \cup Watcher!Ancestors(b)
                         /\ stale' = stale \cup (mined \ Watcher!Ancestors(b))
  BY DEF Watcher!Mine
<1>1. UNCHANGED <<known, syncing, wait, target, held, timer, running, failed, view>>
  BY DEF Watcher!Mine, Watcher!sync
<1>2. b \in Watcher!Ancestors(b) /\ <<>> \in Watcher!Ancestors(b) /\ Watcher!Ancestors(b) \subseteq Block
      /\ \A c \in Watcher!Ancestors(b) : Watcher!Ancestors(c) \subseteq Watcher!Ancestors(b)
  BY AncestorProperties, AncestorsOfBlock
<1>3. Watcher!TypeOK'
  BY <1>0, <1>1, <1>2 DEF Watcher!IInv, Watcher!TypeOK
<1>4. Watcher!ChainInv'
  BY <1>0, <1>2 DEF Watcher!IInv, Watcher!ChainInv, Watcher!OnChain
<1>5. Watcher!SyncInv'
  BY <1>0, <1>1 DEF Watcher!IInv, Watcher!SyncInv
<1>6. Watcher!KnownIsView'
  BY <1>1 DEF Watcher!IInv, Watcher!KnownIsView
<1> QED
  BY <1>3, <1>4, <1>5, <1>6 DEF Watcher!IInv

(* Every other step leaves the chain alone. *)
LEMMA ChainKept ==
  ASSUME Watcher!IInv, UNCHANGED Watcher!chain
  PROVE  Watcher!ChainInv'
BY DEF Watcher!IInv, Watcher!ChainInv, Watcher!OnChain, Watcher!chain

LEMMA PollKeeps ==
  ASSUME Watcher!IInv, NEW due \in BOOLEAN, Watcher!OnPoll(due), running' \in BOOLEAN
  PROVE  Watcher!IInv'
<1>1. Watcher!TypeOK'
  BY DEF Watcher!IInv, Watcher!TypeOK, Watcher!OnPoll, Watcher!chain
<1>2. Watcher!ChainInv'
  BY ChainKept DEF Watcher!OnPoll
<1>3. syncing \/ (~failed /\ wait = "idle")
  BY DEF Watcher!IInv, Watcher!TypeOK, Watcher!SyncInv
<1>4. Watcher!SyncInv' /\ Watcher!KnownIsView'
  BY <1>3 DEF Watcher!IInv, Watcher!SyncInv, Watcher!KnownIsView, Watcher!OnPoll,
              Watcher!chain
<1> QED
  BY <1>1, <1>2, <1>4 DEF Watcher!IInv

LEMMA StopKeeps == Watcher!IInv /\ Watcher!Stop => Watcher!IInv'
<1> SUFFICES ASSUME Watcher!IInv, Watcher!Stop PROVE Watcher!IInv'
  OBVIOUS
<1>1. Watcher!TypeOK'
  BY DEF Watcher!IInv, Watcher!TypeOK, Watcher!Stop, Watcher!chain
<1>2. Watcher!ChainInv'
  BY ChainKept DEF Watcher!Stop
<1>3. Watcher!SyncInv' /\ Watcher!KnownIsView'
  BY DEF Watcher!IInv, Watcher!SyncInv, Watcher!KnownIsView, Watcher!Stop, Watcher!chain
<1> QED
  BY <1>1, <1>2, <1>3 DEF Watcher!IInv

LEMMA BestBlockHashKeeps == Watcher!IInv /\ Watcher!BestBlockHash => Watcher!IInv'
<1> SUFFICES ASSUME Watcher!IInv, Watcher!BestBlockHash PROVE Watcher!IInv'
  OBVIOUS
<1>0. wait = "best" /\ ~failed /\ known = view /\ best \in mined
  BY DEF Watcher!IInv, Watcher!SyncInv, Watcher!KnownIsView, Watcher!ChainInv,
         Watcher!BestBlockHash
<1>1. Watcher!TypeOK'
  BY <1>0 DEF Watcher!IInv, Watcher!TypeOK, Watcher!BestBlockHash, Watcher!Loop,
              Watcher!NotSyncing, Watcher!chain
<1>2. Watcher!ChainInv'
  BY ChainKept DEF Watcher!BestBlockHash
<1>3. known' = view' /\ known' \in mined
  BY <1>0 DEF Watcher!IInv, Watcher!TypeOK, Watcher!BestBlockHash, Watcher!Loop
<1>4. Watcher!SyncInv' /\ Watcher!KnownIsView'
  BY <1>0, <1>3 DEF Watcher!IInv, Watcher!SyncInv, Watcher!KnownIsView,
                    Watcher!BestBlockHash, Watcher!Loop, Watcher!NotSyncing,
                    Watcher!chain
<1> QED
  BY <1>1, <1>2, <1>4 DEF Watcher!IInv

(* An orphaned block has left the best chain, and the block connected next *)
(* follows the one that is known.                                          *)
LEMMA KnownHeaderKeeps == Watcher!IInv /\ Watcher!KnownHeader => Watcher!IInv'
<1> SUFFICES ASSUME Watcher!IInv, Watcher!KnownHeader PROVE Watcher!IInv'
  OBVIOUS
<1>0. wait = "header" /\ ~failed /\ syncing /\ known = view /\ known \in mined
      /\ best \in Seq(Branch)
  BY DEF Watcher!IInv, Watcher!TypeOK, Watcher!SyncInv, Watcher!KnownIsView,
         Watcher!KnownHeader
<1>1. CASE Watcher!Orphaned(known)
  <2>1. held' = known /\ wait' = "disconnect" /\ known \in stale
    BY <1>0, <1>1 DEF Watcher!IInv, Watcher!ChainInv, Watcher!KnownHeader,
                      Watcher!Orphaned, Watcher!OnChain
  <2>2. Watcher!TypeOK'
    BY <1>0, <2>1 DEF Watcher!IInv, Watcher!TypeOK, Watcher!KnownHeader, Watcher!chain
  <2>3. Watcher!SyncInv' /\ Watcher!KnownIsView'
    BY <1>0, <2>1 DEF Watcher!IInv, Watcher!SyncInv, Watcher!KnownIsView,
                      Watcher!KnownHeader, Watcher!chain
  <2> QED
    BY <2>2, <2>3, ChainKept DEF Watcher!IInv, Watcher!KnownHeader
<1>2. CASE ~Watcher!Orphaned(known)
  <2>1. /\ known # best /\ known \in Watcher!Ancestors(best)
        /\ held' = Watcher!NextOf(known) /\ wait' = "connect"
    BY <1>2 DEF Watcher!KnownHeader, Watcher!Orphaned, Watcher!OnChain
  <2>2. held' \in Watcher!Ancestors(best) /\ held' # <<>> /\ Watcher!Front(held') = known
    BY <1>0, <2>1, NextProperties DEF Watcher!NextOf
  <2>3. held' \in mined
    BY <2>2 DEF Watcher!IInv, Watcher!ChainInv, Watcher!OnChain
  <2>4. Watcher!TypeOK'
    BY <1>0, <2>1 DEF Watcher!IInv, Watcher!TypeOK, Watcher!KnownHeader, Watcher!chain
  <2>5. Watcher!SyncInv' /\ Watcher!KnownIsView'
    BY <1>0, <2>1, <2>2, <2>3 DEF Watcher!IInv, Watcher!SyncInv, Watcher!KnownIsView,
                                  Watcher!KnownHeader, Watcher!chain
  <2> QED
    BY <2>4, <2>5, ChainKept DEF Watcher!IInv, Watcher!KnownHeader
<1> QED
  BY <1>1, <1>2

(* The block before a stale one was mined too. *)
LEMMA StaleFront ==
  ASSUME Watcher!IInv, NEW b \in stale
  PROVE  b # <<>> /\ Watcher!Front(b) \in mined
<1>1. b \in mined /\ b \in Seq(Branch) /\ b # <<>>
  BY DEF Watcher!IInv, Watcher!TypeOK, Watcher!ChainInv
<1>2. Watcher!Front(b) \in Watcher!Ancestors(b)
  BY <1>1, FrontProperties
<1> QED
  BY <1>1, <1>2 DEF Watcher!IInv, Watcher!ChainInv

LEMMA BlockCallsKeep ==
  Watcher!IInv /\ (Watcher!ConnectBlock \/ Watcher!DisconnectBlock) => Watcher!IInv'
<1>1. ASSUME Watcher!IInv, Watcher!ConnectBlock PROVE Watcher!IInv'
  <2>1. Watcher!TypeOK'
    BY <1>1 DEF Watcher!IInv, Watcher!TypeOK, Watcher!SyncInv, Watcher!ConnectBlock,
                Watcher!chain
  <2>2. Watcher!SyncInv' /\ Watcher!KnownIsView'
    BY <1>1 DEF Watcher!IInv, Watcher!SyncInv, Watcher!KnownIsView,
                Watcher!ConnectBlock, Watcher!chain
  <2> QED
    BY <1>1, <2>1, <2>2, ChainKept DEF Watcher!IInv, Watcher!ConnectBlock
<1>2. ASSUME Watcher!IInv, Watcher!DisconnectBlock PROVE Watcher!IInv'
  <2>0. held \in stale /\ Watcher!Front(held) \in mined
    BY <1>2, StaleFront DEF Watcher!IInv, Watcher!SyncInv, Watcher!DisconnectBlock
  <2>1. Watcher!TypeOK'
    BY <1>2, <2>0 DEF Watcher!IInv, Watcher!TypeOK, Watcher!DisconnectBlock,
                      Watcher!chain
  <2>2. Watcher!SyncInv' /\ Watcher!KnownIsView'
    BY <1>2 DEF Watcher!IInv, Watcher!SyncInv, Watcher!KnownIsView,
                Watcher!DisconnectBlock, Watcher!chain
  <2> QED
    BY <1>2, <2>1, <2>2, ChainKept DEF Watcher!IInv, Watcher!DisconnectBlock
<1> QED
  BY <1>1, <1>2

LEMMA CallsReturned == Watcher!IInv /\ (Watcher!Connected \/ Watcher!Disconnected) => Watcher!IInv'
<1> SUFFICES ASSUME Watcher!IInv, Watcher!Connected \/ Watcher!Disconnected PROVE Watcher!IInv'
  OBVIOUS
<1>1. PICK k \in mined : k = view /\ Watcher!Loop(target, k)
  <2>1. CASE Watcher!Connected
    BY <2>1 DEF Watcher!IInv, Watcher!SyncInv, Watcher!Connected
  <2>2. CASE Watcher!Disconnected
    BY <2>2, StaleFront DEF Watcher!IInv, Watcher!SyncInv, Watcher!Disconnected,
                            Watcher!Previous
  <2> QED
    BY <2>1, <2>2
<1>2. ~failed /\ syncing /\ UNCHANGED <<Watcher!chain, target, held, running, failed, view>>
  BY DEF Watcher!IInv, Watcher!SyncInv, Watcher!Connected, Watcher!Disconnected
<1>3. Watcher!TypeOK'
  BY <1>1, <1>2 DEF Watcher!IInv, Watcher!TypeOK, Watcher!Loop, Watcher!NotSyncing,
                    Watcher!chain
<1>4. Watcher!SyncInv' /\ Watcher!KnownIsView'
  BY <1>1, <1>2 DEF Watcher!IInv, Watcher!SyncInv, Watcher!KnownIsView, Watcher!Loop,
                    Watcher!NotSyncing, Watcher!chain
<1> QED
  BY <1>2, <1>3, <1>4, ChainKept DEF Watcher!IInv

LEMMA FailKeeps == Watcher!IInv /\ Watcher!Fail => Watcher!IInv'
<1> SUFFICES ASSUME Watcher!IInv, Watcher!Fail PROVE Watcher!IInv'
  OBVIOUS
<1>1. Watcher!TypeOK'
  BY DEF Watcher!IInv, Watcher!TypeOK, Watcher!Fail, Watcher!chain
<1>2. Watcher!SyncInv' /\ Watcher!KnownIsView'
  BY DEF Watcher!IInv, Watcher!SyncInv, Watcher!KnownIsView, Watcher!Fail, Watcher!chain
<1> QED
  BY <1>1, <1>2, ChainKept DEF Watcher!IInv, Watcher!Fail

LEMMA WatcherStutters == Watcher!IInv /\ UNCHANGED Watcher!vars => Watcher!IInv'
BY DEF Watcher!IInv, Watcher!TypeOK, Watcher!ChainInv, Watcher!SyncInv,
       Watcher!KnownIsView, Watcher!OnChain, Watcher!vars, Watcher!chain, Watcher!sync

(* The inductive invariant: the known ancestors of what was ever mined,    *)
(* and where a sync stands with what its user has been told.               *)
THEOREM WatcherInvariance == Watcher!Spec => []Watcher!IInv
<1>1. Watcher!IInv /\ [Watcher!Next]_(Watcher!vars) => Watcher!IInv'
  <2> SUFFICES ASSUME Watcher!IInv, [Watcher!Next]_(Watcher!vars) PROVE Watcher!IInv'
    OBVIOUS
  <2>0. timer \in BOOLEAN /\ running \in BOOLEAN
    BY DEF Watcher!IInv, Watcher!TypeOK
  <2>1. CASE Watcher!Start \/ Watcher!PollDue
    BY <2>0, <2>1, PollKeeps DEF Watcher!Start, Watcher!PollDue
  <2>2. CASE Watcher!Sync
    BY <2>2, BestBlockHashKeeps, KnownHeaderKeeps, BlockCallsKeep,
       CallsReturned DEF Watcher!Sync
  <2>3. CASE Watcher!Mine \/ Watcher!Stop \/ Watcher!Fail \/ UNCHANGED Watcher!vars
    BY <2>3, MineKeeps, StopKeeps, FailKeeps, WatcherStutters
  <2> QED
    BY <2>1, <2>2, <2>3 DEF Watcher!Next
<1> QED
  BY <1>1, WatcherInit, PTL DEF Watcher!Spec

(* A watcher made with the knownHash of another goes on where that one's   *)
(* user is, whenever no call is in progress.                               *)
THEOREM KnownIsTold == Watcher!Spec => []Watcher!KnownIsView
<1>1. Watcher!IInv => Watcher!KnownIsView
  BY DEF Watcher!IInv
<1> QED
  BY <1>1, WatcherInvariance, PTL

(* The user is told of every block of the best chain in order, and of the  *)
(* end of none but orphaned ones: BlockWatcher implements ChainFollower.   *)
THEOREM WatcherFollows == Watcher!Spec => IsFollower
<1> DEFINE Step == [Follower!Next]_<<mined, stale, view>>
<1>1. Watcher!Init => Follower!Init
  <2> SUFFICES ASSUME Watcher!Init, known # None PROVE known \in mined
    BY DEF Watcher!Init, Follower!Init
  <2>1. known \in Seq(Branch)
    BY DEF Watcher!Init
  <2> QED
    BY <2>1, AncestorProperties DEF Watcher!Init
<1>2. Watcher!IInv /\ [Watcher!Next]_(Watcher!vars) => Step
  <2> SUFFICES ASSUME Watcher!IInv, [Watcher!Next]_(Watcher!vars) PROVE Step
    OBVIOUS
  <2>1. CASE Watcher!Mine
    BY <2>1 DEF Watcher!Mine, Follower!Next, Follower!Mine
  <2>2. CASE Watcher!BestBlockHash
    BY <2>2 DEF Watcher!IInv, Watcher!ChainInv, Watcher!SyncInv, Watcher!KnownIsView,
                Watcher!BestBlockHash, Watcher!chain,
                Follower!Next, Follower!Start
  <2>3. CASE Watcher!ConnectBlock
    <3>1. /\ view = known /\ held \in mined /\ held # <<>>
          /\ Watcher!Front(held) = known /\ known \in mined
      BY <2>3 DEF Watcher!IInv, Watcher!SyncInv, Watcher!KnownIsView,
                  Watcher!ConnectBlock
    <3>2. view # None
      BY <3>1 DEF Watcher!IInv, Watcher!TypeOK
    <3> QED
      BY <2>3, <3>1, <3>2 DEF Watcher!ConnectBlock, Watcher!chain,
                              Follower!Next, Follower!Connect,
                Watcher!Front, Follower!Front
  <2>4. CASE Watcher!DisconnectBlock
    <3>1. view = known /\ held = known /\ held \in stale /\ known \in mined /\ held # <<>>
      BY <2>4, StaleFront DEF Watcher!IInv, Watcher!SyncInv, Watcher!KnownIsView,
                              Watcher!DisconnectBlock
    <3>2. view # None
      BY <3>1 DEF Watcher!IInv, Watcher!TypeOK
    <3> QED
      BY <2>4, <3>1, <3>2 DEF Watcher!DisconnectBlock, Watcher!chain,
                              Follower!Next, Follower!Disconnect,
                Watcher!Front, Follower!Front
  <2>5. CASE \/ Watcher!Start \/ Watcher!PollDue \/ Watcher!Stop \/ Watcher!KnownHeader
             \/ Watcher!Connected \/ Watcher!Disconnected \/ Watcher!Fail
             \/ UNCHANGED Watcher!vars
    BY <2>5 DEF Watcher!Start, Watcher!PollDue, Watcher!OnPoll, Watcher!Stop,
                Watcher!KnownHeader, Watcher!Connected, Watcher!Disconnected,
                Watcher!Fail,
                Watcher!vars, Watcher!chain
  <2> QED
    BY <2>1, <2>2, <2>3, <2>4, <2>5 DEF Watcher!Next, Watcher!Sync
<1> QED
  BY <1>1, <1>2, WatcherInvariance, PTL DEF Watcher!Spec, IsFollower,
                                            Follower!Spec
=============================================================================
