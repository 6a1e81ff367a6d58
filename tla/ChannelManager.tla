--------------------------- MODULE ChannelManager ---------------------------
(***************************************************************************)
(* The opening of channels by the funder: ChannelManager, the hierarchical *)
(* state machine it drives (StateMachine, StateMachineFactory,             *)
(* TransitionFactory), the Channel objects and the IChannelStorage they    *)
(* are saved in.                                                           *)
(*                                                                         *)
(* Handlers run one at a time, as LightningEventQueue calls them, but they *)
(* are asynchronous: a handler is cut where it awaits something another    *)
(* party can observe, that is before transitionState, between              *)
(* storage.remove and transitionState, and between two channels of the     *)
(* loops over `channels`.  openChannel is called by the user and runs      *)
(* beside the queue.  A handler that throws leaves the queue's             *)
(* `processing` flag set, so nothing is handled afterwards ("stalled").    *)
(*                                                                         *)
(* The fundee, the wallet, the connection and the chain are the            *)
(* environment.  The chain only grows here.                                *)
(***************************************************************************)
EXTENDS Integers, Sequences, FiniteSets

CONSTANTS
  Channel,        \* the channels the user tries to open
  Peer,           \* the fundees
  PeerOf,         \* the fundee of each channel (Channel.peerId)
  Depths,         \* values of minimum_depth that accept_channel may carry
  Verdicts,       \* may the fundee's messages be valid (TRUE), invalid (FALSE)
  Strays,         \* the <<type, validity>> of messages that another peer may send
  PeerMayLead,    \* may the fundee see a block before the funder does
  CallsMayFail,   \* may the wallet, the Bitcoin node or the storage reject a call
  MaxHeight,      \* bound: height of the last block
  MaxDrops,       \* bound: number of lost connections
  MaxReplies,     \* bound: how often the fundee sends each message of a channel
  MaxStrays       \* bound: number of messages for a channel from another peer

ASSUME ChannelManagerAssumption ==
  /\ PeerOf \in [Channel -> Peer]
  /\ Depths \subseteq Nat
  /\ Verdicts \subseteq BOOLEAN
  /\ Strays \subseteq {<<"funding_signed", FALSE>>} \cup {"channel_ready"} \X BOOLEAN
  /\ PeerMayLead \in BOOLEAN
  /\ CallsMayFail \in BOOLEAN
  /\ MaxHeight \in Nat
  /\ MaxDrops \in Nat
  /\ MaxReplies \in Nat
  /\ MaxStrays \in Nat

VARIABLES
  channels,  \* ChannelManager.channels, in the order they were pushed
  opening,   \* how far the call of openChannel for a channel has come
  chan,      \* the Channel objects in memory
  disk,      \* what IChannelStorage holds
  pc,        \* where the running handler is
  event,     \* the event of a handler that loops over the channels
  at,        \* the position of that loop
  pending,   \* the state a handler returned, for transitionState
  sent,      \* the messages sent for a channel
  inbox,     \* the messages of each peer that are still to be handled
  ready,     \* the peers whose connection is PeerState.Ready
  closed,    \* the peers whose "close" event is still to be handled
  replies,   \* how often the fundee sent each message of a channel
  strays,    \* the messages of a channel that another peer has sent, once each
  drops,     \* how many connections were lost
  broadcast, \* the channels whose funding transaction was broadcast
  confirmed, \* the height of the block with the funding transaction, or 0
  tip,       \* the height of the chain
  seen       \* the height of the last block given to onBlockConnected

manager == <<channels, opening, chan, disk, pc, event, at, pending, sent>>
network == <<inbox, ready, closed, replies, strays, drops>>
chain   == <<broadcast, confirmed, tip, seen>>
vars    == <<manager, network, chain>>

-----------------------------------------------------------------------------
(* ChannelStateId, by the last part of the name. *)
AwaitingAccept  == "awaiting_accept_channel"
AwaitingSigned  == "awaiting_funding_signed"
NoChannelReady  == "no_channel_ready"
AwaitingDepth   == "awaiting_funding_depth"
AwaitingReady   == "awaiting_channel_ready"
Failing         == "failing"
Normal          == "normal"
Abandoned       == "abandoned"

(* Mutants: PeerDisconnected handled by a state of the funding, or by the *)
(* failing state.                                                         *)
InitializingOrConf    == {AwaitingAccept, AwaitingSigned, NoChannelReady}
InitializingOrFailing == {AwaitingAccept, AwaitingSigned, Failing}

Initializing == {AwaitingAccept, AwaitingSigned}
Funding      == {NoChannelReady, AwaitingDepth, AwaitingReady}
Dead         == {Failing, Abandoned}
StateId      == Initializing \cup Funding \cup Dead \cup {Normal}

(* The fields of a Channel that the state machine reads or writes.  A     *)
(* commitment number or a height is stored plus one, 0 is undefined.      *)
NewChannel ==
  [state     |-> "none",   \* channel.state, "none" before the first one
   minDepth  |-> 0,        \* minimumDepth
   funded    |-> FALSE,    \* fundingTx, fundingOutPoint and channelId are set
   sig       |-> "none",   \* ourSide.nextCommitmentSig: "none", "valid" or "invalid"
   confHeight|-> 0,        \* fundingConfirmedHeight
   ourNext   |-> 1,        \* ourSide.nextCommitmentNumber
   theirNext |-> 0]        \* theirSide.nextCommitmentNumber

ChannelRecord ==
  [state: StateId \cup {"none"}, minDepth: Nat, funded: BOOLEAN,
   sig: {"none", "valid", "invalid"}, confHeight: Nat, ourNext: Nat, theirNext: Nat]

NotStored == [state |-> "not stored"]

(* The methods of Channel that change these fields. *)
AttachAcceptChannel(r, depth) == [r EXCEPT !.minDepth = depth, !.theirNext = 1]
AttachFundingTx(r)            == [r EXCEPT !.funded = TRUE]
AttachFundingSigned(r, valid) == [r EXCEPT !.sig = IF valid THEN "valid" ELSE "invalid"]
MarkConfirmed(r, height)      == [r EXCEPT !.confHeight = height]
AttachChannelReady(r)         == [r EXCEPT !.theirNext = @ + 1]

(* What each message of the funder shows: the commitment number (plus     *)
(* one) of the per-commitment point in it or of the commitment it signs.  *)
Sent == [type: {"open_channel", "funding_created", "channel_ready"}, number: Nat]

MessageType == {"accept_channel", "funding_signed", "channel_ready"}
FoundByIdType == {"funding_signed", "channel_ready"}
Message == [type: MessageType, channel: Channel, valid: BOOLEAN, depth: Nat]

NoEvent   == [kind |-> "none"]
BlockAt(h) == [kind |-> "block", height |-> h]
Gone(p)    == [kind |-> "gone", peer |-> p]
Event ==
  {NoEvent} \cup [kind: {"block"}, height: Nat] \cup [kind: {"gone"}, peer: Peer]

NoTransition == [to |-> "none"]
Transition   == [channel: Channel, to: StateId]

TypeOK ==
  /\ channels \in Seq(Channel)
  /\ opening \in [Channel -> {"no", "creating", "saving", "failed", "done"}]
  /\ chan \in [Channel -> ChannelRecord]
  /\ disk \in [Channel -> ChannelRecord \cup {NotStored}]
  /\ pc \in {"idle", "loop", "commit", "stalled"}
  /\ event \in Event
  /\ at \in Nat
  /\ pending \in Transition \cup {NoTransition}
  /\ sent \in [Channel -> SUBSET Sent]
  /\ inbox \in [Peer -> Seq(Message)]
  /\ ready \subseteq Peer
  /\ closed \subseteq Peer
  /\ replies \in [Channel -> [MessageType -> Nat]]
  /\ strays \subseteq Channel \X FoundByIdType
  /\ drops \in Nat
  /\ broadcast \subseteq Channel
  /\ confirmed \in [Channel -> Nat]
  /\ tip \in Nat
  /\ seen \in Nat

Init ==
  /\ channels = <<>>
  /\ opening = [c \in Channel |-> "no"]
  /\ chan = [c \in Channel |-> NewChannel]
  /\ disk = [c \in Channel |-> NotStored]
  /\ pc = "idle"
  /\ event = NoEvent
  /\ at = 0
  /\ pending = NoTransition
  /\ sent = [c \in Channel |-> {}]
  /\ inbox = [p \in Peer |-> <<>>]
  /\ ready = Peer
  /\ closed = {}
  /\ replies = [c \in Channel |-> [t \in MessageType |-> 0]]
  /\ strays = {}
  /\ drops = 0
  /\ broadcast = {}
  /\ confirmed = [c \in Channel |-> 0]
  /\ tip = 0
  /\ seen = 0

-----------------------------------------------------------------------------
(* Helpers.sendMessage: Peer.sendMessage asserts PeerState.Ready. *)
CanSend(c) == PeerOf[c] \in ready

Send(c, type, number) ==
  sent' = [sent EXCEPT ![c] = @ \cup {[type |-> type, number |-> number]}]

HasSent(c, type) == \E m \in sent[c] : m.type = type

(* IChannelStorage.save; the mutant saves before the state is assigned. *)
SaveEarly(c) == disk' = [disk EXCEPT ![c] = chan[c]]
Save(c) == disk' = [disk EXCEPT ![c] = chan'[c]]

(* The handler returns a state for transitionState to enter.              *)
Return(c, to) ==
  /\ pc' = "commit"
  /\ pending' = [channel |-> c, to |-> to]

(* An exception leaves the handler, and with it the queue, stopped. *)
Throw == pc' = "stalled" /\ pending' = NoTransition

Registered(c) == \E i \in DOMAIN channels : channels[i] = c

(* findChannelById compares ids front to back, and ChannelId.equals fails *)
(* on a channel whose channelId is not set yet.                           *)
LookupThrows(c) ==
  \E i \in DOMAIN channels :
    /\ ~chan[channels[i]].funded
    /\ \A j \in 1..(i - 1) : channels[j] # c \/ ~chan[c].funded

FoundById(c) == Registered(c) /\ chan[c].funded

HasChannelReady(c) == chan[c].theirNext > 1

ReadyHeightEarly(c) == chan[c].confHeight + chan[c].minDepth - 2  \* mutants
ReadyHeightLate(c)  == chan[c].confHeight + chan[c].minDepth
ReadyHeight(c) == chan[c].confHeight + chan[c].minDepth - 1

-----------------------------------------------------------------------------
(* openChannel: check the connection, then create the channel. *)
OpenBegin(c) ==
  /\ opening[c] = "no"
  /\ PeerOf[c] \in ready
  /\ opening' = [opening EXCEPT ![c] = "creating"]
  /\ UNCHANGED <<channels, chan, disk, pc, event, at, pending, sent, network, chain>>

(* openChannel: send open_channel, and start to save the first state.  If *)
(* the channel cannot be created, or the peer is gone by now, the call is *)
(* rejected and the channel dropped.                                      *)
OpenSend(c) ==
  /\ opening[c] = "creating"
  /\ \/ /\ CanSend(c)
        /\ opening' = [opening EXCEPT ![c] = "saving"]
        /\ Send(c, "open_channel", chan[c].ourNext)
     \/ /\ CallsMayFail \/ ~CanSend(c)
        /\ opening' = [opening EXCEPT ![c] = "failed"]
        /\ UNCHANGED sent
  /\ UNCHANGED <<channels, chan, disk, pc, event, at, pending, network, chain>>

(* openChannel: the first state is saved and the channel is registered; a *)
(* failing save rejects the call after open_channel was sent.             *)
OpenDone(c) ==
  /\ opening[c] = "saving"
  /\ chan' = [chan EXCEPT ![c].state = AwaitingAccept]
  /\ \/ /\ opening' = [opening EXCEPT ![c] = "done"]
        /\ Save(c)
        /\ channels' = Append(channels, c)
     \/ /\ CallsMayFail
        /\ opening' = [opening EXCEPT ![c] = "failed"]
        /\ UNCHANGED <<disk, channels>>
  /\ UNCHANGED <<pc, event, at, pending, sent, network, chain>>

(* transitionState: assign the new state, then save the channel.  A       *)
(* handler that returned the state it was in does not come here.          *)
Commit ==
  /\ pc = "commit"
  /\ chan' = [chan EXCEPT ![pending.channel].state = pending.to]
  /\ \/ /\ Save(pending.channel)
        /\ pc' = IF event = NoEvent THEN "idle" ELSE "loop"
        /\ pending' = NoTransition
     \/ CallsMayFail /\ Throw /\ UNCHANGED disk
  /\ UNCHANGED <<channels, opening, event, at, sent, network, chain>>

-----------------------------------------------------------------------------
(* The handlers of the fundee's messages. *)
Take(p, type) ==
  /\ pc = "idle"
  /\ inbox[p] # <<>>
  /\ Head(inbox[p]).type = type
  /\ inbox' = [inbox EXCEPT ![p] = Tail(@)]
  /\ UNCHANGED <<ready, closed, replies, strays, drops>>

(* onAcceptChannelMessage for a channel that awaits it and an invalid     *)
(* message.                                                               *)
AcceptInvalid(p) ==
  LET m == Head(inbox[p]) IN
  /\ Take(p, "accept_channel")
  /\ Registered(m.channel) /\ chan[m.channel].state = AwaitingAccept
  /\ ~m.valid
  /\ Return(m.channel, Failing)
  /\ UNCHANGED <<channels, opening, chan, disk, event, at, sent, chain>>

(* The same for a valid message: the funding transaction is built and     *)
(* funding_created, with a signature of the fundee's first commitment, is *)
(* sent.  The wallet may fail to fund, or the peer may be gone.           *)
AcceptValid(p) ==
  LET m == Head(inbox[p])
      c == m.channel
      attached == AttachAcceptChannel(chan[c], m.depth)
  IN
  /\ Take(p, "accept_channel")
  /\ Registered(c) /\ chan[c].state = AwaitingAccept
  /\ m.valid
  /\ \/ /\ CallsMayFail
        /\ chan' = [chan EXCEPT ![c] = attached]
        /\ Throw
        /\ UNCHANGED sent
     \/ /\ chan' = [chan EXCEPT ![c] = AttachFundingTx(attached)]
        /\ IF CanSend(c)
             THEN Send(c, "funding_created", 1) /\ Return(c, AwaitingSigned)
             ELSE Throw /\ UNCHANGED sent
  /\ UNCHANGED <<channels, opening, disk, event, at, chain>>

(* validateFundingSignedMessage; the mutant takes any signature.          *)
anySignature(m) == TRUE
validateFundingSignedMessage(m) == m.valid

(* onFundingSignedMessage with an invalid signature, from whichever peer: *)
(* the channel is found by its id alone.                                  *)
SignedInvalid(p) ==
  LET m == Head(inbox[p]) IN
  /\ Take(p, "funding_signed")
  /\ ~LookupThrows(m.channel) /\ FoundById(m.channel)
  /\ chan[m.channel].state = AwaitingSigned
  /\ ~validateFundingSignedMessage(m)
  /\ Return(m.channel, Failing)
  /\ UNCHANGED <<channels, opening, chan, disk, event, at, sent, chain>>

(* The same with a valid one: the funding transaction is broadcast. *)
SignedValid(p) ==
  LET m == Head(inbox[p])
      c == m.channel
  IN
  /\ Take(p, "funding_signed")
  /\ ~LookupThrows(c) /\ FoundById(c)
  /\ chan[c].state = AwaitingSigned
  /\ validateFundingSignedMessage(m)
  /\ chan' = [chan EXCEPT ![c] = AttachFundingSigned(@, m.valid)]
  /\ \/ broadcast' = broadcast \cup {c} /\ Return(c, NoChannelReady)
     \/ CallsMayFail /\ Throw /\ UNCHANGED broadcast
  /\ UNCHANGED <<channels, opening, disk, event, at, sent, confirmed, tip, seen>>

(* onChannelReadyMessage with an invalid point, again from any peer.      *)
ReadyInvalid(p) ==
  LET m == Head(inbox[p]) IN
  /\ Take(p, "channel_ready")
  /\ ~LookupThrows(m.channel) /\ FoundById(m.channel)
  /\ chan[m.channel].state \in {AwaitingDepth, AwaitingReady}
  /\ ~m.valid
  /\ Return(m.channel, Failing)
  /\ UNCHANGED <<channels, opening, chan, disk, event, at, sent, chain>>

(* The same with a valid one: the fundee's commitment moves on by one.    *)
(* While the depth is awaited the state stays, and nothing is saved.      *)
ReadyValid(p) ==
  LET m == Head(inbox[p])
      c == m.channel
  IN
  /\ Take(p, "channel_ready")
  /\ ~LookupThrows(c) /\ FoundById(c)
  /\ chan[c].state \in {AwaitingDepth, AwaitingReady}
  /\ m.valid
  /\ chan' = [chan EXCEPT ![c] = AttachChannelReady(@)]
  /\ IF chan[c].state = AwaitingReady
       THEN Return(c, Normal)
       ELSE UNCHANGED <<pc, pending>>
  /\ UNCHANGED <<channels, opening, disk, event, at, sent, chain>>

(* The states whose machine has a transition for a message. *)
Expects(type) ==
  CASE type = "accept_channel" -> {AwaitingAccept}
    [] type = "funding_signed" -> {AwaitingSigned}
    [] type = "channel_ready"  -> {AwaitingDepth, AwaitingReady}

(* A message for a channel that is not found, or in a state without a     *)
(* transition for it, is dropped; a failing lookup throws.                *)
MessageDropped(p) ==
  LET m == Head(inbox[p])
      c == m.channel
      byId == m.type # "accept_channel"
  IN
  /\ inbox[p] # <<>>
  /\ Take(p, m.type)
  /\ IF byId /\ LookupThrows(c)
       THEN Throw
       ELSE /\ \/ ~(IF byId THEN FoundById(c) ELSE Registered(c))
               \/ chan[c].state \notin Expects(m.type)
            /\ UNCHANGED <<pc, pending>>
  /\ UNCHANGED <<channels, opening, chan, disk, event, at, sent, chain>>

-----------------------------------------------------------------------------
(* The handlers that loop over the channels. *)

(* onBlockConnected is called with the next block. *)
BlockBegin ==
  /\ pc = "idle" /\ seen < tip
  /\ seen' = seen + 1
  /\ event' = BlockAt(seen')
  /\ at' = 1
  /\ pc' = "loop"
  /\ UNCHANGED <<channels, opening, chan, disk, pending, sent, network>>
  /\ UNCHANGED <<broadcast, confirmed, tip>>

Looping(kind) == pc = "loop" /\ event.kind = kind /\ at \in DOMAIN channels

InBlock(c) == confirmed[c] = event.height

DepthReached(c) == event.height >= ReadyHeight(c)

(* createBlockConnectedFundingConfirmed. *)
FundingConfirmed ==
  LET c == channels[at] IN
  /\ Looping("block")
  /\ chan[c].state = NoChannelReady
  /\ InBlock(c)
  /\ chan' = [chan EXCEPT ![c] = MarkConfirmed(@, event.height)]
  /\ Return(c, AwaitingDepth)
  /\ at' = at + 1
  /\ UNCHANGED <<channels, opening, disk, event, sent, network, chain>>

(* createBlockConnectedFundingDepthReached: channel_ready carries the     *)
(* point of ourSide.nextCommitmentNumber, which stays as it is.           *)
FundingDepthReached ==
  LET c == channels[at] IN
  /\ Looping("block")
  /\ chan[c].state = AwaitingDepth
  /\ DepthReached(c)
  /\ at' = at + 1
  /\ IF CanSend(c)
       THEN /\ Send(c, "channel_ready", chan[c].ourNext)
            /\ Return(c, IF HasChannelReady(c) THEN Normal ELSE AwaitingReady)
       ELSE Throw /\ UNCHANGED sent
  /\ UNCHANGED <<channels, opening, chan, disk, event, network, chain>>

(* A channel the block means nothing to. *)
BlockSkip ==
  LET c == channels[at] IN
  /\ Looping("block")
  /\ ~(chan[c].state = NoChannelReady /\ InBlock(c))
  /\ ~(chan[c].state = AwaitingDepth /\ DepthReached(c))
  /\ at' = at + 1
  /\ UNCHANGED <<channels, opening, chan, disk, pc, event, pending, sent, network, chain>>

(* onPeerDisconnected is called for a "close" event, which waits in the   *)
(* queue and may be handled after the peer is connected again.            *)
GoneBegin(p) ==
  /\ pc = "idle" /\ p \in closed
  /\ closed' = closed \ {p}
  /\ event' = Gone(p)
  /\ at' = 1
  /\ pc' = "loop"
  /\ UNCHANGED <<channels, opening, chan, disk, pending, sent, chain>>
  /\ UNCHANGED <<inbox, ready, replies, strays, drops>>

(* createDisconnectedAbandon: the channel is removed from storage, then   *)
(* transitionState saves it in its last state.                            *)
Abandon ==
  LET c == channels[at] IN
  /\ Looping("gone")
  /\ PeerOf[c] = event.peer
  /\ chan[c].state \in Initializing
  /\ \/ disk' = [disk EXCEPT ![c] = NotStored] /\ Return(c, Abandoned)
     \/ CallsMayFail /\ Throw /\ UNCHANGED disk
  /\ at' = at + 1
  /\ UNCHANGED <<channels, opening, chan, event, sent, network, chain>>

GoneSkip ==
  LET c == channels[at] IN
  /\ Looping("gone")
  /\ PeerOf[c] # event.peer \/ chan[c].state \notin Initializing
  /\ at' = at + 1
  /\ UNCHANGED <<channels, opening, chan, disk, pc, event, pending, sent, network, chain>>

LoopEnd ==
  /\ pc = "loop" /\ at \notin DOMAIN channels
  /\ pc' = "idle"
  /\ event' = NoEvent
  /\ at' = 0
  /\ UNCHANGED <<channels, opening, chan, disk, pending, sent, network, chain>>

-----------------------------------------------------------------------------
(* The environment: the fundee answers what it was sent... *)
Reply(c, type, depths) ==
  /\ PeerOf[c] \in ready
  /\ replies[c][type] < MaxReplies
  /\ replies' = [replies EXCEPT ![c][type] = @ + 1]
  /\ \E v \in Verdicts, d \in depths :
       inbox' = [inbox EXCEPT ![PeerOf[c]] =
                   Append(@, [type |-> type, channel |-> c, valid |-> v, depth |-> d])]
  /\ UNCHANGED <<ready, closed, strays, drops, manager, chain>>

PeerAccepts(c) ==
  HasSent(c, "open_channel") /\ Reply(c, "accept_channel", Depths)

PeerSigns(c) ==
  HasSent(c, "funding_created") /\ Reply(c, "funding_signed", {0})

(* ... and sends channel_ready when the funding transaction is deep       *)
(* enough in its view of the chain, again after a reconnection.           *)
PeerReady(c) ==
  /\ confirmed[c] # 0
  /\ (IF PeerMayLead THEN tip ELSE seen) + 1 >= confirmed[c] + chan[c].minDepth
  /\ Reply(c, "channel_ready", {0})

(* Another peer sends a message with the id of the channel.  It has no    *)
(* signature of the fundee, but any point will do in channel_ready.       *)
PeerStrays(p, c, type, v) ==
  /\ <<c, type>> \notin strays /\ Cardinality(strays) < MaxStrays
  /\ p \in ready /\ PeerOf[c] # p
  /\ chan[c].funded
  /\ strays' = strays \cup {<<c, type>>}
  /\ inbox' = [inbox EXCEPT ![p] =
                 Append(@, [type |-> type, channel |-> c, valid |-> v, depth |-> 0])]
  /\ UNCHANGED <<ready, closed, replies, drops, manager, chain>>

(* The connection ends, with it the messages that were on their way.  The *)
(* Peer emits "close" only when the user asked for it.                    *)
Disconnect(p) ==
  /\ p \in ready /\ drops < MaxDrops
  /\ ready' = ready \ {p}
  /\ closed' \in {closed, closed \cup {p}}
  /\ drops' = drops + 1
  /\ \E n \in 0..Len(inbox[p]) : inbox' = [inbox EXCEPT ![p] = SubSeq(@, 1, n)]
  /\ UNCHANGED <<replies, strays, manager, chain>>

Reconnect(p) ==
  /\ p \notin ready
  /\ ready' = ready \cup {p}
  /\ UNCHANGED <<inbox, closed, replies, strays, drops, manager, chain>>

(* A block is mined with some of the funding transactions. *)
MineBlock ==
  /\ tip < MaxHeight
  /\ tip' = tip + 1
  /\ \E txs \in SUBSET {c \in broadcast : confirmed[c] = 0} :
       confirmed' = [c \in Channel |-> IF c \in txs THEN tip' ELSE confirmed[c]]
  /\ UNCHANGED <<broadcast, seen, manager, network>>

-----------------------------------------------------------------------------
OpenChannel(c) == OpenBegin(c) \/ OpenSend(c) \/ OpenDone(c)

HandleMessage(p) ==
  \/ AcceptInvalid(p) \/ AcceptValid(p)
  \/ SignedInvalid(p) \/ SignedValid(p)
  \/ ReadyInvalid(p)  \/ ReadyValid(p)
  \/ MessageDropped(p)

HandleLoop ==
  \/ FundingConfirmed \/ FundingDepthReached \/ BlockSkip
  \/ Abandon \/ GoneSkip
  \/ LoopEnd

Fundee(c) == PeerAccepts(c) \/ PeerSigns(c) \/ PeerReady(c)

Next ==
  \/ \E c \in Channel : OpenChannel(c) \/ Fundee(c)
  \/ \E p \in Peer : HandleMessage(p) \/ GoneBegin(p) \/ Disconnect(p) \/ Reconnect(p)
  \/ \E p \in Peer, c \in Channel, m \in Strays : PeerStrays(p, c, m[1], m[2])
  \/ BlockBegin \/ HandleLoop \/ Commit
  \/ MineBlock

Spec == Init /\ [][Next]_vars

(* The queue goes on with what it has started and takes what is waiting;  *)
(* blocks keep coming and the fundee keeps its part.  The user and the    *)
(* connection are under no obligation.                                    *)
Fairness ==
  /\ WF_vars(Commit)
  /\ WF_vars(BlockBegin)
  /\ WF_vars(HandleLoop)
  /\ WF_vars(MineBlock)
  /\ \A p \in Peer : WF_vars(HandleMessage(p))
  /\ \A c \in Channel : WF_vars(OpenDone(c)) /\ WF_vars(Fundee(c))

FairSpec == Spec /\ Fairness

-----------------------------------------------------------------------------
(* The handler of a channel has returned, transitionState is to be done. *)
Entering(c) == pc = "commit" /\ pending.channel = c

(* The handler of c has broadcast, and has not come to transitionState's  *)
(* save, or that has failed.                                              *)
SigUnsaved(c) ==
  /\ c \in broadcast /\ disk[c].sig # "valid"
  /\ disk[c].state = AwaitingSigned
  /\ Entering(c) \/ pc = "stalled"

(* A funding transaction is broadcast only with the fundee's valid        *)
(* signature of the funder's first commitment in memory, and it is in     *)
(* storage whenever the process is lost.  The signature, without which    *)
(* the funds cannot be recovered, is stored as well, but only after the   *)
(* broadcast: it would be lost for the one channel whose handler is there *)
(* (createOnFundingSignedMessageTransition, transitionState).             *)
BroadcastIsStored ==
  \A c \in broadcast :
    /\ chan[c].funded /\ chan[c].sig = "valid"
    /\ disk[c] # NotStored /\ disk[c].funded
    /\ disk[c].sig = "valid" \/ SigUnsaved(c)
    /\ \A d \in broadcast : SigUnsaved(c) /\ SigUnsaved(d) => c = d

(* channel_ready is sent for a channel only when the blocks handled so    *)
(* far bury its funding transaction minimum_depth deep (readyHeight).     *)
ReadyIsDeep ==
  \A c \in Channel :
    HasSent(c, "channel_ready") =>
      /\ confirmed[c] # 0
      /\ seen + 1 >= confirmed[c] + chan[c].minDepth

(* A channel_ready for the channel came, from its fundee or, as the       *)
(* sender is not compared with the channel, from another peer.            *)
ReadyCame(c) == replies[c]["channel_ready"] > 0 \/ <<c, "channel_ready">> \in strays

(* A channel is used normally only after channel_ready was sent for it    *)
(* and one came, in whichever order (hasChannelReady).                    *)
NormalIsMutual ==
  \A c \in Channel :
    chan[c].state = Normal =>
      HasSent(c, "channel_ready") /\ HasChannelReady(c) /\ ReadyCame(c)

(* The transitions of the state machine.                                  *)
Transitions ==
  {<<AwaitingAccept, AwaitingSigned>>, <<AwaitingSigned, NoChannelReady>>,
   <<NoChannelReady, AwaitingDepth>>, <<AwaitingDepth, AwaitingReady>>,
   <<AwaitingDepth, Normal>>, <<AwaitingReady, Normal>>}
  \cup {AwaitingAccept, AwaitingSigned, AwaitingDepth, AwaitingReady} \X {Failing}
  \cup Initializing \X {Abandoned}

(* Storage holds what memory holds, but for a channel_ready that was      *)
(* taken while the depth is awaited.                                      *)
StoredUpTo(c) ==
  /\ disk[c] # NotStored
  /\ \/ disk[c] = chan[c]
     \/ /\ chan[c].state = AwaitingDepth
        /\ disk[c] = [chan[c] EXCEPT !.theirNext = disk[c].theirNext]

(* Storage holds the channel in its state or in the one before, or no     *)
(* more as it is being abandoned.                                         *)
OneBehind(c) ==
  IF disk[c] = NotStored THEN chan[c].state \in Initializing
  ELSE disk[c].state = chan[c].state \/ <<disk[c].state, chan[c].state>> \in Transitions

Lags(c) == Registered(c) /\ chan[c].state # Abandoned /\ ~StoredUpTo(c)

(* What a restart finds of the registered channels that are not abandoned:*)
(* what is in memory, up to a channel_ready; for the one channel whose    *)
(* handler is about to save or has thrown, what was there before, at most *)
(* one transition back.                                                   *)
StoredUpToReady ==
  \A c \in Channel : Lags(c) =>
    /\ Entering(c) \/ pc = "stalled"
    /\ OneBehind(c)
    /\ \A d \in Channel : Lags(d) => c = d

(* A channel that failed or was abandoned is never taken up again by a    *)
(* late message or block: nothing is sent, broadcast or changed for it.   *)
DeadStaysDead ==
  [][\A c \in Channel : chan[c].state \in Dead =>
       /\ chan'[c] = chan[c]
       /\ sent'[c] = sent[c]
       /\ c \in broadcast' => c \in broadcast]_vars

(* With a live fundee that does not lead, every channel whose funding     *)
(* transaction gets deep enough in the chain becomes usable or is failed  *)
(* by an invalid message.  The block that confirms it does not count as   *)
(* the depth reached: a minimum_depth of 1 also waits for the next one.   *)
BecomesNormal ==
  \A c \in Channel :
    (/\ confirmed[c] # 0 /\ confirmed[c] < MaxHeight
     /\ confirmed[c] + chan[c].minDepth - 1 <= MaxHeight)
      ~> chan[c].state \in {Normal, Failing}

-----------------------------------------------------------------------------
(* The inductive invariant of the safety properties above.                *)

(* The state a channel is in, or is about to be put in by transitionState. *)
InOrEntering(c, S) == chan[c].state \in S \/ (Entering(c) /\ pending.to \in S)

(* Control: what a handler that is not done has established. *)
ControlInv ==
  /\ pc = "commit" =>
       /\ pending \in Transition
       /\ Registered(pending.channel)
       /\ chan[pending.channel].state \notin Dead
       /\ pending.to # AwaitingAccept
       /\ pending.to = AwaitingSigned => chan[pending.channel].state = AwaitingAccept
       /\ <<chan[pending.channel].state, pending.to>> \in Transitions
  /\ event # NoEvent /\ event.kind = "block" => (event.height = seen /\ seen > 0)
  /\ pc = "loop" => event # NoEvent

(* At most one channel is behind in storage, at most one signature.       *)
AloneInv ==
  \A c, d \in Channel :
    (Lags(c) /\ Lags(d)) \/ (SigUnsaved(c) /\ SigUnsaved(d)) => c = d

(* A channel_ready waiting to be handled was sent. *)
InboxInv ==
  \A p \in Peer : \A i \in DOMAIN inbox[p] :
    inbox[p][i].type = "channel_ready" => ReadyCame(inbox[p][i].channel)

(* What a channel that is not registered cannot have done. *)
OpeningInv(c) ==
  /\ Registered(c) => opening[c] = "done"
  /\ opening[c] \in {"no", "creating", "saving"} => chan[c].state = "none"
  /\ c \in broadcast \/ HasSent(c, "channel_ready") =>
       opening[c] = "done" /\ chan[c].state # AwaitingAccept

(* What memory knows in each state. *)
ProgressInv(c) ==
  /\ InOrEntering(c, {AwaitingSigned}) => chan[c].funded
  /\ InOrEntering(c, {AwaitingSigned, Normal} \cup Funding) => chan[c].theirNext > 0
  /\ InOrEntering(c, {AwaitingDepth}) =>
       confirmed[c] # 0 /\ chan[c].confHeight = confirmed[c]
  /\ InOrEntering(c, {AwaitingReady, Normal}) => HasSent(c, "channel_ready")
  /\ InOrEntering(c, {Normal}) => HasChannelReady(c)
  /\ HasChannelReady(c) => ReadyCame(c)
  /\ HasSent(c, "channel_ready") =>
       confirmed[c] # 0 /\ seen + 1 >= confirmed[c] + chan[c].minDepth

(* What storage holds while transitionState is to be done. *)
SavedBefore(c) ==
  IF disk[c] = NotStored THEN pending.to = Abandoned ELSE disk[c].state = chan[c].state

StorageInv(c) ==
  /\ Registered(c) =>
       \/ StoredUpTo(c)
       \/ Entering(c) /\ SavedBefore(c)
       \/ pc = "stalled" /\ (OneBehind(c) \/ chan[c].state = Abandoned)
  /\ c \in broadcast =>
       /\ chan[c].funded /\ chan[c].sig = "valid"
       /\ disk[c] # NotStored /\ disk[c].funded
       /\ disk[c].sig = "valid" \/ SigUnsaved(c)
       /\ \/ chan[c].state \notin Initializing
          \/ Entering(c) /\ pending.to = NoChannelReady
          \/ pc = "stalled"

ChannelInv(c) == OpeningInv(c) /\ ProgressInv(c) /\ StorageInv(c)

IInv == TypeOK /\ ControlInv /\ InboxInv /\ AloneInv /\ \A c \in Channel : ChannelInv(c)
=============================================================================
