-------------------------------- MODULE Peer --------------------------------
(***************************************************************************)
(* A Peer and its PingPongState: connecting, the exchange of init          *)
(* messages, reading with back pressure, pings, and reconnecting.          *)
(*                                                                         *)
(* Time passes in units of 15 seconds, and not before every timer that is  *)
(* due has fired; a timer is the units left, or Off.  What the remote node *)
(* sends is chosen when it is read.  An exception in the callback of a     *)
(* timer is not caught anywhere and ends the process ("crashed").          *)
(*                                                                         *)
(* The socket is half-closed by end() ("ended"), closes when the remote    *)
(* node or the network lets it, and is destroyed by a write after end().   *)
(* Messages that the NoiseSocket has decrypted stay readable when the      *)
(* socket is closed, until connect() replaces it.                          *)
(***************************************************************************)
EXTENDS Integers

CONSTANTS
  PingInterval,     \* PING_INTERVAL_MS: 4 units
  PongTimeout,      \* PONG_TIMEOUT_MS: 1 unit
  FloodThreshold,   \* PING_FLOOD_THRESHOLD: 10
  ReconnectTimeout, \* reconnectTimeoutMs: 1 unit
  HighWater,        \* highWaterMark of the Peer: 1
  MaxUnread         \* bound: messages waiting in the NoiseSocket

ASSUME PeerAssumption ==
  /\ PingInterval \in Nat /\ ReconnectTimeout \in Nat /\ HighWater \in Nat \ {0}
  /\ PongTimeout \in Nat /\ FloodThreshold \in Nat /\ MaxUnread \in Nat
  /\ PongTimeout < PingInterval

Off == -1
UpTo(n, t) == IF t < n THEN t + 1 ELSE n

VARIABLES
  isInitiator, \* connect() was called, not attach()
  state,       \* Peer.state
  tcp,         \* the TCP socket: "open", "ended", "destroyed" or "closed"
  secure,      \* the handshake of the NoiseSocket is done
  unread,      \* messages in the read buffer of the NoiseSocket
  buffered,    \* messages in the read buffer of the Peer
  paused,      \* Peer._readingPaused
  reconnect,   \* Peer._reconnectHandle
  silent,      \* age of PingPongState._lastMessageReceived, up to Old
  pings,       \* PingPongState._pingsReceieved, up to one above the threshold
  sentPing,    \* PingPongState._sentPing is set
  interval,    \* PingPongState._sendPingIntervalHandle
  pong,        \* PingPongState._pongTimeoutHandle
  crashed,     \* a timer's callback has thrown
  initialized, \* history: the remote init of this connection was accepted
  quiet,       \* history: units without a message since then, up to Long
  asked        \* history: disconnect() was called

vars == <<isInitiator, state, tcp, secure, unread, buffered, paused, reconnect, silent, pings,
          sentPing, interval, pong, crashed, initialized, quiet, asked>>
stream  == <<unread, buffered, paused>>
pinging == <<silent, pings, sentPing, interval, pong>>
past    == <<initialized, quiet, asked>>

Old  == PingInterval + 1   \* also: no message was ever received
Long == 2 * PingInterval + PongTimeout + 1

NumbersOK ==
  /\ state \in {"Disconnected", "AwaitingPeerInit", "Ready", "Disconnecting"}
  /\ tcp \in {"open", "ended", "destroyed", "closed"}
  /\ unread \in 0..MaxUnread /\ buffered \in 0..HighWater
  /\ reconnect \in {Off} \cup 0..ReconnectTimeout
  /\ interval \in {Off} \cup 0..PingInterval /\ pong \in {Off} \cup 0..PongTimeout
  /\ silent \in 0..Old /\ quiet \in 0..Long /\ pings \in 0..(FloodThreshold + 1)

FlagsOK ==
  /\ isInitiator \in BOOLEAN /\ secure \in BOOLEAN /\ paused \in BOOLEAN
  /\ sentPing \in BOOLEAN /\ crashed \in BOOLEAN
  /\ initialized \in BOOLEAN /\ asked \in BOOLEAN

TypeOK == NumbersOK /\ FlagsOK

(* After connect() or attach(). *)
Init ==
  /\ isInitiator \in BOOLEAN
  /\ state = "Disconnected" /\ tcp = "open" /\ secure = FALSE
  /\ unread = 0 /\ buffered = 0 /\ paused = FALSE
  /\ reconnect = Off /\ interval = Off /\ pong = Off
  /\ silent = Old /\ pings = 0 /\ sentPing = FALSE
  /\ crashed = FALSE
  /\ initialized = FALSE /\ quiet = 0 /\ asked = FALSE

-----------------------------------------------------------------------------
(* Every action but PingDue: it cannot crash. *)
Alive == ~crashed /\ UNCHANGED <<isInitiator, crashed>>

(* socket.end(), and socket.write(), which destroys an ended socket. *)
Ended   == IF tcp = "open" THEN "ended" ELSE tcp
Written == IF tcp = "ended" THEN "destroyed" ELSE tcp

(* disconnect(). *)
Leave == state' = "Disconnecting" /\ tcp' = Ended /\ asked' = TRUE

Stay == UNCHANGED <<state, asked>>

(* _onSocketReady: the handshake is done, init is sent.  The mutant keeps *)
(* the state.                                                             *)
KeepState == state
ReadyState == "AwaitingPeerInit"

OnSocketReady ==
  /\ Alive /\ ~secure /\ tcp \in {"open", "ended"}
  /\ secure' = TRUE
  /\ state' = ReadyState
  /\ tcp' = Written
  /\ UNCHANGED <<stream, reconnect, pinging, past>>

(* PingPongState.onDisconnecting: both timers are cleared.               *)
OnDisconnecting == interval' = Off /\ pong' = Off

(* The reconnection after a connection that was lost; the mutant gives up *)
(* unless the peer had been ready.                                        *)
RetryReady == IF isInitiator /\ state = "Ready" THEN ReconnectTimeout ELSE Off
Retry == IF isInitiator THEN ReconnectTimeout ELSE Off

(* The state after it; a mutant keeps it. *)
ClosedState == "Disconnected"

(* _onSocketClose. *)
OnSocketClose ==
  /\ Alive /\ tcp # "closed" /\ tcp' = "closed"
  /\ OnDisconnecting
  /\ reconnect' = IF state = "Disconnecting" THEN Off ELSE Retry
  /\ state' = ClosedState
  /\ initialized' = FALSE /\ quiet' = 0
  /\ UNCHANGED <<secure, stream, silent, pings, sentPing, asked>>

(* The timer of _onSocketClose calls connect(). *)
ReconnectDue ==
  /\ Alive /\ reconnect = 0
  /\ reconnect' = Off
  /\ tcp' = "open" /\ secure' = FALSE /\ unread' = 0
  /\ UNCHANGED <<state, buffered, paused, pinging, past>>

(* disconnect() and reconnect() as the user calls them. *)
Disconnect ==
  /\ Alive /\ ~asked /\ Leave
  /\ UNCHANGED <<secure, stream, reconnect, pinging, initialized, quiet>>

Reconnect ==
  /\ Alive /\ tcp = "open" /\ tcp' = Ended
  /\ UNCHANGED <<state, secure, stream, reconnect, pinging, past>>

-----------------------------------------------------------------------------
(* Reading: the NoiseSocket has a message... *)
Arrive ==
  /\ Alive /\ secure /\ tcp \in {"open", "ended"}
  /\ unread < MaxUnread /\ unread' = unread + 1
  /\ UNCHANGED <<state, tcp, secure, buffered, paused, reconnect, pinging, past>>

(* ... and one turn of the loop of _onSocketReadable takes it.            *)
Take == Alive /\ unread > 0 /\ ~paused /\ unread' = unread - 1

Keep == UNCHANGED <<buffered, paused>>
Push == buffered' = buffered + 1 /\ paused' = (buffered + 1 >= HighWater)

(* _processPeerInitMessage: the chains and features fit. *)
InitAccepted ==
  /\ state = "AwaitingPeerInit" /\ Take /\ Keep
  /\ interval' = PingInterval
  /\ state' = "Ready"
  /\ initialized' = TRUE /\ quiet' = 0
  /\ UNCHANGED <<tcp, secure, reconnect, silent, pings, sentPing, pong, asked>>

(* They do not. *)
InitRefused ==
  /\ state = "AwaitingPeerInit" /\ Take /\ Keep
  /\ Leave
  /\ UNCHANGED <<secure, reconnect, pinging, initialized, quiet>>

(* Any other message before init, and one that cannot be deserialized:    *)
(* the error ends the socket.                                             *)
ReceiveMalformed ==
  /\ Take /\ Keep
  /\ tcp' = Ended
  /\ UNCHANGED <<state, secure, reconnect, pinging, past>>

(* A message of a type that MessageFactory does not know. *)
ReceiveUnknown ==
  /\ state # "AwaitingPeerInit" /\ Take /\ Push
  /\ UNCHANGED <<state, tcp, secure, reconnect, pinging, past>>

(* PingPongState.onMessage hears every other message. *)
Heard ==
  /\ state # "AwaitingPeerInit" /\ Take
  /\ silent' = 0 /\ quiet' = 0
  /\ UNCHANGED <<secure, reconnect, interval, sentPing, initialized>>

ReceiveOther ==
  /\ Heard /\ Push /\ Stay
  /\ UNCHANGED <<tcp, pings, pong>>

(* A ping: a flood is cut off, and a pong is sent if one is wanted, which *)
(* throws, and so ends the socket, unless the peer is Ready.              *)
ReceivePing(wantsPong) ==
  LET flood == pings + 1 > FloodThreshold
      fails == wantsPong /\ (flood \/ state # "Ready")
  IN
  /\ Heard
  /\ pings' = UpTo(FloodThreshold + 1, pings)
  /\ IF flood THEN Leave
     ELSE Stay /\ tcp' = IF fails THEN Ended ELSE IF wantsPong THEN Written ELSE tcp
  /\ IF fails THEN Keep ELSE Push
  /\ UNCHANGED pong

(* A pong: its length must fit the last ping, if there ever was one. *)
ReceivePong(fits) ==
  /\ Heard /\ Push
  /\ pong' = Off
  /\ IF sentPing /\ ~fits THEN Leave ELSE Stay /\ UNCHANGED tcp
  /\ UNCHANGED pings

(* The application reads a message, and _read goes on. *)
Read ==
  /\ Alive /\ buffered > 0
  /\ buffered' = buffered - 1 /\ paused' = FALSE
  /\ UNCHANGED <<state, tcp, secure, unread, reconnect, pinging, past>>

-----------------------------------------------------------------------------
(* _onSendPingInterval: a ping is sent if nothing was heard for more than *)
(* an interval.  The timeout is set first, then sendMessage throws unless *)
(* the peer is Ready.                                                     *)
Silent == silent > PingInterval

PingDue ==
  /\ ~crashed /\ interval = 0
  /\ interval' = PingInterval
  /\ pings' = 0
  /\ IF Silent
       THEN /\ pong' = PongTimeout
            /\ tcp' = IF state = "Ready" THEN Written ELSE tcp
            /\ sentPing' = (sentPing \/ state = "Ready")
            /\ crashed' = (state # "Ready")
       ELSE UNCHANGED <<pong, tcp, sentPing, crashed>>
  /\ UNCHANGED <<isInitiator, state, secure, stream, reconnect, silent, past>>

(* _pongTimedOut calls reconnect(); the mutant only logs. *)
OnlyLog ==
  /\ Alive /\ pong = 0 /\ pong' = Off
  /\ UNCHANGED <<state, tcp, secure, stream, reconnect, silent, pings, sentPing, interval, past>>
PongDue ==
  /\ Alive /\ pong = 0 /\ pong' = Off
  /\ tcp' = Ended
  /\ UNCHANGED <<state, secure, stream, reconnect, silent, pings, sentPing, interval, past>>

Running == {reconnect, interval, pong}
Passed(t) == IF t = Off THEN Off ELSE t - 1

Tick ==
  /\ Alive /\ 0 \notin Running
  /\ reconnect' = Passed(reconnect) /\ interval' = Passed(interval) /\ pong' = Passed(pong)
  /\ silent' = UpTo(Old, silent)
  /\ quiet' = IF initialized THEN UpTo(Long, quiet) ELSE 0
  /\ UNCHANGED <<state, tcp, secure, stream, pings, sentPing, initialized, asked>>

-----------------------------------------------------------------------------
OnSocketReadable ==
  \/ InitAccepted \/ InitRefused
  \/ ReceiveMalformed \/ ReceiveUnknown \/ ReceiveOther
  \/ \E b \in BOOLEAN : ReceivePing(b) \/ ReceivePong(b)

Next ==
  \/ OnSocketReady \/ OnSocketClose \/ Arrive \/ OnSocketReadable \/ Read
  \/ PingDue \/ PongDue \/ ReconnectDue \/ Tick
  \/ Disconnect \/ Reconnect

Spec == Init /\ [][Next]_vars

(* Time passes and timers fire; a destroyed socket reports its end.  The  *)
(* network, the remote node and the user are under no obligation.         *)
Fairness ==
  /\ WF_vars(PingDue)
  /\ WF_vars(Tick \/ PongDue \/ ReconnectDue)
  /\ WF_vars(tcp = "destroyed" /\ OnSocketClose)

FairSpec == Spec /\ Fairness
-----------------------------------------------------------------------------
(* A peer messages are sent to has accepted the init message of the       *)
(* connection it sends them on (_onSocketClose, _processPeerInitMessage). *)
ReadyIsInitialized ==
  state = "Ready" => secure /\ initialized /\ tcp # "closed"

(* The connection of a Ready peer that falls silent, right after a ping   *)
(* was due at worst, is ended within two intervals and the time for a     *)
(* pong (_onSendPingInterval, _pongTimedOut).                             *)
SilenceIsBounded ==
  state = "Ready" /\ quiet > 2 * PingInterval + PongTimeout => tcp # "open"

(* The timers of a connection do not survive it: only the ping of a peer  *)
(* that is asked to disconnect, and has not, ends the process.            *)
OnlyLeavingThrows == crashed => state = "Disconnecting" /\ tcp # "closed"

(* A connection that is lost, in whatever state of the peer, is dialed    *)
(* again until disconnect() is called.                                    *)
LostIsRetried == (tcp = "closed" /\ isInitiator /\ ~asked) ~> (tcp # "closed" \/ asked)

(* The Peer is a session of PeerSession. *)
phase ==
  CASE tcp = "closed" -> "down"
    [] tcp # "closed" /\ ~secure -> "securing"
    [] tcp # "closed" /\ secure ->
         CASE state = "AwaitingPeerInit" -> "initializing"
           [] state = "Ready" -> "up"
           [] OTHER -> "leaving"

Session == INSTANCE PeerSession WITH outbound <- isInitiator
IsSession == Session!Spec

-----------------------------------------------------------------------------
(* The inductive invariant of these safety properties.                    *)

(* Where a connection stands, and which timers run on it. *)
ConnectionInv ==
  /\ tcp = "closed" \/ ~secure =>
       state \in {"Disconnected", "Disconnecting"} /\ interval = Off
  /\ tcp # "closed" /\ secure => state # "Disconnected"
  /\ state = "AwaitingPeerInit" => interval = Off
  /\ state = "Ready" => initialized /\ interval # Off
  /\ reconnect # Off => tcp = "closed" /\ isInitiator
  /\ crashed => state = "Disconnecting" /\ tcp # "closed"

StreamInv == ~paused => buffered < HighWater

(* A pong that is awaited is due before the next ping, and the silence so *)
(* far is within what the timers still allow.                             *)
SilenceInv ==
  /\ pong # Off => interval # Off /\ pong + PingInterval <= interval + PongTimeout
  /\ silent >= quiet \/ silent = Old
  /\ state = "Ready" /\ tcp = "open" =>
       IF pong = Off THEN quiet + interval <= 2 * PingInterval
                     ELSE quiet + pong <= 2 * PingInterval + PongTimeout

IInv == TypeOK /\ ConnectionInv /\ StreamInv /\ SilenceInv
=============================================================================
