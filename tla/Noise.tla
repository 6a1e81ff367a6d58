-------------------------------- MODULE Noise --------------------------------
(***************************************************************************)
(* The encrypted transport between two nodes: NoiseState (the three acts   *)
(* of the handshake, encryption, key rotation) and NoiseSocket (the states *)
(* of the handshake and of reading, back pressure), one of each at both    *)
(* ends of a TCP connection.                                               *)
(*                                                                         *)
(* Cryptography is symbolic: hashing and HKDF are injective, a sealed text *)
(* is opened only with the key, nonce and associated data it was sealed    *)
(* with.  The chaining key `ck` is the sequence of everything mixed into   *)
(* it: the shared secrets of the acts, then, for each rotation, the half   *)
(* (1: initiator to responder, 2: back) whose key was mixed in.  A key is  *)
(* its half and the chaining key it came out of the HKDF with, so two keys *)
(* of this model are equal exactly if those of the program are.            *)
(*                                                                         *)
(* TCP delivers what was sent, in order; how it is cut into packets is     *)
(* when a unit becomes readable.  A socket that meets an error is          *)
(* destroyed, and the other end's socket closes after it.                  *)
(***************************************************************************)
EXTENDS Integers, Sequences, SequencesExt

CONSTANTS
  RotateAt,     \* uses after which a key is rotated: 1000
  HighWater,    \* highWaterMark of the socket, 2048 messages
  Dialed,       \* the static keys the initiator may be given
  MaxMessages   \* bound: messages written by each end

ASSUME NoiseAssumption ==
  /\ RotateAt \in Nat \ {0}
  /\ HighWater \in Nat \ {0}
  /\ MaxMessages \in Nat

Initiator == "initiator"
Responder == "responder"
End == {Initiator, Responder}
Other(e) == IF e = Initiator THEN Responder ELSE Initiator

(* Public keys, which also name their private keys. *)
Static(e)    == <<"static", e>>
Ephemeral(e) == <<"ephemeral", e>>
Ecdh(public, private) == {public, private}
NoKey == <<>>

SendHalf(e) == IF e = Initiator THEN 1 ELSE 2
Key(half, ck) == [half |-> half, ck |-> ck]

VARIABLES
  handshake,  \* NoiseSocket._handshakeState of each end
  noise,      \* NoiseState of each end
  reading,    \* NoiseSocket._readState of each end
  socket,     \* what the TCP socket of each end is still to read
  open,       \* the ends whose TCP socket is not destroyed or closed
  broken,     \* the ends that destroyed their socket on an error
  written,    \* how many messages each end has written
  received,   \* how many each end has pushed to its read buffer
  consumed,   \* how many of them were read from that buffer
  sealed      \* history: what was sealed with a key of the transport

vars == <<handshake, noise, reading, socket, open, broken,
          written, received, consumed, sealed>>
transport == <<written, received, consumed, sealed>>

-----------------------------------------------------------------------------
(* The parts of NoiseState: sealing, mixing, and one operator per act.    *)

Seal(key, nonce, ad, text) == [key |-> key, nonce |-> nonce, ad |-> ad, text |-> text]

Unchecked(c, key, nonce, ad) == TRUE  \* mutant: the tag is not compared
Opens(c, key, nonce, ad) == c.key = key /\ c.nonce = nonce /\ c.ad = ad

NewNoise(rpk) ==
  [rpk |-> rpk, repk |-> NoKey, h |-> <<>>, ck |-> <<>>,
   sk |-> NoKey, rk |-> NoKey, sn |-> 0, rn |-> 0]

Hash(n, part) == [n EXCEPT !.h = Append(@, part)]
Mix(n, ss)    == [n EXCEPT !.ck = Append(@, ss)]

(* Every act ends with a text sealed with the key just mixed, which is    *)
(* then hashed.                                                           *)
Sealed(n, nonce, text) == Seal(n.ck, nonce, n.h, text)

(* Acts one and two begin alike at both ends: hash an ephemeral key, mix  *)
(* in a shared secret.                                                    *)
Exchanged(n, epk, ss) == Mix(Hash(n, epk), ss)

InitiatorAct1(n) ==
  Exchanged(Hash(n, n.rpk), Ephemeral(Initiator), Ecdh(n.rpk, Ephemeral(Initiator)))

ReceiveAct1(n, m) ==
  Exchanged(Hash([n EXCEPT !.repk = m.epk], Static(Responder)),
            m.epk, Ecdh(m.epk, Static(Responder)))

ReceiveAct2(n) ==
  Exchanged(n, Ephemeral(Responder), Ecdh(n.repk, Ephemeral(Responder)))

InitiatorAct2(n, m) ==
  Exchanged([n EXCEPT !.repk = m.epk], m.epk, Ecdh(m.epk, Ephemeral(Initiator)))

(* The keys of both directions, split from the last chaining key. *)
Split(n, e) ==
  [n EXCEPT !.sk = Key(SendHalf(e), n.ck), !.rk = Key(SendHalf(Other(e)), n.ck),
            !.sn = 0, !.rn = 0]

(* _rotateSendingKeys, _rotateRecievingKeys: both mix into the same       *)
(* chaining key.                                                          *)
Rotate(ck, key) == Append(ck, key.half)

OnlyNonceReset(n) ==  \* mutant: the key stays when its nonces start over
  [n EXCEPT !.sn = (@ + 1) % RotateAt]
UsedToSend(n) ==
  IF n.sn + 1 >= RotateAt
    THEN [n EXCEPT !.sk = Key(@.half, Rotate(n.ck, @)), !.ck = Rotate(@, n.sk), !.sn = 0]
    ELSE [n EXCEPT !.sn = @ + 1]

OwnChainingKey(n) ==  \* mutant: the chaining key is left as it was
  IF n.rn + 1 >= RotateAt
    THEN [n EXCEPT !.rk = Key(@.half, Rotate(n.ck, @)), !.rn = 0]
    ELSE [n EXCEPT !.rn = @ + 1]
UsedToReceive(n) ==
  IF n.rn + 1 >= RotateAt
    THEN [n EXCEPT !.rk = Key(@.half, Rotate(n.ck, @)), !.ck = Rotate(@, n.rk), !.rn = 0]
    ELSE [n EXCEPT !.rn = @ + 1]

-----------------------------------------------------------------------------
Init ==
  /\ handshake = [e \in End |-> IF e = Initiator THEN "initiating" ELSE "awaiting_initiator"]
  /\ \E rpk \in Dialed :
       noise = [e \in End |-> NewNoise(IF e = Initiator THEN rpk ELSE NoKey)]
  /\ reading = [e \in End |-> "ready_for_len"]
  /\ socket = [e \in End |-> <<>>]
  /\ open = End
  /\ broken = {}
  /\ written = [e \in End |-> 0]
  /\ received = [e \in End |-> 0]
  /\ consumed = [e \in End |-> 0]
  /\ sealed = {}

(* _socket.write: a destroyed or closed socket sends nothing. *)
Transmit(e, units, rest) ==
  socket' = [socket EXCEPT ![e] = rest,
               ![Other(e)] = IF Other(e) \in open THEN @ \o units ELSE @]

(* _socket.read, and what becomes of the socket if processing throws; the *)
(* NoiseState of a destroyed socket is not used again.                    *)
Readable(e, kind) == e \in open /\ socket[e] # <<>> /\ Head(socket[e]).kind = kind

Destroy(e) ==
  /\ open' = open \ {e}
  /\ broken' = broken \cup {e}
  /\ socket' = [socket EXCEPT ![e] = <<>>]
  /\ UNCHANGED <<handshake, noise, reading, transport>>

(* _initiateHandshake, when the TCP connection is made. *)
InitiateHandshake ==
  LET n == InitiatorAct1(noise[Initiator])
      c == Sealed(n, 0, "")
  IN
  /\ Initiator \in open /\ handshake[Initiator] = "initiating"
  /\ noise' = [noise EXCEPT ![Initiator] = Hash(n, c)]
  /\ Transmit(Initiator, <<[kind |-> "act1", epk |-> Ephemeral(Initiator), c |-> c]>>,
              socket[Initiator])
  /\ handshake' = [handshake EXCEPT ![Initiator] = "awaiting_responder_reply"]
  /\ UNCHANGED <<reading, open, broken, transport>>

(* _processInitiator: act one is received, act two sent. *)
ProcessInitiator ==
  LET m  == Head(socket[Responder])
      n1 == ReceiveAct1(noise[Responder], m)
      n2 == ReceiveAct2(Hash(n1, m.c))
      c  == Sealed(n2, 0, "")
  IN
  /\ handshake[Responder] = "awaiting_initiator"
  /\ Readable(Responder, "act1")
  /\ IF Opens(m.c, n1.ck, 0, n1.h)
       THEN /\ noise' = [noise EXCEPT ![Responder] = Hash(n2, c)]
            /\ Transmit(Responder, <<[kind |-> "act2", epk |-> Ephemeral(Responder), c |-> c]>>,
                        Tail(socket[Responder]))
            /\ handshake' = [handshake EXCEPT ![Responder] = "awaiting_initiator_reply"]
            /\ UNCHANGED <<reading, open, broken, transport>>
       ELSE Destroy(Responder)

(* _processResponderReply: act two is received, act three sent. *)
ProcessResponderReply ==
  LET m  == Head(socket[Initiator])
      n2 == InitiatorAct2(noise[Initiator], m)
      n3 == Hash(n2, m.c)
      c  == Sealed(n3, 1, Static(Initiator))
      n4 == Mix(Hash(n3, c), Ecdh(n3.repk, Static(Initiator)))
      t  == Sealed(n4, 0, "")
  IN
  /\ handshake[Initiator] = "awaiting_responder_reply"
  /\ Readable(Initiator, "act2")
  /\ IF Opens(m.c, n2.ck, 0, n2.h)
       THEN /\ noise' = [noise EXCEPT ![Initiator] = Split(n4, Initiator)]
            /\ Transmit(Initiator, <<[kind |-> "act3", c |-> c, t |-> t]>>,
                        Tail(socket[Initiator]))
            /\ handshake' = [handshake EXCEPT ![Initiator] = "ready"]
            /\ UNCHANGED <<reading, open, broken, transport>>
       ELSE Destroy(Initiator)

(* _processInitiatorReply: act three is received. *)
ProcessInitiatorReply ==
  LET m  == Head(socket[Responder])
      n1 == noise[Responder]
      n2 == [Hash(n1, m.c) EXCEPT !.rpk = m.c.text]
      n3 == Mix(n2, Ecdh(n2.rpk, Ephemeral(Responder)))
  IN
  /\ handshake[Responder] = "awaiting_initiator_reply"
  /\ Readable(Responder, "act3")
  /\ IF Opens(m.c, n1.ck, 1, n1.h) /\ Opens(m.t, n3.ck, 0, n3.h)
       THEN /\ noise' = [noise EXCEPT ![Responder] = Split(n3, Responder)]
            /\ socket' = [socket EXCEPT ![Responder] = Tail(@)]
            /\ handshake' = [handshake EXCEPT ![Responder] = "ready"]
            /\ UNCHANGED <<reading, open, broken, transport>>
       ELSE Destroy(Responder)

-----------------------------------------------------------------------------
(* _write: the length and the message are sealed one after the other, and *)
(* the key may be rotated between them.  The Peer writes once the socket  *)
(* is ready.                                                              *)
Write(e) ==
  LET n  == noise[e]
      n1 == UsedToSend(n)
      k  == written[e] + 1
      lc == Seal(n.sk, n.sn, <<>>, <<"length", k>>)
      c  == Seal(n1.sk, n1.sn, <<>>, <<"message", k>>)
  IN
  /\ e \in open /\ handshake[e] = "ready"
  /\ written[e] < MaxMessages
  /\ written' = [written EXCEPT ![e] = k]
  /\ noise' = [noise EXCEPT ![e] = UsedToSend(n1)]
  /\ Transmit(e, <<[kind |-> "length", c |-> lc], [kind |-> "message", c |-> c]>>, socket[e])
  /\ sealed' = sealed \cup {lc, c}
  /\ UNCHANGED <<handshake, reading, open, broken, received, consumed>>

(* _processPacketLength. *)
ProcessPacketLength(e) ==
  /\ handshake[e] = "ready" /\ reading[e] = "ready_for_len"
  /\ Readable(e, "length")
  /\ IF Opens(Head(socket[e]).c, noise[e].rk, noise[e].rn, <<>>)
       THEN /\ noise' = [noise EXCEPT ![e] = UsedToReceive(@)]
            /\ socket' = [socket EXCEPT ![e] = Tail(@)]
            /\ reading' = [reading EXCEPT ![e] = "ready_for_body"]
            /\ UNCHANGED <<handshake, open, broken, transport>>
       ELSE Destroy(e)

Buffered(e) == received[e] - consumed[e]

(* push returns false when the buffer has reached the high water mark.     *)
Push(e) == IF Buffered(e) + 1 < HighWater THEN "ready_for_len" ELSE "blocked"

(* _processPacketBody. *)
ProcessPacketBody(e) ==
  LET c == Head(socket[e]).c IN
  /\ handshake[e] = "ready" /\ reading[e] = "ready_for_body"
  /\ Readable(e, "message")
  /\ IF Opens(c, noise[e].rk, noise[e].rn, <<>>)
       THEN /\ noise' = [noise EXCEPT ![e] = UsedToReceive(@)]
            /\ socket' = [socket EXCEPT ![e] = Tail(@)]
            /\ received' = [received EXCEPT ![e] = @ + 1]
            /\ reading' = [reading EXCEPT ![e] = Push(e)]
            /\ UNCHANGED <<handshake, open, broken, written, consumed, sealed>>
       ELSE Destroy(e)

(* The Peer reads a message, and the stream calls _read, which unblocks   *)
(* the socket; the mutant leaves it as it is.                             *)
StayBlocked(e) == reading[e]
Unblock(e) == IF reading[e] = "blocked" THEN "ready_for_len" ELSE reading[e]

Consume(e) ==
  /\ Buffered(e) > 0
  /\ consumed' = [consumed EXCEPT ![e] = @ + 1]
  /\ reading' = [reading EXCEPT ![e] = Unblock(e)]
  /\ UNCHANGED <<handshake, noise, socket, open, broken, written, received, sealed>>

(* The other end is gone: the socket closes, with what it had not read. *)
Close(e) ==
  /\ e \in open /\ Other(e) \notin open
  /\ open' = open \ {e}
  /\ socket' = [socket EXCEPT ![e] = <<>>]
  /\ UNCHANGED <<handshake, noise, reading, broken, transport>>

-----------------------------------------------------------------------------
(* _onData, one unit of its loop. *)
OnData(e) ==
  \/ e = Responder /\ (ProcessInitiator \/ ProcessInitiatorReply)
  \/ e = Initiator /\ ProcessResponderReply
  \/ ProcessPacketLength(e) \/ ProcessPacketBody(e)

Next ==
  \/ InitiateHandshake
  \/ \E e \in End : OnData(e) \/ Write(e) \/ Consume(e) \/ Close(e)

Spec == Init /\ [][Next]_vars

(* Data is read when it arrives, and the Peer reads what is buffered. *)
Fairness == \A e \in End : WF_vars(OnData(e)) /\ WF_vars(Consume(e))

FairSpec == Spec /\ Fairness
-----------------------------------------------------------------------------
TypeOK ==
  /\ handshake[Initiator] \in {"initiating", "awaiting_responder_reply", "ready"}
  /\ handshake[Responder] \in {"awaiting_initiator", "awaiting_initiator_reply", "ready"}
  /\ \A e \in End :
       /\ noise[e].sn \in 0..(RotateAt - 1) /\ noise[e].rn \in 0..(RotateAt - 1)
       /\ reading[e] \in {"ready_for_len", "ready_for_body", "blocked"}
       /\ \A i \in DOMAIN socket[e] :
            socket[e][i].kind \in {"act1", "act2", "act3", "length", "message"}
       /\ written[e] \in Nat
       /\ received[e] \in 0..written[Other(e)] /\ consumed[e] \in 0..received[e]
  /\ open \subseteq End
  /\ broken \subseteq End \ open

(* An end is ready only at the end of a handshake with the node it meant  *)
(* to reach: both know the static key of the other, and what one sends    *)
(* with is what the other receives with (acts one to three).              *)
ReadyIsAuthentic ==
  \A e \in End : handshake[e] = "ready" =>
    /\ noise[e].rpk = Static(Other(e))
    /\ noise[Initiator].rpk = Static(Responder)
    /\ handshake[Responder] = "ready" =>
         /\ noise[Initiator].sk.half = noise[Responder].rk.half
         /\ noise[Initiator].rk.half = noise[Responder].sk.half
         /\ SubSeq(noise[Initiator].ck, 1, 3) = SubSeq(noise[Responder].ck, 1, 3)

(* No key ever seals two texts with one nonce: a nonce starts over only   *)
(* with a new key (_incrementSendingNonce, _rotateSendingKeys).           *)
NonceIsFresh ==
  \A s, t \in sealed : s.key = t.key /\ s.nonce = t.nonce => s = t

(* A slow reader holds up the socket: at most highWaterMark messages are  *)
(* decrypted ahead of it (READ_STATE.BLOCKED).                            *)
ReadAheadIsBounded == \A e \in End : Buffered(e) <= HighWater

(* As long as the ends agree on the order of the rotations of the two     *)
(* directions, nothing fails to decrypt: one direction alone may rotate   *)
(* as often as it likes.                                                  *)
OnlyCrossingRotationsFail ==
  (\E e \in broken : handshake[e] = "ready") =>
    LET a == noise[Initiator].ck
        b == noise[Responder].ck
    IN  ~IsPrefix(a, b) /\ ~IsPrefix(b, a)

(* Every message written reaches the other end's reader, unless the       *)
(* connection is lost: no unit waits for an event that has passed.        *)
WrittenIsRead ==
  \A e \in End : \A k \in 1..MaxMessages :
    written[e] = k ~> (consumed[Other(e)] >= k \/ open # End)

-----------------------------------------------------------------------------
(* The inductive invariant of NonceIsFresh and ReadAheadIsBounded.        *)

(* A NoiseState: all its fields, and a chaining key that is a sequence. *)
NoiseState(n) ==
  /\ n = [rpk |-> n.rpk, repk |-> n.repk, h |-> n.h, ck |-> n.ck,
          sk |-> n.sk, rk |-> n.rk, sn |-> n.sn, rn |-> n.rn]
  /\ \E T : n.ck \in Seq(T)

(* After act three: the keys of the two directions.  A key came out of a  *)
(* chaining key that is no longer than the one that is next mixed into.   *)
Transporting(n, e) ==
  /\ n.sk = Key(SendHalf(e), n.sk.ck)
  /\ n.rk = Key(SendHalf(Other(e)), n.rk.ck)
  /\ n.sn \in Nat /\ n.rn \in Nat
  /\ \E T : n.sk.ck \in Seq(T)
  /\ Len(n.sk.ck) <= Len(n.ck)

(* What was sealed (S) with the keys of an end: no key was longer than   *)
(* the one in use, and the nonces of that one are below the next.         *)
SealedBy(S, n, e) ==
  \A s \in S : s.key.half = SendHalf(e) =>
    /\ Len(s.key.ck) \in Nat /\ Len(s.key.ck) <= Len(n.sk.ck)
    /\ s.nonce \in Nat
    /\ s.key = n.sk => s.nonce < n.sn

KeysInv ==
  /\ noise = [e \in End |-> noise[e]]
  /\ handshake = [e \in End |-> handshake[e]]
  /\ \A e \in End :
       /\ NoiseState(noise[e])
       /\ IF handshake[e] = "ready"
            THEN Transporting(noise[e], e) /\ SealedBy(sealed, noise[e], e)
            ELSE \A s \in sealed : s.key.half # SendHalf(e)
  /\ \A s \in sealed : s.key.half \in {1, 2}

(* A socket that is not blocked has room for the message it reads. *)
BufferInv ==
  /\ received \in [End -> Nat] /\ consumed \in [End -> Nat]
  /\ reading \in [End -> {"ready_for_len", "ready_for_body", "blocked"}]
  /\ \A e \in End :
       /\ consumed[e] <= received[e] /\ Buffered(e) <= HighWater
       /\ reading[e] # "blocked" => Buffered(e) < HighWater

IInv == KeysInv /\ NonceIsFresh /\ BufferInv
=============================================================================
