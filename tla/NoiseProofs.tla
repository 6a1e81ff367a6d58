----------------------------- MODULE NoiseProofs -----------------------------
(* That no nonce is used twice with a key, that reading ahead is bounded, *)
(* that an end is ready only after a handshake with the node it dialed,   *)
(* that nothing fails to decrypt unless rotations crossed, and the types: *)
(* for every rotation period, high water mark, dialed key and number of   *)
(* messages.                                                              *)
EXTENDS Noise, TLAPS

LEMMA Ends ==
  /\ End = {Initiator, Responder} /\ Initiator # Responder
  /\ \A e \in End : Other(e) \in End /\ SendHalf(e) \in {1, 2}
  /\ \A e \in End : SendHalf(Other(e)) # SendHalf(e) /\ SendHalf(e) = 3 - SendHalf(Other(e))
  /\ \A e, f \in End : SendHalf(e) = SendHalf(f) => e = f
  BY DEF End, Initiator, Responder, Other, SendHalf

(* Appending to a sequence of whatever gives a longer sequence. *)
LEMMA Longer ==
  ASSUME NEW s, NEW x, \E T : s \in Seq(T)
  PROVE  /\ \E T : Append(s, x) \in Seq(T)
         /\ Len(Append(s, x)) = Len(s) + 1
         /\ Len(s) \in Nat
<1>1. PICK T : s \in Seq(T)
  OBVIOUS
<1>2. s \in Seq(T \cup {x})
  BY <1>1
<1>3. Append(s, x) \in Seq(T \cup {x})
  BY <1>2
<1> QED
  BY <1>1, <1>2, <1>3

LEMMA Fields ==
  ASSUME NEW n, NoiseState(n)
  PROVE  n = [rpk |-> n.rpk, repk |-> n.repk, h |-> n.h, ck |-> n.ck,
              sk |-> n.sk, rk |-> n.rk, sn |-> n.sn, rn |-> n.rn]
  BY DEF NoiseState

(* Hashing and mixing leave a NoiseState. *)
LEMMA HashKeeps ==
  ASSUME NEW n, NEW part, NoiseState(n)
  PROVE  NoiseState(Hash(n, part)) /\ Hash(n, part).ck = n.ck
<1> DEFINE m == Hash(n, part)
<1>1. m = [rpk |-> n.rpk, repk |-> n.repk, h |-> Append(n.h, part), ck |-> n.ck,
           sk |-> n.sk, rk |-> n.rk, sn |-> n.sn, rn |-> n.rn]
  BY Fields DEF Hash
<1> HIDE DEF m
<1>2. m.ck = n.ck
  BY <1>1
<1>3. NoiseState(m)
  BY <1>1, <1>2 DEF NoiseState
<1> QED
  BY <1>2, <1>3 DEF m

LEMMA MixKeeps ==
  ASSUME NEW n, NEW ss, NoiseState(n)
  PROVE  NoiseState(Mix(n, ss))
<1> DEFINE c == Append(n.ck, ss)
<1>1. \E T : c \in Seq(T)
  BY Longer DEF NoiseState
<1>2. Mix(n, ss) = [rpk |-> n.rpk, repk |-> n.repk, h |-> n.h, ck |-> c,
                    sk |-> n.sk, rk |-> n.rk, sn |-> n.sn, rn |-> n.rn]
  BY Fields DEF Mix
<1> HIDE DEF c
<1> QED
  BY <1>1, <1>2 DEF NoiseState

LEMMA ExchangedKeeps ==
  ASSUME NEW n, NEW epk, NEW ss, NoiseState(n)
  PROVE  NoiseState(Exchanged(n, epk, ss))
  BY HashKeeps, MixKeeps DEF Exchanged

LEMMA FieldKeeps ==
  ASSUME NEW n, NEW x, NoiseState(n)
  PROVE  NoiseState([n EXCEPT !.repk = x]) /\ NoiseState([n EXCEPT !.rpk = x])
  BY DEF NoiseState

(* The split of act three. *)
LEMMA SplitTransports ==
  ASSUME NEW n, NEW e \in End, NoiseState(n)
  PROVE  NoiseState(Split(n, e)) /\ Transporting(Split(n, e), e)
<1>1. Split(n, e) = [rpk |-> n.rpk, repk |-> n.repk, h |-> n.h, ck |-> n.ck,
                     sk |-> Key(SendHalf(e), n.ck), rk |-> Key(SendHalf(Other(e)), n.ck),
                     sn |-> 0, rn |-> 0]
  <2> DEFINE m == Split(n, e)
             a == Key(SendHalf(e), n.ck)
             b == Key(SendHalf(Other(e)), n.ck)
  <2>0. n = [rpk |-> n.rpk, repk |-> n.repk, h |-> n.h, ck |-> n.ck,
             sk |-> n.sk, rk |-> n.rk, sn |-> n.sn, rn |-> n.rn]
    BY Fields
  <2>1. m = [n EXCEPT !.sk = a, !.rk = b, !.sn = 0, !.rn = 0]
    BY DEF Split
  <2> HIDE DEF a, b, m
  <2>2. m = [rpk |-> n.rpk, repk |-> n.repk, h |-> n.h, ck |-> n.ck,
             sk |-> a, rk |-> b, sn |-> 0, rn |-> 0]
    BY <2>0, <2>1
  <2> QED
    BY <2>2 DEF a, b, m
<1>2. Len(n.ck) \in Nat /\ \E T : n.ck \in Seq(T)
  BY Longer DEF NoiseState
<1> QED
  BY <1>1, <1>2 DEF NoiseState, Transporting, Key

(* One use of the sending key: the same key with the next nonce, or a     *)
(* longer key.                                                            *)
LEMMA SendingKeeps ==
  ASSUME NEW n, NEW e \in End, NoiseState(n), Transporting(n, e)
  PROVE  LET m == UsedToSend(n) IN
         /\ NoiseState(m) /\ Transporting(m, e)
         /\ \/ m.sk = n.sk /\ m.sn = n.sn + 1
            \/ Len(m.sk.ck) > Len(n.sk.ck)
<1> DEFINE m == UsedToSend(n)
           c == Append(n.ck, SendHalf(e))
<1>0. /\ \E T : c \in Seq(T)
      /\ Len(c) = Len(n.ck) + 1 /\ Len(n.ck) \in Nat /\ Len(n.sk.ck) \in Nat
  BY Longer DEF NoiseState, Transporting
<1>1. CASE n.sn + 1 >= RotateAt
  <2>1. n.sk.half = SendHalf(e)
    BY DEF Transporting, Key
  <2>2. m = [rpk |-> n.rpk, repk |-> n.repk, h |-> n.h, ck |-> c,
             sk |-> Key(SendHalf(e), c), rk |-> n.rk, sn |-> 0, rn |-> n.rn]
    BY <1>1, <2>1 DEF UsedToSend, Rotate, NoiseState
  <2> HIDE DEF c, m
  <2>3. m.ck = c /\ m.sk = Key(SendHalf(e), c) /\ m.sk.ck = c /\ m.rk = n.rk
        /\ m.sn = 0 /\ m.rn = n.rn
    BY <2>2 DEF Key
  <2>4. NoiseState(m)
    BY <1>0, <2>2 DEF NoiseState
  <2>5. Transporting(m, e)
    BY <1>0, <2>3 DEF Transporting
  <2>6. Len(m.sk.ck) > Len(n.sk.ck)
    <3>1. Len(n.sk.ck) <= Len(n.ck)
      BY DEF Transporting
    <3> QED
      BY <1>0, <2>3, <3>1 DEF c
  <2> QED
    BY <2>4, <2>5, <2>6 DEF m
<1>2. CASE ~(n.sn + 1 >= RotateAt)
  <2>1. m = [rpk |-> n.rpk, repk |-> n.repk, h |-> n.h, ck |-> n.ck,
             sk |-> n.sk, rk |-> n.rk, sn |-> n.sn + 1, rn |-> n.rn]
    BY <1>2 DEF UsedToSend, NoiseState
  <2>2. n.sn + 1 \in Nat
    BY DEF Transporting
  <2> HIDE DEF m
  <2>3. NoiseState(m) /\ Transporting(m, e) /\ m.sk = n.sk /\ m.sn = n.sn + 1
    BY <2>1, <2>2 DEF NoiseState, Transporting
  <2> QED
    BY <2>3 DEF m
<1> QED
  BY <1>1, <1>2

(* One use of the receiving key leaves the sending key as it is. *)
LEMMA ReceivingKeeps ==
  ASSUME NEW n, NEW e \in End, NoiseState(n), Transporting(n, e)
  PROVE  LET m == UsedToReceive(n) IN
         NoiseState(m) /\ Transporting(m, e) /\ m.sk = n.sk /\ m.sn = n.sn
<1> DEFINE m == UsedToReceive(n)
           h == SendHalf(Other(e))
           c == Append(n.ck, h)
<1>0. /\ \E T : c \in Seq(T)
      /\ Len(c) = Len(n.ck) + 1 /\ Len(n.ck) \in Nat /\ Len(n.sk.ck) \in Nat
  BY Longer DEF NoiseState, Transporting
<1>1. CASE n.rn + 1 >= RotateAt
  <2>1. n.rk.half = h
    BY DEF Transporting, Key
  <2>2. m = [rpk |-> n.rpk, repk |-> n.repk, h |-> n.h, ck |-> c,
             sk |-> n.sk, rk |-> Key(h, c), sn |-> n.sn, rn |-> 0]
    BY <1>1, <2>1 DEF UsedToReceive, Rotate, NoiseState
  <2> HIDE DEF c, m
  <2>3. m.ck = c /\ m.sk = n.sk /\ m.rk = Key(h, m.rk.ck) /\ m.sn = n.sn /\ m.rn = 0
    BY <2>2 DEF Key
  <2>4. NoiseState(m)
    BY <1>0, <2>2 DEF NoiseState
  <2>5. Transporting(m, e)
    BY <1>0, <2>3 DEF Transporting
  <2> QED
    BY <2>3, <2>4, <2>5 DEF m
<1>2. CASE ~(n.rn + 1 >= RotateAt)
  <2>1. m = [rpk |-> n.rpk, repk |-> n.repk, h |-> n.h, ck |-> n.ck,
             sk |-> n.sk, rk |-> n.rk, sn |-> n.sn, rn |-> n.rn + 1]
    BY <1>2 DEF UsedToReceive, NoiseState
  <2>2. n.rn + 1 \in Nat
    BY DEF Transporting
  <2> HIDE DEF m
  <2>3. NoiseState(m) /\ Transporting(m, e) /\ m.sk = n.sk /\ m.sn = n.sn
    BY <2>1, <2>2 DEF NoiseState, Transporting
  <2> QED
    BY <2>3 DEF m
<1> QED
  BY <1>1, <1>2

(* Sealing one text with the next nonce: no text was sealed with it, and  *)
(* the keys and nonces in use stay ahead of those used.                   *)
LEMMA SealOnce ==
  ASSUME NEW S, NEW n, NEW e \in End, NEW text,
         NoiseState(n), Transporting(n, e), SealedBy(S, n, e)
  PROVE  LET t == Seal(n.sk, n.sn, <<>>, text) IN
         /\ SealedBy(S \cup {t}, UsedToSend(n), e)
         /\ \A s \in S : ~(s.key = t.key /\ s.nonce = t.nonce)
<1> DEFINE m == UsedToSend(n)
           t == Seal(n.sk, n.sn, <<>>, text)
<1>1. t.key = n.sk /\ t.nonce = n.sn
  BY DEF Seal
<1>2. n.sk.half = SendHalf(e) /\ n.sn \in Nat /\ Len(n.sk.ck) \in Nat
  BY Longer DEF Transporting, Key
<1>3. \/ m.sk = n.sk /\ m.sn = n.sn + 1
      \/ Len(m.sk.ck) > Len(n.sk.ck)
  BY SendingKeeps
<1>4. Len(m.sk.ck) \in Nat
  <2>1. Transporting(m, e)
    BY SendingKeeps
  <2> QED
    BY <2>1, Longer DEF Transporting
<1> HIDE DEF m, t
<1>5. \A s \in S : ~(s.key = t.key /\ s.nonce = t.nonce)
  BY <1>1, <1>2 DEF SealedBy
<1>6. SealedBy(S \cup {t}, m, e)
  <2> SUFFICES ASSUME NEW s \in S \cup {t}, s.key.half = SendHalf(e)
               PROVE  /\ Len(s.key.ck) \in Nat /\ Len(s.key.ck) <= Len(m.sk.ck)
                      /\ s.nonce \in Nat
                      /\ s.key = m.sk => s.nonce < m.sn
    BY DEF SealedBy
  <2>1. /\ Len(s.key.ck) \in Nat /\ Len(s.key.ck) <= Len(n.sk.ck)
        /\ s.nonce \in Nat
        /\ s.key = n.sk => s.nonce < n.sn + 1
    BY <1>1, <1>2 DEF SealedBy
  <2> QED
    BY <1>2, <1>3, <1>4, <2>1
<1> QED
  BY <1>5, <1>6 DEF m, t

(* A step that changes the NoiseState of one end, and seals nothing.      *)
LEMMA KeysFrame ==
  ASSUME KeysInv, NEW e \in End, NEW m, NEW st,
         noise' = [noise EXCEPT ![e] = m],
         handshake' = [handshake EXCEPT ![e] = st],
         sealed' = sealed,
         NoiseState(m),
         st = "ready" => Transporting(m, e) /\ SealedBy(sealed, m, e),
         st # "ready" => handshake[e] # "ready"
  PROVE  KeysInv'
<1>1. /\ noise' = [f \in End |-> noise'[f]] /\ handshake' = [f \in End |-> handshake'[f]]
      /\ noise'[e] = m /\ handshake'[e] = st
      /\ \A f \in End \ {e} : noise'[f] = noise[f] /\ handshake'[f] = handshake[f]
  BY DEF KeysInv
<1>2. ASSUME NEW f \in End
      PROVE  /\ NoiseState(noise'[f])
             /\ IF handshake'[f] = "ready"
                  THEN Transporting(noise'[f], f) /\ SealedBy(sealed, noise'[f], f)
                  ELSE \A s \in sealed : s.key.half # SendHalf(f)
  <2>1. CASE f = e
    BY <1>1, <2>1 DEF KeysInv
  <2>2. CASE f # e
    BY <1>1, <2>2 DEF KeysInv
  <2> QED
    BY <2>1, <2>2
<1>3. KeysInv'
  BY <1>1, <1>2 DEF KeysInv, NoiseState, Transporting, SealedBy
<1> QED
  BY <1>3

(* Nothing is sealed with the keys of an end that is not ready. *)
LEMMA NotYetSealed ==
  ASSUME KeysInv, NEW e \in End, handshake[e] # "ready", NEW n
  PROVE  SealedBy(sealed, n, e)
  BY DEF KeysInv, SealedBy

LEMMA KeysStutter ==
  ASSUME KeysInv, UNCHANGED <<noise, handshake, sealed>>
  PROVE  KeysInv'
  BY DEF KeysInv, NoiseState, Transporting, SealedBy

(* The other two conjuncts, where a step leaves what they speak of. *)
LEMMA BufferFrame ==
  ASSUME BufferInv, received' = received, consumed' = consumed,
         \/ reading' = reading
         \/ \E e \in End, r \in {"ready_for_len", "ready_for_body"} :
              reading[e] # "blocked" /\ reading' = [reading EXCEPT ![e] = r]
  PROVE  BufferInv'
  BY DEF BufferInv, Buffered

LEMMA NonceFrame ==
  ASSUME NonceIsFresh, sealed' = sealed
  PROVE  NonceIsFresh'
  BY DEF NonceIsFresh

(* A socket that is destroyed. *)
LEMMA DestroyKeeps ==
  ASSUME IInv, NEW e \in End, Destroy(e)
  PROVE  IInv'
<1>1. KeysInv'
  BY KeysStutter DEF IInv, Destroy, transport
<1>2. BufferInv'
  BY BufferFrame DEF IInv, Destroy, transport
<1>3. NonceIsFresh'
  BY NonceFrame DEF IInv, Destroy, transport
<1> QED
  BY <1>1, <1>2, <1>3 DEF IInv

(* An act that succeeds: a NoiseState in a state of the handshake, or,    *)
(* split, in "ready".                                                     *)
LEMMA ActKeeps ==
  ASSUME IInv, NEW e \in End, NEW m, NEW st, handshake[e] # "ready",
         noise' = [noise EXCEPT ![e] = m],
         handshake' = [handshake EXCEPT ![e] = st],
         UNCHANGED <<reading, transport>>,
         NoiseState(m), st = "ready" => Transporting(m, e)
  PROVE  IInv'
<1>1. KeysInv'
  <2>1. SealedBy(sealed, m, e)
    BY NotYetSealed DEF IInv
  <2> QED
    BY <2>1, KeysFrame DEF IInv, transport
<1>2. BufferInv'
  BY BufferFrame DEF IInv, transport
<1>3. NonceIsFresh'
  BY NonceFrame DEF IInv, transport
<1> QED
  BY <1>1, <1>2, <1>3 DEF IInv

LEMMA InitInv == Init => IInv
<1> SUFFICES ASSUME Init PROVE IInv
  OBVIOUS
<1> USE Ends
<1>1. KeysInv
  <2>1. PICK rpk \in Dialed :
          noise = [e \in End |-> NewNoise(IF e = Initiator THEN rpk ELSE NoKey)]
    BY DEF Init
  <2>2. ASSUME NEW x PROVE NoiseState(NewNoise(x))
    <3>1. <<>> \in Seq({})
      OBVIOUS
    <3> QED
      BY <3>1 DEF NewNoise, NoiseState
  <2>3. \A e \in End : NoiseState(noise[e])
    BY <2>1, <2>2
  <2>4. handshake = [e \in End |-> handshake[e]] /\ \A e \in End : handshake[e] # "ready"
    BY DEF Init
  <2>5. noise = [e \in End |-> noise[e]] /\ sealed = {}
    BY <2>1 DEF Init
  <2> QED
    BY <2>3, <2>4, <2>5 DEF KeysInv
<1>2. BufferInv
  BY NoiseAssumption DEF Init, BufferInv, Buffered
<1>3. NonceIsFresh
  BY DEF Init, NonceIsFresh
<1> QED
  BY <1>1, <1>2, <1>3 DEF IInv

LEMMA InitiateHandshakeKeeps == IInv /\ InitiateHandshake => IInv'
<1> SUFFICES ASSUME IInv, InitiateHandshake PROVE IInv'
  OBVIOUS
<1> DEFINE n == InitiatorAct1(noise[Initiator])
           c == Sealed(n, 0, "")
<1>1. Initiator \in End /\ handshake[Initiator] # "ready"
  BY Ends DEF InitiateHandshake
<1>2. NoiseState(Hash(n, c))
  <2>1. NoiseState(noise[Initiator])
    BY <1>1 DEF IInv, KeysInv
  <2>2. NoiseState(n)
    BY <2>1, HashKeeps, ExchangedKeeps DEF InitiatorAct1
  <2> QED
    BY <2>2, HashKeeps
<1>3. /\ noise' = [noise EXCEPT ![Initiator] = Hash(n, c)]
      /\ handshake' = [handshake EXCEPT ![Initiator] = "awaiting_responder_reply"]
      /\ UNCHANGED <<reading, transport>>
  BY DEF InitiateHandshake
<1> HIDE DEF n, c
<1> QED
  BY <1>1, <1>2, <1>3, ActKeeps

LEMMA ProcessInitiatorKeeps == IInv /\ ProcessInitiator => IInv'
<1> SUFFICES ASSUME IInv, ProcessInitiator PROVE IInv'
  OBVIOUS
<1> DEFINE m  == Head(socket[Responder])
           n1 == ReceiveAct1(noise[Responder], m)
           n2 == ReceiveAct2(Hash(n1, m.c))
           c  == Sealed(n2, 0, "")
<1>1. Responder \in End /\ handshake[Responder] # "ready"
  BY Ends DEF ProcessInitiator
<1>2. NoiseState(Hash(n2, c))
  <2>1. NoiseState(noise[Responder])
    BY <1>1 DEF IInv, KeysInv
  <2>2. NoiseState([noise[Responder] EXCEPT !.repk = m.epk])
    BY <2>1, FieldKeeps
  <2>3. NoiseState(n1)
    BY <2>2, HashKeeps, ExchangedKeeps DEF ReceiveAct1
  <2>4. NoiseState(n2)
    BY <2>3, HashKeeps, ExchangedKeeps DEF ReceiveAct2
  <2> QED
    BY <2>4, HashKeeps
<1>3. \/ /\ noise' = [noise EXCEPT ![Responder] = Hash(n2, c)]
         /\ handshake' = [handshake EXCEPT ![Responder] = "awaiting_initiator_reply"]
         /\ UNCHANGED <<reading, transport>>
      \/ Destroy(Responder)
  BY DEF ProcessInitiator
<1> HIDE DEF n1, n2, c, m
<1> QED
  BY <1>1, <1>2, <1>3, ActKeeps, DestroyKeeps

LEMMA ProcessResponderReplyKeeps == IInv /\ ProcessResponderReply => IInv'
<1> SUFFICES ASSUME IInv, ProcessResponderReply PROVE IInv'
  OBVIOUS
<1> DEFINE m  == Head(socket[Initiator])
           n2 == InitiatorAct2(noise[Initiator], m)
           n3 == Hash(n2, m.c)
           c  == Sealed(n3, 1, Static(Initiator))
           n4 == Mix(Hash(n3, c), Ecdh(n3.repk, Static(Initiator)))
<1>1. Initiator \in End /\ handshake[Initiator] # "ready"
  BY Ends DEF ProcessResponderReply
<1>2. NoiseState(n4)
  <2>1. NoiseState(noise[Initiator])
    BY <1>1 DEF IInv, KeysInv
  <2>2. NoiseState([noise[Initiator] EXCEPT !.repk = m.epk])
    BY <2>1, FieldKeeps
  <2>3. NoiseState(n2)
    BY <2>2, ExchangedKeeps DEF InitiatorAct2
  <2>4. NoiseState(n3)
    BY <2>3, HashKeeps
  <2> QED
    BY <2>4, HashKeeps, MixKeeps
<1>3. \/ /\ noise' = [noise EXCEPT ![Initiator] = Split(n4, Initiator)]
         /\ handshake' = [handshake EXCEPT ![Initiator] = "ready"]
         /\ UNCHANGED <<reading, transport>>
      \/ Destroy(Initiator)
  BY DEF ProcessResponderReply
<1> HIDE DEF n2, n3, c, n4, m
<1>4. NoiseState(Split(n4, Initiator)) /\ Transporting(Split(n4, Initiator), Initiator)
  BY <1>1, <1>2, SplitTransports
<1> QED
  BY <1>1, <1>3, <1>4, ActKeeps, DestroyKeeps

LEMMA ProcessInitiatorReplyKeeps == IInv /\ ProcessInitiatorReply => IInv'
<1> SUFFICES ASSUME IInv, ProcessInitiatorReply PROVE IInv'
  OBVIOUS
<1> DEFINE m  == Head(socket[Responder])
           n1 == noise[Responder]
           n2 == [Hash(n1, m.c) EXCEPT !.rpk = m.c.text]
           n3 == Mix(n2, Ecdh(n2.rpk, Ephemeral(Responder)))
<1>1. Responder \in End /\ handshake[Responder] # "ready"
  BY Ends DEF ProcessInitiatorReply
<1>2. NoiseState(n3)
  <2>1. NoiseState(Hash(n1, m.c))
    BY <1>1, HashKeeps DEF IInv, KeysInv
  <2>2. NoiseState(n2)
    BY <2>1, FieldKeeps
  <2> QED
    BY <2>2, MixKeeps
<1>3. \/ /\ noise' = [noise EXCEPT ![Responder] = Split(n3, Responder)]
         /\ handshake' = [handshake EXCEPT ![Responder] = "ready"]
         /\ UNCHANGED <<reading, transport>>
      \/ Destroy(Responder)
  BY DEF ProcessInitiatorReply
<1> HIDE DEF n1, n2, n3, m
<1>4. NoiseState(Split(n3, Responder)) /\ Transporting(Split(n3, Responder), Responder)
  BY <1>1, <1>2, SplitTransports
<1> QED
  BY <1>1, <1>3, <1>4, ActKeeps, DestroyKeeps

LEMMA WriteKeeps == ASSUME NEW e \in End PROVE IInv /\ Write(e) => IInv'
<1> SUFFICES ASSUME IInv, Write(e) PROVE IInv'
  OBVIOUS
<1> DEFINE n  == noise[e]
           n1 == UsedToSend(n)
           n2 == UsedToSend(n1)
           k  == written[e] + 1
           lc == Seal(n.sk, n.sn, <<>>, <<"length", k>>)
           c  == Seal(n1.sk, n1.sn, <<>>, <<"message", k>>)
           S1 == sealed \cup {lc}
           S2 == S1 \cup {c}
<1>0. /\ handshake[e] = "ready" /\ handshake' = handshake
      /\ noise' = [noise EXCEPT ![e] = n2]
      /\ sealed' = S2
      /\ UNCHANGED <<reading, received, consumed>>
  BY DEF Write
<1>1. NoiseState(n) /\ Transporting(n, e) /\ SealedBy(sealed, n, e)
  BY <1>0 DEF IInv, KeysInv
<1>2. /\ NoiseState(n1) /\ Transporting(n1, e) /\ SealedBy(S1, n1, e)
      /\ \A s \in sealed : ~(s.key = lc.key /\ s.nonce = lc.nonce)
  BY <1>1, SendingKeeps, SealOnce
<1>h. lc.key.half = SendHalf(e) /\ c.key.half = SendHalf(e)
  <2>1. n.sk.half = SendHalf(e)
    BY <1>1 DEF Transporting, Key
  <2>2. n1.sk.half = SendHalf(e)
    <3> HIDE DEF n1
    <3> QED
      BY <1>2 DEF Transporting, Key
  <2>3. lc.key = n.sk /\ c.key = n1.sk
    BY DEF Seal
  <2> QED
    BY <2>1, <2>2, <2>3
<1> HIDE DEF n1, lc
<1>3. /\ NoiseState(n2) /\ Transporting(n2, e) /\ SealedBy(S2, n2, e)
      /\ \A s \in S1 : ~(s.key = c.key /\ s.nonce = c.nonce)
  <2> HIDE DEF S1
  <2> QED
    BY <1>2, SendingKeeps, SealOnce
<1> HIDE DEF n2, c
<1>4. NonceIsFresh'
  BY <1>0, <1>2, <1>3 DEF IInv, NonceIsFresh
<1>5. BufferInv'
  BY <1>0, BufferFrame DEF IInv
<1>6. KeysInv'
  <2>1. /\ noise' = [f \in End |-> noise'[f]] /\ noise'[e] = n2
        /\ \A f \in End \ {e} : noise'[f] = noise[f]
    BY <1>0 DEF IInv, KeysInv
  <2>2. \A s \in sealed' : s \in sealed \/ s.key.half = SendHalf(e)
    BY <1>0, <1>h
  <2>3. \A f \in End \ {e} : SendHalf(f) # SendHalf(e)
    BY Ends
  <2>4. ASSUME NEW f \in End
        PROVE  /\ NoiseState(noise'[f])
               /\ IF handshake'[f] = "ready"
                    THEN Transporting(noise'[f], f) /\ SealedBy(sealed', noise'[f], f)
                    ELSE \A s \in sealed' : s.key.half # SendHalf(f)
    <3>1. CASE f = e
      BY <1>0, <1>3, <2>1, <3>1
    <3>2. CASE f # e
      BY <1>0, <2>1, <2>2, <2>3, <3>2 DEF IInv, KeysInv, SealedBy
    <3> QED
      BY <3>1, <3>2
  <2>5. \A s \in sealed' : s.key.half \in {1, 2}
    BY <2>2, Ends DEF IInv, KeysInv
  <2>6. handshake' = [f \in End |-> handshake'[f]]
    BY <1>0 DEF IInv, KeysInv
  <2> QED
    BY <2>1, <2>4, <2>5, <2>6 DEF KeysInv, NoiseState, Transporting, SealedBy
<1> QED
  BY <1>4, <1>5, <1>6 DEF IInv

LEMMA LengthKeeps == ASSUME NEW e \in End PROVE IInv /\ ProcessPacketLength(e) => IInv'
<1> SUFFICES ASSUME IInv, ProcessPacketLength(e) PROVE IInv'
  OBVIOUS
<1>1. CASE Destroy(e)
  BY <1>1, DestroyKeeps
<1>2. CASE ~Destroy(e)
  <2> DEFINE m == UsedToReceive(noise[e])
  <2>1. /\ handshake[e] = "ready" /\ handshake' = handshake
        /\ noise' = [noise EXCEPT ![e] = m]
        /\ reading[e] = "ready_for_len" /\ reading' = [reading EXCEPT ![e] = "ready_for_body"]
        /\ UNCHANGED transport
    BY <1>2 DEF ProcessPacketLength
  <2>2. NoiseState(m) /\ Transporting(m, e) /\ m.sk = noise[e].sk /\ m.sn = noise[e].sn
    BY <2>1, ReceivingKeeps DEF IInv, KeysInv
  <2> HIDE DEF m
  <2>3. SealedBy(sealed, m, e)
    BY <2>1, <2>2 DEF IInv, KeysInv, SealedBy
  <2>4. handshake' = [handshake EXCEPT ![e] = "ready"]
    BY <2>1 DEF IInv, KeysInv
  <2>5. KeysInv'
    BY <2>1, <2>2, <2>3, <2>4, KeysFrame DEF IInv, transport
  <2>6. BufferInv'
    BY <2>1, BufferFrame DEF IInv, transport
  <2>7. NonceIsFresh'
    BY <2>1, NonceFrame DEF IInv, transport
  <2> QED
    BY <2>5, <2>6, <2>7 DEF IInv
<1> QED
  BY <1>1, <1>2

LEMMA BodyKeeps == ASSUME NEW e \in End PROVE IInv /\ ProcessPacketBody(e) => IInv'
<1> SUFFICES ASSUME IInv, ProcessPacketBody(e) PROVE IInv'
  OBVIOUS
<1>1. CASE Destroy(e)
  BY <1>1, DestroyKeeps
<1>2. CASE ~Destroy(e)
  <2> DEFINE m == UsedToReceive(noise[e])
  <2>1. /\ handshake[e] = "ready" /\ handshake' = handshake
        /\ noise' = [noise EXCEPT ![e] = m]
        /\ reading[e] = "ready_for_body" /\ reading' = [reading EXCEPT ![e] = Push(e)]
        /\ received' = [received EXCEPT ![e] = @ + 1]
        /\ UNCHANGED <<consumed, sealed>>
    BY <1>2 DEF ProcessPacketBody
  <2>2. NoiseState(m) /\ Transporting(m, e) /\ m.sk = noise[e].sk /\ m.sn = noise[e].sn
    BY <2>1, ReceivingKeeps DEF IInv, KeysInv
  <2> HIDE DEF m
  <2>3. SealedBy(sealed, m, e)
    BY <2>1, <2>2 DEF IInv, KeysInv, SealedBy
  <2>4. handshake' = [handshake EXCEPT ![e] = "ready"]
    BY <2>1 DEF IInv, KeysInv
  <2>5. KeysInv'
    BY <2>1, <2>2, <2>3, <2>4, KeysFrame DEF IInv
  <2>6. BufferInv'
    BY <2>1, NoiseAssumption DEF IInv, BufferInv, Buffered, Push
  <2>7. NonceIsFresh'
    BY <2>1, NonceFrame DEF IInv
  <2> QED
    BY <2>5, <2>6, <2>7 DEF IInv
<1> QED
  BY <1>1, <1>2

LEMMA ConsumeKeeps == ASSUME NEW e \in End PROVE IInv /\ Consume(e) => IInv'
<1> SUFFICES ASSUME IInv, Consume(e) PROVE IInv'
  OBVIOUS
<1>1. KeysInv'
  BY KeysStutter DEF IInv, Consume
<1>2. BufferInv'
  BY NoiseAssumption DEF IInv, BufferInv, Buffered, Consume, Unblock
<1>3. NonceIsFresh'
  BY NonceFrame DEF IInv, Consume
<1> QED
  BY <1>1, <1>2, <1>3 DEF IInv

LEMMA CloseKeeps == ASSUME NEW e \in End PROVE IInv /\ Close(e) => IInv'
<1> SUFFICES ASSUME IInv, Close(e) PROVE IInv'
  OBVIOUS
<1>1. KeysInv'
  BY KeysStutter DEF IInv, Close, transport
<1>2. BufferInv'
  BY BufferFrame DEF IInv, Close, transport
<1>3. NonceIsFresh'
  BY NonceFrame DEF IInv, Close, transport
<1> QED
  BY <1>1, <1>2, <1>3 DEF IInv

LEMMA StutterKeeps == IInv /\ UNCHANGED vars => IInv'
<1> SUFFICES ASSUME IInv, UNCHANGED vars PROVE IInv'
  OBVIOUS
<1>1. KeysInv'
  BY KeysStutter DEF IInv, vars
<1>2. BufferInv'
  BY BufferFrame DEF IInv, vars
<1>3. NonceIsFresh'
  BY NonceFrame DEF IInv, vars
<1> QED
  BY <1>1, <1>2, <1>3 DEF IInv

(* The invariant is inductive. *)
THEOREM Invariance == Spec => []IInv
<1>1. IInv /\ [Next]_vars => IInv'
  <2> SUFFICES ASSUME IInv, [Next]_vars PROVE IInv'
    OBVIOUS
  <2>1. CASE InitiateHandshake
    BY <2>1, InitiateHandshakeKeeps
  <2>2. ASSUME NEW e \in End, OnData(e) PROVE IInv'
    BY <2>2, ProcessInitiatorKeeps, ProcessResponderReplyKeeps, ProcessInitiatorReplyKeeps,
       LengthKeeps, BodyKeeps DEF OnData
  <2>3. ASSUME NEW e \in End, Write(e) \/ Consume(e) \/ Close(e) PROVE IInv'
    BY <2>3, WriteKeeps, ConsumeKeeps, CloseKeeps
  <2>4. CASE UNCHANGED vars
    BY <2>4, StutterKeeps
  <2> QED
    BY <2>1, <2>2, <2>3, <2>4 DEF Next
<1> QED
  BY <1>1, InitInv, PTL DEF Spec

(* No key ever seals two texts with one nonce, however often the two ends *)
(* rotate their keys (_incrementSendingNonce, _rotateSendingKeys).        *)
THEOREM NoncesAreFresh == Spec => []NonceIsFresh
<1>1. IInv => NonceIsFresh
  BY DEF IInv
<1> QED
  BY <1>1, Invariance, PTL

(* At most highWaterMark messages are decrypted ahead of the reader.      *)
THEOREM BackPressureWorks == Spec => []ReadAheadIsBounded
<1>1. IInv => ReadAheadIsBounded
  BY DEF IInv, BufferInv, ReadAheadIsBounded
<1> QED
  BY <1>1, Invariance, PTL
-----------------------------------------------------------------------------
(* The inductive invariant of ReadyIsAuthentic and                        *)
(* OnlyCrossingRotationsFail.                                             *)

IsSeq(s) == \E T : s \in Seq(T)

Begins(s, t) == Len(s) <= Len(t) /\ \A i \in 1..Len(s) : t[i] = s[i]

(* Of two chaining keys, one begins with the other: the ends have seen    *)
(* the rotations of both directions in one order.                         *)
Agree(s, t) == \A i \in 1..Len(s) : i <= Len(t) => s[i] = t[i]

IsKey(k, half) == k = Key(half, k.ck) /\ IsSeq(k.ck)

(* The key of a half that is in use: the chaining key has since been      *)
(* mixed with keys of the other half only.                                *)
Latest(k, ck) ==
  /\ Begins(k.ck, ck)
  /\ \A i \in Len(k.ck) + 1 .. Len(ck) : ck[i] # k.half

(* The key that l is rotated to from k. *)
NextKey(k, l) ==
  /\ l.half = k.half /\ Len(l.ck) > Len(k.ck) /\ Begins(k.ck, l.ck)
  /\ l.ck[Len(l.ck)] = k.half
  /\ \A i \in Len(k.ck) + 1 .. Len(l.ck) - 1 : l.ck[i] # k.half

(* The key and the nonce used after a key and a nonce.                    *)
Follows(k, a, l, b) ==
  IF a + 1 >= RotateAt THEN b = 0 /\ NextKey(k, l) ELSE b = a + 1 /\ l = k

(* The key and nonce of the i-th unit under way, and of the one that will *)
(* be sealed after them by an end in state n.                             *)
KeyAt(U, n, i)   == IF i <= Len(U) THEN U[i].c.key ELSE n.sk
NonceAt(U, n, i) == IF i <= Len(U) THEN U[i].c.nonce ELSE n.sn

(* The units U under way from an end in state n can be opened one after   *)
(* the other, beginning with a key and a nonce.                           *)
InStep(U, k, a, n) ==
  /\ IsSeq(U)
  /\ KeyAt(U, n, 1) = k /\ NonceAt(U, n, 1) = a
  /\ \A i \in 1..Len(U) :
       /\ U[i].c.ad = <<>>
       /\ IsKey(U[i].c.key, n.sk.half) /\ Begins(U[i].c.key.ck, n.ck)
       /\ Follows(KeyAt(U, n, i), NonceAt(U, n, i), KeyAt(U, n, i + 1), NonceAt(U, n, i + 1))

(* Both keys of an end are the latest of their half. *)
KeysAreLatest(n, e) ==
  /\ IsKey(n.sk, SendHalf(e)) /\ Latest(n.sk, n.ck)
  /\ IsKey(n.rk, SendHalf(Other(e))) /\ Latest(n.rk, n.ck)
  /\ Len(n.ck) >= 3

(* The chaining key of the handshake, which rotations extend. *)
Base(n) == SubSeq(n.ck, 1, 3)

(* The acts under way, and what the ends have hashed and mixed. *)
ActOne(u) == u.epk = Ephemeral(Initiator) /\ u.c.ad = <<noise[Initiator].rpk, u.epk>>
ActThree(u) == u.c.text = Static(Initiator) /\ u.t.key = Base(noise[Initiator])

(* Nothing was sent. *)
Initiating ==
  /\ handshake[Responder] = "awaiting_initiator"
  /\ noise[Initiator].h = <<>> /\ noise[Initiator].ck = <<>>
  /\ socket[Responder] = <<>>

(* The initiator has one secret, and at most act two to read. *)
AwaitingReply ==
  /\ handshake[Responder] # "ready"
  /\ Len(noise[Initiator].ck) = 1
  /\ IsSeq(socket[Initiator]) /\ Len(socket[Initiator]) <= 1

(* The responder has heard nothing, and can read only act one. *)
AwaitingInitiator ==
  /\ handshake[Initiator] # "ready"
  /\ noise[Responder].h = <<>> /\ noise[Responder].ck = <<>>
  /\ socket[Initiator] = <<>>
  /\ socket[Responder] # <<>> =>
       \E u : ActOne(u) /\ socket[Responder] = <<u>>

(* The responder has two secrets.  If act three was sent, it comes first, *)
(* and the units after it are in step with the keys it leads to.          *)
AwaitingInitiatorReply ==
  /\ handshake[Initiator] # "initiating"
  /\ Len(noise[Responder].ck) = 2
  /\ handshake[Initiator] = "awaiting_responder_reply" => socket[Responder] = <<>>
  /\ handshake[Initiator] = "ready" =>
       /\ socket[Initiator] = <<>>
       /\ noise[Initiator].rk = Key(SendHalf(Responder), Base(noise[Initiator]))
       /\ noise[Initiator].rn = 0
       /\ Responder \in open =>
            \E u, U : /\ socket[Responder] = <<u>> \o U
                      /\ ActThree(u)
                      /\ InStep(U, Key(SendHalf(Initiator), u.t.key), 0, noise[Initiator])

(* Both are ready: while the chaining keys agree, what is under way in    *)
(* either direction can be opened.                                        *)
ResponderReady ==
  /\ handshake[Initiator] = "ready"
  /\ noise[Responder].rpk = Static(Initiator)
  /\ Base(noise[Responder]) = Base(noise[Initiator])
  /\ Agree(noise[Initiator].ck, noise[Responder].ck) =>
       \A e \in open :
         InStep(socket[e], noise[e].rk, noise[e].rn, noise[Other(e)])

HandshakeInv ==
  /\ handshake[Initiator] \in {"initiating", "awaiting_responder_reply", "ready"}
  /\ handshake[Responder] \in {"awaiting_initiator", "awaiting_initiator_reply", "ready"}
  /\ handshake[Initiator] = "initiating" => Initiating
  /\ handshake[Initiator] = "awaiting_responder_reply" => AwaitingReply
  /\ handshake[Responder] = "awaiting_initiator" => AwaitingInitiator
  /\ handshake[Responder] # "awaiting_initiator" => noise[Initiator].rpk = Static(Responder)
  /\ handshake[Responder] = "awaiting_initiator_reply" => AwaitingInitiatorReply
  /\ handshake[Responder] = "ready" => ResponderReady

(* What breaks after the handshake breaks because the keys do not agree. *)
BrokenInv ==
  /\ open \subseteq End /\ broken \subseteq End \ open
  /\ \A e \in broken : handshake[e] = "ready" =>
       ~Agree(noise[Initiator].ck, noise[Responder].ck)

SessionInv ==
  /\ socket = [e \in End |-> socket[e]]
  /\ \A e \in End : handshake[e] = "ready" => KeysAreLatest(noise[e], e)
  /\ HandshakeInv /\ BrokenInv

LEMMA SeqLen == ASSUME NEW s, IsSeq(s) PROVE Len(s) \in Nat /\ DOMAIN s = 1..Len(s)
  BY DEF IsSeq

LEMMA Appended ==
  ASSUME NEW s, NEW x, IsSeq(s)
  PROVE  /\ IsSeq(Append(s, x)) /\ Len(Append(s, x)) = Len(s) + 1
         /\ \A i \in 1..Len(s) : Append(s, x)[i] = s[i]
         /\ Append(s, x)[Len(s) + 1] = x
         /\ Begins(s, Append(s, x))
<1>1. PICK T : s \in Seq(T)
  BY DEF IsSeq
<1>2. s \in Seq(T \cup {x}) /\ Append(s, x) \in Seq(T \cup {x})
  BY <1>1
<1>3. /\ Len(Append(s, x)) = Len(s) + 1
      /\ \A i \in 1..Len(s) : Append(s, x)[i] = s[i]
      /\ Append(s, x)[Len(s) + 1] = x
  BY <1>2
<1> QED
  BY <1>2, <1>3 DEF IsSeq, Begins

LEMMA Behead ==
  ASSUME NEW s, IsSeq(s), s # <<>>
  PROVE  /\ Len(s) >= 1 /\ Head(s) = s[1]
         /\ IsSeq(Tail(s)) /\ Len(Tail(s)) = Len(s) - 1
         /\ \A i \in 1..Len(s) - 1 : Tail(s)[i] = s[i + 1]
  BY DEF IsSeq

(* What follows the first of a sequence. *)
LEMMA Split1 ==
  ASSUME NEW u, NEW U, IsSeq(U)
  PROVE  /\ IsSeq(<<u>> \o U) /\ <<u>> \o U # <<>>
         /\ Head(<<u>> \o U) = u /\ Tail(<<u>> \o U) = U
<1>1. PICK T : U \in Seq(T)
  BY DEF IsSeq
<1>2. U \in Seq(T \cup {u}) /\ <<u>> \in Seq(T \cup {u}) /\ <<u>> \o U \in Seq(T \cup {u})
  BY <1>1
<1>3. <<u>> \o U # <<>> /\ Head(<<u>> \o U) = u /\ Tail(<<u>> \o U) = U
  BY <1>2
<1> QED
  BY <1>2, <1>3 DEF IsSeq

LEMMA SameSeq ==
  ASSUME NEW s, NEW t, IsSeq(s), IsSeq(t), Len(s) = Len(t),
         \A i \in 1..Len(s) : s[i] = t[i]
  PROVE  s = t
<1>1. PICK S : s \in Seq(S)
  BY DEF IsSeq
<1>2. PICK T : t \in Seq(T)
  BY DEF IsSeq
<1>3. s \in Seq(S \cup T) /\ t \in Seq(S \cup T)
  BY <1>1, <1>2
<1> QED
  BY <1>3

LEMMA BeginsTwice ==
  ASSUME NEW s, NEW t, NEW u, Len(s) \in Nat, Len(t) \in Nat, Len(u) \in Nat,
         Begins(s, t), Begins(t, u)
  PROVE  Begins(s, u)
  BY DEF Begins

(* Chaining keys that agree have always agreed. *)
LEMMA AgreedBefore ==
  ASSUME NEW s, NEW t, NEW s1, NEW t1,
         Len(s) \in Nat, Len(t) \in Nat, Len(s1) \in Nat, Len(t1) \in Nat,
         Begins(s, s1), Begins(t, t1), Agree(s1, t1)
  PROVE  Agree(s, t)
  BY DEF Begins, Agree

LEMMA AgreeIsSymmetric ==
  ASSUME NEW s, NEW t, Len(s) \in Nat, Len(t) \in Nat, Agree(s, t)
  PROVE  Agree(t, s)
  BY DEF Agree

LEMMA AgreeIsPrefix ==
  ASSUME NEW s, NEW t, IsSeq(s), IsSeq(t), IsPrefix(s, t)
  PROVE  Agree(s, t)
<1>1. Len(s) \in Nat /\ Len(t) \in Nat /\ Len(s) <= Len(t)
  BY SeqLen DEF IsPrefix
<1>2. ASSUME NEW i \in 1..Len(s) PROVE s[i] = t[i]
  <2>1. SubSeq(s, 1, Len(s))[i] = s[i] /\ SubSeq(t, 1, Len(s))[i] = t[i]
    BY <1>1 DEF IsSeq
  <2> QED
    BY <2>1 DEF IsPrefix
<1> QED
  BY <1>2 DEF Agree

(* The chaining key of the handshake stays. *)
LEMMA BaseStays ==
  ASSUME NEW s, NEW t, IsSeq(s), IsSeq(t), Begins(s, t), Len(s) >= 3
  PROVE  SubSeq(t, 1, 3) = SubSeq(s, 1, 3) /\ Len(t) >= 3
<1>1. Len(s) \in Nat /\ Len(t) \in Nat /\ Len(t) >= 3
  BY SeqLen DEF Begins
<1>2. /\ IsSeq(SubSeq(s, 1, 3)) /\ Len(SubSeq(s, 1, 3)) = 3
      /\ \A i \in 1..3 : SubSeq(s, 1, 3)[i] = s[i]
  BY <1>1 DEF IsSeq
<1>3. /\ IsSeq(SubSeq(t, 1, 3)) /\ Len(SubSeq(t, 1, 3)) = 3
      /\ \A i \in 1..3 : SubSeq(t, 1, 3)[i] = t[i]
  BY <1>1 DEF IsSeq
<1>4. \A i \in 1..3 : t[i] = s[i]
  BY <1>1 DEF Begins
<1> HIDE DEF IsSeq
<1> QED
  BY <1>1, <1>2, <1>3, <1>4, SameSeq

LEMMA BaseOfThree ==
  ASSUME NEW s, IsSeq(s), Len(s) = 3
  PROVE  SubSeq(s, 1, 3) = s
  BY DEF IsSeq

(* Mixing in a key of the other half. *)
LEMMA OtherHalfMixed ==
  ASSUME NEW k, NEW c, NEW x, IsSeq(c), IsSeq(k.ck), Latest(k, c), x # k.half
  PROVE  Latest(k, Append(c, x))
<1> DEFINE d == Append(c, x)
<1>1. /\ Len(d) = Len(c) + 1 /\ \A i \in 1..Len(c) : d[i] = c[i]
      /\ d[Len(c) + 1] = x /\ Len(c) \in Nat /\ Len(k.ck) \in Nat
  BY Appended, SeqLen
<1> HIDE DEF d
<1>2. Begins(k.ck, d)
  BY <1>1 DEF Latest, Begins
<1>3. ASSUME NEW i \in Len(k.ck) + 1 .. Len(d) PROVE d[i] # k.half
  <2>1. CASE i = Len(d)
    BY <1>1, <2>1
  <2>2. CASE i # Len(d)
    <3>1. i \in Len(k.ck) + 1 .. Len(c) /\ i \in 1..Len(c)
      BY <1>1, <2>2
    <3> QED
      BY <1>1, <3>1 DEF Latest
  <2> QED
    BY <2>1, <2>2
<1> QED
  BY <1>2, <1>3 DEF Latest, d

LEMMA Pairs ==
  ASSUME NEW x, NEW y
  PROVE  Append(<<>>, x) = <<x>> /\ Append(<<x>>, y) = <<x, y>> /\ <<>> \o <<x>> = <<x>>
<1>1. Append(<<>>, x) = <<x>>
  OBVIOUS
<1>2. Append(<<x>>, y) = <<x, y>>
  <2>1. <<x>> \in Seq({x}) /\ <<x, y>> \in Seq({x, y}) /\ Len(<<x>>) = 1 /\ Len(<<x, y>>) = 2
    OBVIOUS
  <2>2. IsSeq(<<x>>) /\ IsSeq(<<x, y>>)
    BY <2>1 DEF IsSeq
  <2>3. /\ IsSeq(Append(<<x>>, y)) /\ Len(Append(<<x>>, y)) = 2
        /\ Append(<<x>>, y)[1] = x /\ Append(<<x>>, y)[2] = y
    <3> DEFINE s == <<x>>
    <3>1. IsSeq(s) /\ Len(s) = 1 /\ s[1] = x
      BY <2>1, <2>2
    <3> HIDE DEF s
    <3>2. /\ IsSeq(Append(s, y)) /\ Len(Append(s, y)) = 2
          /\ Append(s, y)[1] = x /\ Append(s, y)[2] = y
      <4>1. /\ Len(Append(s, y)) = Len(s) + 1 /\ Append(s, y)[Len(s) + 1] = y
            /\ \A i \in 1..Len(s) : Append(s, y)[i] = s[i]
            /\ IsSeq(Append(s, y))
        BY <3>1, Appended
      <4>2. 1 \in 1..Len(s) /\ Len(s) + 1 = 2
        BY <3>1
      <4> QED
        BY <3>1, <4>1, <4>2
    <3> QED
      BY <3>2 DEF s
  <2>4. \A i \in 1..2 : i = 1 \/ i = 2
    OBVIOUS
  <2>5. \A i \in 1..2 : Append(<<x>>, y)[i] = <<x, y>>[i]
    BY <2>3, <2>4
  <2> QED
    BY <2>1, <2>2, <2>3, <2>5, SameSeq
<1>3. <<>> \o <<x>> = <<x>>
  OBVIOUS
<1> QED
  BY <1>1, <1>2, <1>3

LEMMA OneLonger ==
  ASSUME NEW s, NEW x, NEW t, IsSeq(s), t = Append(s, x)
  PROVE  IsSeq(t) /\ Len(t) = Len(s) + 1 /\ Begins(s, t)
  BY Appended

(* A use of the key to send, field by field: the key and the nonce that   *)
(* follow, and a chaining key that has grown by the half of the key if    *)
(* the key was rotated.                                                   *)
LEMMA Sending ==
  ASSUME NEW n, NEW e \in End, NoiseState(n), Transporting(n, e), KeysAreLatest(n, e)
  PROVE  LET m == UsedToSend(n) IN
         /\ IsSeq(m.ck) /\ Begins(n.ck, m.ck)
         /\ KeysAreLatest(m, e) /\ m.rk = n.rk /\ m.rn = n.rn /\ m.rpk = n.rpk
         /\ Follows(n.sk, n.sn, m.sk, m.sn)
<1> DEFINE m == UsedToSend(n)
           h == SendHalf(e)
           c == Append(n.ck, h)
<1>1. /\ n = [rpk |-> n.rpk, repk |-> n.repk, h |-> n.h, ck |-> n.ck,
              sk |-> n.sk, rk |-> n.rk, sn |-> n.sn, rn |-> n.rn]
      /\ IsSeq(n.ck) /\ n.sn \in Nat
  BY DEF NoiseState, IsSeq, Transporting
<1>2. /\ IsKey(n.sk, h) /\ Latest(n.sk, n.ck) /\ Latest(n.rk, n.ck) /\ Len(n.ck) >= 3
      /\ IsKey(n.rk, SendHalf(Other(e)))
  BY DEF KeysAreLatest
<1>3. /\ n.sk.half = h /\ IsSeq(n.sk.ck) /\ Len(n.sk.ck) \in Nat /\ Len(n.ck) \in Nat
      /\ n.rk.half = SendHalf(Other(e)) /\ Len(n.rk.ck) \in Nat /\ n.rk.half # h
  BY <1>1, <1>2, SeqLen, Ends DEF IsKey, Key
<1>4. /\ IsSeq(c) /\ Len(c) = Len(n.ck) + 1 /\ Begins(n.ck, c)
      /\ c[Len(n.ck) + 1] = h /\ \A i \in 1..Len(n.ck) : c[i] = n.ck[i]
  BY <1>1, Appended
<1>5. CASE n.sn + 1 >= RotateAt
  <2>1. m = [rpk |-> n.rpk, repk |-> n.repk, h |-> n.h, ck |-> c,
             sk |-> Key(h, c), rk |-> n.rk, sn |-> 0, rn |-> n.rn]
    BY <1>1, <1>3, <1>5 DEF UsedToSend, Rotate
  <2> HIDE DEF c, m, h
  <2>2. /\ m.ck = c /\ m.sk = Key(h, c) /\ m.sk.ck = c /\ m.sk.half = h
        /\ m.rk = n.rk /\ m.rn = n.rn /\ m.sn = 0 /\ m.rpk = n.rpk
    BY <2>1 DEF Key
  <2>3. IsKey(m.sk, h) /\ Latest(m.sk, m.ck)
    BY <1>3, <1>4, <2>2 DEF IsKey, Latest, Begins
  <2>4. Latest(m.rk, m.ck)
    <3>1. Latest(n.rk, Append(n.ck, h))
      BY <1>1, <1>2, <1>3, OtherHalfMixed DEF IsKey
    <3> QED
      BY <2>2, <3>1 DEF c
  <2>5. KeysAreLatest(m, e)
    BY <1>2, <1>3, <1>4, <2>2, <2>3, <2>4 DEF KeysAreLatest, h
  <2>6. NextKey(n.sk, m.sk)
    BY <1>2, <1>3, <1>4, <2>2, SMTT(30) DEF NextKey, Latest, Begins
  <2> QED
    BY <1>4, <1>5, <2>2, <2>5, <2>6 DEF Follows, m
<1>6. CASE ~(n.sn + 1 >= RotateAt)
  <2>1. m = [rpk |-> n.rpk, repk |-> n.repk, h |-> n.h, ck |-> n.ck,
             sk |-> n.sk, rk |-> n.rk, sn |-> n.sn + 1, rn |-> n.rn]
    BY <1>1, <1>6 DEF UsedToSend
  <2> HIDE DEF m
  <2>2. /\ m.ck = n.ck /\ m.sk = n.sk /\ m.rk = n.rk /\ m.rn = n.rn /\ m.sn = n.sn + 1
        /\ m.rpk = n.rpk
    BY <2>1
  <2>3. KeysAreLatest(m, e)
    BY <2>2 DEF KeysAreLatest
  <2>4. Begins(n.ck, m.ck)
    BY <1>3, <2>2 DEF Begins
  <2> QED
    BY <1>1, <1>6, <2>2, <2>3, <2>4 DEF Follows, m
<1> QED
  BY <1>5, <1>6

LEMMA Receiving ==
  ASSUME NEW n, NEW e \in End, NoiseState(n), Transporting(n, e), KeysAreLatest(n, e)
  PROVE  LET m == UsedToReceive(n) IN
         /\ IsSeq(m.ck) /\ Begins(n.ck, m.ck)
         /\ KeysAreLatest(m, e) /\ m.sk = n.sk /\ m.sn = n.sn /\ m.rpk = n.rpk
         /\ IF n.rn + 1 >= RotateAt
              THEN /\ m.ck = Append(n.ck, n.rk.half) /\ m.rn = 0
                   /\ m.rk = Key(n.rk.half, m.ck)
              ELSE m.ck = n.ck /\ m.rn = n.rn + 1 /\ m.rk = n.rk
<1> DEFINE m == UsedToReceive(n)
           h == SendHalf(Other(e))
           c == Append(n.ck, h)
<1>1. /\ n = [rpk |-> n.rpk, repk |-> n.repk, h |-> n.h, ck |-> n.ck,
              sk |-> n.sk, rk |-> n.rk, sn |-> n.sn, rn |-> n.rn]
      /\ IsSeq(n.ck) /\ n.sn \in Nat /\ n.rn \in Nat
  BY DEF NoiseState, IsSeq, Transporting
<1>2. /\ IsKey(n.rk, h) /\ Latest(n.sk, n.ck) /\ Latest(n.rk, n.ck) /\ Len(n.ck) >= 3
      /\ IsKey(n.sk, SendHalf(e))
  BY DEF KeysAreLatest
<1>3. /\ n.rk.half = h /\ IsSeq(n.rk.ck) /\ Len(n.rk.ck) \in Nat /\ Len(n.ck) \in Nat
      /\ n.sk.half = SendHalf(e) /\ Len(n.sk.ck) \in Nat /\ n.sk.half # h
  BY <1>1, <1>2, SeqLen, Ends DEF IsKey, Key
<1>4. /\ IsSeq(c) /\ Len(c) = Len(n.ck) + 1 /\ Begins(n.ck, c)
      /\ c[Len(n.ck) + 1] = h /\ \A i \in 1..Len(n.ck) : c[i] = n.ck[i]
  BY <1>1, Appended
<1>5. CASE n.rn + 1 >= RotateAt
  <2>1. m = [rpk |-> n.rpk, repk |-> n.repk, h |-> n.h, ck |-> c,
             sk |-> n.sk, rk |-> Key(h, c), sn |-> n.sn, rn |-> 0]
    BY <1>1, <1>3, <1>5 DEF UsedToReceive, Rotate
  <2>a. c = Append(n.ck, n.rk.half)
    BY <1>3
  <2> HIDE DEF c, m, h
  <2>2. /\ m.ck = c /\ m.rk = Key(h, c) /\ m.rk.ck = c /\ m.rk.half = h
        /\ m.sk = n.sk /\ m.rn = 0 /\ m.sn = n.sn /\ m.rpk = n.rpk
    BY <2>1 DEF Key
  <2>3. IsKey(m.rk, h) /\ Latest(m.rk, m.ck)
    BY <1>3, <1>4, <2>2 DEF IsKey, Latest, Begins
  <2>4. Latest(m.sk, m.ck)
    <3>1. Latest(n.sk, Append(n.ck, h))
      BY <1>1, <1>2, <1>3, OtherHalfMixed DEF IsKey
    <3> QED
      BY <2>2, <3>1 DEF c
  <2>5. KeysAreLatest(m, e)
    BY <1>2, <1>3, <1>4, <2>2, <2>3, <2>4 DEF KeysAreLatest, h
  <2> QED
    BY <1>3, <1>4, <1>5, <2>2, <2>5, <2>a DEF m
<1>6. CASE ~(n.rn + 1 >= RotateAt)
  <2>1. m = [rpk |-> n.rpk, repk |-> n.repk, h |-> n.h, ck |-> n.ck,
             sk |-> n.sk, rk |-> n.rk, sn |-> n.sn, rn |-> n.rn + 1]
    BY <1>1, <1>6 DEF UsedToReceive
  <2> HIDE DEF m
  <2>2. /\ m.ck = n.ck /\ m.sk = n.sk /\ m.rk = n.rk /\ m.sn = n.sn /\ m.rn = n.rn + 1
        /\ m.rpk = n.rpk
    BY <2>1
  <2>3. KeysAreLatest(m, e)
    BY <2>2 DEF KeysAreLatest
  <2>4. Begins(n.ck, m.ck)
    BY <1>3, <2>2 DEF Begins
  <2> QED
    BY <1>1, <1>6, <2>2, <2>3, <2>4 DEF m
<1> QED
  BY <1>5, <1>6

(* A unit sealed and sent joins those under way. *)
LEMMA SendInStep ==
  ASSUME NEW n, NEW e \in End, NoiseState(n), Transporting(n, e), KeysAreLatest(n, e),
         NEW U, NEW k, NEW a, InStep(U, k, a, n), NEW u, NEW text,
         u.c = Seal(n.sk, n.sn, <<>>, text)
  PROVE  InStep(Append(U, u), k, a, UsedToSend(n))
<1> DEFINE m == UsedToSend(n)
           V == Append(U, u)
<1>1. /\ IsSeq(m.ck) /\ Begins(n.ck, m.ck) /\ KeysAreLatest(m, e)
      /\ Follows(n.sk, n.sn, m.sk, m.sn)
  BY Sending
<1>2. /\ IsSeq(V) /\ Len(V) = Len(U) + 1 /\ Len(U) \in Nat
      /\ \A i \in 1..Len(U) : V[i] = U[i]
      /\ V[Len(U) + 1] = u
  BY Appended, SeqLen DEF InStep
<1>3. u.c.key = n.sk /\ u.c.nonce = n.sn /\ u.c.ad = <<>>
  BY DEF Seal
<1>4. IsKey(n.sk, SendHalf(e)) /\ Latest(n.sk, n.ck) /\ n.sk.half = SendHalf(e)
  BY DEF KeysAreLatest, IsKey, Key
<1>5. m.sk.half = SendHalf(e)
  <2> HIDE DEF m
  <2> QED
    BY <1>1 DEF KeysAreLatest, IsKey, Key
<1>6. Len(n.sk.ck) \in Nat /\ Len(n.ck) \in Nat /\ Len(m.ck) \in Nat
  BY <1>1, <1>4, SeqLen DEF IsKey, NoiseState, IsSeq
<1> HIDE DEF m, V
<1>7. \A i \in 1..Len(U) + 1 :
        KeyAt(V, m, i) = KeyAt(U, n, i) /\ NonceAt(V, m, i) = NonceAt(U, n, i)
  BY <1>2, <1>3 DEF KeyAt, NonceAt
<1>8. ASSUME NEW i \in 1..Len(V)
      PROVE  /\ V[i].c.ad = <<>>
             /\ IsKey(V[i].c.key, m.sk.half) /\ Begins(V[i].c.key.ck, m.ck)
             /\ Follows(KeyAt(V, m, i), NonceAt(V, m, i),
                        KeyAt(V, m, i + 1), NonceAt(V, m, i + 1))
  <2>1. CASE i <= Len(U)
    <3>0. i \in 1..Len(U) /\ V[i] = U[i] /\ i + 1 \in 1..Len(U) + 1
      BY <1>2, <2>1
    <3>1. /\ U[i].c.ad = <<>> /\ IsKey(U[i].c.key, n.sk.half) /\ Begins(U[i].c.key.ck, n.ck)
          /\ Follows(KeyAt(U, n, i), NonceAt(U, n, i), KeyAt(U, n, i + 1), NonceAt(U, n, i + 1))
      BY <3>0 DEF InStep
    <3>2. Begins(U[i].c.key.ck, m.ck)
      <4>1. Len(U[i].c.key.ck) \in Nat
        BY <3>1, SeqLen DEF IsKey
      <4> QED
        BY <1>1, <1>6, <3>1, <4>1, BeginsTwice
    <3>3. /\ KeyAt(V, m, i) = KeyAt(U, n, i) /\ NonceAt(V, m, i) = NonceAt(U, n, i)
          /\ KeyAt(V, m, i + 1) = KeyAt(U, n, i + 1) /\ NonceAt(V, m, i + 1) = NonceAt(U, n, i + 1)
      BY <1>2, <1>7, <3>0
    <3> QED
      BY <1>4, <1>5, <3>0, <3>1, <3>2, <3>3
  <2>2. CASE i = Len(U) + 1
    <3>1. V[i] = u
      BY <1>2, <2>2
    <3>2. Begins(n.sk.ck, m.ck)
      BY <1>1, <1>4, <1>6, BeginsTwice DEF Latest
    <3>3. /\ KeyAt(V, m, i) = n.sk /\ NonceAt(V, m, i) = n.sn
          /\ KeyAt(V, m, i + 1) = m.sk /\ NonceAt(V, m, i + 1) = m.sn
      BY <1>2, <1>3, <2>2, <3>1 DEF KeyAt, NonceAt
    <3> QED
      BY <1>1, <1>3, <1>4, <1>5, <3>1, <3>2, <3>3
  <2> QED
    BY <1>2, <2>1, <2>2
<1>9. KeyAt(V, m, 1) = k /\ NonceAt(V, m, 1) = a
  BY <1>2, <1>7 DEF InStep
<1> QED
  BY <1>2, <1>8, <1>9 DEF InStep, m, V

(* The sender receives: its chaining key grows, what it sent stays. *)
LEMMA ReceivedMeanwhile ==
  ASSUME NEW n, NEW m, NEW U, NEW k, NEW a, InStep(U, k, a, n),
         IsSeq(n.ck), IsSeq(m.ck), Begins(n.ck, m.ck), m.sk = n.sk, m.sn = n.sn
  PROVE  InStep(U, k, a, m)
<1>1. \A i : KeyAt(U, m, i) = KeyAt(U, n, i) /\ NonceAt(U, m, i) = NonceAt(U, n, i)
  BY DEF KeyAt, NonceAt
<1>2. ASSUME NEW i \in 1..Len(U) PROVE Begins(U[i].c.key.ck, m.ck)
  <2>1. IsKey(U[i].c.key, n.sk.half) /\ Begins(U[i].c.key.ck, n.ck)
    BY DEF InStep
  <2>2. Len(U[i].c.key.ck) \in Nat /\ Len(n.ck) \in Nat /\ Len(m.ck) \in Nat
    BY <2>1, SeqLen DEF IsKey
  <2> QED
    BY <2>1, <2>2, BeginsTwice
<1> QED
  BY <1>1, <1>2 DEF InStep

(* The next key of the sender is that of the receiver, if they agree on   *)
(* the chaining key that it came from.                                    *)
LEMMA SameRotation ==
  ASSUME NEW k, NEW l, NEW h, NEW b, NEW c,
         IsKey(k, h), IsKey(l, h), IsSeq(b), IsSeq(c), NextKey(k, l), Begins(l.ck, b),
         Latest(k, c), Agree(b, Append(c, h))
  PROVE  l = Key(h, Append(c, h))
<1> DEFINE d == Append(c, h)
<1>0. k.half = h /\ l = Key(h, l.ck) /\ IsSeq(k.ck) /\ IsSeq(l.ck) /\ IsSeq(d)
  <2>1. k = Key(h, k.ck) /\ IsSeq(k.ck) /\ l = Key(h, l.ck) /\ IsSeq(l.ck)
    BY DEF IsKey
  <2>2. k.half = h
    BY <2>1 DEF Key
  <2> QED
    BY <2>1, <2>2, Appended
<1>1. /\ k.half = h /\ l = Key(h, l.ck) /\ IsSeq(l.ck) /\ IsSeq(d)
      /\ Len(k.ck) \in Nat /\ Len(l.ck) \in Nat /\ Len(b) \in Nat /\ Len(c) \in Nat
  BY <1>0, SeqLen
<1>2. Len(d) = Len(c) + 1 /\ d[Len(c) + 1] = h /\ \A i \in 1..Len(c) : d[i] = c[i]
  BY Appended
<1> HIDE DEF d
<1>3. Len(l.ck) <= Len(b) /\ \A i \in 1..Len(l.ck) : b[i] = l.ck[i]
  BY DEF Begins
<1>4. \A i \in 1..Len(l.ck) : i <= Len(d) => l.ck[i] = d[i]
  BY <1>1, <1>2, <1>3 DEF Agree, d
<1>5. /\ Len(k.ck) < Len(l.ck) /\ l.ck[Len(l.ck)] = h
      /\ \A i \in Len(k.ck) + 1 .. Len(l.ck) - 1 : l.ck[i] # h
  BY <1>1 DEF NextKey
<1>6. Len(k.ck) <= Len(c) /\ \A i \in Len(k.ck) + 1 .. Len(c) : c[i] # h
  BY <1>1 DEF Latest, Begins
<1>7. ~(Len(l.ck) < Len(d))
  <2> SUFFICES ASSUME Len(l.ck) < Len(d) PROVE FALSE
    OBVIOUS
  <2>1. Len(l.ck) \in Len(k.ck) + 1 .. Len(c) /\ Len(l.ck) \in 1..Len(c)
    BY <1>1, <1>2, <1>5
  <2>2. l.ck[Len(l.ck)] = c[Len(l.ck)]
    BY <1>1, <1>2, <1>4, <2>1
  <2> QED
    BY <1>5, <1>6, <2>1, <2>2
<1>8. ~(Len(d) < Len(l.ck))
  <2> SUFFICES ASSUME Len(d) < Len(l.ck) PROVE FALSE
    OBVIOUS
  <2>1. Len(d) \in Len(k.ck) + 1 .. Len(l.ck) - 1 /\ Len(d) \in 1..Len(l.ck)
    BY <1>1, <1>2, <1>6
  <2>2. l.ck[Len(d)] = h
    BY <1>2, <1>4, <2>1
  <2> QED
    BY <1>5, <2>1, <2>2
<1>9. Len(l.ck) = Len(d)
  BY <1>1, <1>2, <1>7, <1>8
<1>10. l.ck = d
  BY <1>1, <1>4, <1>9, SameSeq
<1> QED
  BY <1>1, <1>10 DEF d

(* A unit opened leaves the others: the receiver, in state r, goes on     *)
(* with the key and nonce of the next.                                    *)
LEMMA ReceiveInStep ==
  ASSUME NEW n, NEW r, NEW e \in End,
         IsSeq(n.ck), KeysAreLatest(n, Other(e)),
         NoiseState(r), Transporting(r, e), KeysAreLatest(r, e),
         NEW U, U # <<>>, InStep(U, r.rk, r.rn, n),
         Agree(n.ck, UsedToReceive(r).ck)
  PROVE  InStep(Tail(U), UsedToReceive(r).rk, UsedToReceive(r).rn, n)
<1> DEFINE m == UsedToReceive(r)
           V == Tail(U)
           h == SendHalf(Other(e))
<1>1. /\ IsSeq(U) /\ Len(U) \in Nat /\ Len(U) >= 1 /\ IsSeq(V) /\ Len(V) = Len(U) - 1
      /\ \A i \in 1..Len(V) : V[i] = U[i + 1]
  BY Behead, SeqLen DEF InStep
<1>2. /\ IF r.rn + 1 >= RotateAt
           THEN m.ck = Append(r.ck, r.rk.half) /\ m.rn = 0 /\ m.rk = Key(r.rk.half, m.ck)
           ELSE m.ck = r.ck /\ m.rn = r.rn + 1 /\ m.rk = r.rk
      /\ Agree(n.ck, m.ck)
  BY Receiving
<1>3. IsKey(r.rk, h) /\ r.rk.half = h /\ IsSeq(r.ck) /\ Latest(r.rk, r.ck)
  BY DEF KeysAreLatest, NoiseState, IsSeq, IsKey, Key
<1>4. IsKey(n.sk, h) /\ n.sk.half = h /\ Latest(n.sk, n.ck)
  BY DEF KeysAreLatest, IsKey, Key
<1> HIDE DEF m, V, h
<1>5. \A i \in 1..Len(U) :
        KeyAt(V, n, i) = KeyAt(U, n, i + 1) /\ NonceAt(V, n, i) = NonceAt(U, n, i + 1)
  BY <1>1 DEF KeyAt, NonceAt
<1>6. KeyAt(U, n, 1) = r.rk /\ NonceAt(U, n, 1) = r.rn
  BY DEF InStep
<1>7. Follows(r.rk, r.rn, KeyAt(U, n, 2), NonceAt(U, n, 2))
  <2>1. 1 \in 1..Len(U) /\ 1 + 1 = 2
    BY <1>1
  <2>2. Follows(KeyAt(U, n, 1), NonceAt(U, n, 1), KeyAt(U, n, 1 + 1), NonceAt(U, n, 1 + 1))
    BY <2>1 DEF InStep
  <2> QED
    BY <1>6, <2>1, <2>2
<1>8. IsKey(KeyAt(U, n, 2), h) /\ Begins(KeyAt(U, n, 2).ck, n.ck)
  <2>1. CASE 2 <= Len(U)
    <3>1. 2 \in 1..Len(U) /\ KeyAt(U, n, 2) = U[2].c.key
      BY <1>1, <2>1 DEF KeyAt
    <3> QED
      BY <1>4, <3>1 DEF InStep
  <2>2. CASE ~(2 <= Len(U))
    BY <1>4, <2>2 DEF KeyAt, Latest
  <2> QED
    BY <2>1, <2>2
<1>9. KeyAt(U, n, 2) = m.rk /\ NonceAt(U, n, 2) = m.rn
  <2>1. CASE r.rn + 1 >= RotateAt
    <3>1. /\ m.ck = Append(r.ck, h) /\ m.rn = 0 /\ m.rk = Key(h, m.ck)
          /\ NonceAt(U, n, 2) = 0 /\ NextKey(r.rk, KeyAt(U, n, 2))
      BY <1>2, <1>3, <1>7, <2>1 DEF Follows
    <3>2. Agree(n.ck, Append(r.ck, h))
      BY <1>2, <3>1
    <3>3. KeyAt(U, n, 2) = Key(h, Append(r.ck, h))
      BY <1>3, <1>8, <3>1, <3>2, SameRotation
    <3> QED
      BY <3>1, <3>3
  <2>2. CASE ~(r.rn + 1 >= RotateAt)
    BY <1>2, <1>7, <2>2 DEF Follows
  <2> QED
    BY <2>1, <2>2
<1>10. KeyAt(V, n, 1) = m.rk /\ NonceAt(V, n, 1) = m.rn
  <2>1. 1 \in 1..Len(U) /\ 1 + 1 = 2
    BY <1>1
  <2>2. KeyAt(V, n, 1) = KeyAt(U, n, 1 + 1) /\ NonceAt(V, n, 1) = NonceAt(U, n, 1 + 1)
    BY <1>5, <2>1
  <2> QED
    BY <1>9, <2>1, <2>2
<1>11. ASSUME NEW i \in 1..Len(V)
       PROVE  /\ V[i].c.ad = <<>>
              /\ IsKey(V[i].c.key, n.sk.half) /\ Begins(V[i].c.key.ck, n.ck)
              /\ Follows(KeyAt(V, n, i), NonceAt(V, n, i),
                         KeyAt(V, n, i + 1), NonceAt(V, n, i + 1))
  <2>1. i + 1 \in 1..Len(U) /\ i \in 1..Len(U) /\ V[i] = U[i + 1]
    BY <1>1
  <2>2. /\ U[i + 1].c.ad = <<>>
        /\ IsKey(U[i + 1].c.key, n.sk.half) /\ Begins(U[i + 1].c.key.ck, n.ck)
        /\ Follows(KeyAt(U, n, i + 1), NonceAt(U, n, i + 1),
                   KeyAt(U, n, (i + 1) + 1), NonceAt(U, n, (i + 1) + 1))
    BY <2>1 DEF InStep
  <2>3. /\ KeyAt(V, n, i) = KeyAt(U, n, i + 1) /\ NonceAt(V, n, i) = NonceAt(U, n, i + 1)
        /\ KeyAt(V, n, i + 1) = KeyAt(U, n, (i + 1) + 1)
        /\ NonceAt(V, n, i + 1) = NonceAt(U, n, (i + 1) + 1)
    BY <1>5, <2>1
  <2> QED
    BY <2>1, <2>2, <2>3
<1> QED
  BY <1>1, <1>10, <1>11 DEF InStep, m, V

LEMMA HashFields ==
  ASSUME NEW n, NEW part, NoiseState(n)
  PROVE  LET m == Hash(n, part) IN
         /\ NoiseState(m) /\ m.h = Append(n.h, part)
         /\ m.ck = n.ck /\ m.rpk = n.rpk /\ m.repk = n.repk
<1> DEFINE m == Hash(n, part)
<1>1. m = [rpk |-> n.rpk, repk |-> n.repk, h |-> Append(n.h, part), ck |-> n.ck,
           sk |-> n.sk, rk |-> n.rk, sn |-> n.sn, rn |-> n.rn]
  BY Fields DEF Hash
<1>2. NoiseState(m)
  BY HashKeeps
<1> HIDE DEF m
<1>3. m.h = Append(n.h, part) /\ m.ck = n.ck /\ m.rpk = n.rpk /\ m.repk = n.repk
  BY <1>1
<1> QED
  BY <1>2, <1>3 DEF m

LEMMA MixFields ==
  ASSUME NEW n, NEW ss, NoiseState(n)
  PROVE  LET m == Mix(n, ss) IN
         /\ NoiseState(m) /\ m.h = n.h
         /\ m.ck = Append(n.ck, ss) /\ m.rpk = n.rpk /\ m.repk = n.repk
<1> DEFINE m == Mix(n, ss)
<1>1. m = [rpk |-> n.rpk, repk |-> n.repk, h |-> n.h, ck |-> Append(n.ck, ss),
           sk |-> n.sk, rk |-> n.rk, sn |-> n.sn, rn |-> n.rn]
  BY Fields DEF Mix
<1>2. NoiseState(m)
  BY MixKeeps
<1> HIDE DEF m
<1>3. /\ m.h = n.h /\ m.ck = Append(n.ck, ss) /\ m.rpk = n.rpk /\ m.repk = n.repk
  BY <1>1
<1> QED
  BY <1>2, <1>3 DEF m

LEMMA ExchangedFields ==
  ASSUME NEW n, NEW epk, NEW ss, NoiseState(n)
  PROVE  LET m == Exchanged(n, epk, ss) IN
         /\ NoiseState(m) /\ m.h = Append(n.h, epk)
         /\ m.ck = Append(n.ck, ss) /\ m.rpk = n.rpk /\ m.repk = n.repk
<1> DEFINE l == Hash(n, epk)
<1>1. NoiseState(l) /\ l.h = Append(n.h, epk) /\ l.ck = n.ck /\ l.rpk = n.rpk /\ l.repk = n.repk
  BY HashFields
<1>2. Exchanged(n, epk, ss) = Mix(l, ss)
  BY DEF Exchanged
<1> HIDE DEF l
<1> QED
  BY <1>1, <1>2, MixFields

LEMMA SplitFields ==
  ASSUME NEW n, NEW e \in End, NoiseState(n), Len(n.ck) = 3
  PROVE  LET m == Split(n, e) IN
         /\ m.ck = n.ck /\ m.rpk = n.rpk /\ m.sn = 0 /\ m.rn = 0
         /\ m.sk = Key(SendHalf(e), n.ck) /\ m.rk = Key(SendHalf(Other(e)), n.ck)
         /\ KeysAreLatest(m, e) /\ Base(m) = n.ck /\ IsSeq(m.ck)
<1> DEFINE m == Split(n, e)
           a == Key(SendHalf(e), n.ck)
           b == Key(SendHalf(Other(e)), n.ck)
<1>0. n = [rpk |-> n.rpk, repk |-> n.repk, h |-> n.h, ck |-> n.ck,
           sk |-> n.sk, rk |-> n.rk, sn |-> n.sn, rn |-> n.rn]
  BY Fields
<1>1. m = [n EXCEPT !.sk = a, !.rk = b, !.sn = 0, !.rn = 0]
  BY DEF Split
<1>2. a.ck = n.ck /\ b.ck = n.ck /\ a = Key(SendHalf(e), a.ck) /\ b = Key(SendHalf(Other(e)), b.ck)
  BY DEF Key
<1> HIDE DEF a, b, m
<1>3. m = [rpk |-> n.rpk, repk |-> n.repk, h |-> n.h, ck |-> n.ck,
           sk |-> a, rk |-> b, sn |-> 0, rn |-> 0]
  BY <1>0, <1>1
<1>4. IsSeq(n.ck)
  BY DEF NoiseState, IsSeq
<1>5. IsKey(m.sk, SendHalf(e)) /\ IsKey(m.rk, SendHalf(Other(e)))
  BY <1>2, <1>3, <1>4 DEF IsKey
<1>6. Latest(m.sk, m.ck) /\ Latest(m.rk, m.ck)
  BY <1>2, <1>3, <1>4 DEF Latest, Begins
<1>7. KeysAreLatest(m, e)
  <2>1. m.ck = n.ck
    BY <1>3
  <2> QED
    BY <1>5, <1>6, <2>1 DEF KeysAreLatest
<1>8. Base(m) = n.ck
  BY <1>3, <1>4, BaseOfThree DEF Base
<1> QED
  BY <1>3, <1>4, <1>7, <1>8 DEF m, a, b

(* The facts about both ends that every step starts from. *)
LEMMA BothEnds ==
  ASSUME IInv, SessionInv, NEW e \in End
  PROVE  /\ NoiseState(noise[e]) /\ IsSeq(noise[e].ck)
         /\ noise = [f \in End |-> noise[f]]
         /\ handshake = [f \in End |-> handshake[f]]
         /\ socket = [f \in End |-> socket[f]]
         /\ handshake[e] = "ready" =>
              Transporting(noise[e], e) /\ KeysAreLatest(noise[e], e)
  BY DEF IInv, KeysInv, SessionInv, NoiseState, IsSeq

LEMMA NothingUnderWay ==
  ASSUME NEW n
  PROVE  InStep(<<>>, n.sk, n.sn, n)
<1>1. IsSeq(<<>>) /\ Len(<<>>) = 0
  <2>1. <<>> \in Seq({})
    OBVIOUS
  <2> QED
    BY <2>1 DEF IsSeq
<1> QED
  BY <1>1 DEF InStep, KeyAt, NonceAt

LEMMA SessionInitial == Init => SessionInv
<1> SUFFICES ASSUME Init PROVE SessionInv
  OBVIOUS
<1> USE Ends
<1>1. /\ handshake[Initiator] = "initiating" /\ handshake[Responder] = "awaiting_initiator"
      /\ socket = [e \in End |-> <<>>] /\ broken = {} /\ open = End
  BY DEF Init
<1>2. PICK rpk \in Dialed :
        noise = [e \in End |-> NewNoise(IF e = Initiator THEN rpk ELSE NoKey)]
  BY DEF Init
<1>3. \A e \in End : noise[e].h = <<>> /\ noise[e].ck = <<>>
  BY <1>2 DEF NewNoise
<1>4. HandshakeInv
  BY <1>1, <1>3 DEF HandshakeInv, Initiating, AwaitingInitiator
<1>5. BrokenInv
  BY <1>1 DEF BrokenInv
<1>6. socket = [e \in End |-> socket[e]]
  BY <1>1
<1>7. \A e \in End : handshake[e] # "ready"
  BY <1>1
<1> QED
  BY <1>4, <1>5, <1>6, <1>7 DEF SessionInv

LEMMA InitiateHandshakeSession ==
  IInv /\ SessionInv /\ InitiateHandshake => SessionInv'
<1> SUFFICES ASSUME IInv, SessionInv, InitiateHandshake PROVE SessionInv'
  OBVIOUS
<1> USE Ends
<1> DEFINE n0 == noise[Initiator]
           n == InitiatorAct1(n0)
           c == Sealed(n, 0, "")
<1>u. PICK u : u = [kind |-> "act1", epk |-> Ephemeral(Initiator), c |-> c]
  OBVIOUS
<1>0. NoiseState(n0) /\ Initiator \in End /\ Responder \in End
  BY BothEnds
<1>1. /\ handshake[Initiator] = "initiating" /\ handshake[Responder] = "awaiting_initiator"
      /\ n0.h = <<>> /\ n0.ck = <<>> /\ socket[Responder] = <<>> /\ socket[Initiator] = <<>>
      /\ noise[Responder].h = <<>> /\ noise[Responder].ck = <<>>
  BY DEF InitiateHandshake, SessionInv, HandshakeInv, Initiating, AwaitingInitiator
<1>2. /\ NoiseState(n) /\ n.rpk = n0.rpk
      /\ n.h = <<n0.rpk, Ephemeral(Initiator)>> /\ Len(n.ck) = 1
  <2> DEFINE l == Hash(n0, n0.rpk)
  <2>1. NoiseState(l) /\ l.h = <<n0.rpk>> /\ l.ck = <<>> /\ l.rpk = n0.rpk
    BY <1>0, <1>1, HashFields
  <2>2. n = Exchanged(l, Ephemeral(Initiator), Ecdh(n0.rpk, Ephemeral(Initiator)))
    BY DEF InitiatorAct1
  <2> HIDE DEF l, n, n0
  <2>3. /\ NoiseState(n) /\ n.h = Append(l.h, Ephemeral(Initiator)) /\ n.rpk = l.rpk
        /\ n.ck = Append(l.ck, Ecdh(n0.rpk, Ephemeral(Initiator)))
    BY <2>1, <2>2, ExchangedFields
  <2>4. n.h = <<n0.rpk, Ephemeral(Initiator)>>
    BY <2>1, <2>3, Pairs
  <2>5. Len(n.ck) = 1
    BY <2>1, <2>3
  <2> QED
    BY <2>1, <2>3, <2>4, <2>5
<1>3. c.ad = n.h
  BY DEF Sealed, Seal
<1>4. u.epk = Ephemeral(Initiator) /\ u.c = c
  BY <1>u
<1>5. /\ noise' = [noise EXCEPT ![Initiator] = Hash(n, c)]
      /\ socket' = [socket EXCEPT ![Initiator] = socket[Initiator],
                      ![Responder] = IF Responder \in open THEN @ \o <<u>> ELSE @]
      /\ handshake' = [handshake EXCEPT ![Initiator] = "awaiting_responder_reply"]
      /\ open' = open /\ broken' = broken
  BY <1>u DEF InitiateHandshake, Transmit, Other
<1> HIDE DEF n, c, n0
<1>6. Hash(n, c).ck = n.ck /\ Hash(n, c).rpk = n.rpk
  BY <1>2, HashFields
<1>7. /\ noise'[Initiator].rpk = n0.rpk /\ noise'[Initiator].ck = n.ck
      /\ noise'[Responder] = noise[Responder]
      /\ handshake'[Initiator] = "awaiting_responder_reply"
      /\ handshake'[Responder] = "awaiting_initiator"
  BY <1>0, <1>1, <1>2, <1>5, <1>6, BothEnds
<1>8. /\ socket'[Initiator] = <<>>
      /\ socket'[Responder] \in {<<>>, <<u>>}
      /\ socket' = [f \in End |-> socket'[f]]
  <2>1. <<>> \o <<u>> = <<u>>
    OBVIOUS
  <2> QED
    BY <1>0, <1>1, <1>5, <2>1, BothEnds
<1>9. ActOne(u)'
  BY <1>2, <1>3, <1>4, <1>7 DEF ActOne
<1>10. AwaitingReply'
  <2>1. IsSeq(<<>>) /\ Len(<<>>) = 0
    BY NothingUnderWay DEF InStep
  <2> QED
    BY <1>2, <1>7, <1>8, <2>1 DEF AwaitingReply
<1>11. AwaitingInitiator'
  <2>1. socket'[Responder] # <<>> => socket'[Responder] = <<u>>
    BY <1>8
  <2> QED
    BY <1>1, <1>7, <1>8, <1>9, <2>1 DEF AwaitingInitiator
<1>12. HandshakeInv'
  BY <1>7, <1>10, <1>11 DEF HandshakeInv
<1>13. \A e \in End : handshake'[e] # "ready"
  BY <1>7
<1>14. BrokenInv'
  BY <1>5, <1>13 DEF SessionInv, BrokenInv
<1> QED
  BY <1>8, <1>12, <1>13, <1>14 DEF SessionInv

(* An end that is destroyed, or closed: if it was ready, it is because    *)
(* the ends do not agree.                                                 *)
LEMMA LostKeeps ==
  ASSUME IInv, SessionInv, NEW e \in End, e \in open,
         open' = open \ {e}, socket' = [socket EXCEPT ![e] = <<>>],
         UNCHANGED <<handshake, noise>>,
         \/ broken' = broken
         \/ /\ broken' = broken \cup {e}
            /\ handshake[e] = "ready" => ~Agree(noise[Initiator].ck, noise[Responder].ck)
  PROVE  SessionInv'
<1> USE Ends
<1>0. handshake' = handshake /\ noise' = noise
  OBVIOUS
<1>1. /\ socket' = [f \in End |-> socket'[f]] /\ socket'[e] = <<>>
      /\ \A f \in End \ {e} : socket'[f] = socket[f]
      /\ \A f \in End : socket'[f] = <<>> \/ (f # e /\ socket'[f] = socket[f])
  BY BothEnds
<1>2. BrokenInv'
  BY DEF SessionInv, BrokenInv
<1>3. ASSUME Initiating PROVE Initiating'
  BY <1>0, <1>1, <1>3 DEF Initiating
<1>4. ASSUME AwaitingReply PROVE AwaitingReply'
  <2>1. IsSeq(<<>>) /\ Len(<<>>) <= 1
    BY NothingUnderWay DEF InStep
  <2> QED
    BY <1>0, <1>1, <1>4, <2>1 DEF AwaitingReply
<1>5. ASSUME AwaitingInitiator PROVE AwaitingInitiator'
  <2>1. ASSUME socket'[Responder] # <<>>
        PROVE  \E u : ActOne(u)' /\ socket'[Responder] = <<u>>
    <3>1. socket'[Responder] = socket[Responder] /\ socket[Responder] # <<>>
      BY <1>1, <2>1
    <3>2. PICK u : ActOne(u) /\ socket[Responder] = <<u>>
      BY <1>5, <3>1 DEF AwaitingInitiator
    <3>3. ActOne(u)'
      BY <1>0, <3>2 DEF ActOne
    <3> QED
      BY <3>1, <3>2, <3>3
  <2> QED
    BY <1>0, <1>1, <1>5, <2>1 DEF AwaitingInitiator
<1>6. ASSUME AwaitingInitiatorReply PROVE AwaitingInitiatorReply'
  <2>1. ASSUME handshake[Initiator] = "ready", Responder \in open'
        PROVE  \E u, U : /\ socket'[Responder] = <<u>> \o U
                         /\ ActThree(u)'
                         /\ InStep(U, Key(SendHalf(Initiator), u.t.key), 0, noise'[Initiator])
    <3>1. socket'[Responder] = socket[Responder] /\ Responder \in open
      BY <1>1, <2>1
    <3>2. PICK u, U : /\ socket[Responder] = <<u>> \o U
                      /\ ActThree(u)
                      /\ InStep(U, Key(SendHalf(Initiator), u.t.key), 0, noise[Initiator])
      BY <1>6, <2>1, <3>1 DEF AwaitingInitiatorReply
    <3>3. ActThree(u)'
      BY <1>0, <3>2 DEF ActThree
    <3> QED
      BY <1>0, <3>1, <3>2, <3>3
  <2> QED
    BY <1>0, <1>1, <1>6, <2>1 DEF AwaitingInitiatorReply
<1>7. ASSUME ResponderReady PROVE ResponderReady'
  <2>1. \A f \in open' : f \in open /\ f # e /\ f \in End /\ socket'[f] = socket[f]
    BY <1>1 DEF SessionInv, BrokenInv
  <2> QED
    BY <1>0, <1>7, <2>1 DEF ResponderReady
<1>8. HandshakeInv'
  BY <1>0, <1>3, <1>4, <1>5, <1>6, <1>7 DEF SessionInv, HandshakeInv
<1> QED
  BY <1>0, <1>1, <1>2, <1>8 DEF SessionInv

LEMMA DestroySession ==
  ASSUME IInv, SessionInv, NEW e \in End, e \in open, Destroy(e),
         handshake[e] = "ready" => ~Agree(noise[Initiator].ck, noise[Responder].ck)
  PROVE  SessionInv'
  BY LostKeeps DEF Destroy

LEMMA CloseSession == ASSUME NEW e \in End PROVE IInv /\ SessionInv /\ Close(e) => SessionInv'
  BY LostKeeps DEF Close

LEMMA ProcessInitiatorSession ==
  IInv /\ SessionInv /\ ProcessInitiator => SessionInv'
<1> SUFFICES ASSUME IInv, SessionInv, ProcessInitiator PROVE SessionInv'
  OBVIOUS
<1> USE Ends
<1> DEFINE r0 == noise[Responder]
           m  == Head(socket[Responder])
           n1 == ReceiveAct1(r0, m)
           l1 == Hash(n1, m.c)
           n2 == ReceiveAct2(l1)
           c  == Sealed(n2, 0, "")
           w  == Hash(n2, c)
<1>0. /\ NoiseState(r0) /\ Initiator \in End /\ Responder \in End
      /\ Responder \in open /\ socket[Responder] # <<>>
  BY BothEnds DEF ProcessInitiator, Readable
<1>1. /\ handshake[Responder] = "awaiting_initiator" /\ AwaitingInitiator
      /\ handshake[Initiator] = "awaiting_responder_reply" /\ AwaitingReply
  <2>1. handshake[Responder] = "awaiting_initiator" /\ AwaitingInitiator
    BY DEF ProcessInitiator, SessionInv, HandshakeInv
  <2>2. handshake[Initiator] # "initiating" /\ handshake[Initiator] # "ready"
    BY <1>0, <2>1 DEF SessionInv, HandshakeInv, Initiating, AwaitingInitiator
  <2> QED
    BY <2>1, <2>2 DEF SessionInv, HandshakeInv
<1>2. PICK u : ActOne(u) /\ socket[Responder] = <<u>>
  BY <1>0, <1>1 DEF AwaitingInitiator
<1>3. m = u /\ Tail(socket[Responder]) = <<>>
  BY <1>2
<1>4. CASE ~Opens(m.c, n1.ck, 0, n1.h)
  <2>1. Destroy(Responder)
    BY <1>4 DEF ProcessInitiator
  <2> QED
    BY <1>0, <1>1, <2>1, DestroySession
<1>5. CASE Opens(m.c, n1.ck, 0, n1.h)
  <2>u. PICK a : a = [kind |-> "act2", epk |-> Ephemeral(Responder), c |-> c]
    OBVIOUS
  <2>1. /\ noise' = [noise EXCEPT ![Responder] = w]
        /\ socket' = [socket EXCEPT ![Responder] = Tail(socket[Responder]),
                        ![Initiator] = IF Initiator \in open THEN @ \o <<a>> ELSE @]
        /\ handshake' = [handshake EXCEPT ![Responder] = "awaiting_initiator_reply"]
        /\ open' = open /\ broken' = broken
    BY <1>5, <2>u DEF ProcessInitiator, Transmit, Other
  <2>2. /\ NoiseState(n1) /\ n1.h = <<Static(Responder), m.epk>> /\ Len(n1.ck) = 1
        /\ n1.h = m.c.ad
    <3> DEFINE k == [r0 EXCEPT !.repk = m.epk]
               l == Hash(k, Static(Responder))
    <3>1. NoiseState(k) /\ k.h = r0.h /\ k.ck = r0.ck
      <4>1. NoiseState(k)
        BY <1>0, FieldKeeps
      <4>2. k.h = r0.h /\ k.ck = r0.ck
        BY <1>0 DEF NoiseState
      <4> QED
        BY <4>1, <4>2
    <3>2. n1 = Exchanged(l, m.epk, Ecdh(m.epk, Static(Responder)))
      BY DEF ReceiveAct1
    <3>3. r0.h = <<>> /\ r0.ck = <<>>
      BY <1>1 DEF AwaitingInitiator
    <3>4. n1.h = m.c.ad
      BY <1>5 DEF Opens
    <3> HIDE DEF k, r0, n1, m
    <3>5. NoiseState(l) /\ l.h = <<Static(Responder)>> /\ l.ck = <<>>
      BY <3>1, <3>3, HashFields, Pairs
    <3> HIDE DEF l
    <3>6. /\ NoiseState(n1) /\ n1.h = Append(l.h, m.epk)
          /\ n1.ck = Append(l.ck, Ecdh(m.epk, Static(Responder)))
      BY <3>2, <3>5, ExchangedFields
    <3>7. n1.h = <<Static(Responder), m.epk>> /\ Len(n1.ck) = 1
      BY <3>5, <3>6, Pairs
    <3> QED
      BY <3>4, <3>6, <3>7
  <2>3. noise[Initiator].rpk = Static(Responder)
    <3>1. n1.h = <<noise[Initiator].rpk, m.epk>>
      BY <1>2, <1>3, <2>2 DEF ActOne
    <3> HIDE DEF n1, m
    <3>2. <<noise[Initiator].rpk, m.epk>> = <<Static(Responder), m.epk>>
      BY <2>2, <3>1
    <3> QED
      BY <3>2
  <2> HIDE DEF n1, m
  <2>4. /\ NoiseState(n2) /\ Len(n2.ck) = 2
    <3>1. NoiseState(l1) /\ l1.ck = n1.ck
      BY <2>2, HashFields
    <3>2. n2 = Exchanged(l1, Ephemeral(Responder), Ecdh(l1.repk, Ephemeral(Responder)))
      BY DEF ReceiveAct2
    <3> HIDE DEF l1, n2
    <3>3. NoiseState(n2) /\ n2.ck = Append(l1.ck, Ecdh(l1.repk, Ephemeral(Responder)))
      BY <3>1, <3>2, ExchangedFields
    <3>4. IsSeq(l1.ck)
      BY <3>1 DEF NoiseState, IsSeq
    <3> QED
      <4>1. Len(n2.ck) = Len(l1.ck) + 1
        BY <3>3, <3>4, OneLonger
      <4> QED
        BY <2>2, <3>1, <3>3, <4>1
  <2> HIDE DEF n2, c
  <2>5. w.ck = n2.ck
    BY <2>4, HashFields
  <2> HIDE DEF w, r0
  <2>6. /\ noise'[Initiator] = noise[Initiator] /\ Len(noise'[Responder].ck) = 2
        /\ handshake'[Initiator] = "awaiting_responder_reply"
        /\ handshake'[Responder] = "awaiting_initiator_reply"
        /\ socket'[Responder] = <<>>
        /\ socket'[Initiator] \in {<<>>, <<a>>}
        /\ socket' = [f \in End |-> socket'[f]]
    <3>1. socket[Initiator] = <<>> /\ <<>> \o <<a>> = <<a>>
      BY <1>1, Pairs DEF AwaitingInitiator
    <3> QED
      BY <1>0, <1>1, <1>3, <2>1, <2>4, <2>5, <3>1, BothEnds
  <2>7. AwaitingReply'
    <3>1. IsSeq(<<>>) /\ Len(<<>>) = 0
      BY NothingUnderWay DEF InStep
    <3>2. IsSeq(<<a>>) /\ Len(<<a>>) = 1
      BY <3>1, OneLonger, Pairs
    <3> QED
      <4>1. IsSeq(socket'[Initiator]) /\ Len(socket'[Initiator]) <= 1
        <5>1. socket'[Initiator] = <<>> \/ socket'[Initiator] = <<a>>
          BY <2>6
        <5>2. CASE socket'[Initiator] = <<>>
          BY <3>1, <5>2
        <5>3. CASE socket'[Initiator] = <<a>>
          BY <3>2, <5>3
        <5> QED
          BY <5>1, <5>2, <5>3
      <4>2. Len(noise'[Initiator].ck) = 1
        BY <1>1, <2>6 DEF AwaitingReply
      <4> QED
        BY <2>6, <4>1, <4>2 DEF AwaitingReply, IsSeq
  <2>8. AwaitingInitiatorReply'
    BY <2>6 DEF AwaitingInitiatorReply
  <2>9. HandshakeInv'
    BY <2>3, <2>6, <2>7, <2>8 DEF HandshakeInv
  <2>10. \A e \in End : handshake'[e] # "ready"
    BY <2>6
  <2>11. BrokenInv'
    BY <2>1, <2>10 DEF SessionInv, BrokenInv
  <2> QED
    BY <2>6, <2>9, <2>10, <2>11 DEF SessionInv
<1> QED
  BY <1>4, <1>5

LEMMA ProcessResponderReplySession ==
  IInv /\ SessionInv /\ ProcessResponderReply => SessionInv'
<1> SUFFICES ASSUME IInv, SessionInv, ProcessResponderReply PROVE SessionInv'
  OBVIOUS
<1> USE Ends
<1> DEFINE n0 == noise[Initiator]
           m  == Head(socket[Initiator])
           n2 == InitiatorAct2(n0, m)
           n3 == Hash(n2, m.c)
           c  == Sealed(n3, 1, Static(Initiator))
           l3 == Hash(n3, c)
           n4 == Mix(l3, Ecdh(n3.repk, Static(Initiator)))
           t  == Sealed(n4, 0, "")
           w  == Split(n4, Initiator)
<1>0. /\ NoiseState(n0) /\ Initiator \in End /\ Responder \in End
      /\ Initiator \in open /\ socket[Initiator] # <<>>
  BY BothEnds DEF ProcessResponderReply, Readable
<1>1. /\ handshake[Initiator] = "awaiting_responder_reply" /\ AwaitingReply
      /\ handshake[Responder] = "awaiting_initiator_reply" /\ AwaitingInitiatorReply
      /\ n0.rpk = Static(Responder)
  <2>1. handshake[Initiator] = "awaiting_responder_reply" /\ AwaitingReply
    BY DEF ProcessResponderReply, SessionInv, HandshakeInv
  <2>2. handshake[Responder] # "awaiting_initiator" /\ handshake[Responder] # "ready"
    BY <1>0, <2>1 DEF SessionInv, HandshakeInv, AwaitingReply, AwaitingInitiator
  <2> QED
    BY <2>1, <2>2 DEF SessionInv, HandshakeInv
<1>2. socket[Responder] = <<>> /\ Len(n0.ck) = 1 /\ Tail(socket[Initiator]) = <<>>
  <2>1. IsSeq(socket[Initiator]) /\ Len(socket[Initiator]) <= 1
    BY <1>1 DEF AwaitingReply
  <2>2. Tail(socket[Initiator]) = <<>>
    <3>1. IsSeq(Tail(socket[Initiator])) /\ Len(Tail(socket[Initiator])) <= 0
      BY <1>0, <2>1, Behead
    <3> QED
      BY <3>1 DEF IsSeq
  <2> QED
    BY <1>1, <2>2 DEF AwaitingReply, AwaitingInitiatorReply
<1>4. CASE ~Opens(m.c, n2.ck, 0, n2.h)
  <2>1. Destroy(Initiator)
    BY <1>4 DEF ProcessResponderReply
  <2> QED
    BY <1>0, <1>1, <2>1, DestroySession
<1>5. CASE Opens(m.c, n2.ck, 0, n2.h)
  <2>u. PICK u : u = [kind |-> "act3", c |-> c, t |-> t]
    OBVIOUS
  <2>1. /\ noise' = [noise EXCEPT ![Initiator] = w]
        /\ socket' = [socket EXCEPT ![Initiator] = Tail(socket[Initiator]),
                        ![Responder] = IF Responder \in open THEN @ \o <<u>> ELSE @]
        /\ handshake' = [handshake EXCEPT ![Initiator] = "ready"]
        /\ open' = open /\ broken' = broken
    BY <1>5, <2>u DEF ProcessResponderReply, Transmit, Other
  <2>2. /\ NoiseState(n4) /\ Len(n4.ck) = 3 /\ n4.rpk = n0.rpk
    <3> DEFINE k == [n0 EXCEPT !.repk = m.epk]
    <3>1. NoiseState(k) /\ k.ck = n0.ck /\ k.rpk = n0.rpk
      <4>1. NoiseState(k)
        BY <1>0, FieldKeeps
      <4>2. k.ck = n0.ck /\ k.rpk = n0.rpk
        BY <1>0 DEF NoiseState
      <4> QED
        BY <4>1, <4>2
    <3>2. n2 = Exchanged(k, m.epk, Ecdh(m.epk, Ephemeral(Initiator)))
      BY DEF InitiatorAct2
    <3> HIDE DEF k, n0, n2, m
    <3>3. /\ NoiseState(n2) /\ n2.ck = Append(n0.ck, Ecdh(m.epk, Ephemeral(Initiator)))
          /\ n2.rpk = n0.rpk
      BY <3>1, <3>2, ExchangedFields
    <3>4. NoiseState(n3) /\ n3.ck = n2.ck /\ n3.rpk = n0.rpk
      BY <3>3, HashFields
    <3> HIDE DEF n3, c
    <3>5. NoiseState(l3) /\ l3.ck = n2.ck /\ l3.rpk = n0.rpk
      BY <3>4, HashFields
    <3> HIDE DEF l3
    <3>6. NoiseState(n4) /\ n4.ck = Append(n2.ck, Ecdh(n3.repk, Static(Initiator)))
          /\ n4.rpk = n0.rpk
      BY <3>5, MixFields
    <3>7. IsSeq(n2.ck) /\ IsSeq(n0.ck)
      BY <1>0, <3>3 DEF NoiseState, IsSeq
    <3>8. Len(n2.ck) = 2
      <4>1. Len(n2.ck) = Len(n0.ck) + 1
        BY <3>3, <3>7, OneLonger
      <4> QED
        BY <1>2, <4>1
    <3> HIDE DEF n4
    <3>9. Len(n4.ck) = 3
      <4>1. Len(n4.ck) = Len(n2.ck) + 1
        BY <3>6, <3>7, OneLonger
      <4> QED
        BY <3>8, <4>1
    <3> QED
      BY <3>6, <3>9
  <2>3. u.t.key = n4.ck /\ u.c.text = Static(Initiator)
    BY <2>u DEF Sealed, Seal
  <2> HIDE DEF n4, c, t
  <2>4. /\ w.ck = n4.ck /\ w.rpk = n4.rpk /\ w.sn = 0 /\ w.rn = 0
        /\ w.sk = Key(SendHalf(Initiator), n4.ck) /\ w.rk = Key(SendHalf(Responder), n4.ck)
        /\ KeysAreLatest(w, Initiator) /\ Base(w) = n4.ck
    BY <1>0, <2>2, SplitFields DEF Other
  <2> HIDE DEF w, n0
  <2>5. /\ noise'[Initiator] = w /\ noise'[Responder] = noise[Responder]
        /\ handshake'[Initiator] = "ready"
        /\ handshake'[Responder] = "awaiting_initiator_reply"
        /\ socket'[Initiator] = <<>>
        /\ Responder \in open => socket'[Responder] = <<u>> \o <<>>
        /\ socket' = [f \in End |-> socket'[f]]
    <3>1. <<>> \o <<u>> = <<u>> /\ <<u>> \o <<>> = <<u>>
      OBVIOUS
    <3> QED
      BY <1>0, <1>1, <1>2, <2>1, <3>1, BothEnds
  <2>6. ActThree(u)'
    BY <2>3, <2>4, <2>5 DEF ActThree
  <2>7. InStep(<<>>, Key(SendHalf(Initiator), u.t.key), 0, w)
    <3>1. w.sk = Key(SendHalf(Initiator), u.t.key) /\ w.sn = 0
      BY <2>3, <2>4
    <3> QED
      BY <3>1, NothingUnderWay
  <2>8. AwaitingInitiatorReply'
    <3>1. Len(noise'[Responder].ck) = 2
      BY <1>1, <2>5 DEF AwaitingInitiatorReply
    <3>2. noise'[Initiator].rk = Key(SendHalf(Responder), Base(noise'[Initiator]))
          /\ noise'[Initiator].rn = 0
      BY <2>4, <2>5
    <3>3. Responder \in open' =>
            \E v, U : /\ socket'[Responder] = <<v>> \o U
                      /\ ActThree(v)'
                      /\ InStep(U, Key(SendHalf(Initiator), v.t.key), 0, noise'[Initiator])
      <4>1. InStep(<<>>, Key(SendHalf(Initiator), u.t.key), 0, noise'[Initiator])
        BY <2>5, <2>7
      <4>2. Responder \in open' => socket'[Responder] = <<u>> \o <<>>
        BY <2>1, <2>5
      <4> QED
        BY <2>6, <4>1, <4>2
    <3> QED
      BY <2>5, <3>1, <3>2, <3>3 DEF AwaitingInitiatorReply, Base
  <2>9. HandshakeInv'
    <3>1. noise'[Initiator].rpk = Static(Responder)
      BY <1>1, <2>2, <2>4, <2>5
    <3> QED
      BY <2>5, <2>8, <3>1 DEF HandshakeInv
  <2>10. BrokenInv'
    BY <1>0, <2>1, <2>5 DEF SessionInv, BrokenInv
  <2>11. \A e \in End : handshake'[e] = "ready" => KeysAreLatest(noise'[e], e)
    BY <2>4, <2>5
  <2> QED
    BY <2>5, <2>9, <2>10, <2>11 DEF SessionInv, KeysAreLatest
<1> QED
  BY <1>4, <1>5

LEMMA ProcessInitiatorReplySession ==
  IInv /\ SessionInv /\ ProcessInitiatorReply => SessionInv'
<1> SUFFICES ASSUME IInv, SessionInv, ProcessInitiatorReply PROVE SessionInv'
  OBVIOUS
<1> USE Ends
<1> DEFINE i0 == noise[Initiator]
           n1 == noise[Responder]
           m  == Head(socket[Responder])
           l1 == Hash(n1, m.c)
           n2 == [l1 EXCEPT !.rpk = m.c.text]
           n3 == Mix(n2, Ecdh(n2.rpk, Ephemeral(Responder)))
           w  == Split(n3, Responder)
<1>0. /\ NoiseState(n1) /\ Initiator \in End /\ Responder \in End
      /\ Responder \in open /\ socket[Responder] # <<>>
  BY BothEnds DEF ProcessInitiatorReply, Readable
<1>1. /\ handshake[Responder] = "awaiting_initiator_reply" /\ AwaitingInitiatorReply
      /\ handshake[Initiator] = "ready" /\ i0.rpk = Static(Responder)
  <2>1. /\ handshake[Responder] = "awaiting_initiator_reply" /\ AwaitingInitiatorReply
        /\ i0.rpk = Static(Responder)
    BY DEF ProcessInitiatorReply, SessionInv, HandshakeInv
  <2>2. handshake[Initiator] # "initiating" /\ handshake[Initiator] # "awaiting_responder_reply"
    BY <1>0, <2>1 DEF AwaitingInitiatorReply
  <2> QED
    BY <2>1, <2>2 DEF SessionInv, HandshakeInv
<1>2. /\ Len(n1.ck) = 2 /\ socket[Initiator] = <<>>
      /\ i0.rk = Key(SendHalf(Responder), Base(i0)) /\ i0.rn = 0
  BY <1>1 DEF AwaitingInitiatorReply
<1>3. PICK u, U : /\ socket[Responder] = <<u>> \o U
                  /\ ActThree(u)
                  /\ InStep(U, Key(SendHalf(Initiator), u.t.key), 0, i0)
  BY <1>0, <1>1 DEF AwaitingInitiatorReply
<1>4. m = u /\ Tail(socket[Responder]) = U
  BY <1>3, Split1 DEF InStep
<1>5. CASE ~(Opens(m.c, n1.ck, 1, n1.h) /\ Opens(m.t, n3.ck, 0, n3.h))
  <2>1. Destroy(Responder)
    BY <1>5 DEF ProcessInitiatorReply
  <2> QED
    BY <1>0, <1>1, <2>1, DestroySession
<1>6. CASE Opens(m.c, n1.ck, 1, n1.h) /\ Opens(m.t, n3.ck, 0, n3.h)
  <2>1. /\ noise' = [noise EXCEPT ![Responder] = w]
        /\ socket' = [socket EXCEPT ![Responder] = Tail(@)]
        /\ handshake' = [handshake EXCEPT ![Responder] = "ready"]
        /\ open' = open /\ broken' = broken
    BY <1>6 DEF ProcessInitiatorReply
  <2>2. m.t.key = n3.ck
    BY <1>6 DEF Opens
  <2>3. /\ NoiseState(n3) /\ Len(n3.ck) = 3 /\ n3.rpk = m.c.text
        /\ IsSeq(n1.ck) /\ Begins(n1.ck, n3.ck) /\ IsSeq(n3.ck)
    <3>0. n1.ck = l1.ck /\ NoiseState(l1)
      BY <1>0, HashFields
    <3> HIDE DEF n1, m, l1
    <3>1. NoiseState(n2) /\ n2.ck = n1.ck /\ n2.rpk = m.c.text
      <4>1. NoiseState(n2)
        BY <3>0, FieldKeeps
      <4>2. n2.ck = l1.ck /\ n2.rpk = m.c.text
        BY <3>0 DEF NoiseState
      <4> QED
        BY <3>0, <4>1, <4>2
    <3> HIDE DEF n2
    <3>2. /\ NoiseState(n3) /\ n3.ck = Append(n1.ck, Ecdh(n2.rpk, Ephemeral(Responder)))
          /\ n3.rpk = m.c.text
      BY <3>1, MixFields
    <3> HIDE DEF n3
    <3>3. IsSeq(n1.ck) /\ IsSeq(n3.ck)
      BY <1>0, <3>2 DEF NoiseState, IsSeq
    <3> QED
      <4>1. Len(n3.ck) = Len(n1.ck) + 1
        BY <3>2, <3>3, OneLonger
      <4>2. Begins(n1.ck, n3.ck)
        BY <3>2, <3>3, OneLonger
      <4> QED
        BY <1>2, <3>2, <3>3, <4>1, <4>2
  <2> HIDE DEF n3
  <2>4. /\ w.ck = n3.ck /\ w.rpk = n3.rpk /\ w.sn = 0 /\ w.rn = 0
        /\ w.sk = Key(SendHalf(Responder), n3.ck) /\ w.rk = Key(SendHalf(Initiator), n3.ck)
        /\ KeysAreLatest(w, Responder) /\ Base(w) = n3.ck
    BY <1>0, <2>3, SplitFields DEF Other
  <2> HIDE DEF w
  <2>5. /\ noise'[Responder] = w /\ noise'[Initiator] = i0
        /\ handshake'[Responder] = "ready" /\ handshake'[Initiator] = "ready"
        /\ socket'[Initiator] = <<>> /\ socket'[Responder] = U
        /\ socket' = [f \in End |-> socket'[f]]
    BY <1>0, <1>1, <1>2, <1>4, <2>1, BothEnds
  <2>6. u.t.key = n3.ck /\ Base(i0) = n3.ck /\ w.rpk = Static(Initiator)
    BY <1>3, <1>4, <2>2, <2>3, <2>4 DEF ActThree
  <2> HIDE DEF i0, n1, m
  <2>7. InStep(U, w.rk, w.rn, i0)
    BY <1>3, <2>4, <2>6
  <2>8. InStep(<<>>, i0.rk, i0.rn, w)
    <3>1. w.sk = i0.rk /\ w.sn = i0.rn
      BY <1>2, <2>4, <2>6
    <3> QED
      BY <3>1, NothingUnderWay
  <2>9. ASSUME NEW e \in open'
        PROVE  InStep(socket'[e], noise'[e].rk, noise'[e].rn, noise'[Other(e)])
    <3>1. e = Initiator \/ e = Responder
      BY <2>1 DEF SessionInv, BrokenInv
    <3>2. Other(Initiator) = Responder /\ Other(Responder) = Initiator
      BY DEF Other
    <3> QED
      BY <2>5, <2>7, <2>8, <3>1, <3>2
  <2>10. ResponderReady'
    BY <2>4, <2>5, <2>6, <2>9 DEF ResponderReady, Base
  <2>11. HandshakeInv'
    BY <1>1, <2>5, <2>10 DEF HandshakeInv, i0
  <2>12. BrokenInv'
    <3>1. open \subseteq End /\ broken \subseteq End \ open
      BY DEF SessionInv, BrokenInv
    <3>2. ASSUME NEW e \in broken PROVE ~Agree(noise'[Initiator].ck, noise'[Responder].ck)
      <4>1. e = Initiator
        BY <1>0, <3>1, <3>2
      <4>2. ~Agree(i0.ck, n1.ck)
        BY <1>1, <3>2, <4>1 DEF SessionInv, BrokenInv, i0, n1
      <4>3. IsSeq(i0.ck) /\ Begins(i0.ck, i0.ck)
        BY <1>0, BothEnds, SeqLen DEF i0, Begins
      <4> QED
        BY <2>3, <2>4, <2>5, <4>2, <4>3, SeqLen, AgreedBefore
    <3> QED
      BY <2>1, <3>1, <3>2 DEF BrokenInv
  <2>13. \A e \in End : handshake'[e] = "ready" => KeysAreLatest(noise'[e], e)
    BY <1>0, <1>1, <2>4, <2>5, BothEnds DEF i0
  <2> QED
    BY <2>5, <2>11, <2>12, <2>13 DEF SessionInv, KeysAreLatest
<1> QED
  BY <1>5, <1>6

LEMMA NothingHappens ==
  SessionInv /\ UNCHANGED <<handshake, noise, socket, open, broken>> => SessionInv'
<1> SUFFICES ASSUME SessionInv, UNCHANGED <<handshake, noise, socket, open, broken>>
             PROVE  SessionInv'
  OBVIOUS
<1>1. (Initiating <=> Initiating') /\ (AwaitingReply <=> AwaitingReply')
  BY DEF Initiating, AwaitingReply
<1>2. AwaitingInitiator <=> AwaitingInitiator'
  BY DEF AwaitingInitiator, ActOne
<1>3. AwaitingInitiatorReply <=> AwaitingInitiatorReply'
  BY DEF AwaitingInitiatorReply, ActThree, Base
<1>4. ResponderReady <=> ResponderReady'
  BY DEF ResponderReady, Base
<1>5. HandshakeInv'
  BY <1>1, <1>2, <1>3, <1>4 DEF SessionInv, HandshakeInv
<1>6. BrokenInv'
  BY DEF SessionInv, BrokenInv
<1> QED
  BY <1>5, <1>6 DEF SessionInv

(* A chaining key that grows, of one end: what did not agree does not.    *)
LEMMA Grows ==
  ASSUME IInv, SessionInv, NEW e \in End, NEW m,
         noise' = [noise EXCEPT ![e] = m], IsSeq(m.ck), Begins(noise[e].ck, m.ck),
         handshake' = handshake, open' = open, broken' = broken
  PROVE  /\ noise'[e] = m /\ \A f \in End \ {e} : noise'[f] = noise[f]
         /\ Agree(noise'[Initiator].ck, noise'[Responder].ck) =>
              Agree(noise[Initiator].ck, noise[Responder].ck)
         /\ BrokenInv'
<1> USE Ends
<1>1. noise'[e] = m /\ \A f \in End \ {e} : noise'[f] = noise[f]
  BY BothEnds
<1>2. \A f \in End : /\ Len(noise[f].ck) \in Nat /\ Len(noise'[f].ck) \in Nat
                     /\ Begins(noise[f].ck, noise'[f].ck)
  <2> TAKE f \in End
  <2>1. Len(noise[f].ck) \in Nat /\ Begins(noise[f].ck, noise[f].ck)
    BY BothEnds, SeqLen DEF Begins
  <2>2. Len(m.ck) \in Nat
    BY SeqLen
  <2> QED
    BY <1>1, <2>1, <2>2
<1>3. Agree(noise'[Initiator].ck, noise'[Responder].ck) =>
        Agree(noise[Initiator].ck, noise[Responder].ck)
  BY <1>2, AgreedBefore
<1>4. BrokenInv'
  BY <1>3 DEF SessionInv, BrokenInv
<1> QED
  BY <1>1, <1>3, <1>4

(* A step of the transport once both ends are ready. *)
LEMMA TransportKeeps ==
  ASSUME IInv, SessionInv, NEW e \in End, NEW m,
         handshake[Responder] = "ready",
         noise' = [noise EXCEPT ![e] = m], IsSeq(m.ck), Begins(noise[e].ck, m.ck),
         m.rpk = noise[e].rpk, KeysAreLatest(m, e),
         handshake' = handshake, open' = open, broken' = broken,
         socket' = [f \in End |-> socket'[f]],
         Agree(noise[Initiator].ck, noise[Responder].ck) /\
           Agree(noise'[Initiator].ck, noise'[Responder].ck) =>
             \A f \in open :
               InStep(socket'[f], noise'[f].rk, noise'[f].rn, noise'[Other(f)])
  PROVE  SessionInv'
<1> USE Ends
<1>1. /\ noise'[e] = m /\ \A f \in End \ {e} : noise'[f] = noise[f]
      /\ Agree(noise'[Initiator].ck, noise'[Responder].ck) =>
           Agree(noise[Initiator].ck, noise[Responder].ck)
      /\ BrokenInv'
  BY Grows
<1>2. ResponderReady /\ handshake[Initiator] = "ready" /\ noise[Initiator].rpk = Static(Responder)
  BY DEF SessionInv, HandshakeInv, ResponderReady
<1>3. \A f \in End : noise'[f].rpk = noise[f].rpk
  BY <1>1
<1>4. \A f \in End : Base(noise'[f]) = Base(noise[f])
  <2>1. Len(noise[e].ck) >= 3
    <3>1. handshake[e] = "ready"
      BY <1>2
    <3> QED
      BY <3>1 DEF SessionInv, KeysAreLatest
  <2>2. Base(m) = Base(noise[e])
    BY <2>1, BothEnds, BaseStays DEF Base
  <2> QED
    BY <1>1, <2>2
<1>5. ResponderReady'
  <2>1. Base(noise'[Responder]) = Base(noise'[Initiator])
    BY <1>2, <1>4 DEF ResponderReady
  <2>2. noise'[Responder].rpk = Static(Initiator)
    BY <1>2, <1>3 DEF ResponderReady
  <2> QED
    BY <1>1, <1>2, <2>1, <2>2 DEF ResponderReady, Base
<1>6. HandshakeInv'
  <2>1. noise'[Initiator].rpk = Static(Responder)
    BY <1>2, <1>3
  <2> QED
    BY <1>2, <1>5, <2>1 DEF SessionInv, HandshakeInv
<1>7. \A f \in End : handshake'[f] = "ready" => KeysAreLatest(noise'[f], f)
  BY <1>1 DEF SessionInv
<1> QED
  BY <1>1, <1>6, <1>7 DEF SessionInv, KeysAreLatest

(* Two units sent one after the other, sealed with what is then in use.   *)
LEMMA SendTwo ==
  ASSUME NEW n, NEW e \in End, NoiseState(n), Transporting(n, e), KeysAreLatest(n, e)
  PROVE  LET m == UsedToSend(UsedToSend(n)) IN
         /\ IsSeq(m.ck) /\ Begins(n.ck, m.ck) /\ KeysAreLatest(m, e)
         /\ m.rk = n.rk /\ m.rn = n.rn /\ m.rpk = n.rpk
         /\ \A U, k, a, u, v, x, y :
              /\ InStep(U, k, a, n)
              /\ u.c = Seal(n.sk, n.sn, <<>>, x)
              /\ v.c = Seal(UsedToSend(n).sk, UsedToSend(n).sn, <<>>, y)
              => InStep(U \o <<u, v>>, k, a, m)
<1> DEFINE l == UsedToSend(n)
           m == UsedToSend(l)
<1>1. /\ NoiseState(l) /\ Transporting(l, e) /\ KeysAreLatest(l, e)
      /\ Begins(n.ck, l.ck) /\ l.rk = n.rk /\ l.rn = n.rn /\ l.rpk = n.rpk
      /\ IsSeq(l.ck)
  BY Sending, SendingKeeps
<1>2. ASSUME NEW U, NEW k, NEW a, NEW u, NEW x,
             InStep(U, k, a, n), u.c = Seal(n.sk, n.sn, <<>>, x)
      PROVE  InStep(Append(U, u), k, a, l)
  BY <1>2, SendInStep
<1> HIDE DEF l
<1>3. /\ KeysAreLatest(m, e)
      /\ Begins(l.ck, m.ck) /\ m.rk = l.rk /\ m.rn = l.rn /\ m.rpk = l.rpk
      /\ IsSeq(m.ck)
  BY <1>1, Sending
<1>4. ASSUME NEW U, NEW k, NEW a, NEW u, NEW x,
             InStep(U, k, a, l), u.c = Seal(l.sk, l.sn, <<>>, x)
      PROVE  InStep(Append(U, u), k, a, m)
  BY <1>1, <1>4, SendInStep
<1> HIDE DEF m
<1>5. Begins(n.ck, m.ck)
  <2>1. IsSeq(n.ck)
    BY DEF NoiseState, IsSeq
  <2>2. Len(n.ck) \in Nat /\ Len(l.ck) \in Nat /\ Len(m.ck) \in Nat
    BY <1>1, <1>3, <2>1, SeqLen
  <2> QED
    BY <1>1, <1>3, <2>2, BeginsTwice
<1>6. ASSUME NEW U, NEW k, NEW a, NEW u, NEW v, NEW x, NEW y,
             InStep(U, k, a, n),
             u.c = Seal(n.sk, n.sn, <<>>, x), v.c = Seal(l.sk, l.sn, <<>>, y)
      PROVE  InStep(U \o <<u, v>>, k, a, m)
  <2>1. InStep(Append(U, u), k, a, l)
    BY <1>2, <1>6
  <2>2. InStep(Append(Append(U, u), v), k, a, m)
    BY <1>4, <1>6, <2>1
  <2>3. Append(Append(U, u), v) = U \o <<u, v>>
    <3>1. PICK T : U \in Seq(T)
      BY <1>6 DEF InStep, IsSeq
    <3>2. U \in Seq(T \cup {u, v})
      BY <3>1
    <3> QED
      BY <3>2
  <2> QED
    BY <2>2, <2>3
<1> QED
  BY <1>1, <1>3, <1>5, <1>6 DEF l, m

LEMMA WriteSession == ASSUME NEW e \in End PROVE IInv /\ SessionInv /\ Write(e) => SessionInv'
<1> SUFFICES ASSUME IInv, SessionInv, Write(e) PROVE SessionInv'
  OBVIOUS
<1> USE Ends
<1> DEFINE n == noise[e]
           l == UsedToSend(n)
           m == UsedToSend(l)
           lc == Seal(n.sk, n.sn, <<>>, <<"length", written[e] + 1>>)
           c  == Seal(l.sk, l.sn, <<>>, <<"message", written[e] + 1>>)
           f  == Other(e)
<1>u. PICK u : u = [kind |-> "length", c |-> lc]
  OBVIOUS
<1>v. PICK v : v = [kind |-> "message", c |-> c]
  OBVIOUS
<1>0. /\ handshake[e] = "ready" /\ handshake' = handshake /\ open' = open /\ broken' = broken
      /\ noise' = [noise EXCEPT ![e] = m]
      /\ socket' = [socket EXCEPT ![e] = socket[e],
                      ![f] = IF f \in open THEN @ \o <<u, v>> ELSE @]
  BY <1>u, <1>v DEF Write, Transmit
<1>1. NoiseState(n) /\ Transporting(n, e) /\ KeysAreLatest(n, e) /\ IsSeq(n.ck)
  BY <1>0, BothEnds
<1>2. /\ IsSeq(m.ck) /\ Begins(n.ck, m.ck) /\ KeysAreLatest(m, e)
      /\ m.rk = n.rk /\ m.rn = n.rn /\ m.rpk = n.rpk
  BY <1>1, SendTwo
<1>3. ASSUME NEW U, NEW k, NEW a, InStep(U, k, a, n)
      PROVE  InStep(U \o <<u, v>>, k, a, m)
  <2>1. /\ u.c = Seal(n.sk, n.sn, <<>>, <<"length", written[e] + 1>>)
        /\ v.c = Seal(l.sk, l.sn, <<>>, <<"message", written[e] + 1>>)
    BY <1>u, <1>v
  <2>2. \A U1, k1, a1, u1, v1, x, y :
          /\ InStep(U1, k1, a1, n)
          /\ u1.c = Seal(n.sk, n.sn, <<>>, x) /\ v1.c = Seal(l.sk, l.sn, <<>>, y)
          => InStep(U1 \o <<u1, v1>>, k1, a1, m)
    BY <1>1, SendTwo
  <2> HIDE DEF n, l, m
  <2> QED
    BY <1>3, <2>1, <2>2
<1>4. f \in End /\ f # e /\ Other(f) = e
  BY DEF Other, End
<1> HIDE DEF n, m, l, lc, c, f
<1>5. /\ noise'[e] = m /\ \A g \in End \ {e} : noise'[g] = noise[g]
      /\ socket' = [g \in End |-> socket'[g]]
      /\ socket'[e] = socket[e]
      /\ socket'[f] = IF f \in open THEN socket[f] \o <<u, v>> ELSE socket[f]
  <2>1. /\ noise = [g \in End |-> noise[g]] /\ socket = [g \in End |-> socket[g]]
    BY BothEnds
  <2> QED
    BY <1>0, <1>4, <2>1
<1>6. CASE handshake[Responder] = "ready"
  <2>1. ASSUME Agree(noise[Initiator].ck, noise[Responder].ck), NEW g \in open
        PROVE  InStep(socket'[g], noise'[g].rk, noise'[g].rn, noise'[Other(g)])
    <3>0. InStep(socket[g], noise[g].rk, noise[g].rn, noise[Other(g)])
      BY <1>6, <2>1 DEF SessionInv, HandshakeInv, ResponderReady
    <3>1. CASE g = e
      <4>1. noise'[g].rk = noise[g].rk /\ noise'[g].rn = noise[g].rn
        BY <1>2, <1>5, <3>1 DEF n
      <4>2. noise'[Other(g)] = noise[Other(g)] /\ socket'[g] = socket[g]
        BY <1>4, <1>5, <3>1 DEF f
      <4> QED
        BY <3>0, <4>1, <4>2
    <3>2. CASE g = f
      <4>1. noise'[g] = noise[g] /\ noise'[Other(g)] = m /\ noise[Other(g)] = n
        BY <1>4, <1>5, <3>2 DEF n
      <4>2. socket'[g] = socket[g] \o <<u, v>>
        BY <1>5, <2>1, <3>2
      <4>3. InStep(socket[g], noise[g].rk, noise[g].rn, n)
        BY <3>0, <4>1
      <4>4. InStep(socket[g] \o <<u, v>>, noise[g].rk, noise[g].rn, m)
        BY <1>3, <4>3
      <4> QED
        BY <4>1, <4>2, <4>4
    <3>3. g = e \/ g = f
      BY <1>4, <2>1 DEF SessionInv, BrokenInv, End
    <3> QED
      BY <3>1, <3>2, <3>3
  <2> QED
    BY <1>0, <1>2, <1>5, <1>6, <2>1, TransportKeeps DEF n
<1>7. CASE handshake[Responder] # "ready"
  <2>1. /\ e = Initiator /\ f = Responder /\ handshake[Initiator] = "ready"
        /\ handshake[Responder] = "awaiting_initiator_reply" /\ AwaitingInitiatorReply
    <3>1. e = Initiator
      BY <1>0, <1>7
    <3>2. handshake[Responder] # "awaiting_initiator"
      BY <1>0, <3>1 DEF SessionInv, HandshakeInv, AwaitingInitiator
    <3>3. f = Responder
      BY <3>1 DEF f, Other
    <3> QED
      BY <1>0, <1>7, <3>1, <3>2, <3>3 DEF SessionInv, HandshakeInv
  <2>2. Base(m) = Base(n)
    <3>1. Len(n.ck) >= 3
      BY <1>1 DEF KeysAreLatest
    <3> QED
      BY <1>1, <1>2, <3>1, BaseStays DEF Base
  <2>3. noise'[Initiator] = m /\ noise[Initiator] = n /\ noise'[Responder] = noise[Responder]
    BY <1>5, <2>1 DEF n
  <2>4. ASSUME Responder \in open'
        PROVE  \E w, U : /\ socket'[Responder] = <<w>> \o U
                         /\ ActThree(w)'
                         /\ InStep(U, Key(SendHalf(Initiator), w.t.key), 0, noise'[Initiator])
    <3>1. PICK w, U : /\ socket[Responder] = <<w>> \o U
                      /\ ActThree(w)
                      /\ InStep(U, Key(SendHalf(Initiator), w.t.key), 0, n)
      BY <1>0, <2>1, <2>3, <2>4 DEF AwaitingInitiatorReply
    <3>2. InStep(U \o <<u, v>>, Key(SendHalf(Initiator), w.t.key), 0, m)
      BY <1>3, <3>1
    <3>3. socket'[Responder] = <<w>> \o (U \o <<u, v>>)
      <4>1. socket'[Responder] = (<<w>> \o U) \o <<u, v>>
        BY <1>0, <1>5, <2>1, <2>4, <3>1
      <4>2. PICK T : U \in Seq(T)
        BY <3>1 DEF InStep, IsSeq
      <4>3. U \in Seq(T \cup {u, v, w}) /\ <<w>> \in Seq(T \cup {u, v, w})
            /\ <<u, v>> \in Seq(T \cup {u, v, w})
        BY <4>2
      <4>4. (<<w>> \o U) \o <<u, v>> = <<w>> \o (U \o <<u, v>>)
        BY <4>3
      <4> QED
        BY <4>1, <4>4
    <3>4. ActThree(w)'
      BY <2>2, <2>3, <3>1 DEF ActThree
    <3> QED
      BY <2>3, <3>2, <3>3, <3>4
  <2>5. AwaitingInitiatorReply'
    <3>1. socket'[Initiator] = <<>> /\ Len(noise'[Responder].ck) = 2
      BY <1>5, <2>1, <2>3 DEF AwaitingInitiatorReply
    <3>2. /\ noise'[Initiator].rk = Key(SendHalf(Responder), Base(noise'[Initiator]))
          /\ noise'[Initiator].rn = 0
      BY <1>2, <2>1, <2>2, <2>3 DEF AwaitingInitiatorReply
    <3> QED
      BY <1>0, <2>1, <2>4, <3>1, <3>2 DEF AwaitingInitiatorReply, Base
  <2>6. HandshakeInv'
    <3>1. noise'[Initiator].rpk = Static(Responder)
      BY <1>2, <2>1, <2>3 DEF SessionInv, HandshakeInv
    <3> QED
      BY <1>0, <2>1, <2>5, <3>1 DEF HandshakeInv
  <2>7. BrokenInv'
    BY <1>0, <1>2, Grows DEF n
  <2>8. \A g \in End : handshake'[g] = "ready" => KeysAreLatest(noise'[g], g)
    BY <1>0, <1>2, <1>7, <2>1, <2>3
  <2> QED
    BY <1>5, <2>6, <2>7, <2>8 DEF SessionInv, KeysAreLatest
<1> QED
  BY <1>6, <1>7

(* What an end that is ready finds in its socket. *)
LEMMA ReadsInStep ==
  ASSUME IInv, SessionInv, NEW e \in End, handshake[e] = "ready",
         e \in open, socket[e] # <<>>
  PROVE  /\ handshake[Responder] = "ready"
         /\ Agree(noise[Initiator].ck, noise[Responder].ck) =>
              Opens(Head(socket[e]).c, noise[e].rk, noise[e].rn, <<>>)
<1> USE Ends
<1>1. handshake[Responder] = "ready"
  BY DEF SessionInv, HandshakeInv, AwaitingInitiator, AwaitingInitiatorReply
<1>2. ASSUME Agree(noise[Initiator].ck, noise[Responder].ck)
      PROVE  Opens(Head(socket[e]).c, noise[e].rk, noise[e].rn, <<>>)
  <2>1. InStep(socket[e], noise[e].rk, noise[e].rn, noise[Other(e)])
    BY <1>1, <1>2 DEF SessionInv, HandshakeInv, ResponderReady
  <2>2. Head(socket[e]) = socket[e][1] /\ Len(socket[e]) >= 1 /\ Len(socket[e]) \in Nat
    BY <2>1, Behead, SeqLen DEF InStep
  <2>3. 1 \in 1..Len(socket[e])
    BY <2>2
  <2>4. socket[e][1].c.key = noise[e].rk /\ socket[e][1].c.nonce = noise[e].rn
    BY <2>1, <2>2 DEF InStep, KeyAt, NonceAt
  <2>5. socket[e][1].c.ad = <<>>
    BY <2>1, <2>3 DEF InStep
  <2> QED
    BY <2>2, <2>4, <2>5 DEF Opens
<1> QED
  BY <1>1, <1>2

(* A unit that is opened. *)
LEMMA ReadKeeps ==
  ASSUME IInv, SessionInv, NEW e \in End, handshake[e] = "ready",
         e \in open, socket[e] # <<>>,
         noise' = [noise EXCEPT ![e] = UsedToReceive(@)],
         socket' = [socket EXCEPT ![e] = Tail(@)],
         handshake' = handshake, open' = open, broken' = broken
  PROVE  SessionInv'
<1> USE Ends
<1> DEFINE n == noise[e]
           m == UsedToReceive(n)
           f == Other(e)
<1>0. handshake[Responder] = "ready" /\ handshake[Initiator] = "ready" /\ handshake[f] = "ready"
  <2>1. handshake[Responder] = "ready"
    BY ReadsInStep
  <2>2. handshake[Initiator] = "ready"
    BY <2>1 DEF SessionInv, HandshakeInv, ResponderReady
  <2> QED
    BY <2>1, <2>2 DEF Other
<1>1. NoiseState(n) /\ Transporting(n, e) /\ KeysAreLatest(n, e) /\ IsSeq(n.ck)
  BY BothEnds
<1>2. /\ IsSeq(m.ck) /\ Begins(n.ck, m.ck)
      /\ KeysAreLatest(m, e) /\ m.sk = n.sk /\ m.sn = n.sn /\ m.rpk = n.rpk
  BY <1>1, Receiving
<1>3. f \in End /\ f # e /\ Other(f) = e
  BY DEF Other, End
<1>4. IsSeq(noise[f].ck) /\ KeysAreLatest(noise[f], f)
  BY <1>0, <1>3, BothEnds
<1>5. ASSUME NEW U, U # <<>>, InStep(U, n.rk, n.rn, noise[f]), Agree(noise[f].ck, m.ck)
      PROVE  InStep(Tail(U), m.rk, m.rn, noise[f])
  BY <1>1, <1>4, <1>5, ReceiveInStep
<1>6. /\ noise' = [noise EXCEPT ![e] = m]
      /\ noise'[e] = m /\ \A g \in End \ {e} : noise'[g] = noise[g]
      /\ socket' = [g \in End |-> socket'[g]]
      /\ socket'[e] = Tail(socket[e]) /\ socket'[f] = socket[f]
  BY <1>3, BothEnds
<1> HIDE DEF n, m, f
<1>7. ASSUME Agree(noise[Initiator].ck, noise[Responder].ck),
             Agree(noise'[Initiator].ck, noise'[Responder].ck), NEW g \in open
      PROVE  InStep(socket'[g], noise'[g].rk, noise'[g].rn, noise'[Other(g)])
  <2>0. InStep(socket[g], noise[g].rk, noise[g].rn, noise[Other(g)])
    BY <1>0, <1>7 DEF SessionInv, HandshakeInv, ResponderReady
  <2>1. CASE g = e
    <3>1. noise'[f] = noise[f] /\ noise'[e] = m
      BY <1>3, <1>6
    <3>2. Agree(noise[f].ck, m.ck)
      <4>1. \/ e = Initiator /\ f = Responder
            \/ e = Responder /\ f = Initiator
        BY <1>3
      <4>2. Len(noise[f].ck) \in Nat /\ Len(m.ck) \in Nat
        BY <1>2, <1>4, SeqLen
      <4> QED
        BY <1>7, <3>1, <4>1, <4>2, AgreeIsSymmetric
    <3>3. InStep(socket[e], n.rk, n.rn, noise[f])
      BY <2>0, <2>1 DEF n, f
    <3>4. InStep(Tail(socket[e]), m.rk, m.rn, noise[f])
      BY <1>5, <3>2, <3>3
    <3> QED
      BY <1>6, <2>1, <3>1, <3>4 DEF f
  <2>2. CASE g = f
    <3>1. InStep(socket[f], noise[f].rk, noise[f].rn, n)
      BY <1>3, <2>0, <2>2 DEF n
    <3>2. InStep(socket[f], noise[f].rk, noise[f].rn, m)
      BY <1>1, <1>2, <3>1, ReceivedMeanwhile
    <3> QED
      BY <1>3, <1>6, <2>2, <3>2
  <2>3. g = e \/ g = f
    BY <1>3, <1>7 DEF SessionInv, BrokenInv, End
  <2> QED
    BY <2>1, <2>2, <2>3
<1> QED
  BY <1>0, <1>2, <1>6, <1>7, TransportKeeps DEF n

LEMMA LengthSession ==
  ASSUME NEW e \in End PROVE IInv /\ SessionInv /\ ProcessPacketLength(e) => SessionInv'
<1> SUFFICES ASSUME IInv, SessionInv, ProcessPacketLength(e) PROVE SessionInv'
  OBVIOUS
<1>1. handshake[e] = "ready" /\ e \in open /\ socket[e] # <<>>
  BY DEF ProcessPacketLength, Readable
<1>2. CASE Opens(Head(socket[e]).c, noise[e].rk, noise[e].rn, <<>>)
  BY <1>1, <1>2, ReadKeeps DEF ProcessPacketLength
<1>3. CASE ~Opens(Head(socket[e]).c, noise[e].rk, noise[e].rn, <<>>)
  BY <1>1, <1>3, ReadsInStep, DestroySession DEF ProcessPacketLength
<1> QED
  BY <1>2, <1>3

LEMMA BodySession ==
  ASSUME NEW e \in End PROVE IInv /\ SessionInv /\ ProcessPacketBody(e) => SessionInv'
<1> SUFFICES ASSUME IInv, SessionInv, ProcessPacketBody(e) PROVE SessionInv'
  OBVIOUS
<1>1. handshake[e] = "ready" /\ e \in open /\ socket[e] # <<>>
  BY DEF ProcessPacketBody, Readable
<1>2. CASE Opens(Head(socket[e]).c, noise[e].rk, noise[e].rn, <<>>)
  BY <1>1, <1>2, ReadKeeps DEF ProcessPacketBody
<1>3. CASE ~Opens(Head(socket[e]).c, noise[e].rk, noise[e].rn, <<>>)
  BY <1>1, <1>3, ReadsInStep, DestroySession DEF ProcessPacketBody
<1> QED
  BY <1>2, <1>3

(* The handshake and the two streams of units after it. *)
THEOREM SessionInvariance == Spec => []SessionInv
<1>1. IInv /\ SessionInv /\ [Next]_vars => SessionInv'
  <2> SUFFICES ASSUME IInv, SessionInv, [Next]_vars PROVE SessionInv'
    OBVIOUS
  <2>1. CASE InitiateHandshake
    BY <2>1, InitiateHandshakeSession
  <2>2. ASSUME NEW e \in End, OnData(e) PROVE SessionInv'
    BY <2>2, ProcessInitiatorSession, ProcessResponderReplySession,
       ProcessInitiatorReplySession, LengthSession, BodySession DEF OnData
  <2>3. ASSUME NEW e \in End, Write(e) PROVE SessionInv'
    BY <2>3, WriteSession
  <2>4. ASSUME NEW e \in End, Consume(e) PROVE SessionInv'
    BY <2>4, NothingHappens DEF Consume
  <2>5. ASSUME NEW e \in End, Close(e) PROVE SessionInv'
    BY <2>5, CloseSession
  <2>6. CASE UNCHANGED vars
    BY <2>6, NothingHappens DEF vars
  <2> QED
    BY <2>1, <2>2, <2>3, <2>4, <2>5, <2>6 DEF Next
<1> QED
  BY <1>1, SessionInitial, Invariance, PTL DEF Spec

(* An end is ready only once the handshake is over with the node that the *)
(* initiator dialed, and both then have each other's static key, the keys *)
(* of the two directions and one chaining key (acts one to three), for    *)
(* every key that may be dialed.                                          *)
THEOREM HandshakeAuthenticates == Spec => []ReadyIsAuthentic
<1>1. IInv /\ SessionInv => ReadyIsAuthentic
  <2> SUFFICES ASSUME IInv, SessionInv, NEW e \in End, handshake[e] = "ready"
               PROVE  /\ noise[e].rpk = Static(Other(e))
                      /\ noise[Initiator].rpk = Static(Responder)
                      /\ handshake[Responder] = "ready" =>
                           /\ noise[Initiator].sk.half = noise[Responder].rk.half
                           /\ noise[Initiator].rk.half = noise[Responder].sk.half
                           /\ SubSeq(noise[Initiator].ck, 1, 3) = SubSeq(noise[Responder].ck, 1, 3)
    BY DEF ReadyIsAuthentic
  <2> USE Ends
  <2>1. handshake[Responder] # "awaiting_initiator"
    BY DEF SessionInv, HandshakeInv, AwaitingInitiator
  <2>2. noise[Initiator].rpk = Static(Responder)
    BY <2>1 DEF SessionInv, HandshakeInv
  <2>3. noise[e].rpk = Static(Other(e))
    <3>1. CASE e = Initiator
      BY <2>2, <3>1 DEF Other
    <3>2. CASE e = Responder
      BY <3>2 DEF Other, SessionInv, HandshakeInv, ResponderReady
    <3> QED
      BY <3>1, <3>2
  <2>4. ASSUME handshake[Responder] = "ready"
        PROVE  /\ noise[Initiator].sk.half = noise[Responder].rk.half
               /\ noise[Initiator].rk.half = noise[Responder].sk.half
               /\ SubSeq(noise[Initiator].ck, 1, 3) = SubSeq(noise[Responder].ck, 1, 3)
    <3>1. ResponderReady /\ handshake[Initiator] = "ready"
      BY <2>4 DEF SessionInv, HandshakeInv, ResponderReady
    <3>2. ASSUME NEW f \in End
          PROVE  /\ noise[f].sk.half = SendHalf(f)
                 /\ noise[f].rk.half = SendHalf(Other(f))
      <4>1. KeysAreLatest(noise[f], f)
        BY <2>4, <3>1 DEF SessionInv
      <4>2. /\ noise[f].sk = Key(SendHalf(f), noise[f].sk.ck)
            /\ noise[f].rk = Key(SendHalf(Other(f)), noise[f].rk.ck)
        BY <4>1 DEF KeysAreLatest, IsKey
      <4> QED
        BY <4>2 DEF Key
    <3>3. Other(Initiator) = Responder /\ Other(Responder) = Initiator
      BY DEF Other
    <3> QED
      BY <3>1, <3>2, <3>3 DEF ResponderReady, Base
  <2> QED
    BY <2>2, <2>3, <2>4
<1> QED
  BY <1>1, Invariance, SessionInvariance, PTL

(* A message is lost to a failed tag only if the rotations of the two     *)
(* directions crossed on their way, however many were rotated before      *)
(* (_rotateSendingKeys and _rotateRecievingKeys mix into one chaining     *)
(* key).                                                                  *)
THEOREM OnlyCrossingFails == Spec => []OnlyCrossingRotationsFail
<1>1. IInv /\ SessionInv => OnlyCrossingRotationsFail
  <2> SUFFICES ASSUME IInv, SessionInv, NEW e \in broken, handshake[e] = "ready"
               PROVE  /\ ~IsPrefix(noise[Initiator].ck, noise[Responder].ck)
                      /\ ~IsPrefix(noise[Responder].ck, noise[Initiator].ck)
    BY DEF OnlyCrossingRotationsFail
  <2>1. ~Agree(noise[Initiator].ck, noise[Responder].ck)
    BY DEF SessionInv, BrokenInv
  <2>2. IsSeq(noise[Initiator].ck) /\ IsSeq(noise[Responder].ck)
    BY Ends, BothEnds
  <2> QED
    BY <2>1, <2>2, SeqLen, AgreeIsPrefix, AgreeIsSymmetric
<1> QED
  BY <1>1, Invariance, SessionInvariance, PTL

-----------------------------------------------------------------------------
(* The inductive invariant of TypeOK.                                     *)

UsesInRange(n) == n.sn \in 0..(RotateAt - 1) /\ n.rn \in 0..(RotateAt - 1)

Kinds == {"act1", "act2", "act3", "length", "message"}

(* In the units s to be read by an end that has received r messages of    *)
(* the w written, the messages are numbered upwards from above r.         *)
Number(u) == u.c.text[2]
InOrder(s, r, w) ==
  /\ IsSeq(s) /\ r \in Nat /\ w \in Nat /\ r <= w
  /\ \A i \in 1..Len(s) :
       /\ s[i].kind \in Kinds
       /\ s[i].kind = "message" =>
            /\ Number(s[i]) \in Nat /\ r < Number(s[i]) /\ Number(s[i]) <= w
            /\ \A j \in i + 1 .. Len(s) : s[j].kind = "message" => Number(s[i]) < Number(s[j])

TypeInv ==
  /\ written \in [End -> Nat]
  /\ \A e \in End : UsesInRange(noise[e]) /\ InOrder(socket[e], received[e], written[Other(e)])

LEMMA NoneInOrder == ASSUME NEW r \in Nat, NEW w \in Nat, r <= w PROVE InOrder(<<>>, r, w)
<1>1. IsSeq(<<>>) /\ Len(<<>>) = 0
  BY NothingUnderWay DEF InStep
<1> QED
  BY <1>1 DEF InOrder

(* A unit more, a message with the next number or none. *)
LEMMA OneMoreInOrder ==
  ASSUME NEW s, NEW r, NEW w, NEW u, NEW x \in {w, w + 1}, InOrder(s, r, w), u.kind \in Kinds,
         u.kind = "message" => x = w + 1 /\ Number(u) = x
  PROVE  InOrder(Append(s, u), r, x)
<1> DEFINE t == Append(s, u)
<1>1. /\ IsSeq(t) /\ Len(t) = Len(s) + 1 /\ Len(s) \in Nat
      /\ \A i \in 1..Len(s) : t[i] = s[i]
      /\ t[Len(s) + 1] = u
  BY Appended, SeqLen DEF InOrder
<1>2. r \in Nat /\ w \in Nat /\ r <= w /\ x \in Nat /\ r <= x /\ w <= x
  BY DEF InOrder
<1> HIDE DEF t
<1>3. ASSUME NEW i \in 1..Len(t) PROVE t[i].kind \in Kinds
  <2>1. i \in 1..Len(s) \/ i = Len(s) + 1
    BY <1>1
  <2> QED
    BY <1>1, <2>1 DEF InOrder
<1>4. ASSUME NEW i \in 1..Len(t), t[i].kind = "message"
      PROVE  Number(t[i]) \in Nat /\ r < Number(t[i]) /\ Number(t[i]) <= x
  <2>1. CASE i \in 1..Len(s)
    <3>1. Number(s[i]) \in Nat /\ r < Number(s[i]) /\ Number(s[i]) <= w /\ t[i] = s[i]
      BY <1>1, <1>4, <2>1 DEF InOrder
    <3> QED
      BY <1>2, <3>1
  <2>2. CASE i = Len(s) + 1
    <3>1. t[i] = u
      BY <1>1, <2>2
    <3> QED
      BY <1>2, <1>4, <3>1
  <2> QED
    BY <1>1, <2>1, <2>2
<1>5. ASSUME NEW i \in 1..Len(t), t[i].kind = "message",
             NEW j \in i + 1 .. Len(t), t[j].kind = "message"
      PROVE  Number(t[i]) < Number(t[j])
  <2>0. i \in 1..Len(s) /\ t[i] = s[i]
    BY <1>1
  <2>1. CASE j \in 1..Len(s)
    BY <1>1, <1>5, <2>0, <2>1 DEF InOrder
  <2>2. CASE j = Len(s) + 1
    <3>1. t[j] = u
      BY <1>1, <2>2
    <3>2. Number(s[i]) \in Nat /\ Number(s[i]) <= w
      BY <1>5, <2>0 DEF InOrder
    <3> QED
      BY <1>2, <1>5, <2>0, <3>1, <3>2
  <2> QED
    BY <1>1, <2>0, <2>1, <2>2
<1>6. IsSeq(t) /\ r \in Nat /\ x \in Nat /\ r <= x
  BY <1>1, <1>2
<1> QED
  BY <1>3, <1>4, <1>5, <1>6 DEF InOrder, t

(* The first unit is read: with a message, one more is received. *)
LEMMA FirstInOrder ==
  ASSUME NEW s, NEW r, NEW w, NEW y, InOrder(s, r, w), s # <<>>,
         y = r \/ (y = r + 1 /\ Head(s).kind = "message")
  PROVE  InOrder(Tail(s), y, w)
<1> DEFINE t == Tail(s)
<1>1. /\ IsSeq(t) /\ Len(t) = Len(s) - 1 /\ Len(s) \in Nat /\ Len(s) >= 1 /\ Head(s) = s[1]
      /\ \A i \in 1..Len(t) : t[i] = s[i + 1]
  BY Behead, SeqLen DEF InOrder
<1>2. r \in Nat /\ w \in Nat /\ r <= w /\ y \in Nat /\ 1 \in 1..Len(s)
  BY <1>1 DEF InOrder
<1> HIDE DEF t
<1>3. y <= w
  BY <1>1, <1>2 DEF InOrder
<1>4. ASSUME NEW i \in 1..Len(t)
      PROVE  /\ i + 1 \in 1..Len(s) /\ i + 1 \in 1 + 1 .. Len(s) /\ t[i] = s[i + 1]
             /\ t[i].kind \in Kinds
  <2>1. i + 1 \in 1..Len(s) /\ i + 1 \in 1 + 1 .. Len(s) /\ t[i] = s[i + 1]
    BY <1>1
  <2> QED
    BY <2>1 DEF InOrder
<1>5. ASSUME NEW i \in 1..Len(t), t[i].kind = "message"
      PROVE  Number(t[i]) \in Nat /\ y < Number(t[i]) /\ Number(t[i]) <= w
  <2>1. Number(t[i]) \in Nat /\ r < Number(t[i]) /\ Number(t[i]) <= w
    BY <1>4, <1>5 DEF InOrder
  <2>2. CASE y = r
    BY <2>1, <2>2
  <2>3. CASE y = r + 1 /\ Head(s).kind = "message"
    <3>1. Number(s[1]) \in Nat /\ r < Number(s[1]) /\ Number(s[1]) < Number(t[i])
      BY <1>1, <1>2, <1>4, <1>5, <2>3 DEF InOrder
    <3> QED
      BY <1>2, <2>1, <2>3, <3>1
  <2> QED
    BY <2>2, <2>3
<1>6. ASSUME NEW i \in 1..Len(t), t[i].kind = "message",
             NEW j \in i + 1 .. Len(t), t[j].kind = "message"
      PROVE  Number(t[i]) < Number(t[j])
  <2>1. j \in 1..Len(t) /\ j + 1 \in (i + 1) + 1 .. Len(s)
    BY <1>1
  <2> QED
    BY <1>4, <1>6, <2>1 DEF InOrder
<1>7. IsSeq(t)
  BY <1>1
<1> QED
  BY <1>2, <1>3, <1>4, <1>5, <1>6, <1>7 DEF InOrder, t

(* The acts leave the counters of the keys, or reset them. *)
LEMMA ActsUseNothing ==
  ASSUME NEW n, NoiseState(n), UsesInRange(n), NEW x
  PROVE  /\ UsesInRange(Hash(n, x)) /\ UsesInRange(Mix(n, x))
         /\ UsesInRange([n EXCEPT !.repk = x]) /\ UsesInRange([n EXCEPT !.rpk = x])
         /\ \A e \in End : UsesInRange(Split(n, e))
<1>0. n = [rpk |-> n.rpk, repk |-> n.repk, h |-> n.h, ck |-> n.ck,
           sk |-> n.sk, rk |-> n.rk, sn |-> n.sn, rn |-> n.rn]
  BY Fields
<1>1. Hash(n, x).sn = n.sn /\ Hash(n, x).rn = n.rn
  BY <1>0 DEF Hash
<1>2. Mix(n, x).sn = n.sn /\ Mix(n, x).rn = n.rn
  BY <1>0 DEF Mix
<1>3. [n EXCEPT !.repk = x].sn = n.sn /\ [n EXCEPT !.repk = x].rn = n.rn
  BY <1>0
<1>4. [n EXCEPT !.rpk = x].sn = n.sn /\ [n EXCEPT !.rpk = x].rn = n.rn
  BY <1>0
<1>5. ASSUME NEW e \in End PROVE Split(n, e).sn = 0 /\ Split(n, e).rn = 0
  <2> DEFINE m == Split(n, e)
             a == Key(SendHalf(e), n.ck)
             b == Key(SendHalf(Other(e)), n.ck)
  <2>1. m = [n EXCEPT !.sk = a, !.rk = b, !.sn = 0, !.rn = 0]
    BY DEF Split
  <2> HIDE DEF a, b, m
  <2>2. m = [rpk |-> n.rpk, repk |-> n.repk, h |-> n.h, ck |-> n.ck,
             sk |-> a, rk |-> b, sn |-> 0, rn |-> 0]
    BY <1>0, <2>1
  <2>3. m.sn = 0 /\ m.rn = 0
    BY <2>2
  <2> QED
    BY <2>3 DEF m
<1>6. 0 \in 0..(RotateAt - 1)
  BY NoiseAssumption
<1> QED
  BY <1>1, <1>2, <1>3, <1>4, <1>5, <1>6 DEF UsesInRange

LEMMA ExchangedUsesNothing ==
  ASSUME NEW n, NoiseState(n), UsesInRange(n), NEW epk, NEW ss
  PROVE  UsesInRange(Exchanged(n, epk, ss))
  BY HashKeeps, ActsUseNothing DEF Exchanged

LEMMA UsesStayInRange ==
  ASSUME NEW n, NoiseState(n), UsesInRange(n)
  PROVE  UsesInRange(UsedToSend(n)) /\ UsesInRange(UsedToReceive(n))
<1>0. n = [rpk |-> n.rpk, repk |-> n.repk, h |-> n.h, ck |-> n.ck,
           sk |-> n.sk, rk |-> n.rk, sn |-> n.sn, rn |-> n.rn]
  BY Fields
<1>1. RotateAt \in Nat \ {0} /\ n.sn \in 0..(RotateAt - 1) /\ n.rn \in 0..(RotateAt - 1)
  BY NoiseAssumption DEF UsesInRange
<1>2. /\ UsedToSend(n).sn = IF n.sn + 1 >= RotateAt THEN 0 ELSE n.sn + 1
      /\ UsedToSend(n).rn = n.rn
  BY <1>0 DEF UsedToSend
<1>3. /\ UsedToReceive(n).rn = IF n.rn + 1 >= RotateAt THEN 0 ELSE n.rn + 1
      /\ UsedToReceive(n).sn = n.sn
  BY <1>0 DEF UsedToReceive
<1> QED
  BY <1>1, <1>2, <1>3 DEF UsesInRange

(* An end reads a unit of an act, or is destroyed, and sends one or none. *)
LEMMA ActInOrder ==
  ASSUME IInv, SessionInv, TypeInv, NEW e \in End, NEW m, UsesInRange(m),
         noise' = [noise EXCEPT ![e] = m], UNCHANGED <<written, received>>,
         NEW u, u.kind \in Kinds \ {"message"}, NEW rest,
         rest \in {<<>>, socket[e]} \/ (socket[e] # <<>> /\ rest = Tail(socket[e])),
         \/ socket' = [socket EXCEPT ![e] = rest]
         \/ socket' = [socket EXCEPT ![e] = rest,
                         ![Other(e)] = IF Other(e) \in open THEN @ \o <<u>> ELSE @]
  PROVE  TypeInv'
<1> DEFINE f == Other(e)
<1>1. f \in End /\ f # e
  BY DEF Other, End, Initiator, Responder
<1>2. /\ noise'[e] = m /\ \A g \in End \ {e} : noise'[g] = noise[g]
      /\ socket'[e] = rest
      /\ socket'[f] = socket[f] \/ socket'[f] = socket[f] \o <<u>>
  BY <1>1, BothEnds
<1>3. \A g \in End : UsesInRange(noise'[g])
  BY <1>2 DEF TypeInv
<1>4. \A g \in End : InOrder(socket[g], received[g], written[Other(g)])
  BY DEF TypeInv
<1>5. InOrder(rest, received[e], written[f])
  <2>1. InOrder(socket[e], received[e], written[f])
    BY <1>4
  <2>2. CASE rest = <<>>
    BY <2>1, <2>2, NoneInOrder DEF InOrder
  <2>3. CASE socket[e] # <<>> /\ rest = Tail(socket[e])
    BY <2>1, <2>3, FirstInOrder
  <2> QED
    BY <2>1, <2>2, <2>3
<1>6. InOrder(socket'[f], received[f], written[Other(f)])
  <2>1. InOrder(socket[f], received[f], written[Other(f)])
    BY <1>1, <1>4
  <2>2. socket[f] \o <<u>> = Append(socket[f], u)
    <3>1. PICK T : socket[f] \in Seq(T)
      BY <2>1 DEF InOrder, IsSeq
    <3>2. socket[f] \in Seq(T \cup {u})
      BY <3>1
    <3> QED
      BY <3>2
  <2>3. InOrder(Append(socket[f], u), received[f], written[Other(f)])
    <3>1. u.kind \in Kinds /\ u.kind # "message"
      OBVIOUS
    <3> QED
      BY <2>1, <3>1, OneMoreInOrder
  <2> QED
    BY <1>2, <2>1, <2>2, <2>3
<1>7. \A g \in End : g = e \/ g = f
  BY <1>1 DEF End
<1>8. \A g \in End : InOrder(socket'[g], received'[g], written'[Other(g)])
  BY <1>2, <1>5, <1>6, <1>7
<1> QED
  BY <1>3, <1>8 DEF TypeInv

(* The steps that neither send nor read. *)
LEMMA StaysInOrder ==
  ASSUME TypeInv, UNCHANGED <<noise, socket, written, received>>
  PROVE  TypeInv'
  BY DEF TypeInv, UsesInRange, InOrder

LEMMA DestroyInOrder ==
  ASSUME IInv, SessionInv, TypeInv, NEW e \in End,
         socket' = [socket EXCEPT ![e] = <<>>], UNCHANGED <<noise, written, received>>
  PROVE  TypeInv'
<1>1. PICK u : u = [kind |-> "act1"]
  OBVIOUS
<1>2. u.kind \in Kinds \ {"message"}
  BY <1>1 DEF Kinds
<1>3. noise' = [noise EXCEPT ![e] = noise[e]] /\ UsesInRange(noise[e])
  BY BothEnds DEF TypeInv
<1> QED
  BY <1>2, <1>3, ActInOrder

LEMMA InitiateHandshakeInOrder ==
  IInv /\ SessionInv /\ TypeInv /\ InitiateHandshake => TypeInv'
<1> SUFFICES ASSUME IInv, SessionInv, TypeInv, InitiateHandshake PROVE TypeInv'
  OBVIOUS
<1> USE Ends
<1> DEFINE n0 == noise[Initiator]
           l  == Hash(n0, n0.rpk)
           n  == InitiatorAct1(n0)
           c  == Sealed(n, 0, "")
           w  == Hash(n, c)
<1>u. PICK u : u = [kind |-> "act1", epk |-> Ephemeral(Initiator), c |-> c]
  OBVIOUS
<1>1. UsesInRange(w)
  <2>1. NoiseState(n0) /\ UsesInRange(n0)
    BY BothEnds DEF TypeInv
  <2>2. n = Exchanged(l, Ephemeral(Initiator), Ecdh(n0.rpk, Ephemeral(Initiator)))
    BY DEF InitiatorAct1
  <2> HIDE DEF n0, n, c
  <2>3. NoiseState(l) /\ UsesInRange(l)
    BY <2>1, HashKeeps, ActsUseNothing
  <2> HIDE DEF l
  <2>4. NoiseState(n) /\ UsesInRange(n)
    BY <2>2, <2>3, ExchangedKeeps, ExchangedUsesNothing
  <2> QED
    BY <2>4, ActsUseNothing
<1>2. /\ noise' = [noise EXCEPT ![Initiator] = w]
      /\ socket' = [socket EXCEPT ![Initiator] = socket[Initiator],
                ![Other(Initiator)] = IF Other(Initiator) \in open THEN @ \o <<u>> ELSE @]
      /\ UNCHANGED <<written, received>>
  BY <1>u DEF InitiateHandshake, Transmit, transport
<1>3. u.kind \in Kinds \ {"message"}
  BY <1>u DEF Kinds
<1> HIDE DEF w
<1> QED
  BY <1>1, <1>2, <1>3, ActInOrder

LEMMA ProcessInitiatorInOrder ==
  IInv /\ SessionInv /\ TypeInv /\ ProcessInitiator => TypeInv'
<1> SUFFICES ASSUME IInv, SessionInv, TypeInv, ProcessInitiator PROVE TypeInv'
  OBVIOUS
<1> USE Ends
<1> DEFINE r0 == noise[Responder]
           m  == Head(socket[Responder])
           k  == [r0 EXCEPT !.repk = m.epk]
           l  == Hash(k, Static(Responder))
           n1 == ReceiveAct1(r0, m)
           l1 == Hash(n1, m.c)
           n2 == ReceiveAct2(l1)
           c  == Sealed(n2, 0, "")
           w  == Hash(n2, c)
<1>1. CASE Destroy(Responder)
  BY <1>1, DestroyInOrder DEF Destroy, transport
<1>2. CASE ~Destroy(Responder)
  <2>u. PICK u : u = [kind |-> "act2", epk |-> Ephemeral(Responder), c |-> c]
    OBVIOUS
  <2>1. UsesInRange(w)
    <3>1. NoiseState(r0) /\ UsesInRange(r0)
      BY BothEnds DEF TypeInv
    <3>2. n1 = Exchanged(l, m.epk, Ecdh(m.epk, Static(Responder)))
      BY DEF ReceiveAct1
    <3>3. n2 = Exchanged(l1, Ephemeral(Responder), Ecdh(l1.repk, Ephemeral(Responder)))
      BY DEF ReceiveAct2
    <3> HIDE DEF r0, m, n1, n2, c
    <3>4. NoiseState(k) /\ UsesInRange(k)
      BY <3>1, FieldKeeps, ActsUseNothing
    <3> HIDE DEF k
    <3>5. NoiseState(l) /\ UsesInRange(l)
      BY <3>4, HashKeeps, ActsUseNothing
    <3> HIDE DEF l
    <3>6. NoiseState(n1) /\ UsesInRange(n1)
      BY <3>2, <3>5, ExchangedKeeps, ExchangedUsesNothing
    <3>7. NoiseState(l1) /\ UsesInRange(l1)
      BY <3>6, HashKeeps, ActsUseNothing
    <3> HIDE DEF l1
    <3>8. NoiseState(n2) /\ UsesInRange(n2)
      BY <3>3, <3>7, ExchangedKeeps, ExchangedUsesNothing
    <3> QED
      BY <3>8, ActsUseNothing
  <2>2. /\ noise' = [noise EXCEPT ![Responder] = w]
        /\ socket' = [socket EXCEPT ![Responder] = Tail(socket[Responder]),
                ![Other(Responder)] = IF Other(Responder) \in open THEN @ \o <<u>> ELSE @]
        /\ UNCHANGED <<written, received>>
    BY <1>2, <2>u DEF ProcessInitiator, Transmit, transport
  <2>3. u.kind \in Kinds \ {"message"} /\ socket[Responder] # <<>>
    BY <2>u DEF Kinds, ProcessInitiator, Readable
  <2> HIDE DEF w
  <2> QED
    BY <2>1, <2>2, <2>3, ActInOrder
<1> QED
  BY <1>1, <1>2

LEMMA ProcessResponderReplyInOrder ==
  IInv /\ SessionInv /\ TypeInv /\ ProcessResponderReply => TypeInv'
<1> SUFFICES ASSUME IInv, SessionInv, TypeInv, ProcessResponderReply PROVE TypeInv'
  OBVIOUS
<1> USE Ends
<1> DEFINE n0 == noise[Initiator]
           m  == Head(socket[Initiator])
           k  == [n0 EXCEPT !.repk = m.epk]
           n2 == InitiatorAct2(n0, m)
           n3 == Hash(n2, m.c)
           c  == Sealed(n3, 1, Static(Initiator))
           l3 == Hash(n3, c)
           n4 == Mix(l3, Ecdh(n3.repk, Static(Initiator)))
           t  == Sealed(n4, 0, "")
           w  == Split(n4, Initiator)
<1>1. CASE Destroy(Initiator)
  BY <1>1, DestroyInOrder DEF Destroy, transport
<1>2. CASE ~Destroy(Initiator)
  <2>u. PICK u : u = [kind |-> "act3", c |-> c, t |-> t]
    OBVIOUS
  <2>1. UsesInRange(w)
    <3>1. NoiseState(n0) /\ UsesInRange(n0)
      BY BothEnds DEF TypeInv
    <3>2. n2 = Exchanged(k, m.epk, Ecdh(m.epk, Ephemeral(Initiator)))
      BY DEF InitiatorAct2
    <3> HIDE DEF n0, m, n2, c
    <3>3. NoiseState(k) /\ UsesInRange(k)
      BY <3>1, FieldKeeps, ActsUseNothing
    <3> HIDE DEF k
    <3>4. NoiseState(n2) /\ UsesInRange(n2)
      BY <3>2, <3>3, ExchangedKeeps, ExchangedUsesNothing
    <3>5. NoiseState(n3) /\ UsesInRange(n3)
      BY <3>4, HashKeeps, ActsUseNothing
    <3> HIDE DEF n3
    <3>6. NoiseState(l3) /\ UsesInRange(l3)
      BY <3>5, HashKeeps, ActsUseNothing
    <3> HIDE DEF l3
    <3>7. NoiseState(n4) /\ UsesInRange(n4)
      BY <3>6, MixKeeps, ActsUseNothing
    <3> HIDE DEF n4
    <3> QED
      BY <3>7, ActsUseNothing
  <2>2. /\ noise' = [noise EXCEPT ![Initiator] = w]
        /\ socket' = [socket EXCEPT ![Initiator] = Tail(socket[Initiator]),
                ![Other(Initiator)] = IF Other(Initiator) \in open THEN @ \o <<u>> ELSE @]
        /\ UNCHANGED <<written, received>>
    BY <1>2, <2>u DEF ProcessResponderReply, Transmit, transport
  <2>3. u.kind \in Kinds \ {"message"} /\ socket[Initiator] # <<>>
    BY <2>u DEF Kinds, ProcessResponderReply, Readable
  <2> HIDE DEF w
  <2> QED
    BY <2>1, <2>2, <2>3, ActInOrder
<1> QED
  BY <1>1, <1>2

LEMMA ProcessInitiatorReplyInOrder ==
  IInv /\ SessionInv /\ TypeInv /\ ProcessInitiatorReply => TypeInv'
<1> SUFFICES ASSUME IInv, SessionInv, TypeInv, ProcessInitiatorReply PROVE TypeInv'
  OBVIOUS
<1> USE Ends
<1> DEFINE n1 == noise[Responder]
           m  == Head(socket[Responder])
           l1 == Hash(n1, m.c)
           n2 == [l1 EXCEPT !.rpk = m.c.text]
           n3 == Mix(n2, Ecdh(n2.rpk, Ephemeral(Responder)))
           w  == Split(n3, Responder)
<1>1. CASE Destroy(Responder)
  BY <1>1, DestroyInOrder DEF Destroy, transport
<1>2. CASE ~Destroy(Responder)
  <2>1. UsesInRange(w)
    <3>1. NoiseState(n1) /\ UsesInRange(n1)
      BY BothEnds DEF TypeInv
    <3> HIDE DEF n1, m
    <3>2. NoiseState(l1) /\ UsesInRange(l1)
      BY <3>1, HashKeeps, ActsUseNothing
    <3> HIDE DEF l1
    <3>3. NoiseState(n2) /\ UsesInRange(n2)
      BY <3>2, FieldKeeps, ActsUseNothing
    <3> HIDE DEF n2
    <3>4. NoiseState(n3) /\ UsesInRange(n3)
      BY <3>3, MixKeeps, ActsUseNothing
    <3> HIDE DEF n3
    <3> QED
      BY <3>4, ActsUseNothing
  <2>2. /\ noise' = [noise EXCEPT ![Responder] = w]
        /\ socket' = [socket EXCEPT ![Responder] = Tail(socket[Responder])]
        /\ UNCHANGED <<written, received>>
    BY <1>2 DEF ProcessInitiatorReply, transport
  <2>u. PICK u : u = [kind |-> "act3"]
    OBVIOUS
  <2>3. u.kind \in Kinds \ {"message"} /\ socket[Responder] # <<>>
    BY <2>u DEF Kinds, ProcessInitiatorReply, Readable
  <2> HIDE DEF w
  <2> QED
    BY <2>1, <2>2, <2>3, ActInOrder
<1> QED
  BY <1>1, <1>2

LEMMA WriteInOrder ==
  ASSUME NEW e \in End PROVE IInv /\ SessionInv /\ TypeInv /\ Write(e) => TypeInv'
<1> SUFFICES ASSUME IInv, SessionInv, TypeInv, Write(e) PROVE TypeInv'
  OBVIOUS
<1> DEFINE n == noise[e]
           l == UsedToSend(n)
           m == UsedToSend(l)
           k == written[e] + 1
           lc == Seal(n.sk, n.sn, <<>>, <<"length", k>>)
           c  == Seal(l.sk, l.sn, <<>>, <<"message", k>>)
           f  == Other(e)
<1>u. PICK u : u = [kind |-> "length", c |-> lc]
  OBVIOUS
<1>v. PICK v : v = [kind |-> "message", c |-> c]
  OBVIOUS
<1>1. /\ handshake[e] = "ready" /\ received' = received
      /\ written' = [written EXCEPT ![e] = k]
      /\ noise' = [noise EXCEPT ![e] = m]
      /\ socket' = [socket EXCEPT ![e] = socket[e],
                      ![f] = IF f \in open THEN @ \o <<u, v>> ELSE @]
  BY <1>u, <1>v DEF Write, Transmit
<1>2. UsesInRange(m)
  <2>1. NoiseState(n) /\ UsesInRange(n) /\ NoiseState(l)
    BY <1>1, BothEnds, SendingKeeps DEF TypeInv
  <2> HIDE DEF n
  <2>2. UsesInRange(l)
    BY <2>1, UsesStayInRange
  <2> HIDE DEF l
  <2> QED
    BY <2>1, <2>2, UsesStayInRange
<1>3. u.kind = "length" /\ v.kind = "message" /\ Number(v) = k
  BY <1>u, <1>v DEF Number, Seal
<1>4. f \in End /\ f # e /\ Other(f) = e /\ \A g \in End : g = e \/ g = f
  BY DEF Other, End, Initiator, Responder
<1>5. written[e] \in Nat /\ k \in Nat
  BY DEF TypeInv
<1> HIDE DEF n, l, m, lc, c, f
<1>6. /\ noise'[e] = m /\ \A g \in End \ {e} : noise'[g] = noise[g]
      /\ socket'[e] = socket[e]
      /\ socket'[f] = IF f \in open THEN socket[f] \o <<u, v>> ELSE socket[f]
      /\ written'[e] = k /\ written'[f] = written[f] /\ written' \in [End -> Nat]
  <2>1. /\ noise = [g \in End |-> noise[g]] /\ socket = [g \in End |-> socket[g]]
        /\ written \in [End -> Nat]
    BY BothEnds DEF TypeInv
  <2> QED
    BY <1>1, <1>4, <1>5, <2>1
<1>7. /\ InOrder(socket[e], received[e], written[f])
      /\ InOrder(socket[f], received[f], written[e])
  BY <1>4 DEF TypeInv, f
<1>8. InOrder(socket[f] \o <<u, v>>, received[f], k)
  <2>1. InOrder(Append(socket[f], u), received[f], written[e])
    <3>1. u.kind \in Kinds /\ u.kind # "message"
      BY <1>3 DEF Kinds
    <3> QED
      BY <1>7, <3>1, OneMoreInOrder
  <2>2. InOrder(Append(Append(socket[f], u), v), received[f], k)
    <3>1. v.kind \in Kinds
      BY <1>3 DEF Kinds
    <3> QED
      BY <1>3, <2>1, <3>1, OneMoreInOrder
  <2>3. Append(Append(socket[f], u), v) = socket[f] \o <<u, v>>
    <3>1. PICK T : socket[f] \in Seq(T)
      BY <1>7 DEF InOrder, IsSeq
    <3>2. socket[f] \in Seq(T \cup {u, v})
      BY <3>1
    <3> QED
      BY <3>2
  <2> QED
    BY <2>2, <2>3
<1>9. InOrder(socket[f], received[f], k)
  BY <1>5, <1>7 DEF InOrder
<1>10. InOrder(socket'[f], received[f], k)
  BY <1>6, <1>8, <1>9
<1>11. \A g \in End : UsesInRange(noise'[g])
  BY <1>2, <1>6 DEF TypeInv
<1>12. ASSUME NEW g \in End PROVE InOrder(socket'[g], received'[g], written'[Other(g)])
  <2>1. CASE g = e
    <3>1. Other(g) = f
      BY <2>1 DEF f
    <3> QED
      BY <1>1, <1>6, <1>7, <2>1, <3>1
  <2>2. CASE g = f
    BY <1>1, <1>4, <1>6, <1>10, <2>2
  <2> QED
    BY <1>4, <2>1, <2>2
<1> QED
  BY <1>6, <1>11, <1>12 DEF TypeInv

(* A unit is read, and with a message one more is received. *)
LEMMA ReadInOrder ==
  ASSUME IInv, SessionInv, TypeInv, NEW e \in End, socket[e] # <<>>, NEW y,
         noise' = [noise EXCEPT ![e] = UsedToReceive(@)],
         socket' = [socket EXCEPT ![e] = Tail(@)],
         written' = written, received' = [received EXCEPT ![e] = y],
         y = received[e] \/ (y = received[e] + 1 /\ Head(socket[e]).kind = "message")
  PROVE  TypeInv'
<1>1. /\ noise = [g \in End |-> noise[g]] /\ socket = [g \in End |-> socket[g]]
      /\ received \in [End -> Nat]
  BY BothEnds DEF IInv, BufferInv
<1>2. /\ noise'[e] = UsedToReceive(noise[e]) /\ \A g \in End \ {e} : noise'[g] = noise[g]
      /\ socket'[e] = Tail(socket[e]) /\ \A g \in End \ {e} : socket'[g] = socket[g]
      /\ received'[e] = y /\ \A g \in End \ {e} : received'[g] = received[g]
  BY <1>1
<1>3. UsesInRange(noise'[e])
  <2>1. NoiseState(noise[e]) /\ UsesInRange(noise[e])
    BY BothEnds DEF TypeInv
  <2>2. UsesInRange(UsedToReceive(noise[e]))
    BY <2>1, UsesStayInRange
  <2> QED
    BY <1>2, <2>2
<1>4. InOrder(Tail(socket[e]), y, written[Other(e)])
  <2>1. InOrder(socket[e], received[e], written[Other(e)])
    BY DEF TypeInv
  <2> QED
    BY <2>1, FirstInOrder
<1>5. ASSUME NEW g \in End
      PROVE  UsesInRange(noise'[g]) /\ InOrder(socket'[g], received'[g], written'[Other(g)])
  <2>1. CASE g = e
    BY <1>2, <1>3, <1>4, <2>1
  <2>2. CASE g # e
    BY <1>2, <2>2 DEF TypeInv
  <2> QED
    BY <2>1, <2>2
<1> QED
  BY <1>5 DEF TypeInv

LEMMA LengthInOrder ==
  ASSUME NEW e \in End
  PROVE  IInv /\ SessionInv /\ TypeInv /\ ProcessPacketLength(e) => TypeInv'
<1> SUFFICES ASSUME IInv, SessionInv, TypeInv, ProcessPacketLength(e) PROVE TypeInv'
  OBVIOUS
<1>1. CASE Destroy(e)
  BY <1>1, DestroyInOrder DEF Destroy, transport
<1>2. CASE ~Destroy(e)
  <2>1. /\ socket[e] # <<>> /\ written' = written /\ received' = received
        /\ noise' = [noise EXCEPT ![e] = UsedToReceive(@)]
        /\ socket' = [socket EXCEPT ![e] = Tail(@)]
    BY <1>2 DEF ProcessPacketLength, Readable, transport
  <2>2. received' = [received EXCEPT ![e] = received[e]]
    BY <2>1 DEF IInv, BufferInv
  <2> QED
    BY <2>1, <2>2, ReadInOrder
<1> QED
  BY <1>1, <1>2

LEMMA BodyInOrder ==
  ASSUME NEW e \in End
  PROVE  IInv /\ SessionInv /\ TypeInv /\ ProcessPacketBody(e) => TypeInv'
<1> SUFFICES ASSUME IInv, SessionInv, TypeInv, ProcessPacketBody(e) PROVE TypeInv'
  OBVIOUS
<1>1. CASE Destroy(e)
  BY <1>1, DestroyInOrder DEF Destroy, transport
<1>2. CASE ~Destroy(e)
  <2>1. /\ socket[e] # <<>> /\ Head(socket[e]).kind = "message" /\ written' = written
        /\ received' = [received EXCEPT ![e] = received[e] + 1]
        /\ noise' = [noise EXCEPT ![e] = UsedToReceive(@)]
        /\ socket' = [socket EXCEPT ![e] = Tail(@)]
    BY <1>2 DEF ProcessPacketBody, Readable
  <2> QED
    BY <2>1, ReadInOrder
<1> QED
  BY <1>1, <1>2

LEMMA InitInOrder == Init => TypeInv
<1> SUFFICES ASSUME Init PROVE TypeInv
  OBVIOUS
<1> USE Ends
<1>1. PICK rpk \in Dialed :
        noise = [e \in End |-> NewNoise(IF e = Initiator THEN rpk ELSE NoKey)]
  BY DEF Init
<1>2. \A e \in End : UsesInRange(noise[e])
  BY <1>1, NoiseAssumption DEF NewNoise, UsesInRange
<1>3. ASSUME NEW e \in End PROVE InOrder(socket[e], received[e], written[Other(e)])
  <2>1. socket[e] = <<>> /\ received[e] = 0 /\ written[Other(e)] = 0
    BY DEF Init
  <2> QED
    BY <2>1, NoneInOrder
<1>4. written \in [End -> Nat]
  BY DEF Init
<1> QED
  BY <1>2, <1>3, <1>4 DEF TypeInv

(* The counters of the keys stay below the rotation period, no end has    *)
(* received more messages than the other has written, nor read more than  *)
(* it has received, and an end that broke off is closed.                  *)
THEOREM TypeCorrect == Spec => []TypeOK
<1>1. IInv /\ SessionInv /\ TypeInv /\ [Next]_vars => TypeInv'
  <2> SUFFICES ASSUME IInv, SessionInv, TypeInv, [Next]_vars PROVE TypeInv'
    OBVIOUS
  <2>1. CASE InitiateHandshake
    BY <2>1, InitiateHandshakeInOrder
  <2>2. ASSUME NEW e \in End, OnData(e) PROVE TypeInv'
    BY <2>2, ProcessInitiatorInOrder, ProcessResponderReplyInOrder,
       ProcessInitiatorReplyInOrder, LengthInOrder, BodyInOrder DEF OnData
  <2>3. ASSUME NEW e \in End, Write(e) PROVE TypeInv'
    BY <2>3, WriteInOrder
  <2>4. ASSUME NEW e \in End, Consume(e) PROVE TypeInv'
    BY <2>4, StaysInOrder DEF Consume
  <2>5. ASSUME NEW e \in End, Close(e) PROVE TypeInv'
    BY <2>5, DestroyInOrder DEF Close, transport
  <2>6. CASE UNCHANGED vars
    BY <2>6, StaysInOrder DEF vars
  <2> QED
    BY <2>1, <2>2, <2>3, <2>4, <2>5, <2>6 DEF Next
<1>2. IInv /\ SessionInv /\ TypeInv => TypeOK
  <2> SUFFICES ASSUME IInv, SessionInv, TypeInv PROVE TypeOK
    OBVIOUS
  <2>1. ASSUME NEW e \in End
        PROVE  /\ noise[e].sn \in 0..(RotateAt - 1) /\ noise[e].rn \in 0..(RotateAt - 1)
               /\ reading[e] \in {"ready_for_len", "ready_for_body", "blocked"}
               /\ written[e] \in Nat
    BY DEF TypeInv, UsesInRange, IInv, BufferInv
  <2>2. ASSUME NEW e \in End, NEW i \in DOMAIN socket[e]
        PROVE  socket[e][i].kind \in {"act1", "act2", "act3", "length", "message"}
    <3>1. InOrder(socket[e], received[e], written[Other(e)])
      BY DEF TypeInv
    <3>2. i \in 1..Len(socket[e])
      BY <3>1, SeqLen DEF InOrder
    <3> QED
      BY <3>1, <3>2 DEF InOrder, Kinds
  <2>3. ASSUME NEW e \in End
        PROVE  received[e] \in 0..written[Other(e)] /\ consumed[e] \in 0..received[e]
    <3>1. received[e] \in Nat /\ written[Other(e)] \in Nat /\ received[e] <= written[Other(e)]
      BY DEF TypeInv, InOrder
    <3>2. consumed[e] \in Nat /\ consumed[e] <= received[e]
      BY DEF IInv, BufferInv
    <3> QED
      BY <3>1, <3>2
  <2> QED
    BY <2>1, <2>2, <2>3 DEF TypeOK, SessionInv, HandshakeInv, BrokenInv
<1> QED
  BY <1>1, <1>2, InitInOrder, Invariance, SessionInvariance, PTL DEF Spec
=============================================================================
