----------------------------- MODULE PeerProofs -----------------------------
(* The bound on the silence of a Ready peer, and that a Peer is a session, *)
(* for all intervals and timeouts.                                         *)
EXTENDS Peer, TLAPS

USE PeerAssumption DEF Off, Old, Long

LEMMA InitInv == Init => IInv
<1> SUFFICES ASSUME Init PROVE IInv
  OBVIOUS
<1>n. NumbersOK
  BY DEF Init, NumbersOK
<1>f. FlagsOK
  BY Zenon DEF Init, FlagsOK
<1>1. TypeOK
  BY <1>n, <1>f DEF TypeOK
<1>2. ConnectionInv /\ StreamInv
  BY DEF Init, ConnectionInv, StreamInv
<1>3. SilenceInv
  BY DEF Init, SilenceInv
<1> QED
  BY <1>1, <1>2, <1>3 DEF IInv

(* What is pushed fits the buffer, and fills it exactly if reading pauses. *)
LEMMA Pushed ==
  ASSUME TypeOK, StreamInv, Push, ~paused
  PROVE  buffered' \in 0..HighWater /\ paused' \in BOOLEAN /\ StreamInv'
<1>1. buffered \in Nat /\ buffered < HighWater /\ buffered' = buffered + 1
  BY DEF TypeOK, NumbersOK, StreamInv, Push
<1>2. buffered' \in 0..HighWater
  BY <1>1
<1>3. paused' = (buffered + 1 >= HighWater)
  BY DEF Push
<1>4. paused' \in BOOLEAN
  BY <1>3, SMT
<1>5. ~paused' => ~(buffered + 1 >= HighWater)
  BY <1>3, Zenon
<1>6. ~paused' => buffered' < HighWater
  BY <1>1, <1>5
<1> QED
  BY <1>2, <1>4, <1>6 DEF StreamInv

LEMMA OnSocketReadyKeeps == IInv /\ OnSocketReady => IInv'
<1> SUFFICES ASSUME IInv, OnSocketReady PROVE IInv'
  OBVIOUS
<1> USE DEF OnSocketReady, Alive, ReadyState, Written, stream, pinging, past
<1>n. NumbersOK'
  BY DEF IInv, TypeOK, NumbersOK, StreamInv
<1>f. FlagsOK'
  BY Zenon DEF IInv, TypeOK, FlagsOK
<1>1. TypeOK'
  BY <1>n, <1>f DEF TypeOK
<1>2. ConnectionInv'
  BY DEF IInv, TypeOK, NumbersOK, FlagsOK, ConnectionInv
<1>3. StreamInv'
  BY DEF IInv, TypeOK, NumbersOK, FlagsOK, StreamInv
<1>4. SilenceInv'
  BY DEF IInv, TypeOK, NumbersOK, FlagsOK, ConnectionInv, SilenceInv
<1> QED
  BY <1>1, <1>2, <1>3, <1>4 DEF IInv

LEMMA OnSocketCloseKeeps == IInv /\ OnSocketClose => IInv'
<1> SUFFICES ASSUME IInv, OnSocketClose PROVE IInv'
  OBVIOUS
<1> USE DEF OnSocketClose, Alive, OnDisconnecting, Retry, ClosedState, stream
<1>n. NumbersOK'
  BY DEF IInv, TypeOK, NumbersOK, StreamInv
<1>f. FlagsOK'
  BY Zenon DEF IInv, TypeOK, FlagsOK
<1>1. TypeOK'
  BY <1>n, <1>f DEF TypeOK
<1>2. ConnectionInv'
  BY DEF IInv, TypeOK, NumbersOK, FlagsOK, ConnectionInv
<1>3. StreamInv'
  BY DEF IInv, TypeOK, NumbersOK, FlagsOK, StreamInv
<1>4. SilenceInv'
  BY DEF IInv, TypeOK, NumbersOK, FlagsOK, ConnectionInv, SilenceInv
<1> QED
  BY <1>1, <1>2, <1>3, <1>4 DEF IInv

LEMMA ReconnectDueKeeps == IInv /\ ReconnectDue => IInv'
<1> SUFFICES ASSUME IInv, ReconnectDue PROVE IInv'
  OBVIOUS
<1> USE DEF ReconnectDue, Alive, pinging, past
<1>n. NumbersOK'
  BY DEF IInv, TypeOK, NumbersOK, StreamInv
<1>f. FlagsOK'
  BY Zenon DEF IInv, TypeOK, FlagsOK
<1>1. TypeOK'
  BY <1>n, <1>f DEF TypeOK
<1>2. ConnectionInv'
  BY DEF IInv, TypeOK, NumbersOK, FlagsOK, ConnectionInv
<1>3. StreamInv'
  BY DEF IInv, TypeOK, NumbersOK, FlagsOK, StreamInv
<1>4. SilenceInv'
  BY DEF IInv, TypeOK, NumbersOK, FlagsOK, ConnectionInv, SilenceInv
<1> QED
  BY <1>1, <1>2, <1>3, <1>4 DEF IInv

LEMMA DisconnectKeeps == IInv /\ Disconnect => IInv'
<1> SUFFICES ASSUME IInv, Disconnect PROVE IInv'
  OBVIOUS
<1> USE DEF Disconnect, Alive, Leave, Ended, stream, pinging
<1>n. NumbersOK'
  BY DEF IInv, TypeOK, NumbersOK, StreamInv
<1>f. FlagsOK'
  BY Zenon DEF IInv, TypeOK, FlagsOK
<1>1. TypeOK'
  BY <1>n, <1>f DEF TypeOK
<1>2. ConnectionInv'
  BY DEF IInv, TypeOK, NumbersOK, FlagsOK, ConnectionInv
<1>3. StreamInv'
  BY DEF IInv, TypeOK, NumbersOK, FlagsOK, StreamInv
<1>4. SilenceInv'
  BY DEF IInv, TypeOK, NumbersOK, FlagsOK, ConnectionInv, SilenceInv
<1> QED
  BY <1>1, <1>2, <1>3, <1>4 DEF IInv

LEMMA ReconnectKeeps == IInv /\ Reconnect => IInv'
<1> SUFFICES ASSUME IInv, Reconnect PROVE IInv'
  OBVIOUS
<1> USE DEF Reconnect, Alive, Ended, stream, pinging, past
<1>n. NumbersOK'
  BY DEF IInv, TypeOK, NumbersOK, StreamInv
<1>f. FlagsOK'
  BY Zenon DEF IInv, TypeOK, FlagsOK
<1>1. TypeOK'
  BY <1>n, <1>f DEF TypeOK
<1>2. ConnectionInv'
  BY DEF IInv, TypeOK, NumbersOK, FlagsOK, ConnectionInv
<1>3. StreamInv'
  BY DEF IInv, TypeOK, NumbersOK, FlagsOK, StreamInv
<1>4. SilenceInv'
  BY DEF IInv, TypeOK, NumbersOK, FlagsOK, ConnectionInv, SilenceInv
<1> QED
  BY <1>1, <1>2, <1>3, <1>4 DEF IInv

LEMMA ArriveKeeps == IInv /\ Arrive => IInv'
<1> SUFFICES ASSUME IInv, Arrive PROVE IInv'
  OBVIOUS
<1> USE DEF Arrive, Alive, pinging, past
<1>n. NumbersOK'
  BY DEF IInv, TypeOK, NumbersOK, StreamInv
<1>f. FlagsOK'
  BY Zenon DEF IInv, TypeOK, FlagsOK
<1>1. TypeOK'
  BY <1>n, <1>f DEF TypeOK
<1>2. ConnectionInv'
  BY DEF IInv, TypeOK, NumbersOK, FlagsOK, ConnectionInv
<1>3. StreamInv'
  BY DEF IInv, TypeOK, NumbersOK, FlagsOK, StreamInv
<1>4. SilenceInv'
  BY DEF IInv, TypeOK, NumbersOK, FlagsOK, ConnectionInv, SilenceInv
<1> QED
  BY <1>1, <1>2, <1>3, <1>4 DEF IInv

LEMMA InitAcceptedKeeps == IInv /\ InitAccepted => IInv'
<1> SUFFICES ASSUME IInv, InitAccepted PROVE IInv'
  OBVIOUS
<1> USE DEF InitAccepted, Alive, Take, Keep
<1>n. NumbersOK'
  BY DEF IInv, TypeOK, NumbersOK, StreamInv
<1>f. FlagsOK'
  BY Zenon DEF IInv, TypeOK, FlagsOK
<1>1. TypeOK'
  BY <1>n, <1>f DEF TypeOK
<1>2. ConnectionInv'
  BY DEF IInv, TypeOK, NumbersOK, FlagsOK, ConnectionInv
<1>3. StreamInv'
  BY DEF IInv, TypeOK, NumbersOK, FlagsOK, StreamInv
<1>4. SilenceInv'
  BY DEF IInv, TypeOK, NumbersOK, FlagsOK, ConnectionInv, SilenceInv
<1> QED
  BY <1>1, <1>2, <1>3, <1>4 DEF IInv

LEMMA InitRefusedKeeps == IInv /\ InitRefused => IInv'
<1> SUFFICES ASSUME IInv, InitRefused PROVE IInv'
  OBVIOUS
<1> USE DEF InitRefused, Alive, Take, Keep, Leave, Ended, pinging
<1>n. NumbersOK'
  BY DEF IInv, TypeOK, NumbersOK, StreamInv
<1>f. FlagsOK'
  BY Zenon DEF IInv, TypeOK, FlagsOK
<1>1. TypeOK'
  BY <1>n, <1>f DEF TypeOK
<1>2. ConnectionInv'
  BY DEF IInv, TypeOK, NumbersOK, FlagsOK, ConnectionInv
<1>3. StreamInv'
  BY DEF IInv, TypeOK, NumbersOK, FlagsOK, StreamInv
<1>4. SilenceInv'
  BY DEF IInv, TypeOK, NumbersOK, FlagsOK, ConnectionInv, SilenceInv
<1> QED
  BY <1>1, <1>2, <1>3, <1>4 DEF IInv

LEMMA ReceiveMalformedKeeps == IInv /\ ReceiveMalformed => IInv'
<1> SUFFICES ASSUME IInv, ReceiveMalformed PROVE IInv'
  OBVIOUS
<1> USE DEF ReceiveMalformed, Alive, Take, Keep, Ended, pinging, past
<1>n. NumbersOK'
  BY DEF IInv, TypeOK, NumbersOK, StreamInv
<1>f. FlagsOK'
  BY Zenon DEF IInv, TypeOK, FlagsOK
<1>1. TypeOK'
  BY <1>n, <1>f DEF TypeOK
<1>2. ConnectionInv'
  BY DEF IInv, TypeOK, NumbersOK, FlagsOK, ConnectionInv
<1>3. StreamInv'
  BY DEF IInv, TypeOK, NumbersOK, FlagsOK, StreamInv
<1>4. SilenceInv'
  BY DEF IInv, TypeOK, NumbersOK, FlagsOK, ConnectionInv, SilenceInv
<1> QED
  BY <1>1, <1>2, <1>3, <1>4 DEF IInv

LEMMA ReceiveUnknownKeeps == IInv /\ ReceiveUnknown => IInv'
<1> SUFFICES ASSUME IInv, ReceiveUnknown PROVE IInv'
  OBVIOUS
<1>0. buffered' \in 0..HighWater /\ paused' \in BOOLEAN /\ StreamInv'
  BY Pushed DEF IInv, ReceiveUnknown, Take
<1> USE DEF ReceiveUnknown, Alive, Take, pinging, past
<1>n. NumbersOK'
  BY <1>0 DEF IInv, TypeOK, NumbersOK
<1>f. FlagsOK'
  BY <1>0, Zenon DEF IInv, TypeOK, FlagsOK
<1>1. TypeOK'
  BY <1>n, <1>f DEF TypeOK
<1>2. ConnectionInv'
  BY DEF IInv, TypeOK, NumbersOK, FlagsOK, ConnectionInv
<1>3. StreamInv'
  BY <1>0
<1>4. SilenceInv'
  BY DEF IInv, TypeOK, NumbersOK, FlagsOK, ConnectionInv, SilenceInv
<1> QED
  BY <1>1, <1>2, <1>3, <1>4 DEF IInv

LEMMA ReceiveOtherKeeps == IInv /\ ReceiveOther => IInv'
<1> SUFFICES ASSUME IInv, ReceiveOther PROVE IInv'
  OBVIOUS
<1>0. buffered' \in 0..HighWater /\ paused' \in BOOLEAN /\ StreamInv'
  BY Pushed DEF IInv, ReceiveOther, Take, Heard
<1> USE DEF ReceiveOther, Alive, Heard, Take, Stay
<1>n. NumbersOK'
  BY <1>0 DEF IInv, TypeOK, NumbersOK
<1>f. FlagsOK'
  BY <1>0, Zenon DEF IInv, TypeOK, FlagsOK
<1>1. TypeOK'
  BY <1>n, <1>f DEF TypeOK
<1>2. ConnectionInv'
  BY DEF IInv, TypeOK, NumbersOK, FlagsOK, ConnectionInv
<1>3. StreamInv'
  BY <1>0
<1>4. SilenceInv'
  BY DEF IInv, TypeOK, NumbersOK, FlagsOK, ConnectionInv, SilenceInv
<1> QED
  BY <1>1, <1>2, <1>3, <1>4 DEF IInv

LEMMA ReadKeeps == IInv /\ Read => IInv'
<1> SUFFICES ASSUME IInv, Read PROVE IInv'
  OBVIOUS
<1> USE DEF Read, Alive, pinging, past
<1>n. NumbersOK'
  BY DEF IInv, TypeOK, NumbersOK, StreamInv
<1>f. FlagsOK'
  BY Zenon DEF IInv, TypeOK, FlagsOK
<1>1. TypeOK'
  BY <1>n, <1>f DEF TypeOK
<1>2. ConnectionInv'
  BY DEF IInv, TypeOK, NumbersOK, FlagsOK, ConnectionInv
<1>3. StreamInv'
  BY DEF IInv, TypeOK, NumbersOK, FlagsOK, StreamInv
<1>4. SilenceInv'
  BY DEF IInv, TypeOK, NumbersOK, FlagsOK, ConnectionInv, SilenceInv
<1> QED
  BY <1>1, <1>2, <1>3, <1>4 DEF IInv

LEMMA PingDueKeeps == IInv /\ PingDue => IInv'
<1> SUFFICES ASSUME IInv, PingDue PROVE IInv'
  OBVIOUS
<1> USE DEF PingDue, Silent, Written, stream, past
<1>n. NumbersOK'
  BY DEF IInv, TypeOK, NumbersOK, StreamInv
<1>f. FlagsOK'
  BY Zenon DEF IInv, TypeOK, FlagsOK
<1>1. TypeOK'
  BY <1>n, <1>f DEF TypeOK
<1>2. ConnectionInv'
  BY DEF IInv, TypeOK, NumbersOK, FlagsOK, ConnectionInv
<1>3. StreamInv'
  BY DEF IInv, TypeOK, NumbersOK, FlagsOK, StreamInv
<1>4. SilenceInv'
  BY DEF IInv, TypeOK, NumbersOK, FlagsOK, ConnectionInv, SilenceInv
<1> QED
  BY <1>1, <1>2, <1>3, <1>4 DEF IInv

LEMMA PongDueKeeps == IInv /\ PongDue => IInv'
<1> SUFFICES ASSUME IInv, PongDue PROVE IInv'
  OBVIOUS
<1> USE DEF PongDue, Alive, Ended, stream, past
<1>n. NumbersOK'
  BY DEF IInv, TypeOK, NumbersOK, StreamInv
<1>f. FlagsOK'
  BY Zenon DEF IInv, TypeOK, FlagsOK
<1>1. TypeOK'
  BY <1>n, <1>f DEF TypeOK
<1>2. ConnectionInv'
  BY DEF IInv, TypeOK, NumbersOK, FlagsOK, ConnectionInv
<1>3. StreamInv'
  BY DEF IInv, TypeOK, NumbersOK, FlagsOK, StreamInv
<1>4. SilenceInv'
  BY DEF IInv, TypeOK, NumbersOK, FlagsOK, ConnectionInv, SilenceInv
<1> QED
  BY <1>1, <1>2, <1>3, <1>4 DEF IInv

LEMMA TickKeeps == IInv /\ Tick => IInv'
<1> SUFFICES ASSUME IInv, Tick PROVE IInv'
  OBVIOUS
<1> USE DEF Tick, Alive, Running, Passed, UpTo, stream
<1>n. NumbersOK'
  BY DEF IInv, TypeOK, NumbersOK, StreamInv
<1>f. FlagsOK'
  BY Zenon DEF IInv, TypeOK, FlagsOK
<1>1. TypeOK'
  BY <1>n, <1>f DEF TypeOK
<1>2. ConnectionInv'
  BY DEF IInv, TypeOK, NumbersOK, FlagsOK, ConnectionInv
<1>3. StreamInv'
  BY DEF IInv, TypeOK, NumbersOK, FlagsOK, StreamInv
<1>4. SilenceInv'
  BY DEF IInv, TypeOK, NumbersOK, FlagsOK, ConnectionInv, SilenceInv
<1> QED
  BY <1>1, <1>2, <1>3, <1>4 DEF IInv

LEMMA ReceivePingKeeps == ASSUME NEW b \in BOOLEAN PROVE IInv /\ ReceivePing(b) => IInv'
<1> SUFFICES ASSUME IInv, ReceivePing(b) PROVE IInv'
  OBVIOUS
<1>0. buffered' \in 0..HighWater /\ paused' \in BOOLEAN /\ StreamInv'
  <2>1. CASE Push
    BY <2>1, Pushed DEF IInv, ReceivePing, Heard, Take
  <2>2. CASE Keep
    BY <2>2 DEF IInv, Keep, TypeOK, NumbersOK, FlagsOK, StreamInv
  <2> QED
    BY <2>1, <2>2 DEF ReceivePing
<1> USE DEF ReceivePing, Alive, Heard, Take, Leave, Stay, Ended, Written, UpTo
<1>n. NumbersOK'
  BY <1>0 DEF IInv, TypeOK, NumbersOK
<1>f. FlagsOK'
  BY <1>0, Zenon DEF IInv, TypeOK, FlagsOK
<1>1. TypeOK'
  BY <1>n, <1>f DEF TypeOK
<1>2. ConnectionInv'
  BY DEF IInv, TypeOK, NumbersOK, FlagsOK, ConnectionInv
<1>3. StreamInv'
  BY <1>0
<1>4. SilenceInv'
  BY DEF IInv, TypeOK, NumbersOK, FlagsOK, ConnectionInv, SilenceInv
<1> QED
  BY <1>1, <1>2, <1>3, <1>4 DEF IInv

LEMMA ReceivePongKeeps == ASSUME NEW b \in BOOLEAN PROVE IInv /\ ReceivePong(b) => IInv'
<1> SUFFICES ASSUME IInv, ReceivePong(b) PROVE IInv'
  OBVIOUS
<1>0. buffered' \in 0..HighWater /\ paused' \in BOOLEAN /\ StreamInv'
  BY Pushed DEF IInv, ReceivePong, Heard, Take
<1> USE DEF ReceivePong, Alive, Heard, Take, Leave, Stay, Ended
<1>n. NumbersOK'
  BY <1>0 DEF IInv, TypeOK, NumbersOK
<1>f. FlagsOK'
  BY <1>0, Zenon DEF IInv, TypeOK, FlagsOK
<1>1. TypeOK'
  BY <1>n, <1>f DEF TypeOK
<1>2. ConnectionInv'
  BY DEF IInv, TypeOK, NumbersOK, FlagsOK, ConnectionInv
<1>3. StreamInv'
  BY <1>0
<1>4. SilenceInv'
  BY DEF IInv, TypeOK, NumbersOK, FlagsOK, ConnectionInv, SilenceInv
<1> QED
  BY <1>1, <1>2, <1>3, <1>4 DEF IInv

LEMMA StutterKeeps == IInv /\ UNCHANGED vars => IInv'
<1> SUFFICES ASSUME IInv, UNCHANGED vars PROVE IInv'
  OBVIOUS
<1> USE DEF vars
<1>n. NumbersOK'
  BY DEF IInv, TypeOK, NumbersOK
<1>f. FlagsOK'
  BY Zenon DEF IInv, TypeOK, FlagsOK
<1>1. TypeOK'
  BY <1>n, <1>f DEF TypeOK
<1>2. ConnectionInv' /\ StreamInv' /\ SilenceInv'
  BY DEF IInv, ConnectionInv, StreamInv, SilenceInv
<1> QED
  BY <1>1, <1>2 DEF IInv

(* The invariant is inductive. *)
THEOREM Invariance == Spec => []IInv
<1>1. IInv /\ [Next]_vars => IInv'
  <2> SUFFICES ASSUME IInv, [Next]_vars PROVE IInv'
    OBVIOUS
  <2>1. CASE OnSocketReadable
    BY <2>1, InitAcceptedKeeps, InitRefusedKeeps, ReceiveMalformedKeeps, ReceiveUnknownKeeps,
       ReceiveOtherKeeps, ReceivePingKeeps, ReceivePongKeeps DEF OnSocketReadable
  <2>2. CASE OnSocketReady \/ OnSocketClose \/ Arrive \/ Read \/ Disconnect \/ Reconnect
    BY <2>2, OnSocketReadyKeeps, OnSocketCloseKeeps, ArriveKeeps, ReadKeeps,
       DisconnectKeeps, ReconnectKeeps
  <2>3. CASE PingDue \/ PongDue \/ ReconnectDue \/ Tick
    BY <2>3, PingDueKeeps, PongDueKeeps, ReconnectDueKeeps, TickKeeps
  <2>4. CASE UNCHANGED vars
    BY <2>4, StutterKeeps
  <2> QED
    BY <2>1, <2>2, <2>3, <2>4 DEF Next
<1> QED
  BY <1>1, InitInv, PTL DEF Spec

(* Every variable keeps its type: in particular the buffer of a Peer does *)
(* not grow beyond its high water mark.                                   *)
THEOREM TypeCorrect == Spec => []TypeOK
<1>1. IInv => TypeOK
  BY DEF IInv
<1> QED
  BY <1>1, Invariance, PTL

(* A peer is Ready only on a connection that was initialized.             *)
THEOREM ReadyAfterInit == Spec => []ReadyIsInitialized
<1>1. IInv => ReadyIsInitialized
  BY DEF IInv, ConnectionInv, ReadyIsInitialized
<1> QED
  BY <1>1, Invariance, PTL

(* A silent connection is ended within two intervals and a timeout.       *)
THEOREM SilenceBound == Spec => []SilenceIsBounded
<1>1. IInv => SilenceIsBounded
  BY DEF IInv, TypeOK, NumbersOK, ConnectionInv, SilenceInv, SilenceIsBounded
<1> QED
  BY <1>1, Invariance, PTL

(* Only the ping timer of a peer that is disconnecting throws.            *)
THEOREM OnlyLeavingPeersThrow == Spec => []OnlyLeavingThrows
<1>1. IInv => OnlyLeavingThrows
  BY DEF IInv, ConnectionInv, OnlyLeavingThrows
<1> QED
  BY <1>1, Invariance, PTL

(* Peer implements PeerSession. *)
THEOREM PeerIsSession == Spec => IsSession
<1> USE DEF phase, Session!Next, Session!Secure, Session!Initialize, Session!Leave,
            Session!Lose, Session!Redial
<1>1. Init => Session!Init
  BY DEF Init, Session!Init
<1>2. IInv /\ [Next]_vars => [Session!Next]_<<isInitiator, phase>>
  <2> SUFFICES ASSUME IInv, [Next]_vars
               PROVE  [Session!Next]_<<isInitiator, phase>>
    OBVIOUS
  <2> USE DEF Alive, Take, Leave, Stay, Ended, Written
  <2>0. ConnectionInv
    BY DEF IInv
  <2>1. CASE OnSocketReady
    BY <2>0, <2>1 DEF ConnectionInv, OnSocketReady, ReadyState
  <2>2. CASE OnSocketClose
    BY <2>0, <2>2 DEF ConnectionInv, OnSocketClose
  <2>3. CASE ReconnectDue
    BY <2>0, <2>3 DEF ConnectionInv, ReconnectDue
  <2>4. CASE Disconnect \/ Reconnect
    BY <2>0, <2>4 DEF ConnectionInv, Disconnect, Reconnect
  <2>5. CASE InitAccepted \/ InitRefused
    BY <2>0, <2>5 DEF ConnectionInv, InitAccepted, InitRefused
  <2>6. CASE ReceiveMalformed \/ ReceiveUnknown \/ ReceiveOther
    BY <2>0, <2>6 DEF ConnectionInv, ReceiveMalformed, ReceiveUnknown, ReceiveOther, Heard
  <2>7. ASSUME NEW b \in BOOLEAN, ReceivePing(b) \/ ReceivePong(b)
        PROVE  [Session!Next]_<<isInitiator, phase>>
    BY <2>0, <2>7 DEF ConnectionInv, ReceivePing, ReceivePong, Heard
  <2>8. CASE Arrive \/ Read
    BY <2>8 DEF Arrive, Read
  <2>9. CASE PingDue \/ PongDue \/ Tick
    BY <2>0, <2>9 DEF ConnectionInv, PingDue, PongDue, Tick
  <2>10. CASE UNCHANGED vars
    BY <2>10 DEF vars
  <2> QED
    BY <2>1, <2>2, <2>3, <2>4, <2>5, <2>6, <2>7, <2>8, <2>9, <2>10 DEF Next, OnSocketReadable
<1> QED
  BY <1>1, <1>2, Invariance, PTL DEF Spec, IsSession, Session!Spec
=============================================================================
