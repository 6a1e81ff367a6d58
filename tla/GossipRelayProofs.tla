--------------------------- MODULE GossipRelayProofs ---------------------------
(***************************************************************************)
(* Theorems about GossipRelay, for all peers, subjects, timestamps and     *)
(* lengths of the queue.                                                   *)
(***************************************************************************)
EXTENDS GossipRelay, FiniteSetTheorems, TLAPS

LEMMA Joining ==
  ASSUME NEW S, NEW a \in Seq(S), NEW b \in Seq(S)
  PROVE  /\ a \o b \in Seq(S)
         /\ Len(a) \in Nat /\ Len(b) \in Nat
         /\ Len(a \o b) = Len(a) + Len(b) /\ DOMAIN (a \o b) = 1..(Len(a) + Len(b))
         /\ \A j \in 1..Len(a) : (a \o b)[j] = a[j]
         /\ \A j \in 1..Len(b) : (a \o b)[Len(a) + j] = b[j]
         /\ \A j \in 1..(Len(a) + Len(b)) :
              (a \o b)[j] = IF j <= Len(a) THEN a[j] ELSE b[j - Len(a)]
OBVIOUS

(* Taking an entry out of a sequence. *)
LEMMA Removing ==
  ASSUME NEW S, NEW q \in Seq(S), NEW i \in 1..Len(q)
  PROVE  /\ RemoveAt(q, i) \in Seq(S)
         /\ Len(RemoveAt(q, i)) = Len(q) - 1
         /\ \A j \in 1..(Len(q) - 1) :
              RemoveAt(q, i)[j] = IF j < i THEN q[j] ELSE q[j + 1]
<1> DEFINE a == SubSeq(q, 1, i - 1)
           b == SubSeq(q, i + 1, Len(q))
<1>1. a \in Seq(S) /\ Len(a) = i - 1 /\ \A j \in 1..(i - 1) : a[j] = q[j]
  OBVIOUS
<1>2. b \in Seq(S) /\ Len(b) = Len(q) - i /\ \A j \in 1..(Len(q) - i) : b[j] = q[i + j]
  OBVIOUS
<1> DEFINE m == a \o b
<1>3. /\ m \in Seq(S) /\ Len(m) = Len(q) - 1
      /\ \A j \in 1..(Len(q) - 1) : m[j] = IF j < i THEN q[j] ELSE q[j + 1]
  <2> HIDE DEF a, b
  <2>1. m \in Seq(S) /\ Len(m) = Len(a) + Len(b)
    BY <1>1, <1>2, Joining
  <2>2. \A j \in 1..(Len(a) + Len(b)) : m[j] = IF j <= Len(a) THEN a[j] ELSE b[j - Len(a)]
    BY <1>1, <1>2, Joining
  <2> HIDE DEF m
  <2>3. ASSUME NEW j \in 1..(Len(q) - 1) PROVE m[j] = IF j < i THEN q[j] ELSE q[j + 1]
    <3>1. CASE j < i
      <4>1. j \in 1..(i - 1) /\ j \in 1..(Len(a) + Len(b)) /\ j <= Len(a)
        BY <1>1, <1>2, <3>1
      <4> QED
        BY <1>1, <2>2, <3>1, <4>1
    <3>2. CASE j >= i
      <4>1. j - (i - 1) \in 1..(Len(q) - i) /\ i + (j - (i - 1)) = j + 1
        BY <3>2
      <4>2. m[j] = b[j - (i - 1)]
        BY <1>1, <1>2, <2>2, <3>2
      <4> QED
        BY <1>2, <3>2, <4>1, <4>2
    <3> QED
      BY <3>1, <3>2
  <2> QED
    BY <1>1, <1>2, <2>1, <2>3
<1>4. RemoveAt(q, i) = m
  BY DEF RemoveAt
<1> HIDE DEF m, a, b
<1> QED
  BY <1>3, <1>4

LEMMA AtMostOneMore ==
  ASSUME NEW S, NEW T, NEW x, IsFiniteSet(S), T \subseteq S \cup {x}
  PROVE  Cardinality(T) <= Cardinality(S) + 1 /\ Cardinality(T) \in Nat
<1>0. Cardinality(S) \in Nat
  BY FS_CardinalityType
<1>1. IsFiniteSet(S \cup {x}) /\ Cardinality(S \cup {x}) <= Cardinality(S) + 1
  <2>1. /\ IsFiniteSet(S \cup {x})
        /\ Cardinality(S \cup {x}) = IF x \in S THEN Cardinality(S) ELSE Cardinality(S) + 1
    BY FS_AddElement
  <2> QED
    BY <1>0, <2>1
<1>2. Cardinality(T) <= Cardinality(S \cup {x})
  BY <1>1, FS_Subset
<1>3. IsFiniteSet(T)
  BY <1>1, FS_Subset
<1>4. Cardinality(T) \in Nat /\ Cardinality(S \cup {x}) \in Nat
  BY <1>1, <1>3, FS_CardinalityType
<1> QED
  BY <1>0, <1>1, <1>2, <1>4

LEMMA MissedFinite ==
  ASSUME TypeOK, NEW p \in Peers
  PROVE  IsFiniteSet(Missed(p)) /\ Cardinality(Missed(p)) \in Nat
<1>1. IsFiniteSet((since[p] + 1)..entered)
  BY FS_Interval DEF TypeOK
<1>2. Missed(p) \in SUBSET ((since[p] + 1)..entered)
  BY DEF Missed
<1> QED
  BY <1>1, <1>2, FS_Subset, FS_CardinalityType

-----------------------------------------------------------------------------
(* What a flush sends is newer than what was sent, and in order. *)
LEMMA Flushing ==
  ASSUME IInv, NEW p \in Relayed
  PROVE  LET t == sent[p] \o Numbers(Behind(p))
         IN  /\ t \in Seq(Nat)
             /\ \A i \in DOMAIN t : t[i] \in 1..entered
             /\ \A i, j \in DOMAIN t : i < j => t[i] < t[j]
             /\ Got(p) \cup Waiting(p) \subseteq {t[i] : i \in DOMAIN t}
<1> DEFINE n == index[p]
           s == sent[p]
           b == Numbers(Behind(p))
           t == s \o b
<1>0. /\ p \in Peers /\ n \in 0..Len(queue) /\ queue \in Seq(Message)
      /\ s \in Seq(Nat) /\ Len(queue) \in Nat /\ entered \in Nat
  BY DEF IInv, TypeOK
<1>1. /\ Behind(p) \in Seq(Message) /\ Len(Behind(p)) = Len(queue) - n
      /\ \A j \in 1..(Len(queue) - n) : Behind(p)[j] = queue[n + j]
  BY <1>0 DEF Behind
<1>2. /\ b \in Seq(Nat) /\ Len(b) = Len(queue) - n
      /\ \A j \in 1..(Len(queue) - n) : b[j] = queue[n + j].number
  <2>1. DOMAIN Behind(p) = 1..(Len(queue) - n)
    BY <1>0, <1>1
  <2>2. \A j \in 1..(Len(queue) - n) : Behind(p)[j] \in Message
    BY <1>0, <1>1
  <2>3. \A j \in 1..(Len(queue) - n) : Behind(p)[j].number \in Nat
    BY <2>2 DEF Message
  <2>4. b = [j \in 1..(Len(queue) - n) |-> Behind(p)[j].number]
    BY <2>1 DEF Numbers
  <2> QED
    <3>1. Len(queue) - n \in Nat
      BY <1>0
    <3>2. \A j \in 1..(Len(queue) - n) : Behind(p)[j].number = queue[n + j].number
      BY <1>1
    <3> QED
      BY <2>3, <2>4, <3>1, <3>2
<1> HIDE DEF b, s
<1>3. /\ t \in Seq(Nat) /\ DOMAIN t = 1..(Len(s) + Len(b)) /\ Len(s) \in Nat /\ Len(b) \in Nat
      /\ \A j \in 1..Len(s) : t[j] = s[j]
      /\ \A j \in 1..Len(b) : t[Len(s) + j] = b[j]
  BY <1>0, <1>2, Joining, SMTT(30)
<1> HIDE DEF t
<1>4. /\ DOMAIN s = 1..Len(s)
      /\ \A i \in 1..Len(s) : s[i] \in 1..entered
      /\ \A i, j \in 1..Len(s) : i < j => s[i] < s[j]
  BY <1>0, SMTT(30) DEF IInv, SentInOrder, OnceInOrder, s
<1>5. /\ DOMAIN queue = 1..Len(queue)
      /\ \A j \in 1..Len(b) : b[j] \in 1..entered
      /\ \A i, j \in 1..Len(b) : i < j => b[i] < b[j]
      /\ \A i \in 1..Len(s), j \in 1..Len(b) : s[i] < b[j]
  <2>1. DOMAIN queue = 1..Len(queue) /\ Len(b) = Len(queue) - n
    BY <1>0, <1>2
  <2>2. ASSUME NEW j \in 1..Len(b)
        PROVE  n + j \in 1..Len(queue) /\ n + j \in (n + 1)..Len(queue) /\ b[j] = queue[n + j].number
    BY <1>0, <1>2, <2>1, SMTT(30)
  <2>3. \A i, j \in DOMAIN queue : i < j => queue[i].number < queue[j].number
    BY DEF IInv, QueueInOrder
  <2>4. \A i \in DOMAIN queue : queue[i].number \in 1..entered
    BY DEF IInv, QueueInOrder
  <2>5. \A i \in 1..Len(s), j \in (n + 1)..Len(queue) : s[i] < queue[j].number
    BY <1>4 DEF IInv, SentInOrder, s
  <2>6. ASSUME NEW i \in 1..Len(b), NEW j \in 1..Len(b), i < j PROVE b[i] < b[j]
    <3>1. n + i < n + j
      BY <1>0, <2>6
    <3> QED
      BY <2>1, <2>2, <2>3, <3>1
  <2> QED
    BY <2>1, <2>2, <2>4, <2>5, <2>6
<1>6. ASSUME NEW i \in DOMAIN t
      PROVE  \/ i \in 1..Len(s) /\ t[i] = s[i]
             \/ i > Len(s) /\ i - Len(s) \in 1..Len(b) /\ t[i] = b[i - Len(s)]
  <2>1. CASE i <= Len(s)
    BY <1>3, <2>1
  <2>2. CASE i > Len(s)
    <3>1. i - Len(s) \in 1..Len(b) /\ Len(s) + (i - Len(s)) = i
      BY <1>3, <2>2
    <3> QED
      BY <1>3, <2>2, <3>1
  <2> QED
    BY <1>3, <2>1, <2>2
<1>7. \A i \in DOMAIN t : t[i] \in 1..entered
  BY <1>4, <1>5, <1>6
<1>8. ASSUME NEW i \in DOMAIN t, NEW j \in DOMAIN t, i < j PROVE t[i] < t[j]
  <2>1. CASE i \in 1..Len(s) /\ t[i] = s[i] /\ j \in 1..Len(s) /\ t[j] = s[j]
    BY <1>4, <1>8, <2>1
  <2>2. CASE i \in 1..Len(s) /\ t[i] = s[i] /\ j - Len(s) \in 1..Len(b) /\ t[j] = b[j - Len(s)]
    BY <1>5, <2>2
  <2>3. CASE /\ i - Len(s) \in 1..Len(b) /\ t[i] = b[i - Len(s)]
             /\ j - Len(s) \in 1..Len(b) /\ t[j] = b[j - Len(s)]
    <3>1. i - Len(s) < j - Len(s)
      BY <1>3, <1>8
    <3> QED
      BY <1>5, <2>3, <3>1
  <2>4. ~(i > Len(s) /\ j \in 1..Len(s))
    BY <1>3, <1>8
  <2> QED
    BY <1>6, <2>1, <2>2, <2>3, <2>4
<1>9. Got(p) \cup Waiting(p) \subseteq {t[i] : i \in DOMAIN t}
  <2>1. ASSUME NEW x \in Got(p) PROVE \E i \in DOMAIN t : t[i] = x
    <3>1. PICK i \in 1..Len(s) : s[i] = x
      BY <1>4, <2>1 DEF Got, s
    <3>2. i \in DOMAIN t
      BY <1>3
    <3> QED
      BY <1>3, <3>1, <3>2
  <2>2. ASSUME NEW x \in Waiting(p) PROVE \E i \in DOMAIN t : t[i] = x
    <3>1. PICK i \in (n + 1)..Len(queue) : queue[i].number = x
      BY <2>2 DEF Waiting
    <3>2. i - n \in 1..Len(b) /\ n + (i - n) = i
      BY <1>0, <1>2
    <3>3. b[i - n] = x
      BY <1>2, <3>1, <3>2
    <3>4. Len(s) + (i - n) \in DOMAIN t /\ t[Len(s) + (i - n)] = b[i - n]
      <4> DEFINE k == i - n
      <4> HIDE DEF k
      <4>1. k \in 1..Len(b)
        BY <3>2 DEF k
      <4>2. Len(s) + k \in DOMAIN t /\ t[Len(s) + k] = b[k]
        BY <1>3, <4>1
      <4> QED
        BY <4>2 DEF k
    <3> QED
      BY <3>3, <3>4
  <2> QED
    BY <2>1, <2>2
<1> QED
  BY <1>3, <1>7, <1>8, <1>9 DEF t, b, s

LEMMA NoMoreMissed ==
  ASSUME IInv, NEW p \in Relayed, NEW M, M \subseteq Missed(p)
  PROVE  Cardinality(M) <= late[p]
<1>1. p \in Peers /\ late[p] \in Nat /\ Cardinality(Missed(p)) <= late[p]
  BY DEF IInv, TypeOK, OneMissPerReplacement
<1>2. IsFiniteSet(Missed(p)) /\ Cardinality(Missed(p)) \in Nat
  BY <1>1, MissedFinite DEF IInv
<1>3. IsFiniteSet(M) /\ Cardinality(M) <= Cardinality(Missed(p))
  BY <1>2, FS_Subset
<1>4. Cardinality(M) \in Nat
  BY <1>3, FS_CardinalityType
<1> QED
  BY <1>1, <1>2, <1>3, <1>4

-----------------------------------------------------------------------------
LEMMA Numbering ==
  ASSUME TypeOK, NEW s \in Subjects, NEW t \in Stamp(s)
  PROVE  /\ New(s, t) \in Message /\ New(s, t).number = entered + 1
         /\ New(s, t).subject = s
<1>1. t \in 0..MaxStamp
  BY GossipRelayAssumption DEF Stamp, GossipRelayAssumption
<1>2. entered + 1 \in Nat
  BY DEF TypeOK
<1> QED
  BY <1>1, <1>2 DEF New, Message

(* A message of a new subject waits for every peer. *)
LEMMA EnteringFirst ==
  ASSUME IInv, NEW s \in Subjects, NEW t \in Stamp(s), Enqueue(s, t), EnqueueFirst(s, t)
  PROVE  IInv'
<1> DEFINE e == New(s, t)
<1>0. /\ queue \in Seq(Message) /\ Len(queue) \in Nat /\ entered \in Nat
      /\ DOMAIN queue = 1..Len(queue)
      /\ e \in Message /\ e.number = entered + 1
  BY Numbering DEF IInv, TypeOK
<1> HIDE DEF e
<1>1. /\ queue' = Append(queue, e) /\ entered' = entered + 1
      /\ UNCHANGED <<index, active, ready, sent, since, added, replaced, late>>
  BY DEF Enqueue, EnqueueFirst, e
<1>2. /\ queue' \in Seq(Message) /\ Len(queue') = Len(queue) + 1
      /\ DOMAIN queue' = 1..(Len(queue) + 1)
      /\ \A j \in 1..Len(queue) : queue'[j] = queue[j]
      /\ queue'[Len(queue) + 1] = e
  BY <1>0, <1>1
<1>3. TypeOK'
  <2>1. index' \in [Relayed' -> 0..Len(queue')] /\ Relayed' \subseteq Peers
    <3>1. index \in [Relayed -> 0..Len(queue)] /\ Relayed \subseteq Peers
      BY DEF IInv, TypeOK
    <3>2. 0..Len(queue) \subseteq 0..Len(queue')
      BY <1>0, <1>2
    <3> QED
      BY <1>1, <3>1, <3>2 DEF Relayed
  <2>2. replaced' \subseteq 1..entered'
    BY <1>0, <1>1 DEF IInv, TypeOK
  <2>3. entered' \in Nat
    BY <1>0, <1>1
  <2> QED
    BY <1>1, <1>2, <2>1, <2>2, <2>3 DEF IInv, TypeOK
<1>4. QueueInOrder'
  <2>1. \A i \in 1..Len(queue) : queue[i].number \in 1..entered
    BY <1>0 DEF IInv, QueueInOrder
  <2>2. \A i, j \in 1..Len(queue) : i < j => queue[i].number < queue[j].number
    BY <1>0 DEF IInv, QueueInOrder
  <2>3. \A i \in DOMAIN queue' : queue'[i].number \in 1..entered'
    BY <1>0, <1>1, <1>2, <2>1
  <2>4. ASSUME NEW i \in DOMAIN queue', NEW j \in DOMAIN queue', i < j
        PROVE  queue'[i].number < queue'[j].number
    <3>1. i \in 1..Len(queue) /\ queue'[i] = queue[i]
      BY <1>0, <1>2, <2>4
    <3>2. CASE j \in 1..Len(queue)
      BY <1>2, <2>2, <2>4, <3>1, <3>2
    <3>3. CASE j = Len(queue) + 1
      BY <1>0, <1>2, <2>1, <3>1, <3>3
    <3> QED
      BY <1>0, <1>2, <3>2, <3>3
  <2> QED
    BY <2>3, <2>4 DEF QueueInOrder
<1>5. SentInOrder'
  <2>1. ASSUME NEW p \in Peers, NEW i \in DOMAIN sent[p] PROVE sent[p][i] \in 1..entered
    BY <2>1 DEF IInv, SentInOrder
  <2>2. ASSUME NEW p \in Relayed, NEW i \in DOMAIN sent[p], NEW j \in (index[p] + 1)..Len(queue')
        PROVE  sent[p][i] < queue'[j].number
    <3>1. index[p] \in 0..Len(queue) /\ p \in Peers
      BY DEF IInv, TypeOK
    <3>2. CASE j \in 1..Len(queue)
      BY <1>2, <3>1, <3>2 DEF IInv, SentInOrder
    <3>3. CASE j = Len(queue) + 1
      BY <1>0, <1>2, <2>1, <3>1, <3>3
    <3> QED
      BY <1>0, <1>2, <3>1, <3>2, <3>3
  <2>3. \A p \in Peers : \A i \in DOMAIN sent[p] : sent[p][i] \in 1..entered'
    BY <1>0, <1>1, <2>1
  <2> QED
    BY <1>1, <2>2, <2>3 DEF SentInOrder, Relayed
<1>6. OnceInOrder'
  BY <1>1 DEF IInv, OnceInOrder
<1>7. ASSUME NEW p \in Relayed PROVE Cardinality(Missed(p)') <= late[p]
  <2>0. index[p] \in 0..Len(queue) /\ p \in Peers /\ since[p] \in Nat
    BY DEF IInv, TypeOK
  <2>1. Waiting(p) \cup {entered + 1} \subseteq Waiting(p)'
    <3>1. ASSUME NEW x \in Waiting(p) PROVE x \in Waiting(p)'
      <4>1. PICK i \in (index[p] + 1)..Len(queue) : queue[i].number = x
        BY <3>1 DEF Waiting
      <4>2. i \in (index'[p] + 1)..Len(queue') /\ queue'[i] = queue[i]
        BY <1>0, <1>1, <1>2, <2>0
      <4> QED
        BY <4>1, <4>2 DEF Waiting
    <3>2. Len(queue) + 1 \in (index'[p] + 1)..Len(queue')
      BY <1>0, <1>1, <1>2, <2>0
    <3>3. queue'[Len(queue) + 1].number = entered + 1
      BY <1>0, <1>2
    <3> QED
      BY <3>1, <3>2, <3>3 DEF Waiting
  <2>2. Missed(p)' \subseteq Missed(p)
    <3>1. (since[p] + 1)..(entered + 1) \subseteq ((since[p] + 1)..entered) \cup {entered + 1}
      BY <1>0, <2>0
    <3>2. Got(p)' = Got(p) /\ replaced' = replaced
      BY <1>1 DEF Got
    <3>3. Missed(p)' = ((since[p] + 1)..(entered + 1)) \ (Waiting(p)' \cup Got(p) \cup replaced)
      BY <1>1, <3>2 DEF Missed
    <3> QED
      BY <2>1, <3>1, <3>3 DEF Missed
  <2> QED
    BY <2>2, NoMoreMissed
<1> QED
  BY <1>1, <1>3, <1>4, <1>5, <1>6, <1>7 DEF IInv, OneMissPerReplacement, Relayed

(* A message that replaces an older one waits for the peers that the older *)
(* one waited for; each other peer misses the first that waited for it.    *)
LEMMA EnteringAgain ==
  ASSUME IInv, NEW s \in Subjects, NEW t \in Stamp(s), Enqueue(s, t),
         NEW k \in Places(s), Replace(k, t)
  PROVE  IInv'
<1> DEFINE e == New(s, t)
           n == Len(queue)
<1>0. /\ queue \in Seq(Message) /\ n \in Nat /\ entered \in Nat
      /\ DOMAIN queue = 1..n /\ k \in 1..n
      /\ e \in Message /\ e.number = entered + 1
      /\ queue[k].subject = s
  BY Numbering DEF IInv, TypeOK, Places
<1>1. /\ queue' = Append(RemoveAt(queue, k), e) /\ entered' = entered + 1
      /\ replaced' = replaced \cup {queue[k].number}
      /\ late' = [p \in Peers |-> IF p \in Relayed /\ k <= index[p] THEN late[p] + 1 ELSE late[p]]
      /\ UNCHANGED <<index, active, ready, sent, since, added>>
  BY <1>0 DEF Enqueue, Replace
<1> HIDE DEF e
<1>2. /\ queue' \in Seq(Message) /\ Len(queue') = n /\ DOMAIN queue' = 1..n
      /\ \A j \in 1..(k - 1) : queue'[j] = queue[j]
      /\ \A j \in k..(n - 1) : queue'[j] = queue[j + 1]
      /\ queue'[n] = e
  <2> DEFINE m == RemoveAt(queue, k)
  <2> HIDE DEF n
  <2>1. n = Len(queue) /\ k \in 1..Len(queue)
    BY <1>0 DEF n
  <2>2. /\ m \in Seq(Message) /\ Len(m) = n - 1
        /\ \A j \in 1..(n - 1) : m[j] = IF j < k THEN queue[j] ELSE queue[j + 1]
    BY <1>0, <2>1, Removing
  <2>3. queue' = Append(m, e)
    BY <1>1
  <2> HIDE DEF m
  <2>4. /\ queue' \in Seq(Message) /\ Len(queue') = n /\ DOMAIN queue' = 1..n
        /\ \A j \in 1..(n - 1) : queue'[j] = m[j]
        /\ queue'[n] = e
    BY <1>0, <2>2, <2>3
  <2>5. ASSUME NEW j \in 1..(k - 1) PROVE queue'[j] = queue[j]
    <3>1. j \in 1..(n - 1) /\ j < k
      BY <1>0
    <3> QED
      BY <2>2, <2>4, <3>1
  <2>6. ASSUME NEW j \in k..(n - 1) PROVE queue'[j] = queue[j + 1]
    <3>1. j \in 1..(n - 1) /\ ~(j < k)
      BY <1>0
    <3> QED
      BY <2>2, <2>4, <3>1
  <2> QED
    BY <2>4, <2>5, <2>6
<1>q. /\ \A i \in 1..n : queue[i].number \in 1..entered
      /\ \A i, j \in 1..n : i < j => queue[i].number < queue[j].number
  BY <1>0 DEF IInv, QueueInOrder
<1> HIDE DEF n
<1>e. ASSUME NEW j \in 1..n
      PROVE  \/ j < k /\ queue'[j] = queue[j]
             \/ j >= k /\ j + 1 \in 1..n /\ queue'[j] = queue[j + 1]
             \/ j = n /\ queue'[j] = e
  <2>1. CASE j < k
    BY <1>0, <1>2, <2>1
  <2>2. CASE j >= k /\ j < n
    BY <1>0, <1>2, <2>2
  <2>3. CASE j = n
    BY <1>2, <2>3
  <2> QED
    BY <1>0, <2>1, <2>2, <2>3
<1>3. TypeOK'
  <2>1. index' \in [Relayed' -> 0..Len(queue')] /\ Relayed' \subseteq Peers
    BY <1>1, <1>2 DEF IInv, TypeOK, Relayed, n
  <2>2. replaced' \subseteq 1..entered'
    <3>1. replaced \subseteq 1..entered
      BY DEF IInv, TypeOK
    <3>2. queue[k].number \in 1..entered
      BY <1>0, <1>q
    <3>3. 1..entered \subseteq 1..(entered + 1)
      BY <1>0
    <3> QED
      BY <1>1, <3>1, <3>2, <3>3
  <2>3. entered' \in Nat
    BY <1>0, <1>1
  <2>4. late' \in [Peers -> Nat]
    BY <1>1 DEF IInv, TypeOK
  <2>5. UNCHANGED <<active, ready, sent, since, added>>
    BY <1>1
  <2>6. queue' \in Seq(Message)
    BY <1>2
  <2> HIDE <1>1, <1>2
  <2> QED
    BY <2>1, <2>2, <2>3, <2>4, <2>5, <2>6 DEF IInv, TypeOK
<1>4. QueueInOrder'
  <2>1. ASSUME NEW j \in 1..n PROVE queue'[j].number \in 1..entered'
    BY <1>0, <1>1, <1>e, <1>q, SMTT(30)
  <2>2. ASSUME NEW i \in 1..n, NEW j \in 1..n, i < j
        PROVE  queue'[i].number < queue'[j].number
    <3>1. CASE i < k /\ queue'[i] = queue[i]
      <4>1. CASE j < k /\ queue'[j] = queue[j]
        BY <1>q, <2>2, <3>1, <4>1
      <4>2. CASE j >= k /\ j + 1 \in 1..n /\ queue'[j] = queue[j + 1]
        <5>1. i < j + 1
          BY <2>2
        <5> QED
          BY <1>q, <3>1, <4>2, <5>1
      <4>3. CASE j = n /\ queue'[j] = e
        <5>1. queue[i].number \in 1..entered
          BY <1>q
        <5> QED
          BY <1>0, <3>1, <4>3, <5>1
      <4> QED
        BY <1>e, <4>1, <4>2, <4>3
    <3>2. CASE i >= k /\ i + 1 \in 1..n /\ queue'[i] = queue[i + 1]
      <4>1. CASE j >= k /\ j + 1 \in 1..n /\ queue'[j] = queue[j + 1]
        <5>1. i + 1 < j + 1
          BY <2>2
        <5> QED
          BY <1>q, <3>2, <4>1, <5>1
      <4>2. CASE j = n /\ queue'[j] = e
        <5>1. queue[i + 1].number \in 1..entered
          BY <1>q, <3>2
        <5> QED
          BY <1>0, <3>2, <4>2, <5>1
      <4>3. ~(j < k)
        BY <1>0, <2>2, <3>2
      <4> QED
        BY <1>e, <4>1, <4>2, <4>3
    <3>3. i # n
      BY <1>0, <2>2
    <3> QED
      BY <1>e, <3>1, <3>2, <3>3
  <2> QED
    BY <1>2, <2>1, <2>2 DEF QueueInOrder
<1>5. SentInOrder'
  <2>1. ASSUME NEW p \in Peers, NEW i \in DOMAIN sent[p] PROVE sent[p][i] \in 1..entered
    BY <2>1 DEF IInv, SentInOrder
  <2>2. ASSUME NEW p \in Relayed, NEW i \in DOMAIN sent[p], NEW j \in (index[p] + 1)..n
        PROVE  sent[p][i] < queue'[j].number
    <3>0. index[p] \in 0..n /\ p \in Peers /\ j \in 1..n
      BY <1>0 DEF IInv, TypeOK, n
    <3>1. \A l \in (index[p] + 1)..n : sent[p][i] < queue[l].number
      BY DEF IInv, SentInOrder, n
    <3>2. CASE queue'[j] = queue[j]
      BY <3>1, <3>2
    <3>3. CASE j + 1 \in 1..n /\ queue'[j] = queue[j + 1]
      <4>1. j + 1 \in (index[p] + 1)..n
        BY <1>0, <3>0, <3>3
      <4> QED
        BY <3>1, <3>3, <4>1
    <3>4. CASE queue'[j] = e
      BY <1>0, <2>1, <3>0, <3>4
    <3> QED
      BY <1>e, <3>0, <3>2, <3>3, <3>4
  <2>3. \A p \in Peers : \A i \in DOMAIN sent[p] : sent[p][i] \in 1..entered'
    BY <1>0, <1>1, <2>1
  <2> QED
    BY <1>1, <1>2, <2>2, <2>3, ZenonT(30) DEF SentInOrder, Relayed
<1>6. OnceInOrder'
  BY <1>1 DEF IInv, OnceInOrder
<1>7. ASSUME NEW p \in Relayed PROVE Cardinality(Missed(p)') <= late'[p]
  <2>0. index[p] \in 0..n /\ p \in Peers /\ since[p] \in Nat
    BY DEF IInv, TypeOK, n
  <2>1. Missed(p)' = ((since[p] + 1)..(entered + 1))
                       \ (Waiting(p)' \cup Got(p) \cup replaced \cup {queue[k].number})
    <3>1. Got(p)' = Got(p)
      BY <1>1 DEF Got
    <3> QED
      BY <1>1, <3>1 DEF Missed
  <2>2. (since[p] + 1)..(entered + 1) \subseteq ((since[p] + 1)..entered) \cup {entered + 1}
    BY <1>0, <2>0
  <2>3. Waiting(p)' = {queue'[i].number : i \in (index[p] + 1)..n}
    BY <1>1, <1>2 DEF Waiting
  <2>4. Waiting(p) = {queue[i].number : i \in (index[p] + 1)..n}
    BY DEF Waiting, n
  <2>5. CASE index[p] < k
    <3>1. Waiting(p) \cup {entered + 1} \subseteq Waiting(p)' \cup {queue[k].number}
      <4>1. ASSUME NEW i \in (index[p] + 1)..n, i # k PROVE queue[i].number \in Waiting(p)'
        <5>1. CASE i < k
          <6>1. i \in 1..(k - 1)
            BY <1>0, <2>0, <5>1
          <6>2. queue'[i] = queue[i]
            BY <1>2, <6>1
          <6> QED
            BY <2>3, <6>2
        <5>2. CASE i > k
          <6>1. /\ i - 1 \in k..(n - 1) /\ i - 1 \in (index[p] + 1)..n /\ (i - 1) + 1 = i
            BY <1>0, <2>0, <2>5, <5>2
          <6>2. queue'[i - 1] = queue[i]
            BY <1>2, <6>1
          <6> QED
            BY <2>3, <6>1, <6>2
        <5> QED
          BY <1>0, <2>0, <4>1, <5>1, <5>2
      <4>2. entered + 1 \in Waiting(p)'
        <5>1. n \in (index[p] + 1)..n
          BY <1>0, <2>0, <2>5
        <5> QED
          BY <1>0, <1>2, <2>3, <5>1
      <4> QED
        BY <2>4, <4>1, <4>2
    <3>2. Missed(p)' \subseteq Missed(p)
      BY <2>1, <2>2, <3>1 DEF Missed
    <3>3. late'[p] = late[p]
      BY <1>0, <1>1, <2>0, <2>5
    <3> QED
      BY <3>2, <3>3, NoMoreMissed
  <2>6. CASE k <= index[p]
    <3> DEFINE x == IF index[p] < n THEN queue[index[p] + 1].number ELSE entered + 1
    <3>1. Waiting(p) \cup {entered + 1} \subseteq Waiting(p)' \cup {x}
      <4>1. ASSUME NEW i \in (index[p] + 1)..n, i # index[p] + 1
            PROVE  queue[i].number \in Waiting(p)'
        <5>1. /\ i - 1 \in k..(n - 1) /\ i - 1 \in (index[p] + 1)..n /\ (i - 1) + 1 = i
          BY <1>0, <2>0, <2>6, <4>1
        <5>2. queue'[i - 1] = queue[i]
          BY <1>2, <5>1
        <5> QED
          BY <2>3, <5>1, <5>2
      <4>2. CASE index[p] < n
        <5>1. n \in (index[p] + 1)..n
          BY <1>0, <2>0, <4>2
        <5>2. entered + 1 \in Waiting(p)'
          BY <1>0, <1>2, <2>3, <5>1
        <5>3. x = queue[index[p] + 1].number
          BY <4>2
        <5> QED
          BY <2>4, <4>1, <5>2, <5>3
      <4>3. CASE index[p] = n
        <5>1. (index[p] + 1)..n = {}
          BY <1>0, <4>3
        <5>2. Waiting(p) = {}
          BY <2>4, <5>1
        <5>3. x = entered + 1
          BY <1>0, <4>3
        <5> QED
          BY <5>2, <5>3
      <4> QED
        BY <1>0, <2>0, <4>2, <4>3
    <3> HIDE DEF x
    <3>2. Missed(p)' \subseteq Missed(p) \cup {x}
      BY <2>1, <2>2, <3>1 DEF Missed
    <3>3. late'[p] = late[p] + 1
      BY <1>1, <2>0, <2>6
    <3>4. Cardinality(Missed(p)') <= Cardinality(Missed(p)) + 1 /\ Cardinality(Missed(p)') \in Nat
      BY <2>0, <3>2, MissedFinite, AtMostOneMore DEF IInv
    <3>5. Cardinality(Missed(p)) \in Nat /\ late[p] \in Nat /\ Cardinality(Missed(p)) <= late[p]
      BY <2>0, MissedFinite DEF IInv, TypeOK, OneMissPerReplacement
    <3> QED
      BY <3>3, <3>4, <3>5
  <2> QED
    BY <1>0, <2>0, <2>5, <2>6
<1> QED
  BY <1>1, <1>3, <1>4, <1>5, <1>6, <1>7 DEF IInv, OneMissPerReplacement, Relayed

-----------------------------------------------------------------------------
LEMMA Flushed ==
  ASSUME IInv, NEW P \in SUBSET Relayed, FlushedToPeers(P)
  PROVE  /\ sent' \in [Peers -> Seq(Nat)]
         /\ \A p \in Peers : \A i \in DOMAIN sent'[p] : sent'[p][i] \in 1..entered
         /\ OnceInOrder'
         /\ \A p \in P : Got(p) \cup Waiting(p) \subseteq Got(p)'
         /\ \A p \in Peers \ P : sent'[p] = sent[p]
<1>1. /\ P \subseteq Peers /\ P \subseteq Relayed
      /\ \A p \in P : sent'[p] = sent[p] \o Numbers(Behind(p))
      /\ \A p \in Peers \ P : sent'[p] = sent[p]
      /\ DOMAIN sent' = Peers
      /\ sent' = [p \in Peers |-> sent'[p]]
  BY DEF FlushedToPeers, IInv, TypeOK
<1>2. ASSUME NEW p \in P
      PROVE  /\ sent'[p] \in Seq(Nat)
             /\ \A i \in DOMAIN sent'[p] : sent'[p][i] \in 1..entered
             /\ \A i, j \in DOMAIN sent'[p] : i < j => sent'[p][i] < sent'[p][j]
             /\ Got(p) \cup Waiting(p) \subseteq Got(p)'
  <2> DEFINE t == sent[p] \o Numbers(Behind(p))
  <2>1. /\ t \in Seq(Nat)
        /\ \A i \in DOMAIN t : t[i] \in 1..entered
        /\ \A i, j \in DOMAIN t : i < j => t[i] < t[j]
        /\ Got(p) \cup Waiting(p) \subseteq {t[i] : i \in DOMAIN t}
    BY <1>1, Flushing
  <2>2. sent'[p] = t
    BY <1>1
  <2> HIDE DEF t
  <2>3. Got(p)' = {t[i] : i \in DOMAIN t}
    BY <2>2 DEF Got
  <2> QED
    BY <2>1, <2>2, <2>3
<1>3. ASSUME NEW p \in Peers \ P
      PROVE  /\ sent'[p] \in Seq(Nat)
             /\ \A i \in DOMAIN sent'[p] : sent'[p][i] \in 1..entered
             /\ \A i, j \in DOMAIN sent'[p] : i < j => sent'[p][i] < sent'[p][j]
  BY <1>1 DEF IInv, TypeOK, SentInOrder, OnceInOrder
<1>4. \A p \in Peers : sent'[p] \in Seq(Nat)
  BY <1>2, <1>3
<1>5. sent' \in [Peers -> Seq(Nat)]
  BY <1>1, <1>4
<1>6. OnceInOrder'
  BY <1>2, <1>3 DEF OnceInOrder
<1> QED
  BY <1>1, <1>2, <1>3, <1>5, <1>6

(* What waited for a peer that is flushed was sent to it. *)
LEMMA FlushMissesNothing ==
  ASSUME IInv, NEW p \in Relayed,
         Got(p) \cup Waiting(p) \subseteq Got(p)' \cup Waiting(p)',
         UNCHANGED <<since, entered, replaced>>
  PROVE  Cardinality(Missed(p)') <= late[p]
<1>1. Missed(p)' \subseteq Missed(p)
  BY DEF Missed
<1> QED
  BY <1>1, NoMoreMissed

LEMMA Timer ==
  ASSUME IInv, OnTimer
  PROVE  IInv'
<1> DEFINE n == Len(queue)
           d == DeleteCount
<1>0. /\ queue \in Seq(Message) /\ n \in Nat /\ d \in 0..n
      /\ Relayed \subseteq Peers /\ \A p \in Relayed : index[p] \in 0..n
  BY GossipRelayAssumption DEF IInv, TypeOK, DeleteCount, GossipRelayAssumption
<1> HIDE DEF d
<1>1. /\ sent' \in [Peers -> Seq(Nat)]
      /\ \A p \in Peers : \A i \in DOMAIN sent'[p] : sent'[p][i] \in 1..entered
      /\ OnceInOrder'
      /\ \A p \in Relayed : Got(p) \cup Waiting(p) \subseteq Got(p)'
  BY Flushed DEF OnTimer
<1>2. /\ queue' = SubSeq(queue, d + 1, n)
      /\ index' = [p \in Relayed |-> FlushedIndex(p) - Moved]
      /\ UNCHANGED <<active, ready, entered, replaced, since, late, added>>
  BY DEF OnTimer, d
<1>3. /\ queue' \in Seq(Message) /\ Len(queue') = n - d /\ DOMAIN queue' = 1..(n - d)
      /\ \A j \in 1..(n - d) : queue'[j] = queue[d + j]
  BY <1>0, <1>2
<1>4. /\ Relayed' = Relayed /\ index' \in [Relayed -> 0..Len(queue')]
      /\ \A p \in Relayed : index'[p] = Len(queue')
  <2>1. \A p \in Relayed : FlushedIndex(p) - Moved = n - d
    BY <1>0 DEF FlushedIndex, Moved, d
  <2>2. n - d \in 0..(n - d)
    BY <1>0
  <2> QED
    BY <1>2, <1>3, <2>1, <2>2 DEF Relayed
<1>5. TypeOK'
  BY <1>1, <1>2, <1>3, <1>4 DEF IInv, TypeOK
<1>6. QueueInOrder'
  <2>1. \A j \in 1..(n - d) : d + j \in DOMAIN queue
    BY <1>0
  <2>2. ASSUME NEW i \in 1..(n - d), NEW j \in 1..(n - d), i < j
        PROVE  queue'[i].number < queue'[j].number
    <3>1. d + i < d + j
      BY <1>0, <2>2
    <3> QED
      BY <1>3, <2>1, <3>1 DEF IInv, QueueInOrder
  <2>3. \A j \in 1..(n - d) : queue'[j].number \in 1..entered'
    BY <1>2, <1>3, <2>1 DEF IInv, QueueInOrder
  <2> QED
    BY <1>3, <2>2, <2>3 DEF QueueInOrder
<1>7. SentInOrder'
  <2>1. \A p \in Relayed : (index'[p] + 1)..Len(queue') = {}
    BY <1>0, <1>3, <1>4
  <2> QED
    BY <1>1, <1>2, <1>4, <2>1 DEF SentInOrder
<1>8. \A p \in Relayed : Cardinality(Missed(p)') <= late[p]
  BY <1>1, <1>2, FlushMissesNothing
<1> QED
  BY <1>1, <1>2, <1>4, <1>5, <1>6, <1>7, <1>8 DEF IInv, OneMissPerReplacement

LEMMA TimerThrows ==
  ASSUME IInv, OnTimerThrows
  PROVE  IInv'
<1>0. /\ Len(queue) \in Nat /\ Relayed \subseteq Peers
      /\ \A p \in Relayed : index[p] \in 0..Len(queue)
      /\ index = [p \in Relayed |-> index[p]]
  BY DEF IInv, TypeOK
<1>1. PICK P \in SUBSET Relayed :
        /\ FlushedToPeers(P)
        /\ index' = [p \in Relayed |-> IF p \in P THEN FlushedIndex(p) ELSE index[p]]
  BY DEF OnTimerThrows
<1>2. UNCHANGED <<queue, active, ready, entered, replaced, since, late, added>>
  BY DEF OnTimerThrows
<1>3. /\ sent' \in [Peers -> Seq(Nat)]
      /\ \A p \in Peers : \A i \in DOMAIN sent'[p] : sent'[p][i] \in 1..entered
      /\ OnceInOrder'
      /\ \A p \in P : Got(p) \cup Waiting(p) \subseteq Got(p)'
      /\ \A p \in Peers \ P : sent'[p] = sent[p]
  BY <1>1, Flushed
<1>4. /\ Relayed' = Relayed /\ index' \in [Relayed -> 0..Len(queue)]
      /\ \A p \in P : index'[p] = Len(queue)
      /\ \A p \in Relayed \ P : index'[p] = index[p]
  <2>1. \A p \in P : FlushedIndex(p) = Len(queue)
    BY <1>0 DEF FlushedIndex
  <2> QED
    BY <1>0, <1>1, <2>1 DEF Relayed
<1>5. TypeOK'
  BY <1>2, <1>3, <1>4 DEF IInv, TypeOK
<1>6. QueueInOrder'
  BY <1>2 DEF IInv, QueueInOrder
<1>7. SentInOrder'
  <2>1. ASSUME NEW p \in Relayed, NEW i \in DOMAIN sent'[p],
               NEW j \in (index'[p] + 1)..Len(queue)
        PROVE  sent'[p][i] < queue[j].number
    <3>1. p \notin P
      BY <1>0, <1>4, <2>1
    <3>2. sent'[p] = sent[p] /\ index'[p] = index[p]
      BY <1>0, <1>3, <1>4, <3>1
    <3> QED
      BY <2>1, <3>2 DEF IInv, SentInOrder
  <2> QED
    BY <1>2, <1>3, <1>4, <2>1 DEF SentInOrder
<1>8. ASSUME NEW p \in Relayed PROVE Cardinality(Missed(p)') <= late[p]
  <2>1. CASE p \in P
    BY <1>2, <1>3, <2>1, FlushMissesNothing
  <2>2. CASE p \notin P
    <3>1. Got(p)' = Got(p) /\ Waiting(p)' = Waiting(p)
      BY <1>0, <1>2, <1>3, <1>4, <2>2 DEF Got, Waiting
    <3> QED
      BY <1>2, <3>1, FlushMissesNothing
  <2> QED
    BY <2>1, <2>2
<1> QED
  BY <1>2, <1>3, <1>4, <1>5, <1>6, <1>7, <1>8 DEF IInv, OneMissPerReplacement

-----------------------------------------------------------------------------
LEMMA Adding ==
  ASSUME IInv, NEW q \in Peers, AddPeer(q)
  PROVE  IInv'
<1>0. /\ Len(queue) \in Nat /\ entered \in Nat /\ Relayed \subseteq Peers
      /\ index \in [Relayed -> 0..Len(queue)]
  BY DEF IInv, TypeOK
<1>1. /\ index' = [p \in Relayed \cup {q} |-> IF p = q THEN Len(queue) ELSE index[p]]
      /\ since' = [since EXCEPT ![q] = entered]
      /\ late' = [late EXCEPT ![q] = 0]
      /\ added' = [added EXCEPT ![q] = @ + 1]
      /\ UNCHANGED <<queue, active, ready, entered, replaced, sent>>
  BY DEF AddPeer
<1>2. /\ Relayed' = Relayed \cup {q} /\ index' \in [Relayed' -> 0..Len(queue')]
      /\ index'[q] = Len(queue)
      /\ \A p \in Relayed : p # q => index'[p] = index[p]
  BY <1>0, <1>1 DEF Relayed
<1>3. /\ since' \in [Peers -> Nat] /\ late' \in [Peers -> Nat] /\ added' \in [Peers -> Nat]
      /\ since'[q] = entered /\ late'[q] = 0
      /\ \A p \in Peers : p # q => since'[p] = since[p] /\ late'[p] = late[p]
  BY <1>0, <1>1 DEF IInv, TypeOK
<1>4. TypeOK'
  BY <1>0, <1>1, <1>2, <1>3 DEF IInv, TypeOK
<1>5. QueueInOrder' /\ OnceInOrder'
  BY <1>1 DEF IInv, QueueInOrder, OnceInOrder
<1>6. SentInOrder'
  <2>1. (index'[q] + 1)..Len(queue) = {}
    BY <1>0, <1>2
  <2> QED
    BY <1>1, <1>2, <2>1 DEF IInv, SentInOrder
<1>7. ASSUME NEW p \in Relayed' PROVE Cardinality(Missed(p)') <= late'[p]
  <2>1. CASE p = q
    <3>1. (since'[q] + 1)..entered' = {}
      BY <1>0, <1>1, <1>3
    <3>2. Missed(p)' = {}
      BY <2>1, <3>1 DEF Missed
    <3> QED
      BY <1>3, <2>1, <3>2, FS_EmptySet
  <2>2. CASE p # q
    <3>1. p \in Relayed /\ p \in Peers
      BY <1>0, <1>2, <2>2
    <3>2. Got(p)' = Got(p) /\ Waiting(p)' = Waiting(p)
      BY <1>1, <1>2, <2>2, <3>1 DEF Got, Waiting
    <3>3. Missed(p)' = Missed(p)
      BY <1>1, <1>3, <2>2, <3>1, <3>2 DEF Missed
    <3> QED
      BY <1>3, <2>2, <3>1, <3>3, NoMoreMissed
  <2> QED
    BY <2>1, <2>2
<1> QED
  BY <1>4, <1>5, <1>6, <1>7 DEF IInv, OneMissPerReplacement

(* Steps after which no index has moved, and fewer peers may be relayed to. *)
LEMMA OtherSteps ==
  ASSUME IInv, NEW Q \in SUBSET Relayed, index' = [p \in Q |-> index[p]],
         active' \in BOOLEAN, ready' \subseteq Peers, UNCHANGED <<queue, history>>
  PROVE  IInv'
<1>1. Relayed' = Q /\ \A p \in Q : index'[p] = index[p]
  BY DEF Relayed
<1>2. TypeOK'
  BY <1>1 DEF IInv, TypeOK, history
<1>3. QueueInOrder' /\ OnceInOrder' /\ SentInOrder'
  BY <1>1 DEF IInv, QueueInOrder, OnceInOrder, SentInOrder, history
<1>4. ASSUME NEW p \in Q PROVE Cardinality(Missed(p)') <= late'[p]
  <2>1. Got(p)' = Got(p) /\ Waiting(p)' = Waiting(p)
    BY <1>1 DEF Got, Waiting, history
  <2>2. Missed(p)' = Missed(p)
    BY <2>1 DEF Missed, history
  <2> QED
    BY <2>2, NoMoreMissed DEF history
<1> QED
  BY <1>1, <1>2, <1>3, <1>4 DEF IInv, OneMissPerReplacement

-----------------------------------------------------------------------------
THEOREM Initially == Init => IInv
<1> SUFFICES ASSUME Init PROVE IInv
  OBVIOUS
<1>1. Relayed = {} /\ DOMAIN queue = {} /\ Len(queue) = 0
  BY DEF Init, Relayed
<1>2. \A p \in Peers : DOMAIN sent[p] = {}
  BY DEF Init
<1>3. TypeOK
  <2>1. index \in [Relayed -> 0..Len(queue)] /\ Relayed \subseteq Peers
    BY <1>1, Zenon DEF Init
  <2>2. queue \in Seq(Message)
    <3>1. <<>> \in Seq(Message)
      OBVIOUS
    <3> QED
      BY <3>1 DEF Init
  <2>4. active \in BOOLEAN /\ ready \subseteq Peers /\ entered \in Nat
    BY DEF Init
  <2>5. replaced \subseteq 1..entered
    BY DEF Init
  <2>3. /\ sent \in [Peers -> Seq(Nat)] /\ since \in [Peers -> Nat]
        /\ late \in [Peers -> Nat] /\ added \in [Peers -> Nat]
    BY DEF Init
  <2> QED
    BY <2>1, <2>2, <2>3, <2>4, <2>5 DEF TypeOK
<1> QED
  BY <1>1, <1>2, <1>3
  DEF IInv, QueueInOrder, SentInOrder, OnceInOrder, OneMissPerReplacement

THEOREM Consecution == IInv /\ [Next]_vars => IInv'
<1> SUFFICES ASSUME IInv, [Next]_vars PROVE IInv'
  OBVIOUS
<1>0. /\ index = [p \in Relayed |-> index[p]] /\ active \in BOOLEAN /\ ready \subseteq Peers
      /\ Relayed \in SUBSET Relayed
  BY DEF IInv, TypeOK
<1>1. CASE Start \/ Stop
  <2>1. active' \in BOOLEAN /\ UNCHANGED <<queue, index, ready, history>>
    BY <1>1 DEF Start, Stop
  <2> QED
    BY <1>0, <2>1, OtherSteps
<1>2. ASSUME NEW p \in Peers, PeerReady(p) \/ PeerLost(p) PROVE IInv'
  <2>1. ready' \subseteq Peers /\ UNCHANGED <<queue, index, active, history>>
    BY <1>0, <1>2 DEF PeerReady, PeerLost
  <2> QED
    BY <1>0, <2>1, OtherSteps
<1>3. ASSUME NEW p \in Peers, RemovePeer(p) PROVE IInv'
  <2>1. /\ index' = [q \in Relayed \ {p} |-> index[q]]
        /\ UNCHANGED <<queue, active, ready, history>>
    BY <1>3 DEF RemovePeer
  <2>2. Relayed \ {p} \in SUBSET Relayed
    OBVIOUS
  <2> QED
    BY <1>0, <2>1, <2>2, OtherSteps
<1>4. ASSUME NEW p \in Peers, AddPeer(p) PROVE IInv'
  BY <1>4, Adding
<1>5. CASE OnTimer
  BY <1>5, Timer
<1>6. CASE OnTimerThrows
  BY <1>6, TimerThrows
<1>7. ASSUME NEW s \in Subjects, NEW t \in Stamp(s), Enqueue(s, t) PROVE IInv'
  <2>1. EnqueueFirst(s, t) \/ \E i \in Places(s) : Replace(i, t)
    BY <1>7 DEF Enqueue
  <2> QED
    BY <1>7, <2>1, EnteringFirst, EnteringAgain
<1>8. CASE UNCHANGED vars
  BY <1>0, <1>8, OtherSteps DEF vars, history
<1> QED
  BY <1>1, <1>2, <1>3, <1>4, <1>5, <1>6, <1>7, <1>8 DEF Next

(* The inductive invariant holds. *)
THEOREM Invariance == Spec => []IInv
BY Initially, Consecution, PTL DEF Spec

(* Every variable keeps its type, and no index is behind the queue. *)
THEOREM TypeCorrect == Spec => []TypeOK
<1>1. IInv => TypeOK
  BY DEF IInv
<1> QED
  BY <1>1, Invariance, PTL

(* No peer is sent a message twice, or before an older one (_flushToPeer). *)
THEOREM SentOnceInOrder == Spec => []OnceInOrder
<1>1. IInv => OnceInOrder
  BY DEF IInv
<1> QED
  BY <1>1, Invariance, PTL

(* A peer misses at most as many messages as were replaced in front of its *)
(* index (enqueue): none, if there was no such replacement.                *)
THEOREM MissesAreReplacements == Spec => []OneMissPerReplacement
<1>1. IInv => OneMissPerReplacement
  BY DEF IInv
<1> QED
  BY <1>1, Invariance, PTL

=============================================================================
