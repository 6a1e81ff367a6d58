------------------------- MODULE GossipStoreProofs --------------------------
(***************************************************************************)
(* Theorems about GossipStore: what a store holds of a channel belongs     *)
(* together, and the graph is whole, for all channels, nodes, messages,    *)
(* interleavings, crashes and failing writes.                              *)
(***************************************************************************)
EXTENDS GossipStore, SequenceTheorems, TLAPS

-----------------------------------------------------------------------------
(***************************************************************************)
(* The inductive invariant behind these: what the operations that a        *)
(* handler has yet to do say about the store.  First, which of them may    *)
(* stand behind which, and that those of a process are about one channel.  *)
(***************************************************************************)
Work(p) == Range(todo[p])

Deleting == {"dropUpd", "unlink", "dropAnn", "sweep"}
Following == {"putOut", "link", "flushUpdates", "take", "flushNodes", "takeNode", "deliver"} \cup Deleting
Unshared == {"node", "putNode", "deliver", "sweep"}     \* these have no channel

Before(a, b) ==
    /\ b.op \in Following
    /\ a.op # "putLinks" => (b.op \in Deleting <=> a.op \in Deleting \cup {"forget"})
    /\ a.op \in {"dropAnn", "forget", "sweep"} => b.op = "sweep"
    /\ a.op \notin Unshared /\ b.op \notin Unshared => a.c = b.c

Ordered(ops) == \A i, j \in DOMAIN ops : i < j => Before(ops[i], ops[j])

InOrder == \A p \in Process : Ordered(todo[p])

(***************************************************************************)
(* A handler that saves or deletes has all that belongs to it still to do. *)
(***************************************************************************)
HandlersAreWhole ==
    /\ \A p \in Process \ {"filter"} : \A o \in Work(p) : o.op \in Deleting \cup {"putLinks", "forget"}
    /\ \A p \in Process : \A o \in Work(p) :
        /\ o.op = "putAnn" => /\ Op("flushUpdates", o.c) \in Work(p)
                              /\ \A n \in EndsOf(o.c) : [op |-> "link", c |-> o.c, n |-> n] \in Work(p)
        /\ o.op \in {"dropUpd", "unlink"} => Op("dropAnn", o.c) \in Work(p)
        /\ o.op = "forget" => kind = "memory"

RacesAreSeen ==
    \A p, q \in Process : p # q => ChannelsOf(todo[p]) \cap ChannelsOf(todo[q]) \subseteq raced

LinksAreAtEnds ==
    /\ \A n \in Node : \A c \in store.link[n] : n \in EndsOf(c)
    /\ \A p \in Process : \A o \in Work(p) :
        /\ o.op \in {"link", "unlink", "putLinks"} => o.n \in EndsOf(o.c)
        /\ o.op = "putLinks" => \A c \in o.list : o.n \in EndsOf(c)

(***************************************************************************)
(* What is written after the announcement is written once it is stored; a  *)
(* list of channels that was read may be old by now, but it is right for   *)
(* the channel that it was read for.                                       *)
(***************************************************************************)
SavesAreAnnounced ==
    \A p \in Process : \A o \in Work(p) :
        (o.op \in {"putOut", "link", "flushUpdates", "take", "putUpd"} /\ o.c \notin raced) =>
            store.ann[o.c] # "none" \/ \E x \in Work(p) : x.op = "putAnn"

ListsAreRight ==
    \A p \in Process : \A o \in Work(p) :
        o.op = "putLinks" =>
            /\ o.c \in o.list <=> Op("dropAnn", o.c) \notin Work(p)
            /\ o.c \in o.list /\ o.c \notin raced => store.ann[o.c] # "none"

(***************************************************************************)
(* What a channel that is being deleted still has is still to be deleted.  *)
(***************************************************************************)
DeletesAreWhole ==
    \A p \in Process : \A c \in Channel \ raced :
        Op("dropAnn", c) \in Work(p) =>
            /\ \A d \in Direction :
                 store.upd[<<c, d>>] # 0 \/ last[<<c, d>>] # None => [op |-> "dropUpd", c |-> c, d |-> d] \in Work(p)
            /\ \A n \in Node :
                 c \in store.link[n] /\ <<c, n>> \notin lost =>
                     \E o \in Work(p) : o.op \in {"unlink", "putLinks"} /\ o.c = c /\ o.n = n

(***************************************************************************)
(* A link that is missing is still to be written, or its channel to go, or *)
(* it was overwritten.                                                     *)
(***************************************************************************)
Linking(p, c, n) ==
    \/ [op |-> "link", c |-> c, n |-> n] \in Work(p)
    \/ \E o \in Work(p) : o.op = "putLinks" /\ o.c = c /\ o.n = n /\ c \in o.list
    \/ Op("dropAnn", c) \in Work(p)

LinksAreComing ==
    \A c \in Channel \ (raced \cup cut) : \A n \in EndsOf(c) :
        store.ann[c] # "none" /\ c \notin store.link[n] /\ <<c, n>> \notin lost =>
            \E p \in Process : Linking(p, c, n)

(***************************************************************************)
(* The last update is at hand: held, stored, or in the handler.            *)
(***************************************************************************)
AtHand(c, d, u) ==
    \/ [op |-> "update", c |-> c, d |-> d, at |-> u.at, ok |-> u.ok] \in Work("filter")
    \/ [op |-> "putUpd", c |-> c, d |-> d, at |-> u.at] \in Work("filter")
    \/ store.ann[c] = "none" /\ pending.upd[<<c, d>>] = u
    \/ store.ann[c] # "none" /\ (u.ok => store.upd[<<c, d>>] >= u.at)
    \/ /\ store.ann[c] # "none" /\ pending.upd[<<c, d>>] = u
       /\ Op("flushUpdates", c) \in Work("filter") \/ [op |-> "take", c |-> c, d |-> d] \in Work("filter")

LastIsAtHand ==
    /\ \A c \in Channel \ (raced \cup cut) : \A d \in Direction :
          last[<<c, d>>] # None => AtHand(c, d, last[<<c, d>>])
    /\ \A o \in Work("filter") :
          o.op = "update" /\ o.c \notin raced /\ last[<<o.c, o.d>>] # None =>
             store.ann[o.c] # "none" \/ last[<<o.c, o.d>>] = [at |-> o.at, ok |-> o.ok]
    /\ \A o \in Work("filter") :
          o.op = "putUpd" /\ o.c \notin raced => store.upd[<<o.c, o.d>>] < o.at

StoreInv ==
    /\ HandlersAreWhole /\ LinksAreAtEnds /\ SavesAreAnnounced /\ ListsAreRight
    /\ DeletesAreWhole /\ LinksAreComing /\ LastIsAtHand /\ NothingDangles

SInv == TypeOK /\ InOrder /\ RacesAreSeen /\ StoreInv

IInv == SInv /\ GraphIsWhole

-----------------------------------------------------------------------------
USE EndsAssumption

(* What the fields of an operation are.                                    *)
LEMMA OperationForms ==
  ASSUME NEW o \in Operation
  PROVE  /\ o.op \in Unshared <=> "c" \notin DOMAIN o
         /\ o.op \notin Unshared => o.c \in Channel
         /\ o.op \in {"update", "take", "dropUpd", "putUpd"} => o.d \in Direction
         /\ o.op \in {"update", "node"} => o.at \in Nat /\ o.ok \in BOOLEAN
         /\ o.op \in {"putUpd", "putNode"} => o.at \in Nat
         /\ o.op \in {"link", "unlink", "takeNode", "putLinks", "node", "putNode"} => o.n \in Node
         /\ o.op = "putLinks" => o.list \subseteq Channel
         /\ o.op = "putAnn" => o.k \in {"plain", "extended"}
         /\ o.op = "channel" => o.ok \in BOOLEAN
         /\ o.op = "deliver" => o.m \in Gossip
         /\ o.op = "sweep" => o.cs \subseteq Channel
         /\ o.op \in {"flushUpdates", "dropAnn"} => o = Op(o.op, o.c)
         /\ o.op \in {"link", "unlink"} => o = [op |-> o.op, c |-> o.c, n |-> o.n]
         /\ o.op \in {"take", "dropUpd"} => o = [op |-> o.op, c |-> o.c, d |-> o.d]
         /\ o.op = "update" => o = [op |-> "update", c |-> o.c, d |-> o.d, at |-> o.at, ok |-> o.ok]
         /\ o.op = "putUpd" => o = [op |-> "putUpd", c |-> o.c, d |-> o.d, at |-> o.at]
BY GossipAssumption DEF Operation, ChannelMessage, UpdateMessage, NodeMessage, Unshared, Op

(* What is in a sequence, and whether it is in order, when it is put       *)
(* together or its first operation is taken.                               *)
LEMMA Joining ==
  ASSUME NEW a \in Seq(Operation), NEW b \in Seq(Operation)
  PROVE  /\ a \o b \in Seq(Operation)
         /\ Range(a \o b) = Range(a) \cup Range(b)
         /\ Ordered(a) /\ Ordered(b) /\ (\A x \in Range(a), y \in Range(b) : Before(x, y)) => Ordered(a \o b)
<1> DEFINE u == a \o b
<1>1. /\ Len(a) \in Nat /\ Len(b) \in Nat /\ DOMAIN a = 1..Len(a) /\ DOMAIN b = 1..Len(b)
      /\ u \in Seq(Operation) /\ DOMAIN u = 1..(Len(a) + Len(b))
      /\ \A i \in 1..(Len(a) + Len(b)) : u[i] = IF i <= Len(a) THEN a[i] ELSE b[i - Len(a)]
  OBVIOUS
<1> HIDE DEF u
<1>2. ASSUME NEW i \in DOMAIN u
      PROVE  \/ i \in DOMAIN a /\ u[i] = a[i] /\ i <= Len(a)
             \/ i - Len(a) \in DOMAIN b /\ u[i] = b[i - Len(a)] /\ i > Len(a)
  BY <1>1
<1>3. ASSUME NEW i \in DOMAIN a PROVE i \in DOMAIN u /\ u[i] = a[i]
  BY <1>1
<1>4. ASSUME NEW i \in DOMAIN b PROVE i + Len(a) \in DOMAIN u /\ u[i + Len(a)] = b[i]
  <2> DEFINE j == i + Len(a)
  <2>1. j \in 1..(Len(a) + Len(b)) /\ ~(j <= Len(a)) /\ j - Len(a) = i
    BY <1>1
  <2> HIDE DEF j
  <2>2. j \in DOMAIN u /\ u[j] = b[i]
    BY <1>1, <2>1
  <2> QED
    BY <2>2 DEF j
<1>5. Range(u) = Range(a) \cup Range(b)
  <2>1. Range(u) \subseteq Range(a) \cup Range(b)
    BY <1>2 DEF Range
  <2>2. Range(a) \subseteq Range(u)
    BY <1>3 DEF Range
  <2>3. Range(b) \subseteq Range(u)
    BY <1>4 DEF Range
  <2> QED
    BY <2>1, <2>2, <2>3
<1>6. ASSUME Ordered(a), Ordered(b), \A x \in Range(a), y \in Range(b) : Before(x, y)
      PROVE  Ordered(u)
  <2> SUFFICES ASSUME NEW i \in DOMAIN u, NEW j \in DOMAIN u, i < j PROVE Before(u[i], u[j])
    BY DEF Ordered
  <2>0. i \in Int /\ j \in Int /\ Len(a) \in Int
    BY <1>1
  <2>1. CASE i <= Len(a) /\ j <= Len(a)
    BY <1>2, <1>6, <2>0, <2>1 DEF Ordered
  <2>2. CASE i <= Len(a) /\ j > Len(a)
    <3>1. u[i] \in Range(a)
      BY <1>2, <2>0, <2>2 DEF Range
    <3>2. u[j] \in Range(b)
      BY <1>2, <2>0, <2>2 DEF Range
    <3> QED
      BY <1>6, <3>1, <3>2
  <2>3. CASE i > Len(a) /\ j > Len(a)
    <3>1. i - Len(a) \in DOMAIN b /\ j - Len(a) \in DOMAIN b /\ i - Len(a) < j - Len(a)
          /\ u[i] = b[i - Len(a)] /\ u[j] = b[j - Len(a)]
      BY <1>2, <2>0, <2>3
    <3> QED
      BY <1>6, <3>1 DEF Ordered
  <2> QED
    BY <2>0, <2>1, <2>2, <2>3
<1> QED
  BY <1>1, <1>5, <1>6 DEF u

LEMMA Taking ==
  ASSUME NEW s \in Seq(Operation), s # <<>>
  PROVE  /\ Head(s) \in Operation /\ Tail(s) \in Seq(Operation)
         /\ Range(s) = {Head(s)} \cup Range(Tail(s))
         /\ Ordered(s) => Ordered(Tail(s)) /\ \A y \in Range(Tail(s)) : Before(Head(s), y)
<1> DEFINE t == Tail(s)
<1>1. /\ Len(s) \in Nat \ {0} /\ DOMAIN s = 1..Len(s) /\ Head(s) = s[1] /\ Head(s) \in Operation
      /\ t \in Seq(Operation) /\ DOMAIN t = 1..(Len(s) - 1)
      /\ \A i \in 1..(Len(s) - 1) : t[i] = s[i + 1]
  OBVIOUS
<1> HIDE DEF t
<1>2. ASSUME NEW i \in DOMAIN s PROVE i = 1 \/ (i - 1 \in DOMAIN t /\ s[i] = t[i - 1])
  BY <1>1
<1>3. 1 \in DOMAIN s /\ \A i \in DOMAIN t : i + 1 \in DOMAIN s /\ i + 1 > 1 /\ t[i] = s[i + 1] /\ i \in Int
  BY <1>1
<1>4. Range(s) = {Head(s)} \cup Range(t)
  <2>1. Range(s) \subseteq {Head(s)} \cup Range(t)
    BY <1>1, <1>2 DEF Range
  <2>2. Head(s) \in Range(s) /\ Range(t) \subseteq Range(s)
    BY <1>1, <1>3 DEF Range
  <2> QED
    BY <2>1, <2>2
<1>5. ASSUME Ordered(s) PROVE Ordered(t)
  <2> SUFFICES ASSUME NEW i \in DOMAIN t, NEW j \in DOMAIN t, i < j PROVE Before(t[i], t[j])
    BY DEF Ordered
  <2>1. i + 1 < j + 1
    BY <1>3
  <2> QED
    BY <1>3, <1>5, <2>1 DEF Ordered
<1>6. ASSUME Ordered(s), NEW y \in Range(t) PROVE Before(Head(s), y)
  <2>1. PICK i \in DOMAIN t : y = t[i]
    BY DEF Range
  <2>2. 1 < i + 1
    BY <1>3
  <2> QED
    BY <1>1, <1>3, <1>6, <2>1, <2>2 DEF Ordered
<1> QED
  BY <1>1, <1>4, <1>5, <1>6 DEF t

(* Short sequences and what is in them.                                    *)
LEMMA Short ==
  /\ Range(<<>>) = {} /\ Ordered(<<>>) /\ <<>> \in Seq(Operation)
  /\ \A s \in Seq(Operation) : Range(s) \subseteq Operation /\ (Range(s) = {} <=> s = <<>>)
  /\ \A a \in Operation : <<a>> \in Seq(Operation) /\ Range(<<a>>) = {a} /\ Ordered(<<a>>)
  /\ \A a, b \in Operation : <<a, b>> \in Seq(Operation) /\ Range(<<a, b>>) = {a, b}
                             /\ (Before(a, b) => Ordered(<<a, b>>))
<1>1. Range(<<>>) = {} /\ Ordered(<<>>) /\ <<>> \in Seq(Operation)
  BY DEF Range, Ordered
<1>2. ASSUME NEW s \in Seq(Operation) PROVE Range(s) \subseteq Operation /\ (Range(s) = {} <=> s = <<>>)
  <2>1. Range(s) \subseteq Operation
    BY DEF Range
  <2>2. s # <<>> => Range(s) # {}
    BY Taking
  <2> QED
    BY <1>1, <2>1, <2>2
<1>3. ASSUME NEW a \in Operation PROVE <<a>> \in Seq(Operation) /\ Range(<<a>>) = {a} /\ Ordered(<<a>>)
  BY DEF Range, Ordered
<1>4. ASSUME NEW a \in Operation, NEW b \in Operation
      PROVE  <<a, b>> \in Seq(Operation) /\ Range(<<a, b>>) = {a, b} /\ (Before(a, b) => Ordered(<<a, b>>))
  <2> DEFINE x == <<a>>
             y == <<b>>
  <2>1. x \in Seq(Operation) /\ Range(x) = {a} /\ Ordered(x)
    BY <1>3
  <2>2. y \in Seq(Operation) /\ Range(y) = {b} /\ Ordered(y)
    BY <1>3
  <2>3. <<a, b>> = x \o y
    <3>1. <<a, b>> = Append(x, b)
      OBVIOUS
    <3>2. x \o y = Append(x, b)
      OBVIOUS
    <3> QED
      BY <3>1, <3>2
  <2> HIDE DEF x, y
  <2>4. x \o y \in Seq(Operation) /\ Range(x \o y) = {a, b}
    BY <2>1, <2>2, Joining
  <2>5. Before(a, b) => Ordered(x \o y)
    BY <2>1, <2>2, Joining
  <2> QED
    BY <2>3, <2>4, <2>5
<1> QED
  BY <1>1, <1>2, <1>3, <1>4

LEMMA EndsAreNodes == ASSUME NEW c \in Channel PROVE Ends[c][1] \in Node /\ Ends[c][2] \in Node /\ EndsOf(c) \subseteq Node
BY DEF EndsOf

LEMMA SaveOpsWork ==
  ASSUME NEW c \in Channel, NEW k \in {"plain", "extended"}
  PROVE  /\ SaveOps(c, k) \in Seq(Operation) /\ Ordered(SaveOps(c, k))
         /\ Range(SaveOps(c, k)) =
              {[op |-> "putAnn", c |-> c, k |-> k], LinkOp("link", c, 1), LinkOp("link", c, 2),
               Op("flushUpdates", c), Op("flushNodes", c)}
              \cup (IF k = "extended" THEN {Op("putOut", c)} ELSE {})
<1> DEFINE a == [op |-> "putAnn", c |-> c, k |-> k]
           b == Op("putOut", c)
           l1 == LinkOp("link", c, 1)
           l2 == LinkOp("link", c, 2)
           u == Op("flushUpdates", c)
           n == Op("flushNodes", c)
           m == IF k = "extended" THEN <<b>> ELSE <<>>
           x == <<l1, l2, u, n>>
<1>1. a \in Operation /\ b \in Operation /\ l1 \in Operation /\ l2 \in Operation /\ u \in Operation /\ n \in Operation
  BY EndsAreNodes DEF Operation, Op, LinkOp
<1>2. \A y \in {a, b, l1, l2, u, n}, z \in {b, l1, l2, u, n} : Before(y, z)
  BY DEF Before, Following, Deleting, Unshared, Op, LinkOp
<1>3. SaveOps(c, k) = <<a>> \o m \o x
  BY DEF SaveOps
<1>4. /\ <<l1, l2>> \in Seq(Operation) /\ Range(<<l1, l2>>) = {l1, l2} /\ Ordered(<<l1, l2>>)
      /\ <<u, n>> \in Seq(Operation) /\ Range(<<u, n>>) = {u, n} /\ Ordered(<<u, n>>)
  <2> HIDE DEF a, b, l1, l2, u, n
  <2> QED
    BY <1>1, <1>2, Short
<1>5. x \in Seq(Operation) /\ Range(x) = {l1, l2, u, n} /\ Ordered(x)
  <2> DEFINE y == <<l1, l2>>
             z == <<u, n>>
  <2> HIDE DEF a, b, l1, l2, u, n
  <2>1. x = y \o z
    OBVIOUS
  <2>2. /\ y \in Seq(Operation) /\ Range(y) = {l1, l2} /\ Ordered(y)
        /\ z \in Seq(Operation) /\ Range(z) = {u, n} /\ Ordered(z)
    BY <1>4
  <2> HIDE DEF y, z
  <2>3. \A i \in Range(y), j \in Range(z) : Before(i, j)
    BY <1>2, <2>2
  <2> HIDE DEF x
  <2>4. y \o z \in Seq(Operation) /\ Range(y \o z) = Range(y) \cup Range(z) /\ Ordered(y \o z)
    BY <2>2, <2>3, Joining
  <2> QED
    BY <2>1, <2>2, <2>4
<1> HIDE DEF x
<1>6. m \in Seq(Operation) /\ Range(m) = (IF k = "extended" THEN {b} ELSE {}) /\ Ordered(m)
  BY <1>1, Short
<1> HIDE DEF m, a, b, l1, l2, u, n
<1>7. <<a>> \in Seq(Operation) /\ Range(<<a>>) = {a} /\ Ordered(<<a>>)
  BY <1>1, Short
<1>8. <<a>> \o m \in Seq(Operation) /\ Range(<<a>> \o m) = {a} \cup Range(m) /\ Ordered(<<a>> \o m)
  BY <1>2, <1>6, <1>7, Joining
<1>9. /\ <<a>> \o m \o x \in Seq(Operation) /\ Range(<<a>> \o m \o x) = {a} \cup Range(m) \cup {l1, l2, u, n}
      /\ Ordered(<<a>> \o m \o x)
  <2> DEFINE y == <<a>> \o m
  <2>1. y \in Seq(Operation) /\ Range(y) = {a} \cup Range(m) /\ Ordered(y)
    BY <1>8
  <2> HIDE DEF y
  <2>2. \A i \in Range(y), j \in Range(x) : Before(i, j)
    BY <1>2, <1>5, <1>6, <2>1
  <2>3. y \o x \in Seq(Operation) /\ Range(y \o x) = Range(y) \cup Range(x) /\ Ordered(y \o x)
    BY <1>5, <2>1, <2>2, Joining
  <2> QED
    BY <1>5, <2>1, <2>3 DEF y
<1> QED
  BY <1>3, <1>6, <1>9 DEF a, b, l1, l2, u, n

LEMMA DeleteOpsWork ==
  ASSUME NEW c \in Channel
  PROVE  /\ DeleteOps(c) \in Seq(Operation) /\ Ordered(DeleteOps(c)) /\ DeleteOps(c) # <<>>
         /\ kind = "memory" => Range(DeleteOps(c)) = {Op("forget", c)}
         /\ kind # "memory" =>
              Range(DeleteOps(c)) =
                {[op |-> "dropUpd", c |-> c, d |-> 0], [op |-> "dropUpd", c |-> c, d |-> 1],
                 LinkOp("unlink", c, 1), LinkOp("unlink", c, 2), Op("dropAnn", c)}
<1> DEFINE f == Op("forget", c)
           a == [op |-> "dropUpd", c |-> c, d |-> 0]
           b == [op |-> "dropUpd", c |-> c, d |-> 1]
           l1 == LinkOp("unlink", c, 1)
           l2 == LinkOp("unlink", c, 2)
           n == Op("dropAnn", c)
<1>1. a \in Operation /\ b \in Operation /\ l1 \in Operation /\ l2 \in Operation /\ f \in Operation /\ n \in Operation
  BY EndsAreNodes DEF Operation, Op, LinkOp, Direction
<1>2. \A x \in {a, b, l1, l2}, y \in {b, l1, l2, n} : Before(x, y)
  BY DEF Before, Following, Deleting, Unshared, Op, LinkOp
<1>3. CASE kind = "memory"
  <2>1. DeleteOps(c) = <<f>>
    BY <1>3 DEF DeleteOps
  <2>2. f \in Operation /\ {f} # {}
    BY <1>1
  <2> HIDE DEF f
  <2> QED
    BY <1>3, <2>1, <2>2, Short DEF f
<1>4. CASE kind # "memory"
  <2>1. DeleteOps(c) = <<a, b, l1, l2, n>>
    BY <1>4 DEF DeleteOps
  <2> HIDE DEF a, b, l1, l2, n
  <2>2. /\ <<a, b>> \in Seq(Operation) /\ Range(<<a, b>>) = {a, b} /\ Ordered(<<a, b>>)
        /\ <<l1, l2>> \in Seq(Operation) /\ Range(<<l1, l2>>) = {l1, l2} /\ Ordered(<<l1, l2>>)
        /\ <<n>> \in Seq(Operation) /\ Range(<<n>>) = {n} /\ Ordered(<<n>>)
    BY <1>1, <1>2, Short
  <2> DEFINE x == <<a, b>>
             y == <<l1, l2>>
             z == <<n>>
  <2>3. <<a, b, l1, l2, n>> = (x \o y) \o z
    OBVIOUS
  <2>4. /\ x \in Seq(Operation) /\ Range(x) = {a, b} /\ Ordered(x)
        /\ y \in Seq(Operation) /\ Range(y) = {l1, l2} /\ Ordered(y)
        /\ z \in Seq(Operation) /\ Range(z) = {n} /\ Ordered(z)
    BY <2>2
  <2> HIDE DEF x, y, z
  <2>5. \A i \in Range(x), j \in Range(y) : Before(i, j)
    BY <1>2, <2>4
  <2>6. x \o y \in Seq(Operation) /\ Range(x \o y) = Range(x) \cup Range(y) /\ Ordered(x \o y)
    BY <2>4, <2>5, Joining
  <2> DEFINE w == x \o y
  <2>7. \A i \in Range(w), j \in Range(z) : Before(i, j)
    BY <1>2, <2>4, <2>6
  <2> HIDE DEF w
  <2>8. w \o z \in Seq(Operation) /\ Range(w \o z) = Range(w) \cup Range(z) /\ Ordered(w \o z)
    BY <2>4, <2>6, <2>7, Joining DEF w
  <2>9. DeleteOps(c) = w \o z
    BY <2>1, <2>3 DEF w
  <2>10. DeleteOps(c) \in Seq(Operation) /\ Range(DeleteOps(c)) = {a, b, l1, l2, n} /\ Ordered(DeleteOps(c))
    BY <2>4, <2>6, <2>8, <2>9 DEF w
  <2>11. DeleteOps(c) # <<>>
    BY <2>1
  <2> QED
    BY <1>4, <2>10, <2>11 DEF a, b, l1, l2, n
<1> QED
  BY <1>3, <1>4

-----------------------------------------------------------------------------
(***************************************************************************)
(* What a step makes of the work of process p: the first operation goes,   *)
(* N comes in its place.                                                   *)
(***************************************************************************)
First(p) == Head(todo[p])
Rest(p) == Range(Tail(todo[p]))

Moves(p, N) ==
    /\ p \in Process /\ todo[p] # <<>>
    /\ \A q \in Process \ {p} : Work(q)' = Work(q)
    /\ Work(p)' = N \cup Rest(p)

(* A channel that two processes work on is raced.                          *)
LEMMA Moving ==
  ASSUME TypeOK, InOrder, RacesAreSeen, NEW p \in Process, todo[p] # <<>>
  PROVE  /\ First(p) \in Operation /\ First(p) \in Work(p)
         /\ Work(p) = {First(p)} \cup Rest(p)
         /\ \A q \in Process : Work(q) \subseteq Operation
         /\ \A o \in Rest(p) : o \in Operation /\ Before(First(p), o)
         /\ \A q \in Process \ {p} : \A o \in Work(q), x \in Work(p) :
              o.op \notin Unshared /\ x.op \notin Unshared /\ o.c = x.c => o.c \in raced
<1>1. \A q \in Process : todo[q] \in Seq(Operation) /\ Ordered(todo[q]) /\ Work(q) \subseteq Operation
  BY Short DEF TypeOK, InOrder, Work
<1>2. /\ First(p) \in Operation /\ Work(p) = {First(p)} \cup Rest(p)
      /\ Rest(p) \subseteq Operation /\ \A o \in Rest(p) : Before(First(p), o)
  BY <1>1, Short, Taking DEF First, Rest, Work
<1>3. ASSUME NEW q \in Process \ {p}, NEW o \in Work(q), NEW x \in Work(p),
             o.op \notin Unshared, x.op \notin Unshared, o.c = x.c
      PROVE  o.c \in raced
  <2>1. ASSUME NEW r \in Process, NEW y \in Work(r), y.op \notin Unshared PROVE y.c \in ChannelsOf(todo[r])
    BY <1>1, <2>1, OperationForms DEF ChannelsOf, Work
  <2>2. o.c \in ChannelsOf(todo[q]) /\ o.c \in ChannelsOf(todo[p])
    BY <1>3, <2>1
  <2> QED
    BY <2>2 DEF RacesAreSeen
<1> QED
  BY <1>1, <1>2, <1>3

(* Then and Stop, in these terms; the order of operations is kept.         *)
LEMMA ThenMoves ==
  ASSUME TypeOK, InOrder, NEW p \in Process, todo[p] # <<>>,
         NEW ops \in Seq(Operation), Ordered(ops),
         \A a \in Range(ops), b \in Rest(p) : Before(a, b),
         Then(p, ops)
  PROVE  Moves(p, Range(ops)) /\ InOrder' /\ todo' \in [Process -> Seq(Operation)]
<1>1. todo \in [Process -> Seq(Operation)] /\ \A q \in Process : Ordered(todo[q])
  BY DEF TypeOK, InOrder
<1>2. todo' = [todo EXCEPT ![p] = ops \o Tail(todo[p])]
  BY DEF Then
<1>3. Tail(todo[p]) \in Seq(Operation) /\ Ordered(Tail(todo[p]))
  BY <1>1, Taking
<1> DEFINE t == Tail(todo[p])
<1>4. ops \o t \in Seq(Operation) /\ Range(ops \o t) = Range(ops) \cup Range(t) /\ Ordered(ops \o t)
  <2>1. \A x \in Range(ops), y \in Range(t) : Before(x, y)
    BY DEF Rest
  <2> HIDE DEF t
  <2>2. t \in Seq(Operation) /\ Ordered(t)
    BY <1>3 DEF t
  <2> QED
    BY <2>1, <2>2, Joining
<1>5. todo'[p] = ops \o t /\ \A q \in Process \ {p} : todo'[q] = todo[q]
  BY <1>1, <1>2
<1>6. InOrder'
  BY <1>1, <1>4, <1>5 DEF InOrder
<1>7. todo' \in [Process -> Seq(Operation)]
  BY <1>1, <1>2, <1>4
<1>8. Moves(p, Range(ops))
  BY <1>4, <1>5 DEF Moves, Work, Rest
<1> QED
  BY <1>6, <1>7, <1>8

LEMMA StopMoves ==
  ASSUME TypeOK, InOrder, NEW p \in Process, Stop(p)
  PROVE  /\ Work(p)' = {} /\ \A q \in Process \ {p} : Work(q)' = Work(q)
         /\ InOrder' /\ todo' \in [Process -> Seq(Operation)]
<1>1. todo \in [Process -> Seq(Operation)] /\ \A q \in Process : Ordered(todo[q])
  BY DEF TypeOK, InOrder
<1>2. todo'[p] = <<>> /\ (\A q \in Process \ {p} : todo'[q] = todo[q]) /\ todo' \in [Process -> Seq(Operation)]
  BY <1>1, Short DEF Stop
<1> QED
  BY <1>1, <1>2, Short DEF InOrder, Work

LEMMA Listed ==
  ASSUME NEW s \in Seq(Operation)
  PROVE  /\ ChannelsOf(s) \subseteq Channel /\ LeftUndone(s) \subseteq Channel
         /\ s # <<>> => LeftUndone(Tail(s)) \subseteq Channel
<1>1. \A t \in Seq(Operation) : ChannelsOf(t) \subseteq Channel /\ LeftUndone(t) \subseteq Channel
  <2> SUFFICES ASSUME NEW t \in Seq(Operation)
               PROVE  ChannelsOf(t) \subseteq Channel /\ LeftUndone(t) \subseteq Channel
    OBVIOUS
  <2>1. Range(t) \subseteq Operation
    BY Short
  <2>2. ChannelsOf(t) \subseteq Channel
    BY <2>1, OperationForms DEF ChannelsOf
  <2>3. LeftUndone(t) \subseteq Channel
    BY <2>1, OperationForms DEF LeftUndone, Unshared
  <2> QED
    BY <2>2, <2>3
<1> QED
  BY <1>1, Taking

(* Races are seen as they happen.                                          *)
LEMMA Seeing ==
  ASSUME todo' \in [Process -> Seq(Operation)], raced' = raced \cup Races'
  PROVE  RacesAreSeen'
<1> SUFFICES ASSUME NEW p \in Process, NEW q \in Process, p # q,
                    NEW c \in ChannelsOf(todo'[p]) \cap ChannelsOf(todo'[q])
             PROVE  c \in raced'
  BY DEF RacesAreSeen
<1>1. c \in Channel
  BY Listed
<1> QED
  BY <1>1 DEF Races

(***************************************************************************)
(* Operations that change nothing that belongs to a channel.               *)
(***************************************************************************)
Quiet == {"channel", "chain", "deliver", "node", "takeNode", "putNode", "flushNodes", "sweep"}

LEMMA QuietStep ==
  ASSUME TypeOK, InOrder, RacesAreSeen, StoreInv,
         NEW p, NEW N \in SUBSET Operation, Moves(p, N),
         First(p).op \in Quiet \cup {"putOut"}, \A o \in N : o.op \in Quiet /\ (First(p).op = "sweep" => o.op = "sweep"),
         raced \subseteq raced', cut \subseteq cut',
         kind' = kind, store'.ann = store.ann, store'.upd = store.upd, store'.link = store.link,
         pending'.upd = pending.upd, last' = last, lost' = lost
  PROVE  StoreInv'
<1>0. p \in Process /\ todo[p] # <<>>
  BY DEF Moves
<1>1. /\ First(p) \in Operation /\ Work(p) = {First(p)} \cup Rest(p)
      /\ \A q \in Process : Work(q) \subseteq Operation
      /\ Work(p)' = N \cup Rest(p) /\ \A q \in Process \ {p} : Work(q)' = Work(q)
      /\ p # "filter" => First(p).op = "sweep"
  BY <1>0, Moving DEF Moves, StoreInv, HandlersAreWhole, Deleting, Quiet
<1>2. \A q \in Process : \A o \in Work(q) : o.op \notin Quiet \cup {"putOut"} => o \in Work(q)'
  BY <1>1
<1>3. \A q \in Process : \A o \in Work(q)' : o \in Work(q) \/ o.op \in Quiet
  BY <1>1
<1>4. HandlersAreWhole'
  <2>1. ASSUME NEW q \in Process \ {"filter"}, NEW o \in Work(q)' PROVE o.op \in Deleting \cup {"putLinks", "forget"}
    <3>1. o \in Work(q) \/ o.op = "sweep"
      BY <1>1, <2>1
    <3> QED
      BY <3>1 DEF StoreInv, HandlersAreWhole, Deleting
  <2> QED
    BY <1>1, <1>2, <1>3, <2>1 DEF StoreInv, HandlersAreWhole, Quiet, Op
<1>5. LinksAreAtEnds'
  BY <1>3 DEF StoreInv, LinksAreAtEnds, Quiet
<1>6. SavesAreAnnounced'
  BY <1>2, <1>3 DEF StoreInv, SavesAreAnnounced, Quiet
<1>7. ListsAreRight'
  BY <1>2, <1>3 DEF StoreInv, ListsAreRight, Quiet, Op
<1>8. DeletesAreWhole'
  BY <1>2, <1>3 DEF StoreInv, DeletesAreWhole, Quiet, Op
<1>9. LinksAreComing'
  BY <1>2 DEF StoreInv, LinksAreComing, Linking, Quiet, Op
<1>10. LastIsAtHand'
  <2>1. "filter" \in Process
    BY DEF Process
  <2>2. ASSUME NEW c, NEW d, NEW u, AtHand(c, d, u) PROVE AtHand(c, d, u)'
    BY <1>2, <2>1, <2>2 DEF AtHand, Quiet, Op
  <2> QED
    BY <1>3, <2>1, <2>2 DEF StoreInv, LastIsAtHand, Quiet
<1>11. NothingDangles'
  BY DEF StoreInv, NothingDangles
<1> QED
  BY <1>4, <1>5, <1>6, <1>7, <1>8, <1>9, <1>10, <1>11 DEF StoreInv

(***************************************************************************)
(* A handler that ends before its time: what it leaves is cut.             *)
(***************************************************************************)
LEMMA StopStep ==
  ASSUME TypeOK, InOrder, RacesAreSeen, StoreInv,
         NEW p \in Process, todo[p] # <<>>,
         Work(p)' = {}, \A q \in Process \ {p} : Work(q)' = Work(q),
         raced \subseteq raced', cut \subseteq cut', LeftUndone(todo[p]) \subseteq cut',
         First(p).op = "update" => store.ann[First(p).c] # "none" /\ First(p).ok = FALSE,
         kind' = kind, store' = store, pending'.upd = pending.upd, last' = last, lost' = lost
  PROVE  StoreInv'
<1>1. /\ First(p) \in Operation /\ Work(p) = {First(p)} \cup Rest(p)
      /\ \A q \in Process : Work(q) \subseteq Operation
      /\ \A o \in Rest(p) : Before(First(p), o)
  BY Moving
<1>2. \A q \in Process : \A o \in Work(q)' : o \in Work(q) /\ q # p
  OBVIOUS
<1>3. \A o \in Work(p) : o.op \in {"link", "putLinks", "dropAnn", "flushUpdates", "take", "putUpd"} => o.c \in cut'
  BY DEF LeftUndone, Work
<1>4. HandlersAreWhole'
  <2>1. \A q \in Process \ {p} : \A o : o \in Work(q)' <=> o \in Work(q)
    OBVIOUS
  <2> QED
    BY <1>2, <2>1 DEF StoreInv, HandlersAreWhole, Process
<1>5. LinksAreAtEnds'
  BY <1>2 DEF StoreInv, LinksAreAtEnds
<1>6. SavesAreAnnounced'
  BY <1>2 DEF StoreInv, SavesAreAnnounced
<1>7. ListsAreRight'
  BY <1>2 DEF StoreInv, ListsAreRight
<1>8. DeletesAreWhole'
  BY <1>2 DEF StoreInv, DeletesAreWhole
<1>9. LinksAreComing'
  BY <1>3 DEF StoreInv, LinksAreComing, Linking, Op
<1>10. LastIsAtHand'
  <2>1. ASSUME NEW c \in Channel \ (raced' \cup cut'), NEW d, NEW u, AtHand(c, d, u) PROVE AtHand(c, d, u)'
    <3>1. CASE p = "filter"
      <4>1. Op("flushUpdates", c) \notin Work(p) /\ [op |-> "take", c |-> c, d |-> d] \notin Work(p)
            /\ [op |-> "putUpd", c |-> c, d |-> d, at |-> u.at] \notin Work(p)
        BY <1>3, <2>1 DEF Op
      <4>2. [op |-> "update", c |-> c, d |-> d, at |-> u.at, ok |-> u.ok] \in Work(p) =>
               store.ann[c] # "none" /\ u.ok = FALSE
        BY <1>1 DEF Before, Following, Deleting
      <4> QED
        BY <2>1, <3>1, <4>1, <4>2 DEF AtHand
    <3>2. CASE p # "filter"
      BY <2>1, <3>2 DEF AtHand, Process
    <3> QED
      BY <3>1, <3>2
  <2> QED
    BY <1>2, <2>1 DEF StoreInv, LastIsAtHand, Process
<1>11. NothingDangles'
  BY DEF StoreInv, NothingDangles
<1> QED
  BY <1>4, <1>5, <1>6, <1>7, <1>8, <1>9, <1>10, <1>11 DEF StoreInv

(***************************************************************************)
(* An announcement is accepted.                                            *)
(***************************************************************************)
LEMMA SaveStep ==
  ASSUME TypeOK, InOrder, RacesAreSeen, StoreInv,
         NEW p, NEW k \in {"plain", "extended"}, Moves(p, Range(SaveOps(First(p).c, k))),
         First(p).op \in {"channel", "chain"},
         raced \subseteq raced', cut \subseteq cut',
         kind' = kind, store' = store, pending' = pending, last' = last, lost' = lost
  PROVE  StoreInv'
<1> DEFINE c == First(p).c
           N == Range(SaveOps(c, k))
<1>0. p \in Process /\ todo[p] # <<>>
  BY DEF Moves
<1>1. /\ First(p) \in Operation /\ Work(p) = {First(p)} \cup Rest(p)
      /\ \A q \in Process : Work(q) \subseteq Operation
      /\ Work(p)' = N \cup Rest(p) /\ \A q \in Process \ {p} : Work(q)' = Work(q)
      /\ p = "filter"
  BY <1>0, Moving DEF Moves, StoreInv, HandlersAreWhole, Deleting
<1>2. c \in Channel
  BY <1>1, OperationForms DEF Unshared
<1>3. /\ [op |-> "putAnn", c |-> c, k |-> k] \in N /\ Op("flushUpdates", c) \in N
      /\ \A n \in EndsOf(c) : [op |-> "link", c |-> c, n |-> n] \in N
      /\ \A o \in N : /\ o.op \in {"putAnn", "putOut", "link", "flushUpdates", "flushNodes"}
                      /\ o.c = c /\ (o.op = "link" => o.n \in EndsOf(c))
  BY <1>2, SaveOpsWork DEF EndsOf, LinkOp, Op
<1> HIDE DEF N
<1>4. \A q \in Process : \A o \in Work(q) : o.op \notin {"channel", "chain"} => o \in Work(q)'
  BY <1>1
<1>5. \A q \in Process : \A o \in Work(q)' : o \in Work(q) \/ (q = p /\ o \in N)
  BY <1>1
<1>6. HandlersAreWhole'
  BY <1>1, <1>3, <1>4, <1>5 DEF StoreInv, HandlersAreWhole, Op, Process
<1>7. LinksAreAtEnds'
  BY <1>3, <1>5 DEF StoreInv, LinksAreAtEnds
<1>8. SavesAreAnnounced'
  BY <1>1, <1>3, <1>4, <1>5 DEF StoreInv, SavesAreAnnounced
<1>9. ListsAreRight'
  BY <1>3, <1>4, <1>5 DEF StoreInv, ListsAreRight, Op
<1>10. DeletesAreWhole'
  BY <1>3, <1>4, <1>5 DEF StoreInv, DeletesAreWhole, Op
<1>11. LinksAreComing'
  BY <1>4 DEF StoreInv, LinksAreComing, Linking, Op
<1>12. LastIsAtHand'
  <2>1. "filter" \in Process
    BY DEF Process
  <2>2. ASSUME NEW e, NEW d, NEW u, AtHand(e, d, u) PROVE AtHand(e, d, u)'
    BY <1>4, <2>1, <2>2 DEF AtHand, Op
  <2> QED
    BY <1>3, <1>5, <2>1, <2>2 DEF StoreInv, LastIsAtHand
<1>13. NothingDangles'
  BY DEF StoreInv, NothingDangles
<1> QED
  BY <1>6, <1>7, <1>8, <1>9, <1>10, <1>11, <1>12, <1>13 DEF StoreInv

(***************************************************************************)
(* A removal begins, in a process that has nothing else to do but to look  *)
(* at other channels.                                                      *)
(***************************************************************************)
LEMMA DeleteStep ==
  ASSUME TypeOK, StoreInv, NEW p \in Process, NEW c \in Channel, NEW M,
         \A o \in Work(p) : o.op = "sweep", \A o \in M : o.op = "sweep",
         Work(p)' = Range(DeleteOps(c)) \cup M, \A q \in Process \ {p} : Work(q)' = Work(q),
         raced \subseteq raced', cut \subseteq cut',
         kind' = kind, store' = store, pending' = pending, last' = last, lost' = lost
  PROVE  StoreInv'
<1> DEFINE N == Range(DeleteOps(c))
<1>1. /\ \A o \in N : /\ o.op \in {"forget", "dropUpd", "unlink", "dropAnn"} /\ o.c = c
                      /\ o.op = "unlink" => o.n \in EndsOf(c)
                      /\ o.op = "forget" => kind = "memory"
                      /\ o.op # "forget" => Op("dropAnn", c) \in N
      /\ Op("dropAnn", c) \in N =>
           /\ \A d \in Direction : [op |-> "dropUpd", c |-> c, d |-> d] \in N
           /\ \A n \in EndsOf(c) : [op |-> "unlink", c |-> c, n |-> n] \in N
  BY DeleteOpsWork DEF EndsOf, LinkOp, Op, Direction
<1> HIDE DEF N
<1>2. \A q \in Process : \A o \in Work(q) : o.op # "sweep" => o \in Work(q)'
  BY DEF N
<1>3. \A q \in Process : \A o \in Work(q)' : (o \in Work(q) /\ q # p) \/ (q = p /\ (o \in N \/ o.op = "sweep"))
  BY DEF N
<1>4. N \subseteq Work(p)'
  BY DEF N
<1>5. HandlersAreWhole'
  <2>1. \A q \in Process \ {"filter"} : \A o \in Work(q)' : o.op \in Deleting \cup {"putLinks", "forget"}
    BY <1>1, <1>3 DEF StoreInv, HandlersAreWhole, Deleting
  <2> QED
    BY <1>1, <1>2, <1>3, <1>4, <2>1 DEF StoreInv, HandlersAreWhole, Op
<1>6. LinksAreAtEnds'
  BY <1>1, <1>3 DEF StoreInv, LinksAreAtEnds
<1>7. SavesAreAnnounced'
  BY <1>1, <1>2, <1>3 DEF StoreInv, SavesAreAnnounced
<1>8. ListsAreRight'
  BY <1>1, <1>3 DEF StoreInv, ListsAreRight
<1>9. DeletesAreWhole'
  <2> SUFFICES ASSUME NEW q \in Process, NEW e \in Channel \ raced', Op("dropAnn", e) \in Work(q)'
               PROVE  /\ \A d \in Direction : store.upd[<<e, d>>] # 0 \/ last[<<e, d>>] # None =>
                           [op |-> "dropUpd", c |-> e, d |-> d] \in Work(q)'
                      /\ \A n \in Node : e \in store.link[n] /\ <<e, n>> \notin lost =>
                           \E o \in Work(q)' : o.op \in {"unlink", "putLinks"} /\ o.c = e /\ o.n = n
    BY DEF DeletesAreWhole
  <2>1. CASE q # p
    BY <1>2, <1>3, <2>1 DEF StoreInv, DeletesAreWhole, Op
  <2>2. CASE q = p
    <3>1. Op("dropAnn", e) \in N /\ e = c
      BY <1>1, <1>3, <2>2 DEF Op
    <3>2. \A n \in Node : e \in store.link[n] => n \in EndsOf(c)
      BY <3>1 DEF StoreInv, LinksAreAtEnds
    <3>3. \A n \in EndsOf(c) : \E o \in N : o.op \in {"unlink", "putLinks"} /\ o.c = e /\ o.n = n
      <4> SUFFICES ASSUME NEW n \in EndsOf(c)
                   PROVE  \E o \in N : o.op \in {"unlink", "putLinks"} /\ o.c = e /\ o.n = n
        OBVIOUS
      <4> DEFINE o == [op |-> "unlink", c |-> c, n |-> n]
      <4>1. o \in N /\ o.op = "unlink" /\ o.c = e /\ o.n = n
        BY <1>1, <3>1
      <4> QED
        BY <4>1
    <3> QED
      BY <1>1, <1>4, <2>2, <3>1, <3>2, <3>3
  <2> QED
    BY <2>1, <2>2
<1>10. LinksAreComing'
  BY <1>2 DEF StoreInv, LinksAreComing, Linking, Op
<1>11. LastIsAtHand'
  <2>1. "filter" \in Process
    BY DEF Process
  <2>2. ASSUME NEW e, NEW d, NEW u, AtHand(e, d, u) PROVE AtHand(e, d, u)'
    BY <1>2, <2>1, <2>2 DEF AtHand, Op
  <2> QED
    BY <1>1, <1>3, <2>1, <2>2 DEF StoreInv, LastIsAtHand
<1>12. NothingDangles'
  BY DEF StoreInv, NothingDangles
<1> QED
  BY <1>5, <1>6, <1>7, <1>8, <1>9, <1>10, <1>11, <1>12 DEF StoreInv

(***************************************************************************)
(* The other steps of a handler.  What they have in common:                *)
(***************************************************************************)
Steps(p, N) ==
    /\ TypeOK /\ InOrder /\ RacesAreSeen /\ StoreInv /\ Moves(p, N)
    /\ raced \subseteq raced' /\ cut \subseteq cut' /\ kind' = kind

LEMMA Stepping ==
  ASSUME NEW p, NEW N, Steps(p, N)
  PROVE  /\ p \in Process /\ First(p) \in Operation
         /\ Work(p) = {First(p)} \cup Rest(p) /\ Work(p)' = N \cup Rest(p)
         /\ \A q \in Process \ {p} : Work(q)' = Work(q)
         /\ \A q \in Process : Work(q) \subseteq Operation
         /\ \A o \in Rest(p) : Before(First(p), o)
         /\ \A q \in Process \ {p} : \A o \in Work(q) :
              o.op \notin Unshared /\ First(p).op \notin Unshared /\ o.c = First(p).c => o.c \in raced
         /\ First(p).op \notin Deleting \cup {"putLinks", "forget"} => p = "filter"
BY Moving DEF Steps, Moves, StoreInv, HandlersAreWhole

LEMMA FlushStep ==
  ASSUME NEW p, NEW N, Steps(p, N), First(p).op = "flushUpdates",
         \A o \in N : o.op = "take" /\ o.c = First(p).c,
         \A d \in Direction : pending.upd[<<First(p).c, d>>] # None => [op |-> "take", c |-> First(p).c, d |-> d] \in N,
         store' = store, pending' = pending, last' = last, lost' = lost
  PROVE  StoreInv'
<1> DEFINE c == First(p).c
<1>1. /\ p = "filter" /\ First(p) = Op("flushUpdates", c)
      /\ Work(p) = {First(p)} \cup Rest(p) /\ Work(p)' = N \cup Rest(p)
      /\ \A q \in Process \ {p} : Work(q)' = Work(q)
      /\ \A o \in Rest(p) : o.op \in Following
      /\ p \in Process
  BY Stepping, OperationForms DEF Before, Deleting
<1>2. \A o \in N : o.op = "take" /\ o.c = c
  OBVIOUS
<1>3. \A q \in Process : \A o \in Work(q) : o.op # "flushUpdates" => o \in Work(q)'
  BY <1>1
<1>4. \A q \in Process : \A o \in Work(q)' : o \in Work(q) \/ (q = p /\ o \in N)
  BY <1>1
<1>5. HandlersAreWhole'
  BY <1>1, <1>2, <1>3, <1>4 DEF Steps, StoreInv, HandlersAreWhole, Op, Process, Following, Deleting
<1>6. LinksAreAtEnds'
  BY <1>2, <1>4 DEF Steps, StoreInv, LinksAreAtEnds
<1>7. SavesAreAnnounced'
  <2>1. First(p).c \notin raced => store.ann[c] # "none"
    BY <1>1 DEF Steps, StoreInv, SavesAreAnnounced, Following, Deleting, Op
  <2> QED
    BY <1>2, <1>3, <1>4, <2>1 DEF Steps, StoreInv, SavesAreAnnounced
<1>8. ListsAreRight'
  BY <1>2, <1>3, <1>4 DEF Steps, StoreInv, ListsAreRight, Op
<1>9. DeletesAreWhole'
  BY <1>2, <1>3, <1>4 DEF Steps, StoreInv, DeletesAreWhole, Op
<1>10. LinksAreComing'
  BY <1>3 DEF Steps, StoreInv, LinksAreComing, Linking, Op
<1>11. LastIsAtHand'
  <2>1. ASSUME NEW e, NEW d \in Direction, NEW u, u # None, AtHand(e, d, u) PROVE AtHand(e, d, u)'
    <3>1. Op("flushUpdates", e) \in Work(p) /\ pending.upd[<<e, d>>] = u =>
             Op("flushUpdates", e) \in Work(p)' \/ [op |-> "take", c |-> e, d |-> d] \in Work(p)'
      BY <1>1, <2>1 DEF Op
    <3> QED
      BY <1>1, <1>3, <2>1, <3>1 DEF AtHand, Op
  <2> QED
    BY <1>1, <1>2, <1>4, <2>1 DEF Steps, StoreInv, LastIsAtHand
<1>12. NothingDangles'
  BY DEF Steps, StoreInv, NothingDangles
<1> QED
  BY <1>5, <1>6, <1>7, <1>8, <1>9, <1>10, <1>11, <1>12 DEF StoreInv

(* What the operations on one update leave alone.                          *)
Updating == {"take", "update", "putUpd"}

LEMMA UpdatingStep ==
  ASSUME NEW p, NEW N, Steps(p, N), First(p).op \in Updating,
         \A o \in N : o.op \in {"update", "putUpd"} /\ (o.op = "putUpd" => store.ann[o.c] # "none"),
         store'.ann = store.ann, store'.link = store.link, lost' = lost
  PROVE  HandlersAreWhole' /\ LinksAreAtEnds' /\ SavesAreAnnounced' /\ ListsAreRight' /\ LinksAreComing'
<1>1. /\ p = "filter" /\ p \in Process
      /\ Work(p) = {First(p)} \cup Rest(p) /\ Work(p)' = N \cup Rest(p)
      /\ \A q \in Process \ {p} : Work(q)' = Work(q)
  BY Stepping DEF Updating, Deleting
<1>2. \A q \in Process : \A o \in Work(q) : o.op \notin Updating => o \in Work(q)'
  BY <1>1
<1>3. \A q \in Process : \A o \in Work(q)' : o \in Work(q) \/ (q = p /\ o \in N)
  BY <1>1
<1>4. HandlersAreWhole'
  BY <1>1, <1>2, <1>3 DEF Steps, StoreInv, HandlersAreWhole, Op, Process, Updating
<1>5. LinksAreAtEnds'
  BY <1>3 DEF Steps, StoreInv, LinksAreAtEnds
<1>6. SavesAreAnnounced'
  BY <1>2, <1>3 DEF Steps, StoreInv, SavesAreAnnounced, Updating
<1>7. ListsAreRight'
  BY <1>2, <1>3 DEF Steps, StoreInv, ListsAreRight, Op, Updating
<1>8. LinksAreComing'
  BY <1>2 DEF Steps, StoreInv, LinksAreComing, Linking, Op, Updating
<1> QED
  BY <1>4, <1>5, <1>6, <1>7, <1>8

LEMMA TakeStep ==
  ASSUME NEW p, NEW N, Steps(p, N), First(p).op = "take",
         N = {[op |-> "update", c |-> First(p).c, d |-> First(p).d,
               at |-> pending.upd[<<First(p).c, First(p).d>>].at, ok |-> pending.upd[<<First(p).c, First(p).d>>].ok]},
         \A k \in Key : k # <<First(p).c, First(p).d>> => pending'.upd[k] = pending.upd[k],
         store' = store, last' = last, lost' = lost
  PROVE  StoreInv'
<1> DEFINE c == First(p).c
           d == First(p).d
           k == <<c, d>>
<1>1. /\ p = "filter" /\ p \in Process /\ First(p) = [op |-> "take", c |-> c, d |-> d]
      /\ Work(p) = {First(p)} \cup Rest(p) /\ Work(p)' = N \cup Rest(p)
      /\ \A q \in Process \ {p} : Work(q)' = Work(q)
      /\ \A o \in Rest(p) : o.op \in Following
      /\ c \in Channel /\ d \in Direction
  BY Stepping, OperationForms DEF Before, Deleting, Unshared
<1>2. \A o \in N : o.op = "update" /\ o.c = c
  OBVIOUS
<1>3. /\ \A q \in Process : \A o \in Work(q) : o.op # "take" => o \in Work(q)'
      /\ \A q \in Process : \A o \in Work(q)' : o \in Work(q) \/ (q = p /\ o \in N)
      /\ \A o \in Work(p) : o # First(p) => o \in Work(p)'
  BY <1>1
<1>4. HandlersAreWhole' /\ LinksAreAtEnds' /\ SavesAreAnnounced' /\ ListsAreRight' /\ LinksAreComing'
  BY <1>2, UpdatingStep DEF Updating
<1>5. DeletesAreWhole'
  BY <1>2, <1>3 DEF Steps, StoreInv, DeletesAreWhole, Op
<1>6. c \notin raced => store.ann[c] # "none"
  BY <1>1 DEF Steps, StoreInv, SavesAreAnnounced, Following, Deleting, Op
<1>7. LastIsAtHand'
  <2>1. ASSUME NEW e \in Channel \ raced, NEW x \in Direction, NEW u \in Stamp, AtHand(e, x, u) PROVE AtHand(e, x, u)'
    <3>1. CASE <<e, x>> = k
      <4>1. e = c /\ x = d /\ store.ann[c] # "none"
        BY <1>6, <3>1
      <4>2. pending.upd[<<e, x>>] = u => [op |-> "update", c |-> e, d |-> x, at |-> u.at, ok |-> u.ok] \in Work(p)'
        BY <1>1, <4>1
      <4> QED
        BY <1>1, <1>3, <2>1, <4>1, <4>2, SMTT(30) DEF AtHand
    <3>2. CASE <<e, x>> # k
      <4>1. pending'.upd[<<e, x>>] = pending.upd[<<e, x>>]
        BY <3>2 DEF Key
      <4>2. [op |-> "take", c |-> e, d |-> x] # First(p)
        BY <1>1, <3>2
      <4> QED
        BY <1>1, <1>3, <2>1, <4>1, <4>2, SMTT(30) DEF AtHand, Op
    <3> QED
      BY <3>1, <3>2
  <2>2. \A e \in Channel, x \in Direction : last[<<e, x>>] \in Stamp
    BY DEF Steps, TypeOK, Key
  <2> QED
    BY <1>1, <1>2, <1>3, <1>6, <2>1, <2>2 DEF Steps, StoreInv, LastIsAtHand
<1>8. NothingDangles'
  BY DEF Steps, StoreInv, NothingDangles
<1> QED
  BY <1>4, <1>5, <1>7, <1>8 DEF StoreInv

(***************************************************************************)
(* _validateChannelUpdate: the update of a channel that is not announced   *)
(* is held, an old one is dropped, a new one is stored.                    *)
(***************************************************************************)
LEMMA HoldStep ==
  ASSUME NEW p, Steps(p, {}), First(p).op = "update", store.ann[First(p).c] = "none",
         pending'.upd = [pending.upd EXCEPT ![<<First(p).c, First(p).d>>] = [at |-> First(p).at, ok |-> First(p).ok]],
         store' = store, last' = last, lost' = lost
  PROVE  StoreInv'
<1> DEFINE c == First(p).c
           d == First(p).d
           k == <<c, d>>
<1>1. /\ p = "filter" /\ p \in Process
      /\ Work(p) = {First(p)} \cup Rest(p) /\ Work(p)' = {} \cup Rest(p)
      /\ \A q \in Process \ {p} : Work(q)' = Work(q)
      /\ c \in Channel /\ d \in Direction
  BY Stepping, OperationForms DEF Deleting, Unshared
<1>2. /\ \A q \in Process : \A o \in Work(q) : o.op # "update" => o \in Work(q)'
      /\ \A q \in Process : \A o \in Work(q)' : o \in Work(q)
      /\ \A o \in Work(p) : o # First(p) => o \in Work(p)'
  BY <1>1
<1>3. HandlersAreWhole' /\ LinksAreAtEnds' /\ SavesAreAnnounced' /\ ListsAreRight' /\ LinksAreComing'
  BY UpdatingStep DEF Updating
<1>4. DeletesAreWhole'
  BY <1>2 DEF Steps, StoreInv, DeletesAreWhole, Op
<1>5. /\ pending'.upd[k] = [at |-> First(p).at, ok |-> First(p).ok]
      /\ \A j \in Key : j # k => pending'.upd[j] = pending.upd[j]
  BY <1>1 DEF Steps, TypeOK, Key
<1>6. LastIsAtHand'
  <2>1. ASSUME NEW e \in Channel \ (raced \cup cut), NEW x \in Direction, last[<<e, x>>] # None
        PROVE  AtHand(e, x, last[<<e, x>>])'
    <3>0. AtHand(e, x, last[<<e, x>>])
      BY <2>1 DEF Steps, StoreInv, LastIsAtHand
    <3>1. CASE <<e, x>> = k
      <4>1. e = c /\ x = d
        BY <3>1
      <4>2. last[k] = [at |-> First(p).at, ok |-> First(p).ok]
        BY <1>1, <2>1, <4>1 DEF Steps, StoreInv, LastIsAtHand
      <4> QED
        BY <1>5, <4>1, <4>2 DEF AtHand
    <3>2. CASE <<e, x>> # k
      <4>1. pending'.upd[<<e, x>>] = pending.upd[<<e, x>>]
        BY <1>5, <3>2 DEF Key
      <4>2. \A at, ok : [op |-> "update", c |-> e, d |-> x, at |-> at, ok |-> ok] # First(p)
        BY <3>2
      <4> QED
        BY <1>1, <1>2, <3>0, <4>1, <4>2 DEF AtHand, Op
    <3> QED
      BY <3>1, <3>2
  <2> QED
    BY <1>1, <1>2, <2>1 DEF Steps, StoreInv, LastIsAtHand
<1>7. NothingDangles'
  BY DEF Steps, StoreInv, NothingDangles
<1> QED
  BY <1>3, <1>4, <1>6, <1>7 DEF StoreInv

LEMMA OldStep ==
  ASSUME NEW p, Steps(p, {}), First(p).op = "update", store.ann[First(p).c] # "none",
         store.upd[<<First(p).c, First(p).d>>] >= First(p).at,
         pending' = pending, store' = store, last' = last, lost' = lost
  PROVE  StoreInv'
<1>1. /\ p = "filter" /\ p \in Process
      /\ Work(p) = {First(p)} \cup Rest(p) /\ Work(p)' = {} \cup Rest(p)
      /\ \A q \in Process \ {p} : Work(q)' = Work(q)
  BY Stepping DEF Deleting
<1>2. /\ \A q \in Process : \A o \in Work(q) : o.op # "update" => o \in Work(q)'
      /\ \A q \in Process : \A o \in Work(q)' : o \in Work(q)
      /\ \A o \in Work(p) : o # First(p) => o \in Work(p)'
  BY <1>1
<1>3. HandlersAreWhole' /\ LinksAreAtEnds' /\ SavesAreAnnounced' /\ ListsAreRight' /\ LinksAreComing'
  BY UpdatingStep DEF Updating
<1>4. DeletesAreWhole'
  BY <1>2 DEF Steps, StoreInv, DeletesAreWhole, Op
<1>5. LastIsAtHand'
  <2>1. ASSUME NEW e, NEW x, NEW u, AtHand(e, x, u) PROVE AtHand(e, x, u)'
    BY <1>1, <1>2, <2>1 DEF AtHand, Op
  <2> QED
    BY <1>1, <1>2, <2>1 DEF Steps, StoreInv, LastIsAtHand
<1>6. NothingDangles'
  BY DEF Steps, StoreInv, NothingDangles
<1> QED
  BY <1>3, <1>4, <1>5, <1>6 DEF StoreInv

LEMMA AcceptStep ==
  ASSUME NEW p, NEW N, Steps(p, N), First(p).op = "update", store.ann[First(p).c] # "none",
         store.upd[<<First(p).c, First(p).d>>] < First(p).at,
         N = {[op |-> "putUpd", c |-> First(p).c, d |-> First(p).d, at |-> First(p).at]},
         pending' = pending, store' = store, last' = last, lost' = lost
  PROVE  StoreInv'
<1>1. /\ p = "filter" /\ p \in Process
      /\ Work(p) = {First(p)} \cup Rest(p) /\ Work(p)' = N \cup Rest(p)
      /\ \A q \in Process \ {p} : Work(q)' = Work(q)
  BY Stepping DEF Deleting
<1>2. /\ \A q \in Process : \A o \in Work(q) : o.op # "update" => o \in Work(q)'
      /\ \A q \in Process : \A o \in Work(q)' : o \in Work(q) \/ (q = p /\ o \in N)
      /\ \A o \in Work(p) : o # First(p) => o \in Work(p)'
  BY <1>1
<1>3. \A o \in N : o.op = "putUpd" /\ o.c = First(p).c /\ o.d = First(p).d /\ o.at = First(p).at
  OBVIOUS
<1>4. HandlersAreWhole' /\ LinksAreAtEnds' /\ SavesAreAnnounced' /\ ListsAreRight' /\ LinksAreComing'
  BY <1>3, UpdatingStep DEF Updating
<1>5. DeletesAreWhole'
  BY <1>2, <1>3 DEF Steps, StoreInv, DeletesAreWhole, Op
<1>6. LastIsAtHand'
  <2>1. ASSUME NEW e, NEW x, NEW u, AtHand(e, x, u) PROVE AtHand(e, x, u)'
    <3>1. [op |-> "update", c |-> e, d |-> x, at |-> u.at, ok |-> u.ok] = First(p) =>
             [op |-> "putUpd", c |-> e, d |-> x, at |-> u.at] \in N
      OBVIOUS
    <3> QED
      BY <1>1, <1>2, <2>1, <3>1 DEF AtHand, Op
  <2> QED
    BY <1>1, <1>2, <1>3, <2>1 DEF Steps, StoreInv, LastIsAtHand
<1>7. NothingDangles'
  BY DEF Steps, StoreInv, NothingDangles
<1> QED
  BY <1>4, <1>5, <1>6, <1>7 DEF StoreInv

(***************************************************************************)
(* The writes.                                                             *)
(***************************************************************************)
LEMMA PutUpdateStep ==
  ASSUME NEW p, Steps(p, {}), First(p).op = "putUpd",
         store'.upd = [store.upd EXCEPT ![<<First(p).c, First(p).d>>] = First(p).at],
         store'.ann = store.ann, store'.link = store.link, pending' = pending, last' = last, lost' = lost
  PROVE  StoreInv'
<1> DEFINE c == First(p).c
<1>1. /\ p \in Process /\ First(p) \in Operation /\ c \in Channel
      /\ Work(p) = {First(p)} \cup Rest(p) /\ Work(p)' = {} \cup Rest(p)
      /\ \A q \in Process \ {p} : Work(q)' = Work(q)
      /\ \A o \in Rest(p) : Before(First(p), o)
  BY Stepping, OperationForms DEF Unshared
<1>2. \A q \in Process \ {p} : \A o \in Work(q) : o.op \notin Unshared /\ o.c = c => c \in raced
  BY Stepping DEF Unshared
<1>3. /\ \A q \in Process : \A o \in Work(q) : o # First(p) => o \in Work(q)'
      /\ \A q \in Process : \A o \in Work(q)' : o \in Work(q)
  BY <1>1
<1> DEFINE d == First(p).d
<1>4. HandlersAreWhole' /\ LinksAreAtEnds' /\ SavesAreAnnounced' /\ ListsAreRight' /\ LinksAreComing'
  BY UpdatingStep DEF Updating
<1>5. /\ p = "filter" /\ c \in Channel /\ d \in Direction /\ First(p).at \in Nat
      /\ First(p) = [op |-> "putUpd", c |-> c, d |-> d, at |-> First(p).at]
  BY Stepping, OperationForms DEF Deleting, Unshared
<1>6. /\ store'.upd[<<c, d>>] = First(p).at
      /\ \A k \in Key : k # <<c, d>> => store'.upd[k] = store.upd[k]
      /\ \A k \in Key : store.upd[k] \in Nat /\ last[k] \in Stamp
  BY <1>5 DEF Steps, TypeOK, StoreType, Key
<1>7. c \notin raced => store.ann[c] # "none" /\ store.upd[<<c, d>>] < First(p).at
  BY <1>1, <1>5 DEF Steps, StoreInv, SavesAreAnnounced, LastIsAtHand, Before, Following, Deleting
<1>8. DeletesAreWhole'
  <2> SUFFICES ASSUME NEW q \in Process, NEW e \in Channel \ raced', Op("dropAnn", e) \in Work(q)'
               PROVE  /\ \A x \in Direction : store'.upd[<<e, x>>] # 0 \/ last[<<e, x>>] # None =>
                           [op |-> "dropUpd", c |-> e, d |-> x] \in Work(q)'
                      /\ \A n \in Node : e \in store.link[n] /\ <<e, n>> \notin lost =>
                           \E o \in Work(q)' : o.op \in {"unlink", "putLinks"} /\ o.c = e /\ o.n = n
    BY DEF DeletesAreWhole
  <2>1. e # c
    BY <1>1, <1>2, <1>5 DEF Before, Deleting, Op, Steps, Unshared
  <2>2. \A x \in Direction : store'.upd[<<e, x>>] = store.upd[<<e, x>>]
    BY <1>6, <2>1 DEF Key
  <2> QED
    BY <1>3, <1>5, <2>2 DEF Steps, StoreInv, DeletesAreWhole, Op
<1>9. LastIsAtHand'
  <2>1. ASSUME NEW e \in Channel \ raced, NEW x \in Direction, NEW u \in Stamp, AtHand(e, x, u)
        PROVE  AtHand(e, x, u)'
    <3>1. CASE <<e, x>> = <<c, d>>
      <4>1. e = c /\ x = d /\ store.ann[c] # "none" /\ store'.upd[<<e, x>>] = First(p).at
        BY <1>6, <1>7, <3>1
      <4>2. CASE [op |-> "putUpd", c |-> e, d |-> x, at |-> u.at] = First(p)
        BY <1>5, <4>1, <4>2 DEF AtHand
      <4>3. CASE [op |-> "putUpd", c |-> e, d |-> x, at |-> u.at] # First(p)
        <5>1. u.at \in Nat /\ store.upd[<<e, x>>] \in Nat /\ store.upd[<<e, x>>] < First(p).at
          BY <1>6, <1>7, <4>1 DEF Stamp, Key
        <5>2. store.upd[<<e, x>>] >= u.at => store'.upd[<<e, x>>] >= u.at
          BY <1>5, <4>1, <5>1
        <5> QED
          BY <1>3, <1>5, <2>1, <4>1, <4>3, <5>2 DEF AtHand, Op, Process
      <4> QED
        BY <4>2, <4>3
    <3>2. CASE <<e, x>> # <<c, d>>
      <4>1. store'.upd[<<e, x>>] = store.upd[<<e, x>>]
        BY <1>6, <3>2 DEF Key
      <4>2. [op |-> "putUpd", c |-> e, d |-> x, at |-> u.at] # First(p)
        BY <1>5, <3>2
      <4> QED
        BY <1>3, <1>5, <2>1, <4>1, <4>2 DEF AtHand, Op, Process
    <3> QED
      BY <3>1, <3>2
  <2>2. \A o \in Work("filter")' : o.op \notin {"update", "putUpd"}
    BY <1>1, <1>5 DEF Before, Following, Deleting
  <2> QED
    BY <1>6, <2>1, <2>2 DEF Steps, StoreInv, LastIsAtHand, Key
<1>10. NothingDangles'
  <2>1. ASSUME NEW e \in Channel \ raced', store.ann[e] = "none", NEW x \in Direction
        PROVE  store'.upd[<<e, x>>] = store.upd[<<e, x>>]
    BY <1>6, <1>7, <2>1 DEF Steps, Key
  <2> QED
    BY <2>1 DEF Steps, StoreInv, NothingDangles, Direction
<1> QED
  BY <1>4, <1>8, <1>9, <1>10 DEF StoreInv

LEMMA PutAnnouncementStep ==
  ASSUME NEW p, Steps(p, {}), First(p).op = "putAnn",
         store'.ann = [store.ann EXCEPT ![First(p).c] = First(p).k],
         store'.upd = store.upd, store'.link = store.link, pending' = pending, last' = last, lost' = lost
  PROVE  StoreInv'
<1> DEFINE c == First(p).c
<1>1. /\ p \in Process /\ First(p) \in Operation /\ c \in Channel
      /\ Work(p) = {First(p)} \cup Rest(p) /\ Work(p)' = {} \cup Rest(p)
      /\ \A q \in Process \ {p} : Work(q)' = Work(q)
      /\ \A o \in Rest(p) : Before(First(p), o)
  BY Stepping, OperationForms DEF Unshared
<1>2. \A q \in Process \ {p} : \A o \in Work(q) : o.op \notin Unshared /\ o.c = c => c \in raced
  BY Stepping DEF Unshared
<1>3. /\ \A q \in Process : \A o \in Work(q) : o # First(p) => o \in Work(q)'
      /\ \A q \in Process : \A o \in Work(q)' : o \in Work(q)
  BY <1>1
<1>4. /\ store'.ann[c] # "none"
      /\ \A e \in Channel : e # c => store'.ann[e] = store.ann[e]
      /\ \A e \in Channel : store.ann[e] # "none" => store'.ann[e] # "none"
  <2>1. First(p).k # "none"
    BY <1>1, OperationForms
  <2>2. store.ann \in [Channel -> {"none", "plain", "extended"}]
    BY DEF Steps, TypeOK, StoreType
  <2> QED
    BY <1>1, <2>1, <2>2
<1>5. HandlersAreWhole'
  <2>1. \A o \in Work(p)' : o.op # "putAnn"
    BY <1>1 DEF Before, Following, Deleting
  <2>2. \A q \in Process : \A e : Op("dropAnn", e) \in Work(q) => Op("dropAnn", e) \in Work(q)'
    BY <1>3 DEF Op
  <2> QED
    BY <1>1, <1>3, <2>1, <2>2 DEF Steps, StoreInv, HandlersAreWhole
<1>6. LinksAreAtEnds'
  BY <1>3 DEF Steps, StoreInv, LinksAreAtEnds
<1>7. SavesAreAnnounced'
  <2> SUFFICES ASSUME NEW q \in Process, NEW o \in Work(q)', o.c \notin raced',
                      o.op \in {"putOut", "link", "flushUpdates", "take", "putUpd"}
               PROVE  store'.ann[o.c] # "none" \/ \E x \in Work(q)' : x.op = "putAnn"
    BY DEF SavesAreAnnounced
  <2>1. CASE q = p
    <3>1. o.c = c
      BY <1>1, <2>1 DEF Before, Unshared
    <3> QED
      BY <1>4, <3>1
  <2>2. CASE q # p
    <3>1. o \in Work(q) /\ o.c \in Channel
      BY <1>3, Stepping, OperationForms DEF Unshared
    <3> QED
      BY <1>1, <1>4, <2>2, <3>1 DEF Steps, StoreInv, SavesAreAnnounced
  <2> QED
    BY <2>1, <2>2
<1>8. ListsAreRight'
  <2>1. \A q \in Process : \A o \in Work(q) : o.op = "putLinks" => o.c \in Channel
    BY Stepping, OperationForms DEF Unshared
  <2> QED
    BY <1>3, <1>4, <2>1 DEF Steps, StoreInv, ListsAreRight, Op
<1>9. DeletesAreWhole'
  BY <1>3 DEF Steps, StoreInv, DeletesAreWhole, Op
<1>10. LinksAreComing'
  <2> SUFFICES ASSUME NEW e \in Channel \ (raced' \cup cut'), NEW n \in EndsOf(e),
                      store'.ann[e] # "none", e \notin store.link[n], <<e, n>> \notin lost
               PROVE  \E q \in Process : Linking(q, e, n)'
    BY DEF LinksAreComing
  <2>1. CASE e = c
    BY <1>1, <1>3, <2>1 DEF Steps, StoreInv, HandlersAreWhole, Linking
  <2>2. CASE e # c
    BY <1>3, <1>4, <2>2 DEF Steps, StoreInv, LinksAreComing, Linking, Op
  <2> QED
    BY <2>1, <2>2
<1>11. LastIsAtHand' /\ NothingDangles'
  <2>1. ASSUME NEW e \in Channel, NEW x, NEW u, AtHand(e, x, u)
        PROVE  AtHand(e, x, u)'
    <3>0. p = "filter"
      BY Stepping DEF Deleting
    <3>1. CASE e = c
      <4>0. Op("flushUpdates", c) \in Work(p)'
        <5>1. First(p) \in Work(p)
          BY <1>1
        <5>2. Op("flushUpdates", c) \in Work(p)
          BY <1>1, <5>1 DEF Steps, StoreInv, HandlersAreWhole
        <5> QED
          BY <1>1, <1>3, <5>2 DEF Op
      <4>1. Op("flushUpdates", c) \in Work("filter")'
        BY <3>0, <4>0
      <4> QED
        BY <1>3, <1>4, <2>1, <3>0, <3>1, <4>1 DEF AtHand, Process
    <3>2. CASE e # c
      BY <1>3, <1>4, <2>1, <3>0, <3>2 DEF AtHand, Process, Op
    <3> QED
      BY <3>1, <3>2
  <2>2. \A o \in Work("filter")' : o \in Work("filter") /\ (o.op = "update" => o.c \in Channel)
    BY <1>3, Stepping, OperationForms DEF Unshared, Process
  <2>3. LastIsAtHand'
    BY <1>4, <2>1, <2>2 DEF Steps, StoreInv, LastIsAtHand
  <2>4. NothingDangles'
    BY <1>4 DEF Steps, StoreInv, NothingDangles
  <2> QED
    BY <2>3, <2>4
<1> QED
  BY <1>4, <1>5, <1>6, <1>7, <1>8, <1>9, <1>10, <1>11 DEF StoreInv

(***************************************************************************)
(* The lists of channels.  A list that is to be written is right for the   *)
(* channel it is for; where it differs from the one in the store by other  *)
(* channels, their links are lost.                                         *)
(***************************************************************************)
IsList(p, n, list) ==
    /\ list \subseteq Channel
    /\ \A e \in list : n \in EndsOf(e)
    /\ First(p).c \in list <=> Op("dropAnn", First(p).c) \notin Rest(p)
    /\ First(p).c \in list /\ First(p).c \notin raced => store.ann[First(p).c] # "none"

LEMMA ListRead ==
  ASSUME NEW p, NEW N, Steps(p, N), First(p).op \in {"link", "unlink"}
  PROVE  IsList(p, First(p).n, Linked(First(p).op, store.link[First(p).n], First(p).c))
<1> DEFINE c == First(p).c
           n == First(p).n
           list == Linked(First(p).op, store.link[n], c)
<1>1. /\ p \in Process /\ First(p) \in Work(p) /\ c \in Channel /\ n \in Node /\ n \in EndsOf(c)
      /\ Work(p) = {First(p)} \cup Rest(p)
      /\ \A o \in Rest(p) : Before(First(p), o)
  BY Stepping, OperationForms DEF Unshared, Steps, StoreInv, LinksAreAtEnds
<1>2. store.link[n] \subseteq Channel /\ \A e \in store.link[n] : n \in EndsOf(e)
  BY <1>1 DEF Steps, TypeOK, StoreType, StoreInv, LinksAreAtEnds
<1>3. CASE First(p).op = "link"
  <2>1. list = store.link[n] \cup {c}
    BY <1>3 DEF Linked
  <2>2. Op("dropAnn", c) \notin Rest(p)
    BY <1>1, <1>3 DEF Before, Deleting, Op
  <2>3. c \notin raced => store.ann[c] # "none"
    BY <1>1, <1>3 DEF Steps, StoreInv, SavesAreAnnounced, Before, Following, Deleting
  <2> QED
    BY <1>1, <1>2, <2>1, <2>2, <2>3 DEF IsList
<1>4. CASE First(p).op = "unlink"
  <2>1. list = store.link[n] \ {c}
    BY <1>4 DEF Linked
  <2>2. Op("dropAnn", c) \in Rest(p)
    <3>1. Op("dropAnn", c) \in Work(p)
      BY <1>1, <1>4 DEF Steps, StoreInv, HandlersAreWhole
    <3> QED
      BY <1>1, <1>4, <3>1 DEF Op
  <2> QED
    BY <1>1, <1>2, <2>1, <2>2 DEF IsList
<1> QED
  BY <1>3, <1>4

LEMMA ListHeld ==
  ASSUME NEW p, NEW N, Steps(p, N), First(p).op = "putLinks"
  PROVE  IsList(p, First(p).n, First(p).list)
<1>1. /\ p \in Process /\ First(p) \in Work(p) /\ First(p).list \subseteq Channel
      /\ Work(p) = {First(p)} \cup Rest(p)
  BY Stepping, OperationForms
<1>2. Op("dropAnn", First(p).c) \in Work(p) <=> Op("dropAnn", First(p).c) \in Rest(p)
  BY <1>1 DEF Op
<1>3. /\ \A e \in First(p).list : First(p).n \in EndsOf(e)
      /\ First(p).c \in First(p).list <=> Op("dropAnn", First(p).c) \notin Work(p)
      /\ First(p).c \in First(p).list /\ First(p).c \notin raced => store.ann[First(p).c] # "none"
  BY <1>1 DEF Steps, StoreInv, LinksAreAtEnds, ListsAreRight
<1> QED
  BY <1>1, <1>2, <1>3 DEF IsList

LEMMA RewriteStep ==
  ASSUME NEW p, NEW list, Steps(p, {}), First(p).op \in {"link", "unlink", "putLinks"},
         IsList(p, First(p).n, list),
         store'.link = [store.link EXCEPT ![First(p).n] = list],
         \A e \in Channel, n \in Node : <<e, n>> # <<First(p).c, First(p).n>> /\ <<e, n>> \notin lost' =>
             <<e, n>> \notin lost /\ (e \in store'.link[n] <=> e \in store.link[n]),
         store'.ann = store.ann, store'.upd = store.upd, pending' = pending, last' = last
  PROVE  StoreInv'
<1> DEFINE c == First(p).c
<1>1. /\ p \in Process /\ First(p) \in Operation /\ c \in Channel
      /\ Work(p) = {First(p)} \cup Rest(p) /\ Work(p)' = {} \cup Rest(p)
      /\ \A q \in Process \ {p} : Work(q)' = Work(q)
      /\ \A o \in Rest(p) : Before(First(p), o)
  BY Stepping, OperationForms DEF Unshared
<1>2. \A q \in Process \ {p} : \A o \in Work(q) : o.op \notin Unshared /\ o.c = c => c \in raced
  BY Stepping DEF Unshared
<1>3. /\ \A q \in Process : \A o \in Work(q) : o # First(p) => o \in Work(q)'
      /\ \A q \in Process : \A o \in Work(q)' : o \in Work(q)
  BY <1>1
<1> DEFINE m == First(p).n
<1>12. /\ m \in Node /\ store'.link[m] = list
       /\ \A n \in Node : n # m => store'.link[n] = store.link[n]
       /\ \A e \in Channel, n \in Node : ~(e = c /\ n = m) /\ <<e, n>> \notin lost' =>
             <<e, n>> \notin lost /\ (e \in store'.link[n] <=> e \in store.link[n])
  BY <1>1, OperationForms DEF Steps, TypeOK, StoreType, IsList
<1>13. \A q \in Process : \A e : Op("dropAnn", e) \in Work(q) <=> Op("dropAnn", e) \in Work(q)'
  BY <1>1 DEF Op
<1>4. HandlersAreWhole'
  <2>1. \A q \in Process : \A o \in Work(q)' : o \in Work(q)
    BY <1>3
  <2>2. \A o \in Work(p)' : o.op # "putAnn"
    BY <1>1 DEF Before, Following, Deleting
  <2> QED
    BY <1>1, <1>3, <1>13, <2>1, <2>2 DEF Steps, StoreInv, HandlersAreWhole
<1>5. LinksAreAtEnds'
  BY <1>3, <1>12 DEF Steps, StoreInv, LinksAreAtEnds, IsList
<1>6. SavesAreAnnounced'
  <2>1. \A o \in Work(p) : o.op # "putAnn"
    BY <1>1 DEF Before, Following, Deleting
  <2> QED
    BY <1>1, <1>3, <2>1 DEF Steps, StoreInv, SavesAreAnnounced
<1>7. ListsAreRight'
  <2> SUFFICES ASSUME NEW q \in Process, NEW o \in Work(q)', o.op = "putLinks"
               PROVE  /\ o.c \in o.list <=> Op("dropAnn", o.c) \notin Work(q)'
                      /\ o.c \in o.list /\ o.c \notin raced' => store.ann[o.c] # "none"
    BY DEF ListsAreRight
  <2>1. o \in Work(q)
    BY <1>3
  <2> QED
    BY <1>13, <2>1 DEF Steps, StoreInv, ListsAreRight
<1>8. DeletesAreWhole'
  <2> SUFFICES ASSUME NEW q \in Process, NEW e \in Channel \ raced', Op("dropAnn", e) \in Work(q)'
               PROVE  /\ \A d \in Direction : store.upd[<<e, d>>] # 0 \/ last[<<e, d>>] # None =>
                           [op |-> "dropUpd", c |-> e, d |-> d] \in Work(q)'
                      /\ \A n \in Node : e \in store'.link[n] /\ <<e, n>> \notin lost' =>
                           \E o \in Work(q)' : o.op \in {"unlink", "putLinks"} /\ o.c = e /\ o.n = n
    BY DEF DeletesAreWhole
  <2>1. Op("dropAnn", e) \in Work(q) /\ e \in Channel \ raced
    BY <1>13 DEF Steps
  <2>2. ASSUME NEW d \in Direction, store.upd[<<e, d>>] # 0 \/ last[<<e, d>>] # None
        PROVE  [op |-> "dropUpd", c |-> e, d |-> d] \in Work(q)'
    <3>1. [op |-> "dropUpd", c |-> e, d |-> d] \in Work(q)
      BY <2>1, <2>2 DEF Steps, StoreInv, DeletesAreWhole
    <3> QED
      BY <1>3, <3>1
  <2>3. ASSUME NEW n \in Node, e \in store'.link[n], <<e, n>> \notin lost'
        PROVE  \E o \in Work(q)' : o.op \in {"unlink", "putLinks"} /\ o.c = e /\ o.n = n
    <3>1. CASE e = c /\ n = m
      <4>1. q = p
        BY <1>2, <2>1, <3>1 DEF Op, Unshared
      <4>2. Op("dropAnn", c) \in Rest(p)
        BY <1>1, <2>1, <3>1, <4>1 DEF Op
      <4> QED
        BY <1>12, <2>3, <3>1, <4>2 DEF IsList
    <3>2. CASE ~(e = c /\ n = m)
      <4>1. e \in store.link[n] /\ <<e, n>> \notin lost
        BY <1>12, <2>1, <2>3, <3>2
      <4>2. PICK o \in Work(q) : o.op \in {"unlink", "putLinks"} /\ o.c = e /\ o.n = n
        BY <2>1, <4>1 DEF Steps, StoreInv, DeletesAreWhole
      <4>3. o \in Work(q)'
        BY <1>3, <3>2, <4>2
      <4> QED
        BY <4>2, <4>3
    <3> QED
      BY <3>1, <3>2
  <2> QED
    BY <2>2, <2>3
<1>9. LinksAreComing'
  <2> SUFFICES ASSUME NEW e \in Channel \ (raced' \cup cut'), NEW n \in EndsOf(e),
                      store.ann[e] # "none", e \notin store'.link[n], <<e, n>> \notin lost'
               PROVE  \E q \in Process : Linking(q, e, n)'
    BY DEF LinksAreComing
  <2>0. e \in Channel \ (raced \cup cut) /\ n \in Node
    BY EndsAreNodes DEF Steps
  <2>1. CASE e = c /\ n = m
    <3>1. Op("dropAnn", c) \in Rest(p)
      BY <1>12, <2>1 DEF IsList
    <3> QED
      BY <1>1, <2>1, <3>1 DEF Linking
  <2>2. CASE ~(e = c /\ n = m)
    <3>1. e \notin store.link[n] /\ <<e, n>> \notin lost
      BY <1>12, <2>0, <2>2
    <3>2. PICK q \in Process : Linking(q, e, n)
      BY <2>0, <3>1 DEF Steps, StoreInv, LinksAreComing
    <3>3. Linking(q, e, n)'
      BY <1>3, <1>13, <2>2, <3>2 DEF Linking
    <3> QED
      BY <3>3
  <2> QED
    BY <2>1, <2>2
<1>10. LastIsAtHand'
  <2>1. ASSUME NEW e, NEW x, NEW u, AtHand(e, x, u) PROVE AtHand(e, x, u)'
    BY <1>3, <2>1 DEF AtHand, Op, Process
  <2>2. \A o \in Work("filter")' : o \in Work("filter")
    BY <1>3 DEF Process
  <2> QED
    BY <2>1, <2>2 DEF Steps, StoreInv, LastIsAtHand
<1>11. NothingDangles'
  <2>1. ASSUME NEW e \in Channel \ raced', store.ann[e] = "none", NEW n \in Node, <<e, n>> \notin lost'
        PROVE  e \notin store'.link[n]
    <3>1. e \in Channel \ raced /\ (e \in store.link[n] => <<e, n>> \in lost)
      BY <2>1 DEF Steps, StoreInv, NothingDangles
    <3> QED
      BY <1>12, <2>1, <3>1 DEF IsList
  <2> QED
    BY <2>1 DEF Steps, StoreInv, NothingDangles
<1> QED
  BY <1>4, <1>5, <1>6, <1>7, <1>8, <1>9, <1>10, <1>11 DEF StoreInv

LEMMA ReadStep ==
  ASSUME NEW p, NEW a, First(p).op \in {"link", "unlink"}, Steps(p, {a}),
         a.op = "putLinks", a.c = First(p).c, a.n = First(p).n, IsList(p, First(p).n, a.list),
         store' = store, pending' = pending, last' = last, lost' = lost
  PROVE  StoreInv'
<1> DEFINE list == a.list
           N == {a}
<1>0. \A o \in N : o.op = "putLinks" /\ o.c = First(p).c /\ o.n = First(p).n /\ o.list = list
  OBVIOUS
<1>00. Steps(p, N) /\ (\E o \in N : TRUE) /\ IsList(p, First(p).n, list)
  OBVIOUS
<1> HIDE DEF N, list
<1> DEFINE c == First(p).c
<1>1. /\ p \in Process /\ First(p) \in Operation /\ c \in Channel
      /\ Work(p) = {First(p)} \cup Rest(p) /\ Work(p)' = N \cup Rest(p)
      /\ \A q \in Process \ {p} : Work(q)' = Work(q)
      /\ \A o \in Rest(p) : Before(First(p), o)
  BY <1>00, Stepping, OperationForms DEF Unshared
<1>2. \A q \in Process \ {p} : \A o \in Work(q) : o.op \notin Unshared /\ o.c = c => c \in raced
  BY <1>00, Stepping DEF Unshared
<1>3. /\ \A q \in Process : \A o \in Work(q) : o # First(p) => o \in Work(q)'
      /\ \A q \in Process : \A o \in Work(q)' : o \in Work(q) \/ (q = p /\ o \in N)
  BY <1>1
<1> DEFINE m == First(p).n
<1>13. \A q \in Process : \A e : Op("dropAnn", e) \in Work(q) <=> Op("dropAnn", e) \in Work(q)'
  BY <1>0, <1>1 DEF Op
<1>4. HandlersAreWhole'
  <2>1. \A q \in Process : \A o \in Work(q)' : o \in Work(q) \/ o.op = "putLinks"
    BY <1>0, <1>3
  <2>2. \A o \in Work(p)' : o.op # "putAnn"
    BY <1>0, <1>1 DEF Before, Following, Deleting
  <2> QED
    BY <1>0, <1>1, <1>3, <1>13, <2>1, <2>2 DEF Steps, StoreInv, HandlersAreWhole
<1>5. LinksAreAtEnds'
  <2>1. m \in EndsOf(c)
    BY <1>1 DEF Steps, StoreInv, LinksAreAtEnds
  <2> QED
    BY <1>0, <1>00, <1>3, <2>1 DEF Steps, StoreInv, LinksAreAtEnds, IsList
<1>6. SavesAreAnnounced'
  <2>1. \A o \in Work(p) : o.op # "putAnn"
    BY <1>1 DEF Before, Following, Deleting
  <2> QED
    BY <1>0, <1>1, <1>3, <2>1 DEF Steps, StoreInv, SavesAreAnnounced
<1>7. ListsAreRight'
  <2> SUFFICES ASSUME NEW q \in Process, NEW o \in Work(q)', o.op = "putLinks"
               PROVE  /\ o.c \in o.list <=> Op("dropAnn", o.c) \notin Work(q)'
                      /\ o.c \in o.list /\ o.c \notin raced' => store.ann[o.c] # "none"
    BY DEF ListsAreRight
  <2>1. CASE q = p /\ o \in N
    <3>1. Op("dropAnn", c) \in Rest(p) <=> Op("dropAnn", c) \in Work(p)'
      BY <1>0, <1>1 DEF Op
    <3> QED
      BY <1>0, <1>00, <2>1, <3>1 DEF IsList, Steps
  <2>2. CASE o \in Work(q)
    BY <1>13, <2>2 DEF Steps, StoreInv, ListsAreRight
  <2> QED
    BY <1>3, <2>1, <2>2
<1>8. DeletesAreWhole'
  <2> SUFFICES ASSUME NEW q \in Process, NEW e \in Channel \ raced', Op("dropAnn", e) \in Work(q)'
               PROVE  /\ \A d \in Direction : store.upd[<<e, d>>] # 0 \/ last[<<e, d>>] # None =>
                           [op |-> "dropUpd", c |-> e, d |-> d] \in Work(q)'
                      /\ \A n \in Node : e \in store.link[n] /\ <<e, n>> \notin lost =>
                           \E o \in Work(q)' : o.op \in {"unlink", "putLinks"} /\ o.c = e /\ o.n = n
    BY DEF DeletesAreWhole
  <2>1. Op("dropAnn", e) \in Work(q) /\ e \in Channel \ raced
    BY <1>13 DEF Steps
  <2>2. ASSUME NEW d \in Direction, store.upd[<<e, d>>] # 0 \/ last[<<e, d>>] # None
        PROVE  [op |-> "dropUpd", c |-> e, d |-> d] \in Work(q)'
    <3>1. [op |-> "dropUpd", c |-> e, d |-> d] \in Work(q)
      BY <2>1, <2>2 DEF Steps, StoreInv, DeletesAreWhole
    <3> QED
      BY <1>3, <3>1
  <2>3. ASSUME NEW n \in Node, e \in store.link[n], <<e, n>> \notin lost
        PROVE  \E o \in Work(q)' : o.op \in {"unlink", "putLinks"} /\ o.c = e /\ o.n = n
    <3>1. PICK o \in Work(q) : o.op \in {"unlink", "putLinks"} /\ o.c = e /\ o.n = n
      BY <2>1, <2>3 DEF Steps, StoreInv, DeletesAreWhole
    <3>2. CASE o # First(p)
      BY <1>3, <3>1, <3>2
    <3>3. CASE o = First(p) /\ q = p
      BY <1>0, <1>00, <1>1, <3>1, <3>3
    <3>4. CASE q # p
      BY <1>1, <3>1, <3>4
    <3> QED
      BY <3>2, <3>3, <3>4
  <2> QED
    BY <2>2, <2>3
<1>9. LinksAreComing'
  <2> SUFFICES ASSUME NEW e \in Channel \ (raced' \cup cut'), NEW n \in EndsOf(e),
                      store.ann[e] # "none", e \notin store.link[n], <<e, n>> \notin lost
               PROVE  \E q \in Process : Linking(q, e, n)'
    BY DEF LinksAreComing
  <2>1. PICK q \in Process : Linking(q, e, n)
    BY DEF Steps, StoreInv, LinksAreComing
  <2>2. CASE [op |-> "link", c |-> e, n |-> n] = First(p) /\ q = p
    <3>1. Op("dropAnn", c) \notin Rest(p) /\ e = c /\ n = m
      BY <1>1, <2>2 DEF Before, Deleting, Op
    <3>2. PICK o \in N : TRUE
      BY <1>00
    <3>3. o \in Work(p)' /\ o.op = "putLinks" /\ o.c = e /\ o.n = n /\ e \in o.list
      BY <1>0, <1>00, <1>1, <3>1, <3>2 DEF IsList
    <3> QED
      BY <1>1, <3>3 DEF Linking
  <2>3. CASE ~([op |-> "link", c |-> e, n |-> n] = First(p) /\ q = p)
    <3>1. Linking(q, e, n)'
      <4>1. CASE q = p
        BY <1>3, <1>13, <2>1, <2>3, <4>1 DEF Linking
      <4>2. CASE q # p
        BY <1>1, <2>1, <4>2 DEF Linking
      <4> QED
        BY <4>1, <4>2
    <3> QED
      BY <3>1
  <2> QED
    BY <2>2, <2>3
<1>10. LastIsAtHand'
  <2>1. ASSUME NEW e, NEW x, NEW u, AtHand(e, x, u) PROVE AtHand(e, x, u)'
    BY <1>3, <2>1 DEF AtHand, Op, Process
  <2>2. \A o \in Work("filter")' : o \in Work("filter") \/ o.op = "putLinks"
    BY <1>0, <1>3 DEF Process
  <2> QED
    BY <2>1, <2>2 DEF Steps, StoreInv, LastIsAtHand
<1>11. NothingDangles'
  BY DEF Steps, StoreInv, NothingDangles
<1> QED
  BY <1>4, <1>5, <1>6, <1>7, <1>8, <1>9, <1>10, <1>11 DEF StoreInv

(***************************************************************************)
(* deleteChannelAnnouncement.                                              *)
(***************************************************************************)
LEMMA DropUpdateStep ==
  ASSUME NEW p, Steps(p, {}), First(p).op = "dropUpd",
         store'.upd = [store.upd EXCEPT ![<<First(p).c, First(p).d>>] = 0],
         last' = [last EXCEPT ![<<First(p).c, First(p).d>>] = None],
         store'.ann = store.ann, store'.link = store.link, pending' = pending, lost' = lost
  PROVE  StoreInv'
<1> DEFINE c == First(p).c
<1>1. /\ p \in Process /\ First(p) \in Operation /\ c \in Channel
      /\ Work(p) = {First(p)} \cup Rest(p) /\ Work(p)' = {} \cup Rest(p)
      /\ \A q \in Process \ {p} : Work(q)' = Work(q)
      /\ \A o \in Rest(p) : Before(First(p), o)
  BY Stepping, OperationForms DEF Unshared
<1>2. \A q \in Process \ {p} : \A o \in Work(q) : o.op \notin Unshared /\ o.c = c => c \in raced
  BY Stepping DEF Unshared
<1>3. /\ \A q \in Process : \A o \in Work(q) : o # First(p) => o \in Work(q)'
      /\ \A q \in Process : \A o \in Work(q)' : o \in Work(q)
  BY <1>1
<1> DEFINE d == First(p).d
<1>12. /\ d \in Direction /\ store'.upd[<<c, d>>] = 0 /\ last'[<<c, d>>] = None
       /\ \A k \in Key : k # <<c, d>> => store'.upd[k] = store.upd[k] /\ last'[k] = last[k]
  <2>1. d \in Direction /\ <<c, d>> \in Key
    BY <1>1, OperationForms DEF Key
  <2>2. store.upd \in [Key -> Nat] /\ last \in [Key -> Stamp]
    BY DEF Steps, TypeOK, StoreType
  <2> QED
    BY <2>1, <2>2
<1>13. First(p) = [op |-> "dropUpd", c |-> c, d |-> d]
  BY <1>1, OperationForms
<1>4. HandlersAreWhole'
  <2>1. \A q \in Process : \A o \in Work(q)' : o \in Work(q)
    BY <1>3
  <2>2. \A o \in Work(p)' : o.op # "putAnn"
    BY <1>1 DEF Before, Following, Deleting
  <2>3. \A q \in Process : \A e : Op("dropAnn", e) \in Work(q) => Op("dropAnn", e) \in Work(q)'
    BY <1>3 DEF Op
  <2> QED
    BY <1>1, <1>3, <2>1, <2>2, <2>3 DEF Steps, StoreInv, HandlersAreWhole
<1>5. LinksAreAtEnds'
  BY <1>3 DEF Steps, StoreInv, LinksAreAtEnds
<1>6. SavesAreAnnounced'
  BY <1>3 DEF Steps, StoreInv, SavesAreAnnounced
<1>7. ListsAreRight'
  BY <1>3 DEF Steps, StoreInv, ListsAreRight, Op
<1>8. DeletesAreWhole'
  <2> SUFFICES ASSUME NEW q \in Process, NEW e \in Channel \ raced', Op("dropAnn", e) \in Work(q)'
               PROVE  /\ \A x \in Direction : store'.upd[<<e, x>>] # 0 \/ last'[<<e, x>>] # None =>
                           [op |-> "dropUpd", c |-> e, d |-> x] \in Work(q)'
                      /\ \A n \in Node : e \in store.link[n] /\ <<e, n>> \notin lost =>
                           \E o \in Work(q)' : o.op \in {"unlink", "putLinks"} /\ o.c = e /\ o.n = n
    BY DEF DeletesAreWhole
  <2>0. e \in Channel \ raced /\ Op("dropAnn", e) \in Work(q)
    BY <1>3 DEF Steps
  <2>1. ASSUME NEW x \in Direction, store'.upd[<<e, x>>] # 0 \/ last'[<<e, x>>] # None
        PROVE  [op |-> "dropUpd", c |-> e, d |-> x] \in Work(q)'
    <3>1. <<e, x>> # <<c, d>> /\ <<e, x>> \in Key
      BY <1>12, <2>1 DEF Key
    <3>2. [op |-> "dropUpd", c |-> e, d |-> x] \in Work(q)
      BY <1>12, <2>0, <2>1, <3>1 DEF Steps, StoreInv, DeletesAreWhole
    <3>3. [op |-> "dropUpd", c |-> e, d |-> x] # First(p)
      BY <1>13, <3>1
    <3> QED
      BY <1>3, <3>2, <3>3
  <2>2. \A n \in Node : e \in store.link[n] /\ <<e, n>> \notin lost =>
           \E o \in Work(q) : o.op \in {"unlink", "putLinks"} /\ o.c = e /\ o.n = n
    BY <2>0 DEF Steps, StoreInv, DeletesAreWhole
  <2> QED
    BY <1>3, <2>1, <2>2
<1>9. LinksAreComing'
  BY <1>3 DEF Steps, StoreInv, LinksAreComing, Linking, Op
<1>10. LastIsAtHand'
  <2>1. ASSUME NEW e, NEW x, NEW u, AtHand(e, x, u), <<e, x>> \in Key, <<e, x>> # <<c, d>> PROVE AtHand(e, x, u)'
    BY <1>3, <1>12, <2>1 DEF AtHand, Op, Process
  <2>2. \A o \in Work("filter")' : o \in Work("filter") /\ (o.op \in {"update", "putUpd"} => <<o.c, o.d>> \in Key)
    BY <1>3, Stepping, OperationForms DEF Process, Unshared, Key
  <2>3. \A o \in Work("filter") : o.op = "putUpd" /\ o.c \notin raced => <<o.c, o.d>> # <<c, d>>
    <3> SUFFICES ASSUME NEW o \in Work("filter"), o.op = "putUpd", o.c \notin raced, o.c = c PROVE FALSE
      BY DEF Steps
    <3>1. p = "filter"
      BY <1>2 DEF Process, Unshared
    <3> QED
      BY <1>1, <3>1 DEF Before, Following, Deleting
  <2> QED
    BY <1>12, <2>1, <2>2, <2>3, SMTT(30) DEF Steps, StoreInv, LastIsAtHand, Key
<1>11. NothingDangles'
  BY <1>12 DEF Steps, StoreInv, NothingDangles, Key, Direction
<1> QED
  BY <1>4, <1>5, <1>6, <1>7, <1>8, <1>9, <1>10, <1>11 DEF StoreInv

LEMMA DropAnnouncementStep ==
  ASSUME NEW p, Steps(p, {}), First(p).op = "dropAnn",
         store'.ann = [store.ann EXCEPT ![First(p).c] = "none"],
         store'.upd = store.upd, store'.link = store.link, pending' = pending, last' = last, lost' = lost
  PROVE  StoreInv'
<1> DEFINE c == First(p).c
<1>1. /\ p \in Process /\ First(p) \in Operation /\ c \in Channel
      /\ Work(p) = {First(p)} \cup Rest(p) /\ Work(p)' = {} \cup Rest(p)
      /\ \A q \in Process \ {p} : Work(q)' = Work(q)
      /\ \A o \in Rest(p) : Before(First(p), o)
  BY Stepping, OperationForms DEF Unshared
<1>2. \A q \in Process \ {p} : \A o \in Work(q) : o.op \notin Unshared /\ o.c = c => c \in raced
  BY Stepping DEF Unshared
<1>3. /\ \A q \in Process : \A o \in Work(q) : o # First(p) => o \in Work(q)'
      /\ \A q \in Process : \A o \in Work(q)' : o \in Work(q)
  BY <1>1
<1>12. /\ store'.ann[c] = "none" /\ \A e \in Channel : e # c => store'.ann[e] = store.ann[e]
  BY <1>1 DEF Steps, TypeOK, StoreType
<1>13. First(p) = Op("dropAnn", c) /\ First(p) \in Work(p)
  BY <1>1, OperationForms
<1>14. \A o \in Rest(p) : o.op = "sweep"
  BY <1>1 DEF Before
<1>15. \A q \in Process : \A o \in Work(q)' : o.op # "sweep" => q # p /\ o \in Work(q)
  BY <1>1, <1>14
<1>16. \A q \in Process : \A o \in Work(q)' : o.op \notin Unshared => o.c \in Channel /\ (o.c = c => c \in raced)
  <2> SUFFICES ASSUME NEW q \in Process, NEW o \in Work(q)', o.op \notin Unshared
               PROVE  o.c \in Channel /\ (o.c = c => c \in raced)
    OBVIOUS
  <2>1. q # p /\ o \in Work(q)
    BY <1>15 DEF Unshared
  <2> QED
    BY <1>2, <2>1, Stepping, OperationForms
<1>17. c \notin raced => /\ \A d \in Direction : store.upd[<<c, d>>] = 0 /\ last[<<c, d>>] = None
                        /\ \A n \in Node : c \in store.link[n] => <<c, n>> \in lost
  <2> SUFFICES ASSUME c \notin raced
               PROVE  /\ \A d \in Direction : store.upd[<<c, d>>] = 0 /\ last[<<c, d>>] = None
                      /\ \A n \in Node : c \in store.link[n] => <<c, n>> \in lost
    OBVIOUS
  <2>1. \A o \in Work(p) : o.op \in {"sweep", "dropAnn"}
    BY <1>1, <1>14
  <2>2. /\ \A d \in Direction : store.upd[<<c, d>>] # 0 \/ last[<<c, d>>] # None =>
              [op |-> "dropUpd", c |-> c, d |-> d] \in Work(p)
        /\ \A n \in Node : c \in store.link[n] /\ <<c, n>> \notin lost =>
              \E o \in Work(p) : o.op \in {"unlink", "putLinks"} /\ o.c = c /\ o.n = n
    BY <1>1, <1>13 DEF Steps, StoreInv, DeletesAreWhole
  <2> QED
    BY <2>1, <2>2
<1>4. HandlersAreWhole'
  <2>1. \A q \in Process : \A o \in Work(q)' : o \in Work(q)
    BY <1>3
  <2>2. ASSUME NEW q \in Process, NEW o \in Work(q)'
        PROVE  /\ o.op = "putAnn" => /\ Op("flushUpdates", o.c) \in Work(q)'
                                     /\ \A n \in EndsOf(o.c) : [op |-> "link", c |-> o.c, n |-> n] \in Work(q)'
               /\ o.op \in {"dropUpd", "unlink"} => Op("dropAnn", o.c) \in Work(q)'
               /\ o.op = "forget" => kind = "memory"
    <3>1. CASE o.op = "sweep"
      BY <3>1
    <3>2. CASE o.op # "sweep"
      <4>1. o \in Work(q) /\ Work(q)' = Work(q)
        BY <1>1, <1>15, <2>2, <3>2
      <4> QED
        BY <4>1 DEF Steps, StoreInv, HandlersAreWhole
    <3> QED
      BY <3>1, <3>2
  <2> QED
    BY <2>1, <2>2 DEF Steps, StoreInv, HandlersAreWhole
<1>5. LinksAreAtEnds'
  BY <1>3 DEF Steps, StoreInv, LinksAreAtEnds
<1>6. SavesAreAnnounced'
  <2> SUFFICES ASSUME NEW q \in Process, NEW o \in Work(q)', o.c \notin raced',
                      o.op \in {"putOut", "link", "flushUpdates", "take", "putUpd"}
               PROVE  store'.ann[o.c] # "none" \/ \E x \in Work(q)' : x.op = "putAnn"
    BY DEF SavesAreAnnounced
  <2>1. q # p /\ o \in Work(q) /\ Work(q)' = Work(q)
    BY <1>1, <1>15
  <2>2. o.c \in Channel /\ o.c # c
    BY <1>16 DEF Unshared, Steps
  <2> QED
    BY <1>12, <2>1, <2>2 DEF Steps, StoreInv, SavesAreAnnounced
<1>7. ListsAreRight'
  <2> SUFFICES ASSUME NEW q \in Process, NEW o \in Work(q)', o.op = "putLinks"
               PROVE  /\ o.c \in o.list <=> Op("dropAnn", o.c) \notin Work(q)'
                      /\ o.c \in o.list /\ o.c \notin raced' => store'.ann[o.c] # "none"
    BY DEF ListsAreRight
  <2>1. q # p /\ o \in Work(q) /\ Work(q)' = Work(q)
    BY <1>1, <1>15
  <2>2. o.c \in Channel /\ (o.c = c => c \in raced)
    BY <1>16 DEF Unshared
  <2> QED
    BY <1>12, <2>1, <2>2 DEF Steps, StoreInv, ListsAreRight
<1>8. DeletesAreWhole'
  <2> SUFFICES ASSUME NEW q \in Process, NEW e \in Channel \ raced', Op("dropAnn", e) \in Work(q)'
               PROVE  /\ \A x \in Direction : store.upd[<<e, x>>] # 0 \/ last[<<e, x>>] # None =>
                           [op |-> "dropUpd", c |-> e, d |-> x] \in Work(q)'
                      /\ \A n \in Node : e \in store.link[n] /\ <<e, n>> \notin lost =>
                           \E o \in Work(q)' : o.op \in {"unlink", "putLinks"} /\ o.c = e /\ o.n = n
    BY DEF DeletesAreWhole
  <2>1. q # p /\ Work(q)' = Work(q)
    BY <1>1, <1>15 DEF Op
  <2> QED
    BY <2>1 DEF Steps, StoreInv, DeletesAreWhole
<1>9. LinksAreComing'
  <2> SUFFICES ASSUME NEW e \in Channel \ (raced' \cup cut'), NEW n \in EndsOf(e),
                      store'.ann[e] # "none", e \notin store.link[n], <<e, n>> \notin lost
               PROVE  \E q \in Process : Linking(q, e, n)'
    BY DEF LinksAreComing
  <2>1. e # c /\ store.ann[e] # "none"
    BY <1>12
  <2>2. PICK q \in Process : Linking(q, e, n)
    BY <2>1 DEF Steps, StoreInv, LinksAreComing
  <2>3. Linking(q, e, n)'
    BY <1>3, <1>13, <2>1, <2>2 DEF Linking, Op
  <2> QED
    BY <2>3
<1>10. LastIsAtHand'
  <2>1. ASSUME NEW e \in Channel, NEW x, NEW u, AtHand(e, x, u), e # c PROVE AtHand(e, x, u)'
    BY <1>3, <1>12, <1>13, <2>1 DEF AtHand, Op, Process
  <2>2. \A o \in Work("filter")' : o \in Work("filter") /\ (o.op = "update" => o.c \in Channel /\ (o.c = c => c \in raced))
    BY <1>3, <1>16 DEF Process, Unshared
  <2>3. \A e \in Channel \ (raced' \cup cut') : \A d \in Direction :
           last[<<e, d>>] # None => AtHand(e, d, last[<<e, d>>])'
    BY <1>17, <2>1 DEF Steps, StoreInv, LastIsAtHand
  <2> QED
    BY <1>12, <2>2, <2>3 DEF Steps, StoreInv, LastIsAtHand
<1>11. NothingDangles'
  BY <1>12, <1>17 DEF Steps, StoreInv, NothingDangles, Direction
<1> QED
  BY <1>4, <1>5, <1>6, <1>7, <1>8, <1>9, <1>10, <1>11 DEF StoreInv

LEMMA ForgetStep ==
  ASSUME NEW p, Steps(p, {}), First(p).op = "forget",
         store' = IF store.ann[First(p).c] = "none" THEN store ELSE forgetChannel(store, First(p).c),
         last' = [last EXCEPT ![<<First(p).c, 0>>] = None, ![<<First(p).c, 1>>] = None],
         pending' = pending, lost' = lost
  PROVE  StoreInv'
<1> DEFINE c == First(p).c
<1>1. /\ p \in Process /\ First(p) \in Operation /\ c \in Channel
      /\ Work(p) = {First(p)} \cup Rest(p) /\ Work(p)' = {} \cup Rest(p)
      /\ \A q \in Process \ {p} : Work(q)' = Work(q)
      /\ \A o \in Rest(p) : Before(First(p), o)
  BY Stepping, OperationForms DEF Unshared
<1>2. \A q \in Process \ {p} : \A o \in Work(q) : o.op \notin Unshared /\ o.c = c => c \in raced
  BY Stepping DEF Unshared
<1>3. /\ \A q \in Process : \A o \in Work(q) : o # First(p) => o \in Work(q)'
      /\ \A q \in Process : \A o \in Work(q)' : o \in Work(q)
  BY <1>1
<1>12. /\ store'.ann[c] = "none"
       /\ \A e \in Channel : e # c => store'.ann[e] = store.ann[e]
       /\ \A k \in Key : k # <<c, 0>> => store'.upd[k] = store.upd[k]
       /\ c \notin raced => /\ store'.upd[<<c, 0>>] = 0
                           /\ \A n \in Node : c \in store'.link[n] => <<c, n>> \in lost
       /\ \A n \in Node : \A e : e \in store'.link[n] => e \in store.link[n]
       /\ \A n \in Node : \A e : e \in store.link[n] /\ e # c => e \in store'.link[n]
  <2>1. CASE store.ann[c] = "none"
    BY <1>1, <2>1 DEF Steps, StoreInv, NothingDangles
  <2>2. CASE store.ann[c] # "none"
    <3>1. /\ store'.ann = [store.ann EXCEPT ![c] = "none"]
          /\ store'.upd = [store.upd EXCEPT ![<<c, 0>>] = 0]
          /\ store'.link = [n \in Node |-> IF n \in EndsOf(c) THEN store.link[n] \ {c} ELSE store.link[n]]
      BY <2>2 DEF forgetChannel, Steps, TypeOK, StoreType
    <3>2. /\ store.ann \in [Channel -> {"none", "plain", "extended"}] /\ store.upd \in [Key -> Nat]
          /\ <<c, 0>> \in Key
      BY <1>1 DEF Steps, TypeOK, StoreType, Key, Direction
    <3>3. \A n \in Node : c \notin store'.link[n]
      BY <1>1, <3>1 DEF Steps, StoreInv, LinksAreAtEnds
    <3> QED
      BY <1>1, <3>1, <3>2, <3>3
  <2> QED
    BY <2>1, <2>2
<1>13. /\ \A d \in Direction : last'[<<c, d>>] = None
       /\ \A k \in Key : k # <<c, 0>> /\ k # <<c, 1>> => last'[k] = last[k]
  BY <1>1 DEF Steps, TypeOK, Key, Direction
<1>14. \A o \in Rest(p) : o.op = "sweep"
  BY <1>1 DEF Before
<1>15. \A q \in Process : \A o \in Work(q)' : o.op # "sweep" => q # p /\ o \in Work(q)
  BY <1>1, <1>14
<1>16. \A q \in Process : \A o \in Work(q)' : o.op \notin Unshared => o.c \in Channel /\ (o.c = c => c \in raced)
  <2> SUFFICES ASSUME NEW q \in Process, NEW o \in Work(q)', o.op \notin Unshared
               PROVE  o.c \in Channel /\ (o.c = c => c \in raced)
    OBVIOUS
  <2>1. q # p /\ o \in Work(q)
    BY <1>15 DEF Unshared
  <2> QED
    BY <1>2, <2>1, Stepping, OperationForms
<1>4. HandlersAreWhole'
  <2>1. \A q \in Process : \A o \in Work(q)' : o \in Work(q)
    BY <1>3
  <2>2. ASSUME NEW q \in Process, NEW o \in Work(q)'
        PROVE  /\ o.op = "putAnn" => /\ Op("flushUpdates", o.c) \in Work(q)'
                                     /\ \A n \in EndsOf(o.c) : [op |-> "link", c |-> o.c, n |-> n] \in Work(q)'
               /\ o.op \in {"dropUpd", "unlink"} => Op("dropAnn", o.c) \in Work(q)'
               /\ o.op = "forget" => kind = "memory"
    <3>1. CASE o.op = "sweep"
      BY <3>1
    <3>2. CASE o.op # "sweep"
      <4>1. o \in Work(q) /\ Work(q)' = Work(q)
        BY <1>1, <1>15, <2>2, <3>2
      <4> QED
        BY <4>1 DEF Steps, StoreInv, HandlersAreWhole
    <3> QED
      BY <3>1, <3>2
  <2> QED
    BY <2>1, <2>2 DEF Steps, StoreInv, HandlersAreWhole
<1>5. LinksAreAtEnds'
  BY <1>3, <1>12 DEF Steps, StoreInv, LinksAreAtEnds
<1>6. SavesAreAnnounced'
  <2> SUFFICES ASSUME NEW q \in Process, NEW o \in Work(q)', o.c \notin raced',
                      o.op \in {"putOut", "link", "flushUpdates", "take", "putUpd"}
               PROVE  store'.ann[o.c] # "none" \/ \E x \in Work(q)' : x.op = "putAnn"
    BY DEF SavesAreAnnounced
  <2>1. q # p /\ o \in Work(q) /\ Work(q)' = Work(q)
    BY <1>1, <1>15
  <2>2. o.c \in Channel /\ o.c # c
    BY <1>16 DEF Unshared, Steps
  <2> QED
    BY <1>12, <2>1, <2>2 DEF Steps, StoreInv, SavesAreAnnounced
<1>7. ListsAreRight'
  <2> SUFFICES ASSUME NEW q \in Process, NEW o \in Work(q)', o.op = "putLinks"
               PROVE  /\ o.c \in o.list <=> Op("dropAnn", o.c) \notin Work(q)'
                      /\ o.c \in o.list /\ o.c \notin raced' => store'.ann[o.c] # "none"
    BY DEF ListsAreRight
  <2>1. q # p /\ o \in Work(q) /\ Work(q)' = Work(q)
    BY <1>1, <1>15
  <2>2. o.c \in Channel /\ (o.c = c => c \in raced)
    BY <1>16 DEF Unshared
  <2> QED
    BY <1>12, <2>1, <2>2 DEF Steps, StoreInv, ListsAreRight
<1>8. DeletesAreWhole'
  <2> SUFFICES ASSUME NEW q \in Process, NEW e \in Channel \ raced', Op("dropAnn", e) \in Work(q)'
               PROVE  /\ \A x \in Direction : store'.upd[<<e, x>>] # 0 \/ last'[<<e, x>>] # None =>
                           [op |-> "dropUpd", c |-> e, d |-> x] \in Work(q)'
                      /\ \A n \in Node : e \in store'.link[n] /\ <<e, n>> \notin lost' =>
                           \E o \in Work(q)' : o.op \in {"unlink", "putLinks"} /\ o.c = e /\ o.n = n
    BY DEF DeletesAreWhole
  <2>1. q # p /\ Work(q)' = Work(q) /\ e # c
    BY <1>1, <1>15, <1>16 DEF Op, Unshared, Steps
  <2>2. \A x \in Direction : store'.upd[<<e, x>>] = store.upd[<<e, x>>] /\ last'[<<e, x>>] = last[<<e, x>>]
    BY <1>12, <1>13, <2>1 DEF Key
  <2>3. /\ \A x \in Direction : store.upd[<<e, x>>] # 0 \/ last[<<e, x>>] # None =>
              [op |-> "dropUpd", c |-> e, d |-> x] \in Work(q)
        /\ \A n \in Node : e \in store.link[n] /\ <<e, n>> \notin lost =>
              \E o \in Work(q) : o.op \in {"unlink", "putLinks"} /\ o.c = e /\ o.n = n
    BY <2>1 DEF Steps, StoreInv, DeletesAreWhole
  <2>4. \A n \in Node : e \in store'.link[n] => e \in store.link[n]
    BY <1>12
  <2> QED
    BY <2>1, <2>2, <2>3, <2>4
<1>9. LinksAreComing'
  <2> SUFFICES ASSUME NEW e \in Channel \ (raced' \cup cut'), NEW n \in EndsOf(e),
                      store'.ann[e] # "none", e \notin store'.link[n], <<e, n>> \notin lost
               PROVE  \E q \in Process : Linking(q, e, n)'
    BY DEF LinksAreComing
  <2>1. e # c /\ store.ann[e] # "none" /\ e \notin store.link[n]
    BY <1>12, EndsAreNodes
  <2>2. PICK q \in Process : Linking(q, e, n)
    BY <2>1 DEF Steps, StoreInv, LinksAreComing
  <2>3. Linking(q, e, n)'
    BY <1>3, <2>2 DEF Linking, Op
  <2> QED
    BY <2>3
<1>10. LastIsAtHand'
  <2>2. \A o \in Work("filter")' : o \in Work("filter") /\ (o.op \in {"update", "putUpd"} =>
           o.c \in Channel /\ o.d \in Direction /\ (o.c = c => c \in raced))
    BY <1>3, <1>16, Stepping, OperationForms DEF Process, Unshared
  <2>3. \A e \in Channel, d \in Direction : e # c => last'[<<e, d>>] = last[<<e, d>>] /\ store'.upd[<<e, d>>] = store.upd[<<e, d>>]
    BY <1>12, <1>13 DEF Key
  <2>4. ASSUME NEW e \in Channel \ (raced' \cup cut'), NEW d \in Direction, last'[<<e, d>>] # None
        PROVE  AtHand(e, d, last[<<e, d>>])'
    <3>1. e # c
      BY <1>13, <2>4
    <3>2. last'[<<e, d>>] = last[<<e, d>>]
      BY <2>3, <3>1
    <3>3. AtHand(e, d, last[<<e, d>>])
      BY <2>4, <3>2 DEF Steps, StoreInv, LastIsAtHand
    <3>4. store'.ann[e] = store.ann[e] /\ store'.upd[<<e, d>>] = store.upd[<<e, d>>]
      BY <1>12, <2>3, <3>1
    <3>5. \A o \in Work("filter") : o.op # "forget" => o \in Work("filter")'
      BY <1>3 DEF Process
    <3> QED
      BY <3>2, <3>3, <3>4, <3>5 DEF AtHand, Op
  <2>5. ASSUME NEW o \in Work("filter")', o.op = "update", o.c \notin raced', last'[<<o.c, o.d>>] # None
        PROVE  store'.ann[o.c] # "none" \/ last'[<<o.c, o.d>>] = [at |-> o.at, ok |-> o.ok]
    <3>1. o \in Work("filter") /\ o.c \in Channel /\ o.d \in Direction /\ o.c # c
      BY <2>2, <2>5 DEF Steps
    <3>2. last[<<o.c, o.d>>] # None /\ o.c \notin raced
      BY <2>3, <2>5, <3>1 DEF Steps
    <3>3. store.ann[o.c] # "none" \/ last[<<o.c, o.d>>] = [at |-> o.at, ok |-> o.ok]
      BY <2>5, <3>1, <3>2 DEF Steps, StoreInv, LastIsAtHand
    <3> QED
      BY <1>12, <2>3, <3>1, <3>3
  <2>6. ASSUME NEW o \in Work("filter")', o.op = "putUpd", o.c \notin raced'
        PROVE  store'.upd[<<o.c, o.d>>] < o.at
    <3>1. o \in Work("filter") /\ o.c \in Channel /\ o.d \in Direction /\ o.c # c
      BY <2>2, <2>6 DEF Steps
    <3> QED
      BY <2>3, <2>6, <3>1 DEF Steps, StoreInv, LastIsAtHand
  <2> QED
    BY <2>4, <2>5, <2>6 DEF LastIsAtHand
<1>11. NothingDangles'
  <2>1. kind = "memory"
    BY <1>1 DEF Steps, StoreInv, HandlersAreWhole
  <2>2. ASSUME NEW e \in Channel \ raced', store'.ann[e] = "none"
        PROVE  (\A n \in Node : e \in store'.link[n] => <<e, n>> \in lost) /\ store'.upd[<<e, 0>>] = 0
    <3>1. CASE e = c
      BY <1>12, <2>2, <3>1 DEF Steps
    <3>2. CASE e # c
      <4>1. store'.upd[<<e, 0>>] = store.upd[<<e, 0>>] /\ store.ann[e] = "none"
        BY <1>12, <2>2, <3>2 DEF Key, Direction
      <4> QED
        BY <1>12, <2>2, <4>1 DEF Steps, StoreInv, NothingDangles
    <3> QED
      BY <3>1, <3>2
  <2> QED
    BY <2>1, <2>2 DEF Steps, NothingDangles
<1> QED
  BY <1>4, <1>5, <1>6, <1>7, <1>8, <1>9, <1>10, <1>11 DEF StoreInv

-----------------------------------------------------------------------------
(***************************************************************************)
(* The actions.  First what all of them keep: the bookkeeping of races and *)
(* of handlers that were cut, and the order of operations.                 *)
(***************************************************************************)
Advance ==
    /\ raced' = raced \cup Races'
    /\ cut' = cut \cup UNION {StoppedShort(p) : p \in Process}

Kept ==
    /\ InOrder' /\ RacesAreSeen' /\ todo' \in [Process -> Seq(Operation)]
    /\ raced' \subseteq Channel /\ cut' \subseteq Channel
    /\ raced \subseteq raced' /\ cut \subseteq cut'

LEMMA Keeping ==
  ASSUME TypeOK, InOrder', todo' \in [Process -> Seq(Operation)], Advance
  PROVE  Kept
<1>1. Races' \subseteq Channel
  BY DEF Races
<1>2. \A p \in Process : StoppedShort(p) \subseteq Channel
  BY Listed DEF StoppedShort, TypeOK
<1>3. UNION {StoppedShort(p) : p \in Process} \subseteq Channel
  BY <1>2
<1> QED
  BY <1>1, <1>3, Seeing DEF Kept, Advance, TypeOK

LEMMA ThenSteps ==
  ASSUME SInv, NEW p \in Process, todo[p] # <<>>,
         NEW ops \in Seq(Operation), Ordered(ops),
         \A a \in Range(ops), b \in Rest(p) : Before(a, b),
         Then(p, ops), Advance, kind' = kind
  PROVE  Steps(p, Range(ops)) /\ Kept
<1>1. Moves(p, Range(ops)) /\ InOrder' /\ todo' \in [Process -> Seq(Operation)]
  BY ThenMoves DEF SInv
<1>2. Kept
  BY <1>1, Keeping DEF SInv
<1> QED
  BY <1>1, <1>2 DEF Steps, SInv, Kept

LEMMA DoneSteps ==
  ASSUME SInv, NEW p \in Process, todo[p] # <<>>, Then(p, <<>>), Advance, kind' = kind
  PROVE  Steps(p, {}) /\ Kept
BY ThenSteps, Short, ZenonT(30)

LEMMA OneSteps ==
  ASSUME SInv, NEW p \in Process, todo[p] # <<>>, NEW a \in Operation,
         \A b \in Rest(p) : Before(First(p), b) => Before(a, b),
         Then(p, <<a>>), Advance, kind' = kind
  PROVE  Steps(p, {a}) /\ Kept
<1>1. \A b \in Rest(p) : Before(a, b)
  BY Moving DEF SInv
<1>2. <<a>> \in Seq(Operation) /\ Range(<<a>>) = {a} /\ Ordered(<<a>>)
  BY Short
<1> DEFINE s == <<a>>
<1> HIDE DEF s
<1>3. s \in Seq(Operation) /\ Range(s) = {a} /\ Ordered(s) /\ Then(p, s)
  BY <1>2 DEF s
<1>4. \A x \in Range(s), b \in Rest(p) : Before(x, b)
  BY <1>1, <1>3
<1> QED
  BY <1>3, <1>4, ThenSteps

LEMMA Stopping ==
  ASSUME SInv, NEW p \in Process, todo[p] # <<>>, Stop(p), Advance,
         First(p).op \in {"channel", "chain", "update", "node"},
         First(p).op = "update" => store.ann[First(p).c] # "none" /\ First(p).ok = FALSE,
         kind' = kind, store' = store, pending'.upd = pending.upd, last' = last, lost' = lost
  PROVE  StoreInv' /\ Kept
<1>1. /\ Work(p)' = {} /\ \A q \in Process \ {p} : Work(q)' = Work(q)
      /\ InOrder' /\ todo' \in [Process -> Seq(Operation)]
  BY StopMoves DEF SInv
<1>2. Kept
  BY <1>1, Keeping DEF SInv
<1>3. todo'[p] = <<>>
  BY DEF Stop, SInv, TypeOK
<1>4. LeftUndone(todo[p]) \subseteq LeftUndone(Tail(todo[p]))
  <2>1. Range(todo[p]) = {First(p)} \cup Range(Tail(todo[p]))
    BY Taking DEF First, SInv, TypeOK
  <2> QED
    BY <2>1 DEF LeftUndone
<1>5. LeftUndone(todo[p]) \subseteq cut'
  BY <1>3, <1>4 DEF Advance, StoppedShort
<1>6. StoreInv'
  BY <1>1, <1>2, <1>5, StopStep DEF SInv, Kept
<1> QED
  BY <1>2, <1>6

(* One operation for another that changes nothing that belongs to a        *)
(* channel.                                                                *)
LEMMA QuietOne ==
  ASSUME NEW p, NEW N \in SUBSET Operation, Steps(p, N),
         First(p).op \in Quiet \cup {"putOut"}, \A o \in N : o.op \in Quiet /\ (First(p).op = "sweep" => o.op = "sweep"),
         store'.ann = store.ann, store'.upd = store.upd, store'.link = store.link,
         pending'.upd = pending.upd, last' = last, lost' = lost
  PROVE  StoreInv'
BY QuietStep DEF Steps

(* The types of what an action leaves alone.                               *)
LEMMA KeptType ==
  ASSUME SInv, Kept, kind' = kind, chainClient' = chainClient, utxo' \subseteq utxo,
         store' \in StoreType, pending' \in [upd : [Key -> Stamp], node : [Node -> Stamp]],
         graph' \in GraphType, last' \in [Key -> Stamp], lost' \subseteq Channel \X Node, StoreInv',
         bound' \in [received : Nat, removals : Nat, faults : Nat]
  PROVE  SInv'
<1>1. TypeOK'
  BY DEF SInv, Kept, TypeOK
<1> QED
  BY <1>1 DEF SInv, Kept

LEMMA ValidateChannelAnnouncement ==
  ASSUME SInv, NEW p \in Process, _validateChannelAnnouncement(p), Advance
  PROVE  SInv'
<1> USE DEF Job, First
<1>1. todo[p] # <<>> /\ First(p).op = "channel"
  BY DEF _validateChannelAnnouncement, Doing
<1>2. First(p) \in Operation /\ First(p).c \in Channel
  BY <1>1, Moving, OperationForms DEF SInv, Unshared
<1>3. /\ kind' = kind /\ chainClient' = chainClient /\ lost' = lost /\ utxo' = utxo /\ store' = store /\ pending' = pending
      /\ graph' = graph /\ last' = last /\ bound' = bound
  BY DEF _validateChannelAnnouncement
<1>4. StoreInv' /\ Kept
  <2>1. CASE Then(p, <<>>)
    BY <1>1, <1>3, <2>1, DoneSteps, QuietOne DEF Quiet
  <2>2. CASE Stop(p)
    BY <1>1, <1>3, <2>2, Stopping
  <2>3. CASE Then(p, << Op("chain", First(p).c) >>)
    <3> DEFINE a == Op("chain", First(p).c)
    <3>1. a \in Operation /\ a.op = "chain" /\ a.c = First(p).c
      BY <1>2 DEF Op, Operation
    <3>2. \A b : Before(First(p), b) => Before(a, b)
      BY <1>1, <3>1 DEF Before, Deleting, Unshared
    <3> HIDE DEF a
    <3>3. Then(p, <<a>>)
      BY <2>3 DEF a
    <3>4. Steps(p, {a}) /\ Kept
      BY <1>1, <1>3, <3>1, <3>2, <3>3, OneSteps
    <3> QED
      BY <1>1, <1>3, <3>1, <3>4, QuietOne DEF Quiet
  <2>4. CASE Then(p, SaveOps(First(p).c, "plain"))
    <3> DEFINE ops == SaveOps(First(p).c, "plain")
    <3>1. /\ ops \in Seq(Operation) /\ Ordered(ops)
          /\ \A a \in Range(ops) : a.op \in {"putAnn", "link", "flushUpdates", "flushNodes"} /\ a.c = First(p).c
      BY <1>2, SaveOpsWork DEF LinkOp, Op
    <3> HIDE DEF ops
    <3>2. \A a \in Range(ops), b \in Rest(p) : Before(a, b)
      <4>1. \A b \in Rest(p) : Before(First(p), b)
        BY <1>1, Moving DEF SInv
      <4> QED
        BY <1>1, <3>1, <4>1 DEF Before, Deleting, Unshared
    <3>3. Steps(p, Range(ops)) /\ Kept
      BY <1>1, <1>3, <2>4, <3>1, <3>2, ThenSteps DEF ops
    <3> QED
      BY <1>1, <1>3, <3>3, SaveStep DEF Steps, ops
  <2> QED
    BY <2>1, <2>2, <2>3, <2>4 DEF _validateChannelAnnouncement
<1> QED
  BY <1>3, <1>4, KeptType DEF SInv, TypeOK

LEMMA ValidateOnChain ==
  ASSUME SInv, NEW p \in Process, _validateOnChain(p), Advance
  PROVE  SInv'
<1> USE DEF Job, First
<1>1. todo[p] # <<>> /\ First(p).op = "chain"
  BY DEF _validateOnChain, Doing
<1>2. First(p) \in Operation /\ First(p).c \in Channel
  BY <1>1, Moving, OperationForms DEF SInv, Unshared
<1>3. /\ kind' = kind /\ chainClient' = chainClient /\ lost' = lost /\ utxo' = utxo /\ store' = store /\ pending' = pending
      /\ graph' = graph /\ last' = last /\ bound' = bound
  BY DEF _validateOnChain
<1>4. StoreInv' /\ Kept
  <2>1. CASE Stop(p)
    BY <1>1, <1>3, <2>1, Stopping
  <2>2. CASE Then(p, SaveOps(First(p).c, "extended"))
    <3> DEFINE ops == SaveOps(First(p).c, "extended")
    <3>1. /\ ops \in Seq(Operation) /\ Ordered(ops)
          /\ \A a \in Range(ops) : /\ a.op \in {"putAnn", "putOut", "link", "flushUpdates", "flushNodes"}
                                   /\ a.c = First(p).c
      BY <1>2, SaveOpsWork DEF LinkOp, Op
    <3> HIDE DEF ops
    <3>2. \A a \in Range(ops), b \in Rest(p) : Before(a, b)
      <4>1. \A b \in Rest(p) : Before(First(p), b)
        BY <1>1, Moving DEF SInv
      <4> QED
        BY <1>1, <3>1, <4>1 DEF Before, Deleting, Unshared
    <3>3. Steps(p, Range(ops)) /\ Kept
      BY <1>1, <1>3, <2>2, <3>1, <3>2, ThenSteps DEF ops
    <3> QED
      BY <1>1, <1>3, <3>3, SaveStep DEF Steps, ops
  <2> QED
    BY <2>1, <2>2 DEF _validateOnChain
<1> QED
  BY <1>3, <1>4, KeptType DEF SInv, TypeOK

OneOrTwo(x, a, y, b) == (IF x # None THEN <<a>> ELSE <<>>) \o (IF y # None THEN <<b>> ELSE <<>>)

LEMMA Twice ==
  ASSUME NEW a \in Operation, NEW b \in Operation, Before(a, b), NEW x, NEW y
  PROVE  /\ OneOrTwo(x, a, y, b) \in Seq(Operation) /\ Ordered(OneOrTwo(x, a, y, b))
         /\ Range(OneOrTwo(x, a, y, b)) = (IF x # None THEN {a} ELSE {}) \cup (IF y # None THEN {b} ELSE {})
<1> DEFINE l == IF x # None THEN <<a>> ELSE <<>>
           r == IF y # None THEN <<b>> ELSE <<>>
<1>1. l \in Seq(Operation) /\ Ordered(l) /\ Range(l) = (IF x # None THEN {a} ELSE {})
  BY Short
<1>2. r \in Seq(Operation) /\ Ordered(r) /\ Range(r) = (IF y # None THEN {b} ELSE {})
  BY Short
<1> HIDE DEF l, r
<1>3. \A i \in Range(l), j \in Range(r) : Before(i, j)
  BY <1>1, <1>2
<1>4. l \o r \in Seq(Operation) /\ Ordered(l \o r) /\ Range(l \o r) = Range(l) \cup Range(r)
  BY <1>1, <1>2, <1>3, Joining
<1> QED
  BY <1>1, <1>2, <1>4 DEF l, r, OneOrTwo

LEMMA FlushPending ==
  ASSUME SInv, NEW p \in Process, _flushPending(p), Advance
  PROVE  SInv'
<1> USE DEF Job, First
<1>1. todo[p] # <<>> /\ First(p).op \in {"flushUpdates", "flushNodes"}
  BY DEF _flushPending, Doing
<1>2. First(p) \in Operation /\ First(p).c \in Channel /\ \A b \in Rest(p) : Before(First(p), b)
  BY <1>1, Moving, OperationForms DEF SInv, Unshared
<1>3. /\ kind' = kind /\ chainClient' = chainClient /\ lost' = lost /\ utxo' = utxo /\ store' = store /\ pending' = pending
      /\ graph' = graph /\ last' = last /\ bound' = bound
  BY DEF _flushPending
<1> DEFINE c == First(p).c
<1>4. StoreInv' /\ Kept
  <2>1. CASE First(p).op = "flushUpdates" /\ Then(p, Taken(c))
    <3> DEFINE a == [op |-> "take", c |-> c, d |-> 0]
               b == [op |-> "take", c |-> c, d |-> 1]
               ops == Taken(c)
    <3>1. a \in Operation /\ b \in Operation
      BY <1>2 DEF Operation, Direction
    <3>2. Before(a, b)
      BY DEF Before, Following, Deleting, Unshared
    <3>3. \A x : Before(First(p), x) => Before(a, x) /\ Before(b, x)
      BY <2>1 DEF Before, Deleting, Unshared
    <3> DEFINE x == pending.upd[<<c, 0>>]
               y == pending.upd[<<c, 1>>]
    <3>4. ops = OneOrTwo(x, a, y, b)
      BY DEF Taken, OneOrTwo
    <3>6. a.op = "take" /\ b.op = "take" /\ a.c = c /\ b.c = c
      OBVIOUS
    <3> HIDE DEF a, b, ops, x, y
    <3>7. /\ ops \in Seq(Operation) /\ Ordered(ops)
          /\ Range(ops) = (IF x # None THEN {a} ELSE {}) \cup (IF y # None THEN {b} ELSE {})
      BY <3>1, <3>2, <3>4, Twice
    <3>8. \A o \in Range(ops), z \in Rest(p) : Before(o, z)
      BY <1>2, <3>3, <3>7
    <3>9. Steps(p, Range(ops)) /\ Kept
      BY <1>1, <1>3, <2>1, <3>7, <3>8, ThenSteps DEF ops
    <3>10. \A o \in Range(ops) : o.op = "take" /\ o.c = c
      BY <3>6, <3>7
    <3>11. \A d \in Direction : pending.upd[<<c, d>>] # None => [op |-> "take", c |-> c, d |-> d] \in Range(ops)
      BY <3>7 DEF Direction, a, b, x, y
    <3> QED
      BY <1>3, <2>1, <3>9, <3>10, <3>11, FlushStep
  <2>2. CASE First(p).op = "flushNodes" /\ Then(p, TakenNodes(c))
    <3> DEFINE a == LinkOp("takeNode", c, 1)
               b == LinkOp("takeNode", c, 2)
               ops == TakenNodes(c)
    <3>1. a \in Operation /\ b \in Operation
      BY <1>2, EndsAreNodes DEF Operation, LinkOp
    <3>6. a.op = "takeNode" /\ b.op = "takeNode" /\ a.c = c /\ b.c = c
      BY DEF LinkOp
    <3>2. Before(a, b)
      BY <3>6 DEF Before, Following, Deleting
    <3>3. \A x : Before(First(p), x) => Before(a, x) /\ Before(b, x)
      BY <2>1, <2>2, <3>6 DEF Before, Deleting, Unshared
    <3> DEFINE x == pending.node[Ends[c][1]]
               y == pending.node[Ends[c][2]]
    <3>4. ops = OneOrTwo(x, a, y, b)
      BY DEF TakenNodes, OneOrTwo
    <3> HIDE DEF a, b, ops, x, y
    <3>7. /\ ops \in Seq(Operation) /\ Ordered(ops)
          /\ Range(ops) = (IF x # None THEN {a} ELSE {}) \cup (IF y # None THEN {b} ELSE {})
      BY <3>1, <3>2, <3>4, Twice
    <3>8. \A o \in Range(ops), z \in Rest(p) : Before(o, z)
      BY <1>2, <3>3, <3>7
    <3>9. Steps(p, Range(ops)) /\ Kept
      BY <1>1, <1>3, <2>2, <3>7, <3>8, ThenSteps DEF ops
    <3>10. Range(ops) \in SUBSET Operation /\ \A o \in Range(ops) : o.op \in Quiet
      BY <3>1, <3>6, <3>7 DEF Quiet
    <3> QED
      BY <1>3, <2>2, <3>9, <3>10, QuietOne DEF Quiet
  <2> QED
    BY <2>1, <2>2 DEF _flushPending, Doing
<1> QED
  BY <1>3, <1>4, KeptType DEF SInv, TypeOK

LEMMA DeletePending ==
  ASSUME SInv, NEW p \in Process, deletePending(p), Advance
  PROVE  SInv'
<1> USE DEF Job, First
<1>1. todo[p] # <<>> /\ First(p).op \in {"take", "takeNode"}
  BY DEF deletePending, Doing
<1>2. First(p) \in Operation /\ First(p).c \in Channel
  BY <1>1, Moving, OperationForms DEF SInv, Unshared
<1>3. /\ kind' = kind /\ chainClient' = chainClient /\ lost' = lost /\ utxo' = utxo /\ store' = store
      /\ graph' = graph /\ last' = last /\ bound' = bound
  BY DEF deletePending
<1> DEFINE pend == [upd : [Key -> Stamp], node : [Node -> Stamp]]
<1>4. pending \in pend /\ None \in Stamp
  BY DEF SInv, TypeOK, None, Stamp
<1>5. StoreInv' /\ Kept /\ pending' \in pend
  <2>1. CASE First(p).op = "take"
    <3> DEFINE k == <<First(p).c, First(p).d>>
               a == [op |-> "update", c |-> First(p).c, d |-> First(p).d, at |-> pending.upd[k].at, ok |-> pending.upd[k].ok]
    <3>1. k \in Key /\ First(p).d \in Direction
      BY <1>2, <2>1, OperationForms DEF Key
    <3>2. pending.upd[k].at \in Nat /\ pending.upd[k].ok \in BOOLEAN
      BY <1>4, <3>1 DEF Stamp
    <3>3. a \in Operation /\ a.op = "update" /\ a.c = First(p).c
      BY <1>2, <3>1, <3>2 DEF Operation
    <3>4. pending' = [pending EXCEPT !.upd[k] = None] /\ Then(p, <<a>>)
      BY <2>1 DEF deletePending, Doing
    <3>5. pending' \in pend /\ \A j \in Key : j # k => pending'.upd[j] = pending.upd[j]
      BY <1>4, <3>1, <3>4
    <3>6. \A b : Before(First(p), b) => Before(a, b)
      BY <2>1, <3>3 DEF Before, Deleting, Unshared
    <3> DEFINE N == {a}
    <3>7. N = {[op |-> "update", c |-> First(p).c, d |-> First(p).d,
                at |-> pending.upd[<<First(p).c, First(p).d>>].at, ok |-> pending.upd[<<First(p).c, First(p).d>>].ok]}
      OBVIOUS
    <3> HIDE DEF a
    <3>8. Steps(p, N) /\ Kept
      BY <1>1, <1>3, <3>3, <3>4, <3>6, OneSteps
    <3> HIDE DEF N
    <3> QED
      BY <1>3, <2>1, <3>5, <3>7, <3>8, TakeStep
  <2>2. CASE First(p).op = "takeNode"
    <3> DEFINE n == First(p).n
               a == [op |-> "node", n |-> n, at |-> pending.node[n].at, ok |-> pending.node[n].ok]
    <3>1. n \in Node
      BY <1>2, <2>2, OperationForms
    <3>2. pending.node[n].at \in Nat /\ pending.node[n].ok \in BOOLEAN
      BY <1>4, <3>1 DEF Stamp
    <3>3. a \in Operation /\ a.op = "node"
      BY <3>1, <3>2 DEF Operation
    <3>4. pending' = [pending EXCEPT !.node[n] = None] /\ Then(p, <<a>>)
      BY <2>2 DEF deletePending, Doing
    <3>5. pending' \in pend /\ pending'.upd = pending.upd
      BY <1>4, <3>1, <3>4
    <3>6. \A b : Before(First(p), b) => Before(a, b)
      BY <2>2, <3>3 DEF Before, Deleting, Unshared
    <3> HIDE DEF a
    <3>7. Steps(p, {a}) /\ Kept
      BY <1>1, <1>3, <3>3, <3>4, <3>6, OneSteps
    <3>8. StoreInv'
      BY <1>3, <2>2, <3>3, <3>5, <3>7, QuietOne DEF Quiet
    <3> QED
      BY <3>5, <3>7, <3>8
  <2> QED
    BY <1>1, <2>1, <2>2
<1> QED
  BY <1>3, <1>5, KeptType DEF SInv, TypeOK

LEMMA ValidateChannelUpdate ==
  ASSUME SInv, NEW p \in Process, _validateChannelUpdate(p), Advance
  PROVE  SInv'
<1> USE DEF Job, First
<1>1. todo[p] # <<>> /\ First(p).op = "update"
  BY DEF _validateChannelUpdate, Doing
<1> DEFINE c == First(p).c
           d == First(p).d
           at == First(p).at
           ok == First(p).ok
           pend == [upd : [Key -> Stamp], node : [Node -> Stamp]]
<1>2. /\ First(p) \in Operation /\ c \in Channel /\ d \in Direction /\ at \in Nat /\ ok \in BOOLEAN
      /\ <<c, d>> \in Key
  BY <1>1, Moving, OperationForms DEF SInv, Unshared, Key
<1>3. /\ kind' = kind /\ chainClient' = chainClient /\ lost' = lost /\ utxo' = utxo /\ store' = store
      /\ graph' = graph /\ last' = last /\ bound' = bound
  BY DEF _validateChannelUpdate
<1>4. pending \in pend
  BY DEF SInv, TypeOK
<1>5. StoreInv' /\ Kept /\ pending' \in pend
  <2>1. CASE store.ann[c] = "none"
    <3>1. pending' = [pending EXCEPT !.upd[<<c, d>>] = [at |-> at, ok |-> ok]] /\ Then(p, <<>>)
      BY <2>1 DEF _validateChannelUpdate
    <3>2. [at |-> at, ok |-> ok] \in Stamp
      BY <1>2 DEF Stamp
    <3>3. pending' \in pend /\ pending'.upd = [pending.upd EXCEPT ![<<c, d>>] = [at |-> at, ok |-> ok]]
      BY <1>2, <1>4, <3>1, <3>2
    <3>4. Steps(p, {}) /\ Kept
      BY <1>1, <1>3, <3>1, DoneSteps
    <3> QED
      BY <1>1, <1>3, <2>1, <3>3, <3>4, HoldStep
  <2>2. CASE store.ann[c] # "none"
    <3>1. pending' = pending
      BY <2>2 DEF _validateChannelUpdate
    <3>2. CASE store.upd[<<c, d>>] >= at
      <4>1. Then(p, <<>>)
        BY <2>2, <3>2 DEF _validateChannelUpdate
      <4>2. Steps(p, {}) /\ Kept
        BY <1>1, <1>3, <4>1, DoneSteps
      <4> QED
        BY <1>1, <1>3, <1>4, <2>2, <3>1, <3>2, <4>2, OldStep
    <3>3. CASE ~(store.upd[<<c, d>>] >= at) /\ ~ok
      <4>1. Stop(p) /\ ok = FALSE
        BY <1>2, <2>2, <3>3 DEF _validateChannelUpdate
      <4> QED
        BY <1>1, <1>3, <1>4, <2>2, <3>1, <4>1, Stopping
    <3>4. CASE ~(store.upd[<<c, d>>] >= at) /\ ok
      <4> DEFINE a == [op |-> "putUpd", c |-> c, d |-> d, at |-> at]
      <4>1. Then(p, <<a>>)
        BY <2>2, <3>4 DEF _validateChannelUpdate
      <4>2. a \in Operation /\ a.op = "putUpd" /\ a.c = c
        BY <1>2 DEF Operation
      <4>3. \A b : Before(First(p), b) => Before(a, b)
        BY <1>1, <4>2 DEF Before, Deleting, Unshared
      <4> DEFINE N == {a}
      <4>4. N = {[op |-> "putUpd", c |-> First(p).c, d |-> First(p).d, at |-> First(p).at]}
        OBVIOUS
      <4> HIDE DEF a
      <4>5. Steps(p, N) /\ Kept
        BY <1>1, <1>3, <4>1, <4>2, <4>3, OneSteps
      <4> HIDE DEF N
      <4>6. store.upd[<<c, d>>] < at
        BY <1>2, <3>4 DEF SInv, TypeOK, StoreType
      <4> QED
        BY <1>1, <1>3, <1>4, <2>2, <3>1, <4>4, <4>5, <4>6, AcceptStep
    <3> QED
      BY <3>2, <3>3, <3>4
  <2> QED
    BY <2>1, <2>2
<1> QED
  BY <1>3, <1>5, KeptType DEF SInv, TypeOK

LEMMA ValidateNodeAnnouncement ==
  ASSUME SInv, NEW p \in Process, _validateNodeAnnouncement(p), Advance
  PROVE  SInv'
<1> USE DEF Job, First
<1>1. todo[p] # <<>> /\ First(p).op = "node"
  BY DEF _validateNodeAnnouncement, Doing
<1> DEFINE n == First(p).n
           at == First(p).at
           ok == First(p).ok
           pend == [upd : [Key -> Stamp], node : [Node -> Stamp]]
<1>2. First(p) \in Operation /\ n \in Node /\ at \in Nat /\ ok \in BOOLEAN
  BY <1>1, Moving, OperationForms DEF SInv
<1>3. /\ kind' = kind /\ chainClient' = chainClient /\ lost' = lost /\ utxo' = utxo /\ store' = store
      /\ graph' = graph /\ last' = last /\ bound' = bound
  BY DEF _validateNodeAnnouncement
<1>4. pending' \in pend /\ pending'.upd = pending.upd
  <2>1. pending \in pend /\ [at |-> at, ok |-> ok] \in Stamp
    BY <1>2 DEF SInv, TypeOK, Stamp
  <2>2. pending' = pending \/ pending' = [pending EXCEPT !.node[n] = [at |-> at, ok |-> ok]]
    BY DEF _validateNodeAnnouncement
  <2> QED
    BY <2>1, <2>2
<1>5. StoreInv' /\ Kept
  <2>1. CASE Then(p, <<>>)
    <3>1. Steps(p, {}) /\ Kept
      BY <1>1, <1>3, <2>1, DoneSteps
    <3> QED
      BY <1>1, <1>3, <1>4, <3>1, QuietOne DEF Quiet
  <2>2. CASE Stop(p)
    BY <1>1, <1>3, <1>4, <2>2, Stopping
  <2>3. CASE Then(p, << [op |-> "putNode", n |-> n, at |-> at] >>)
    <3> DEFINE a == [op |-> "putNode", n |-> n, at |-> at]
    <3>1. a \in Operation /\ a.op = "putNode"
      BY <1>2 DEF Operation
    <3>2. \A b : Before(First(p), b) => Before(a, b)
      BY <1>1, <3>1 DEF Before, Deleting, Unshared
    <3>3. Then(p, <<a>>)
      BY <2>3
    <3> HIDE DEF a
    <3>4. Steps(p, {a}) /\ Kept
      BY <1>1, <1>3, <3>1, <3>2, <3>3, OneSteps
    <3> QED
      BY <1>1, <1>3, <1>4, <3>1, <3>4, QuietOne DEF Quiet
  <2> QED
    BY <2>1, <2>2, <2>3 DEF _validateNodeAnnouncement
<1> QED
  BY <1>3, <1>4, <1>5, KeptType DEF SInv, TypeOK

-----------------------------------------------------------------------------
(* The writes of a store.                                                  *)
LEMMA PutAnnouncement ==
  ASSUME SInv, NEW p \in Process, putAnnouncement(p), Advance
  PROVE  SInv'
<1> USE DEF Job, First
<1>1. todo[p] # <<>> /\ First(p).op = "putAnn"
  BY DEF putAnnouncement, Doing
<1>2. First(p) \in Operation /\ First(p).c \in Channel /\ First(p).k \in {"plain", "extended"}
  BY <1>1, Moving, OperationForms DEF SInv, Unshared
<1>3. /\ kind' = kind /\ chainClient' = chainClient /\ lost' = lost /\ utxo' = utxo /\ pending' = pending
      /\ graph' = graph /\ last' = last /\ bound' = bound /\ Then(p, <<>>)
      /\ store' = [store EXCEPT !.ann[First(p).c] = First(p).k]
  BY DEF putAnnouncement
<1>4. Steps(p, {}) /\ Kept
  BY <1>1, <1>3, DoneSteps
<1>5. /\ store' \in StoreType /\ store'.ann = [store.ann EXCEPT ![First(p).c] = First(p).k]
      /\ store'.upd = store.upd /\ store'.link = store.link
  BY <1>2, <1>3 DEF SInv, TypeOK, StoreType
<1>6. StoreInv'
  BY <1>1, <1>3, <1>4, <1>5, PutAnnouncementStep
<1> QED
  BY <1>3, <1>4, <1>5, <1>6, KeptType DEF SInv, TypeOK

LEMMA PutOutpoint ==
  ASSUME SInv, NEW p \in Process, putOutpoint(p), Advance
  PROVE  SInv'
<1> USE DEF Job, First
<1>1. todo[p] # <<>> /\ First(p).op = "putOut"
  BY DEF putOutpoint, Doing
<1>2. First(p) \in Operation /\ First(p).c \in Channel
  BY <1>1, Moving, OperationForms DEF SInv, Unshared
<1>3. /\ kind' = kind /\ chainClient' = chainClient /\ lost' = lost /\ utxo' = utxo /\ pending' = pending
      /\ graph' = graph /\ last' = last /\ bound' = bound /\ Then(p, <<>>)
      /\ store' = [store EXCEPT !.out = @ \cup {First(p).c}]
  BY DEF putOutpoint
<1>4. Steps(p, {}) /\ Kept
  BY <1>1, <1>3, DoneSteps
<1>5. /\ store' \in StoreType /\ store'.ann = store.ann /\ store'.upd = store.upd /\ store'.link = store.link
  BY <1>2, <1>3 DEF SInv, TypeOK, StoreType
<1>6. StoreInv'
  BY <1>1, <1>3, <1>4, <1>5, QuietOne
<1> QED
  BY <1>3, <1>4, <1>5, <1>6, KeptType DEF SInv, TypeOK

LEMMA PutUpdate ==
  ASSUME SInv, NEW p \in Process, putUpdate(p), Advance
  PROVE  SInv'
<1> USE DEF Job, First
<1>1. todo[p] # <<>> /\ First(p).op = "putUpd"
  BY DEF putUpdate, Doing
<1>2. First(p) \in Operation /\ <<First(p).c, First(p).d>> \in Key /\ First(p).at \in Nat
  BY <1>1, Moving, OperationForms DEF SInv, Unshared, Key
<1>3. /\ kind' = kind /\ chainClient' = chainClient /\ lost' = lost /\ utxo' = utxo /\ pending' = pending
      /\ graph' = graph /\ last' = last /\ bound' = bound /\ Then(p, <<>>)
      /\ store' = [store EXCEPT !.upd[<<First(p).c, First(p).d>>] = First(p).at]
  BY DEF putUpdate
<1>4. Steps(p, {}) /\ Kept
  BY <1>1, <1>3, DoneSteps
<1>5. /\ store' \in StoreType /\ store'.upd = [store.upd EXCEPT ![<<First(p).c, First(p).d>>] = First(p).at]
      /\ store'.ann = store.ann /\ store'.link = store.link
  BY <1>2, <1>3 DEF SInv, TypeOK, StoreType
<1>6. StoreInv'
  BY <1>1, <1>3, <1>4, <1>5, PutUpdateStep
<1> QED
  BY <1>3, <1>4, <1>5, <1>6, KeptType DEF SInv, TypeOK

LEMMA PutNode ==
  ASSUME SInv, NEW p \in Process, putNode(p), Advance
  PROVE  SInv'
<1> USE DEF Job, First
<1>1. todo[p] # <<>> /\ First(p).op = "putNode"
  BY DEF putNode, Doing
<1>2. First(p) \in Operation /\ First(p).n \in Node /\ First(p).at \in Nat
  BY <1>1, Moving, OperationForms DEF SInv
<1>3. /\ kind' = kind /\ chainClient' = chainClient /\ lost' = lost /\ utxo' = utxo /\ pending' = pending
      /\ graph' = graph /\ last' = last /\ bound' = bound /\ Then(p, <<>>)
      /\ store' = [store EXCEPT !.node[First(p).n] = First(p).at]
  BY DEF putNode
<1>4. Steps(p, {}) /\ Kept
  BY <1>1, <1>3, DoneSteps
<1>5. /\ store' \in StoreType /\ store'.ann = store.ann /\ store'.upd = store.upd /\ store'.link = store.link
  BY <1>2, <1>3 DEF SInv, TypeOK, StoreType
<1>6. StoreInv'
  BY <1>1, <1>3, <1>4, <1>5, QuietOne DEF Quiet
<1> QED
  BY <1>3, <1>4, <1>5, <1>6, KeptType DEF SInv, TypeOK

LEMMA ReadLinks ==
  ASSUME SInv, NEW p \in Process, readLinks(p), Advance
  PROVE  SInv'
<1> USE DEF Job, First
<1> DEFINE c == First(p).c
           n == First(p).n
           list == Linked(First(p).op, store.link[n], c)
<1>1. todo[p] # <<>> /\ First(p).op \in {"link", "unlink"}
  BY DEF readLinks, Doing
<1>2. First(p) \in Operation /\ c \in Channel /\ n \in Node
  BY <1>1, Moving, OperationForms DEF SInv, Unshared
<1>3. /\ kind' = kind /\ chainClient' = chainClient /\ lost' = lost /\ utxo' = utxo /\ pending' = pending
      /\ graph' = graph /\ last' = last /\ bound' = bound
  BY DEF readLinks
<1>4. list \subseteq Channel
  BY <1>2 DEF Linked, SInv, TypeOK, StoreType
<1>5. CASE Then(p, <<>>) /\ store' = [store EXCEPT !.link[n] = list]
  <2>1. Steps(p, {}) /\ Kept
    BY <1>1, <1>3, <1>5, DoneSteps
  <2>2. /\ store' \in StoreType /\ store'.link = [store.link EXCEPT ![n] = list]
        /\ store'.ann = store.ann /\ store'.upd = store.upd
    BY <1>2, <1>4, <1>5 DEF SInv, TypeOK, StoreType
  <2>3. IsList(p, n, list)
    BY <1>1, <2>1, ListRead
  <2>4. \A e \in Channel, m \in Node : <<e, m>> # <<c, n>> /\ <<e, m>> \notin lost' =>
           <<e, m>> \notin lost /\ (e \in store'.link[m] <=> e \in store.link[m])
    BY <1>2, <1>3, <2>2 DEF Linked, SInv, TypeOK, StoreType
  <2> HIDE DEF list
  <2>5. StoreInv'
    BY <1>1, <1>3, <2>1, <2>2, <2>3, <2>4, RewriteStep
  <2> QED
    BY <1>3, <2>1, <2>2, <2>5, KeptType DEF SInv, TypeOK
<1>6. CASE Then(p, << [op |-> "putLinks", c |-> c, n |-> n, list |-> list] >>) /\ store' = store
  <2> DEFINE a == [op |-> "putLinks", c |-> c, n |-> n, list |-> list]
  <2> HIDE DEF list
  <2>1. a \in Operation /\ a.op = "putLinks" /\ a.c = c /\ a.n = n /\ a.list = list
    BY <1>2, <1>4 DEF Operation
  <2>2. \A b : Before(First(p), b) => Before(a, b)
    BY <1>1, <2>1 DEF Before, Deleting, Unshared
  <2>3. Then(p, <<a>>)
    BY <1>6
  <2> HIDE DEF a
  <2>4. Steps(p, {a}) /\ Kept
    BY <1>1, <1>3, <2>1, <2>2, <2>3, OneSteps
  <2>5. IsList(p, n, list)
    BY <1>1, <2>4, ListRead DEF list
  <2>6. StoreInv'
    BY <1>1, <1>3, <1>6, <2>1, <2>4, <2>5, ReadStep
  <2> QED
    BY <1>3, <1>6, <2>4, <2>6, KeptType DEF SInv, TypeOK
<1>7. CASE Then(p, <<>>) /\ store' = store /\ list = store.link[n]
  <2>1. Steps(p, {}) /\ Kept
    BY <1>1, <1>3, <1>7, DoneSteps
  <2>2. store'.link = [store.link EXCEPT ![n] = list]
    BY <1>2, <1>7 DEF SInv, TypeOK, StoreType
  <2>3. IsList(p, n, list)
    BY <1>1, <2>1, ListRead
  <2> HIDE DEF list
  <2>4. StoreInv'
    BY <1>1, <1>3, <1>7, <2>1, <2>2, <2>3, RewriteStep
  <2> QED
    BY <1>3, <1>7, <2>1, <2>4, KeptType DEF SInv, TypeOK
<1>8. \/ Then(p, <<>>) /\ store' = [store EXCEPT !.link[n] = list]
      \/ Then(p, << [op |-> "putLinks", c |-> c, n |-> n, list |-> list] >>) /\ store' = store
      \/ Then(p, <<>>) /\ store' = store /\ list = store.link[n]
  BY DEF readLinks, Doing
<1> QED
  BY <1>5, <1>6, <1>7, <1>8

LEMMA PutNodeChannels ==
  ASSUME SInv, NEW p \in Process, _putNodeChannels(p), Advance
  PROVE  SInv'
<1> USE DEF Job, First
<1>1. todo[p] # <<>> /\ First(p).op = "putLinks"
  BY DEF _putNodeChannels, Doing
<1>2. First(p) \in Operation /\ First(p).n \in Node /\ First(p).list \subseteq Channel
  BY <1>1, Moving, OperationForms DEF SInv
<1>3. /\ kind' = kind /\ chainClient' = chainClient /\ utxo' = utxo /\ pending' = pending
      /\ graph' = graph /\ last' = last /\ bound' = bound /\ Then(p, <<>>)
      /\ store' = [store EXCEPT !.link[First(p).n] = First(p).list]
  BY DEF _putNodeChannels
<1>4. Steps(p, {}) /\ Kept
  BY <1>1, <1>3, DoneSteps
<1>5. /\ store' \in StoreType /\ store'.link = [store.link EXCEPT ![First(p).n] = First(p).list]
      /\ store'.ann = store.ann /\ store'.upd = store.upd
  BY <1>2, <1>3 DEF SInv, TypeOK, StoreType
<1> DEFINE c == First(p).c
           n == First(p).n
           differ == {e \in Channel : (e \in First(p).list) # (e \in store.link[n])}
<1>6. lost' = (lost \cup (differ \X {n})) \ {<<c, n>>}
  BY DEF _putNodeChannels
<1>7. \A e \in Channel, m \in Node : <<e, m>> # <<c, n>> /\ <<e, m>> \notin lost' =>
         <<e, m>> \notin lost /\ (e \in store'.link[m] <=> e \in store.link[m])
  <2> SUFFICES ASSUME NEW e \in Channel, NEW m \in Node, <<e, m>> # <<c, n>>, <<e, m>> \notin lost'
               PROVE  <<e, m>> \notin lost /\ (e \in store'.link[m] <=> e \in store.link[m])
    OBVIOUS
  <2>1. <<e, m>> \notin lost /\ (m = n => e \notin differ)
    BY <1>6
  <2>2. store'.link[n] = First(p).list /\ (m # n => store'.link[m] = store.link[m])
    BY <1>2, <1>5 DEF SInv, TypeOK, StoreType
  <2> QED
    BY <2>1, <2>2
<1>8. lost' \subseteq Channel \X Node
  BY <1>2, <1>6 DEF SInv, TypeOK
<1> HIDE DEF differ
<1>9. StoreInv'
  BY <1>1, <1>3, <1>4, <1>5, <1>7, ListHeld, RewriteStep
<1> QED
  BY <1>3, <1>4, <1>5, <1>8, <1>9, KeptType DEF SInv, TypeOK

LEMMA DropUpdate ==
  ASSUME SInv, NEW p \in Process, dropUpdate(p), Advance
  PROVE  SInv'
<1> USE DEF Job, First
<1> DEFINE k == <<First(p).c, First(p).d>>
<1>1. todo[p] # <<>> /\ First(p).op = "dropUpd"
  BY DEF dropUpdate, Doing
<1>2. First(p) \in Operation /\ k \in Key
  BY <1>1, Moving, OperationForms DEF SInv, Unshared, Key
<1>3. /\ kind' = kind /\ chainClient' = chainClient /\ lost' = lost /\ utxo' = utxo /\ pending' = pending
      /\ graph' = graph /\ bound' = bound /\ Then(p, <<>>)
      /\ store' = [store EXCEPT !.upd[k] = 0] /\ last' = [last EXCEPT ![k] = None]
  BY DEF dropUpdate
<1>4. Steps(p, {}) /\ Kept
  BY <1>1, <1>3, DoneSteps
<1>5. /\ store' \in StoreType /\ store'.upd = [store.upd EXCEPT ![k] = 0]
      /\ store'.ann = store.ann /\ store'.link = store.link
      /\ last' \in [Key -> Stamp]
  BY <1>2, <1>3 DEF SInv, TypeOK, StoreType, Stamp, None
<1>6. StoreInv'
  BY <1>1, <1>3, <1>4, <1>5, DropUpdateStep
<1> QED
  BY <1>3, <1>4, <1>5, <1>6, KeptType DEF SInv, TypeOK

LEMMA DropAnnouncement ==
  ASSUME SInv, NEW p \in Process, dropAnnouncement(p), Advance
  PROVE  SInv'
<1> USE DEF Job, First
<1>1. todo[p] # <<>> /\ First(p).op = "dropAnn"
  BY DEF dropAnnouncement, Doing
<1>2. First(p) \in Operation /\ First(p).c \in Channel
  BY <1>1, Moving, OperationForms DEF SInv, Unshared
<1>3. /\ kind' = kind /\ chainClient' = chainClient /\ lost' = lost /\ utxo' = utxo /\ pending' = pending
      /\ graph' = graph /\ last' = last /\ bound' = bound /\ Then(p, <<>>)
      /\ store' = [store EXCEPT !.ann[First(p).c] = "none"]
  BY DEF dropAnnouncement
<1>4. Steps(p, {}) /\ Kept
  BY <1>1, <1>3, DoneSteps
<1>5. /\ store' \in StoreType /\ store'.ann = [store.ann EXCEPT ![First(p).c] = "none"]
      /\ store'.upd = store.upd /\ store'.link = store.link
  BY <1>2, <1>3 DEF SInv, TypeOK, StoreType
<1>6. StoreInv'
  BY <1>1, <1>3, <1>4, <1>5, DropAnnouncementStep
<1> QED
  BY <1>3, <1>4, <1>5, <1>6, KeptType DEF SInv, TypeOK

LEMMA DeleteFromMemory ==
  ASSUME SInv, NEW p \in Process, deleteFromMemory(p), Advance
  PROVE  SInv'
<1> USE DEF Job, First
<1> DEFINE c == First(p).c
<1>1. todo[p] # <<>> /\ First(p).op = "forget"
  BY DEF deleteFromMemory, Doing
<1>2. First(p) \in Operation /\ c \in Channel
  BY <1>1, Moving, OperationForms DEF SInv, Unshared
<1>3. /\ kind' = kind /\ chainClient' = chainClient /\ lost' = lost /\ utxo' = utxo /\ pending' = pending
      /\ graph' = graph /\ bound' = bound /\ Then(p, <<>>)
      /\ store' = IF store.ann[c] = "none" THEN store ELSE forgetChannel(store, c)
      /\ last' = [last EXCEPT ![<<c, 0>>] = None, ![<<c, 1>>] = None]
  BY DEF deleteFromMemory
<1>4. Steps(p, {}) /\ Kept
  BY <1>1, <1>3, DoneSteps
<1>5. forgetChannel(store, c) \in StoreType
  <2>1. store \in StoreType /\ <<c, 0>> \in Key
    BY <1>2 DEF SInv, TypeOK, Key, Direction
  <2> DEFINE links == [n \in Node |-> IF n \in EndsOf(c) THEN store.link[n] \ {c} ELSE store.link[n]]
             out == IF store.ann[c] = "extended" THEN store.out \ {c} ELSE store.out
  <2>2. links \in [Node -> SUBSET Channel] /\ out \in SUBSET Channel
    BY <2>1 DEF StoreType
  <2> DEFINE anns == [store.ann EXCEPT ![c] = "none"]
             upds == [store.upd EXCEPT ![<<c, 0>>] = 0]
  <2>3. forgetChannel(store, c) = [ann |-> anns, out |-> out, link |-> links, upd |-> upds, node |-> store.node]
    <3>1. store = [ann |-> store.ann, out |-> store.out, link |-> store.link, upd |-> store.upd, node |-> store.node]
      BY <2>1 DEF StoreType
    <3>2. forgetChannel(store, c) = [store EXCEPT !.ann = anns, !.out = out, !.upd = upds, !.link = links]
      BY DEF forgetChannel
    <3> HIDE DEF links, out, anns, upds
    <3> QED
      BY <3>1, <3>2
  <2>4. anns \in [Channel -> {"none", "plain", "extended"}] /\ upds \in [Key -> Nat] /\ store.node \in [Node -> Nat]
    BY <2>1 DEF StoreType
  <2> HIDE DEF links, out, anns, upds
  <2> QED
    BY <2>2, <2>3, <2>4 DEF StoreType
<1>6. store' \in StoreType /\ last' \in [Key -> Stamp]
  <2>1. store \in StoreType /\ last \in [Key -> Stamp] /\ None \in Stamp
    BY DEF SInv, TypeOK, Stamp, None
  <2> QED
    BY <1>3, <1>5, <2>1
<1>7. StoreInv'
  BY <1>1, <1>3, <1>4, ForgetStep
<1> QED
  BY <1>3, <1>4, <1>6, <1>7, KeptType DEF SInv, TypeOK

-----------------------------------------------------------------------------
(***************************************************************************)
(* The graph.                                                              *)
(***************************************************************************)
IsWhole(g) ==
    \A c \in Channel :
        /\ \A n \in Node : c \in g.links[n] <=> (g.channels[c] # "none" /\ n \in EndsOf(c))
        /\ g.channels[c] # "none" => EndsOf(c) \subseteq g.nodes
        /\ g.channels[c] = "none" => \A d \in Direction : g.settings[<<c, d>>] = 0

LEMMA WholeGraph == GraphIsWhole <=> IsWhole(graph)
BY DEF GraphIsWhole, IsWhole

LEMMA GraphForm ==
  ASSUME NEW g \in GraphType
  PROVE  /\ g = [channels |-> g.channels, nodes |-> g.nodes, links |-> g.links,
                 settings |-> g.settings, lastUpdate |-> g.lastUpdate]
         /\ g.channels \in [Channel -> {"none", "plain", "extended"}] /\ g.nodes \subseteq Node
         /\ g.links \in [Node -> SUBSET Channel] /\ g.settings \in [Key -> Nat] /\ g.lastUpdate \in [Node -> Nat]
BY DEF GraphType

LEMMA AnnouncementKeepsWhole ==
  ASSUME NEW g \in GraphType, IsWhole(g), NEW c \in Channel, NEW k \in {"plain", "extended"}
  PROVE  onAnnouncement(g, c, k) \in GraphType /\ IsWhole(onAnnouncement(g, c, k))
<1>1. CASE g.channels[c] # "none"
  BY <1>1 DEF onAnnouncement
<1>2. CASE g.channels[c] = "none"
  <2> DEFINE channels == [g.channels EXCEPT ![c] = k]
             nodes == g.nodes \cup EndsOf(c)
             links == [n \in Node |-> IF n \in EndsOf(c) THEN g.links[n] \cup {c} ELSE g.links[n]]
             settings == [e \in Key |-> IF e[1] = c THEN 0 ELSE g.settings[e]]
             h == [channels |-> channels, nodes |-> nodes, links |-> links,
                   settings |-> settings, lastUpdate |-> g.lastUpdate]
  <2>0. g = [channels |-> g.channels, nodes |-> g.nodes, links |-> g.links,
             settings |-> g.settings, lastUpdate |-> g.lastUpdate]
    BY GraphForm
  <2>1. onAnnouncement(g, c, k) = h
    <3>1. onAnnouncement(g, c, k) = addChannel(g, c, k)
      BY <1>2 DEF onAnnouncement
    <3>2. addChannel(g, c, k) = linkChannel([g EXCEPT !.channels = channels, !.nodes = nodes, !.settings = settings], c)
      BY DEF addChannel, Key
    <3> DEFINE f == [channels |-> channels, nodes |-> nodes, links |-> g.links,
                     settings |-> settings, lastUpdate |-> g.lastUpdate]
    <3>3. [g EXCEPT !.channels = channels, !.nodes = nodes, !.settings = settings] = f
      <4> DEFINE x == [g EXCEPT !.channels = channels, !.nodes = nodes, !.settings = settings]
      <4>1. x = [g EXCEPT !.channels = channels, !.nodes = nodes, !.settings = settings]
        OBVIOUS
      <4> HIDE DEF channels, nodes, settings, x
      <4>2. x = f
        BY <2>0, <4>1
      <4> QED
        BY <4>1, <4>2
    <3>4. linkChannel(f, c) = h
      <4>1. linkChannel(f, c) = [f EXCEPT !.links = links]
        BY DEF linkChannel
      <4> HIDE DEF channels, nodes, settings, links
      <4> QED
        BY <4>1
    <3> QED
      BY <3>1, <3>2, <3>3, <3>4
  <2>2. /\ channels \in [Channel -> {"none", "plain", "extended"}] /\ nodes \subseteq Node
        /\ links \in [Node -> SUBSET Channel] /\ settings \in [Key -> Nat] /\ g.lastUpdate \in [Node -> Nat]
    BY GraphForm, EndsAreNodes
  <2>3. \A e \in Channel : \A n \in Node : e \in links[n] <=> (channels[e] # "none" /\ n \in EndsOf(e))
    BY GraphForm DEF IsWhole
  <2>4. \A e \in Channel : channels[e] # "none" => EndsOf(e) \subseteq nodes
    BY GraphForm DEF IsWhole
  <2>5. \A e \in Channel : channels[e] = "none" => \A d \in Direction : settings[<<e, d>>] = 0
    BY GraphForm DEF IsWhole, Key
  <2> HIDE DEF channels, nodes, links, settings
  <2>6. h \in GraphType
    BY <2>2 DEF GraphType
  <2>7. IsWhole(h)
    BY <2>3, <2>4, <2>5 DEF IsWhole
  <2> QED
    BY <2>1, <2>6, <2>7
<1> QED
  BY <1>1, <1>2

LEMMA UpdateKeepsWhole ==
  ASSUME NEW g \in GraphType, IsWhole(g), NEW c \in Channel, NEW d \in Direction, NEW t \in Nat
  PROVE  onUpdate(g, c, d, t) \in GraphType /\ IsWhole(onUpdate(g, c, d, t))
<1>1. CASE IsUnknown(g, c) \/ g.settings[<<c, d>>] > t
  BY <1>1 DEF onUpdate
<1>2. CASE ~(IsUnknown(g, c) \/ g.settings[<<c, d>>] > t)
  <2> DEFINE settings == [g.settings EXCEPT ![<<c, d>>] = t]
             h == [channels |-> g.channels, nodes |-> g.nodes, links |-> g.links,
                   settings |-> settings, lastUpdate |-> g.lastUpdate]
  <2>1. onUpdate(g, c, d, t) = [g EXCEPT !.settings = settings]
    BY <1>2 DEF onUpdate
  <2>2. settings \in [Key -> Nat] /\ \A e \in Channel, x \in Direction : e # c => settings[<<e, x>>] = g.settings[<<e, x>>]
    BY GraphForm DEF Key
  <2> HIDE DEF settings
  <2>3. [g EXCEPT !.settings = settings] = h
    BY GraphForm
  <2>4. h \in GraphType
    BY <2>2, GraphForm DEF GraphType
  <2>5. IsWhole(h)
    BY <1>2, <2>2 DEF IsWhole, IsUnknown
  <2> QED
    BY <2>1, <2>3, <2>4, <2>5
<1> QED
  BY <1>1, <1>2

LEMMA NodeKeepsWhole ==
  ASSUME NEW g \in GraphType, IsWhole(g), NEW n \in Node, NEW t \in Nat
  PROVE  onNode(g, n, t) \in GraphType /\ IsWhole(onNode(g, n, t))
<1> DEFINE nodes == g.nodes \cup {n}
           lastUpdate == [g.lastUpdate EXCEPT ![n] = t]
           h == [channels |-> g.channels, nodes |-> nodes, links |-> g.links,
                 settings |-> g.settings, lastUpdate |-> lastUpdate]
<1>1. onNode(g, n, t) = [g EXCEPT !.nodes = nodes, !.lastUpdate = lastUpdate]
  BY DEF onNode
<1>2. nodes \subseteq Node /\ g.nodes \subseteq nodes /\ lastUpdate \in [Node -> Nat]
  BY GraphForm
<1> HIDE DEF nodes, lastUpdate
<1>0. g = [channels |-> g.channels, nodes |-> g.nodes, links |-> g.links,
           settings |-> g.settings, lastUpdate |-> g.lastUpdate]
  BY GraphForm
<1>3. onNode(g, n, t) = h
  BY <1>0, <1>1
<1>4. h \in GraphType
  BY <1>2, GraphForm DEF GraphType
<1>5. IsWhole(h)
  BY <1>2 DEF IsWhole
<1> QED
  BY <1>3, <1>4, <1>5

LEMMA RemovalKeepsWhole ==
  ASSUME NEW g \in GraphType, IsWhole(g), NEW c \in Channel
  PROVE  removeChannel(g, c) \in GraphType /\ IsWhole(removeChannel(g, c))
<1>1. CASE g.channels[c] # "extended"
  BY <1>1 DEF removeChannel
<1>2. CASE g.channels[c] = "extended"
  <2> DEFINE channels == [g.channels EXCEPT ![c] = "none"]
             links == [n \in Node |-> IF n \in EndsOf(c) THEN g.links[n] \ {c} ELSE g.links[n]]
             settings == [e \in Key |-> IF e[1] = c THEN 0 ELSE g.settings[e]]
             h == [channels |-> channels, nodes |-> g.nodes, links |-> links,
                   settings |-> settings, lastUpdate |-> g.lastUpdate]
  <2>0. g = [channels |-> g.channels, nodes |-> g.nodes, links |-> g.links,
             settings |-> g.settings, lastUpdate |-> g.lastUpdate]
    BY GraphForm
  <2>1. removeChannel(g, c) = h
    <3>1. removeChannel(g, c) = unlinkChannel([g EXCEPT !.channels = channels, !.settings = settings], c)
      BY <1>2 DEF removeChannel, Key
    <3> DEFINE f == [channels |-> channels, nodes |-> g.nodes, links |-> g.links,
                     settings |-> settings, lastUpdate |-> g.lastUpdate]
    <3>2. [g EXCEPT !.channels = channels, !.settings = settings] = f
      <4> DEFINE x == [g EXCEPT !.channels = channels, !.settings = settings]
      <4>1. x = [g EXCEPT !.channels = channels, !.settings = settings]
        OBVIOUS
      <4> HIDE DEF channels, settings, x
      <4>2. x = f
        BY <2>0, <4>1
      <4> QED
        BY <4>1, <4>2
    <3>3. unlinkChannel(f, c) = h
      <4>1. unlinkChannel(f, c) = [f EXCEPT !.links = links]
        BY DEF unlinkChannel
      <4> HIDE DEF channels, settings, links
      <4> QED
        BY <4>1
    <3> QED
      BY <3>1, <3>2, <3>3
  <2>2. /\ channels \in [Channel -> {"none", "plain", "extended"}]
        /\ links \in [Node -> SUBSET Channel] /\ settings \in [Key -> Nat]
    BY GraphForm
  <2>3. \A e \in Channel : \A n \in Node : e \in links[n] <=> (channels[e] # "none" /\ n \in EndsOf(e))
    BY GraphForm DEF IsWhole
  <2>4. \A e \in Channel : channels[e] # "none" => EndsOf(e) \subseteq g.nodes
    BY GraphForm DEF IsWhole
  <2>5. \A e \in Channel : channels[e] = "none" => \A d \in Direction : settings[<<e, d>>] = 0
    BY GraphForm DEF IsWhole, Key
  <2> HIDE DEF channels, links, settings
  <2>6. h \in GraphType
    BY <2>2, GraphForm DEF GraphType
  <2>7. IsWhole(h)
    BY <2>3, <2>4, <2>5 DEF IsWhole
  <2> QED
    BY <2>1, <2>6, <2>7
<1> QED
  BY <1>1, <1>2

LEMMA RestartIsWhole ==
  ASSUME NEW s \in StoreType
  PROVE  allMessages(s) \in GraphType /\ IsWhole(allMessages(s))
<1> DEFINE known == {c \in Channel : s.ann[c] # "none"}
           noted == {n \in Node : s.node[n] # 0}
           nodes == noted \cup UNION {EndsOf(c) : c \in known}
           links == [n \in Node |-> {c \in known : n \in EndsOf(c)}]
           settings == [k \in Key |-> IF k[1] \in known THEN s.upd[k] ELSE 0]
           h == [channels |-> s.ann, nodes |-> nodes, links |-> links, settings |-> settings, lastUpdate |-> s.node]
<1>1. allMessages(s) = h
  BY DEF allMessages
<1>2. /\ s.ann \in [Channel -> {"none", "plain", "extended"}] /\ s.upd \in [Key -> Nat] /\ s.node \in [Node -> Nat]
  BY DEF StoreType
<1>3. nodes \subseteq Node
  <2> SUFFICES ASSUME NEW n \in nodes PROVE n \in Node
    OBVIOUS
  <2>1. CASE n \in noted
    BY <2>1
  <2>2. CASE n \notin noted
    <3>1. known \subseteq Channel
      OBVIOUS
    <3> HIDE DEF known, noted
    <3>2. n \in UNION {EndsOf(c) : c \in known}
      BY <2>2
    <3>3. PICK c \in known : n \in EndsOf(c)
      BY <3>2
    <3> QED
      BY <3>1, <3>3, EndsAreNodes
  <2> QED
    BY <2>1, <2>2
<1>4. links \in [Node -> SUBSET Channel] /\ settings \in [Key -> Nat]
  BY <1>2
<1>5. \A e \in Channel : \A n \in Node : e \in links[n] <=> (s.ann[e] # "none" /\ n \in EndsOf(e))
  OBVIOUS
<1>6. \A e \in Channel : s.ann[e] # "none" => EndsOf(e) \subseteq nodes
  OBVIOUS
<1>7. \A e \in Channel : s.ann[e] = "none" => \A d \in Direction : settings[<<e, d>>] = 0
  BY DEF Key
<1> HIDE DEF nodes, links, settings
<1>8. h \in GraphType
  BY <1>2, <1>3, <1>4 DEF GraphType
<1>9. IsWhole(h)
  BY <1>5, <1>6, <1>7 DEF IsWhole
<1> QED
  BY <1>1, <1>8, <1>9

-----------------------------------------------------------------------------
(* The last steps of a handler, and those outside of it.                   *)
LEMMA Deliver ==
  ASSUME SInv, GraphIsWhole, NEW p \in Process, deliver(p), Advance
  PROVE  SInv' /\ GraphIsWhole'
<1> USE DEF Job, First
<1> DEFINE m == First(p).m
<1>1. todo[p] # <<>> /\ First(p).op = "deliver"
  BY DEF deliver, Doing
<1>2. m \in Gossip
  BY <1>1, Moving, OperationForms DEF SInv
<1>3. /\ kind' = kind /\ chainClient' = chainClient /\ lost' = lost /\ utxo' = utxo /\ store' = store /\ pending' = pending
      /\ last' = last /\ bound' = bound /\ Then(p, <<>>)
  BY DEF deliver
<1>4. graph' \in GraphType /\ IsWhole(graph')
  <2>0. graph \in GraphType /\ IsWhole(graph)
    BY WholeGraph DEF SInv, TypeOK
  <2>1. CASE m.op = "channel"
    <3>1. m.c \in Channel /\ graph' = onAnnouncement(graph, m.c, "plain")
      BY <1>2, <2>1, GossipAssumption DEF deliver, ChannelMessage, UpdateMessage, NodeMessage
    <3> QED
      BY <2>0, <3>1, AnnouncementKeepsWhole
  <2>2. CASE m.op = "update"
    <3>1. m.c \in Channel /\ m.d \in Direction /\ m.at \in Nat /\ graph' = onUpdate(graph, m.c, m.d, m.at)
      BY <1>2, <2>2, GossipAssumption DEF deliver, ChannelMessage, UpdateMessage, NodeMessage
    <3> QED
      BY <2>0, <3>1, UpdateKeepsWhole
  <2>3. CASE m.op = "node"
    <3>1. m.n \in Node /\ m.at \in Nat /\ graph' = onNode(graph, m.n, m.at)
      BY <1>2, <2>3, GossipAssumption DEF deliver, ChannelMessage, UpdateMessage, NodeMessage
    <3> QED
      BY <2>0, <3>1, NodeKeepsWhole
  <2> QED
    BY <1>2, <2>1, <2>2, <2>3, GossipAssumption DEF ChannelMessage, UpdateMessage, NodeMessage
<1>5. Steps(p, {}) /\ Kept
  BY <1>1, <1>3, DoneSteps
<1>6. StoreInv'
  BY <1>1, <1>3, <1>5, QuietOne DEF Quiet
<1>7. SInv'
  BY <1>3, <1>4, <1>5, <1>6, KeptType DEF SInv, TypeOK
<1> QED
  BY <1>4, <1>7 DEF GraphIsWhole, IsWhole

LEMMA ValidateUtxos ==
  ASSUME SInv, NEW p \in Process, _validateUtxos(p), Advance
  PROVE  SInv'
<1> USE DEF Job, First
<1>1. todo[p] # <<>> /\ First(p).op = "sweep"
  BY DEF _validateUtxos, Doing
<1>2. /\ First(p) \in Operation /\ First(p).cs \subseteq Channel
      /\ Work(p) = {First(p)} \cup Rest(p) /\ \A b \in Rest(p) : Before(First(p), b)
  BY <1>1, Moving, OperationForms DEF SInv
<1>3. /\ kind' = kind /\ chainClient' = chainClient /\ lost' = lost /\ utxo' = utxo /\ store' = store /\ pending' = pending
      /\ graph' = graph /\ last' = last /\ bound' = bound
  BY DEF _validateUtxos
<1>4. \A o \in Work(p) : o.op = "sweep"
  BY <1>1, <1>2 DEF Before
<1>5. StoreInv' /\ Kept
  <2>1. CASE Then(p, <<>>)
    <3>1. Steps(p, {}) /\ Kept
      BY <1>1, <1>3, <2>1, DoneSteps
    <3> QED
      BY <1>1, <1>3, <3>1, QuietOne DEF Quiet
  <2>2. ASSUME NEW c \in First(p).cs, NEW ops, ops = <<>> \/ ops = DeleteOps(c),
               Then(p, ops \o << [op |-> "sweep", cs |-> First(p).cs \ {c}] >>)
        PROVE  StoreInv' /\ Kept
    <3> DEFINE a == [op |-> "sweep", cs |-> First(p).cs \ {c}]
               s == <<a>>
               all == ops \o s
    <3>1. a \in Operation /\ a.op = "sweep"
      BY <1>2 DEF Operation
    <3> HIDE DEF a
    <3>2. s \in Seq(Operation) /\ Range(s) = {a} /\ Ordered(s)
      BY <3>1, Short
    <3> HIDE DEF s
    <3>3. /\ ops \in Seq(Operation) /\ Ordered(ops)
          /\ \A x \in Range(ops) : x.op \in {"forget", "dropUpd", "unlink", "dropAnn"}
      <4>1. c \in Channel
        BY <1>2
      <4>2. CASE ops = <<>>
        BY <4>2, Short
      <4>3. CASE ops = DeleteOps(c)
        <5>1. ops \in Seq(Operation) /\ Ordered(ops)
          BY <4>1, <4>3, DeleteOpsWork
        <5>2. \A x \in Range(DeleteOps(c)) : x.op \in {"forget", "dropUpd", "unlink", "dropAnn"}
          BY <4>1, DeleteOpsWork DEF LinkOp, Op
        <5> QED
          BY <4>3, <5>1, <5>2
      <4> QED
        BY <2>2, <4>2, <4>3
    <3>4. \A x \in Range(ops) \cup {a}, b \in {a} \cup Rest(p) : Before(x, b)
      <4>1. \A b \in {a} \cup Rest(p) : b.op = "sweep"
        BY <1>2, <1>4, <3>1
      <4>2. \A x \in Range(ops) \cup {a} : x.op \in {"forget", "dropUpd", "unlink", "dropAnn", "sweep"}
        BY <3>1, <3>3
      <4> QED
        BY <4>1, <4>2 DEF Before, Following, Deleting, Unshared
    <3>5. all \in Seq(Operation) /\ Ordered(all) /\ Range(all) = Range(ops) \cup {a}
      BY <3>2, <3>3, <3>4, Joining
    <3>6. Then(p, all)
      BY <2>2 DEF a, s
    <3> HIDE DEF all
    <3>7. Steps(p, Range(all)) /\ Kept
      BY <1>1, <1>3, <3>4, <3>5, <3>6, ThenSteps
    <3>8. CASE ops = <<>>
      <4>1. Range(all) \in SUBSET Operation /\ \A o \in Range(all) : o.op \in Quiet /\ o.op = "sweep"
        BY <3>1, <3>5, <3>8, Short DEF Quiet
      <4> QED
        BY <1>1, <1>3, <3>7, <4>1, QuietOne DEF Quiet
    <3>9. CASE ops = DeleteOps(c)
      <4> DEFINE M == {a} \cup Rest(p)
      <4>1. /\ Work(p)' = Range(DeleteOps(c)) \cup M /\ \A q \in Process \ {p} : Work(q)' = Work(q)
            /\ \A o \in M : o.op = "sweep"
        BY <1>2, <1>4, <3>1, <3>5, <3>7, <3>9 DEF Steps, Moves
      <4> HIDE DEF M
      <4>2. StoreInv'
        BY <1>2, <1>3, <1>4, <3>7, <4>1, DeleteStep DEF SInv, Kept
      <4> QED
        BY <3>7, <4>2
    <3> QED
      BY <2>2, <3>8, <3>9
  <2>3. ASSUME ~Then(p, <<>>) PROVE StoreInv' /\ Kept
    <3>1. PICK c \in First(p).cs :
             Then(p, (IF c \in utxo \/ store.ann[c] = "none" THEN <<>> ELSE DeleteOps(c))
                     \o << [op |-> "sweep", cs |-> First(p).cs \ {c}] >>)
      BY <2>3 DEF _validateUtxos
    <3> DEFINE ops == IF c \in utxo \/ store.ann[c] = "none" THEN <<>> ELSE DeleteOps(c)
    <3>2. ops = <<>> \/ ops = DeleteOps(c)
      OBVIOUS
    <3> QED
      BY <2>2, <3>1, <3>2
  <2> QED
    BY <2>1, <2>3
<1> QED
  BY <1>3, <1>5, KeptType DEF SInv, TypeOK

(* What is left when no process does anything else than before.            *)
LEMMA SameWork ==
  ASSUME StoreInv, \A p \in Process : Work(p)' = Work(p), raced \subseteq raced', cut \subseteq cut',
         kind' = kind, store' = store, pending' = pending, last' = last, lost' = lost
  PROVE  StoreInv'
<1>0. "filter" \in Process
  BY DEF Process
<1>1. HandlersAreWhole' /\ LinksAreAtEnds'
  BY <1>0 DEF StoreInv, HandlersAreWhole, LinksAreAtEnds
<1>2. SavesAreAnnounced'
  BY DEF StoreInv, SavesAreAnnounced
<1>3. ListsAreRight'
  BY DEF StoreInv, ListsAreRight
<1>4. DeletesAreWhole'
  BY DEF StoreInv, DeletesAreWhole
<1>5. LinksAreComing'
  BY DEF StoreInv, LinksAreComing, Linking
<1>6. LastIsAtHand'
  BY <1>0 DEF StoreInv, LastIsAtHand, AtHand
<1>7. NothingDangles'
  BY DEF StoreInv, NothingDangles
<1> QED
  BY <1>1, <1>2, <1>3, <1>4, <1>5, <1>6, <1>7 DEF StoreInv

LEMMA RemoveChannel ==
  ASSUME SInv, GraphIsWhole, NEW c \in Channel, removeChannelByOutpoint(c), Advance
  PROVE  SInv' /\ GraphIsWhole'
<1> DEFINE ops == IF c \in store.out /\ store.ann[c] # "none" THEN DeleteOps(c) ELSE <<>>
<1>1. /\ todo["monitor"] = <<>> /\ todo' = [todo EXCEPT !["monitor"] = ops] /\ utxo' \subseteq utxo
      /\ kind' = kind /\ chainClient' = chainClient /\ lost' = lost /\ store' = store /\ pending' = pending /\ last' = last
      /\ bound' = [bound EXCEPT !.removals = @ + 1] /\ graph' = removeChannel(graph, c)
  BY DEF removeChannelByOutpoint
<1>2. graph' \in GraphType /\ IsWhole(graph')
  BY <1>1, RemovalKeepsWhole, WholeGraph DEF SInv, TypeOK
<1>3. ops \in Seq(Operation) /\ Ordered(ops)
  BY DeleteOpsWork, Short
<1> HIDE DEF ops
<1>4. todo \in [Process -> Seq(Operation)] /\ \A p \in Process : Ordered(todo[p])
  BY DEF SInv, TypeOK, InOrder
<1>5. /\ todo' \in [Process -> Seq(Operation)] /\ todo'["monitor"] = ops
      /\ \A p \in Process \ {"monitor"} : todo'[p] = todo[p]
  BY <1>1, <1>3, <1>4 DEF Process
<1>6. InOrder'
  BY <1>3, <1>4, <1>5 DEF InOrder
<1>7. Kept
  BY <1>5, <1>6, Keeping DEF SInv
<1>8. Work("monitor") = {} /\ Work("monitor")' = Range(ops) /\ \A p \in Process \ {"monitor"} : Work(p)' = Work(p)
  BY <1>1, <1>5, Short DEF Work
<1>9. StoreInv'
  <2>1. CASE ops = <<>>
    <3>1. \A p \in Process : Work(p)' = Work(p)
      BY <1>8, <2>1, Short
    <3> QED
      BY <1>1, <1>7, <3>1, SameWork DEF SInv, Kept
  <2>2. CASE ops = DeleteOps(c)
    <3> DEFINE M == {}
    <3>1. Work("monitor")' = Range(DeleteOps(c)) \cup M /\ M = {} /\ "monitor" \in Process
      BY <1>8, <2>2 DEF Process
    <3> HIDE DEF M
    <3> QED
      BY <1>1, <1>7, <1>8, <3>1, DeleteStep DEF SInv, Kept
  <2> QED
    BY <2>1, <2>2 DEF ops
<1>10. bound' \in [received : Nat, removals : Nat, faults : Nat]
  BY <1>1 DEF SInv, TypeOK
<1>11. SInv'
  BY <1>1, <1>2, <1>7, <1>9, <1>10, KeptType DEF SInv, TypeOK
<1> QED
  BY <1>2, <1>11 DEF GraphIsWhole, IsWhole

LEMMA WriteFailing ==
  ASSUME SInv, NEW p \in Process, WriteFails(p), raced' = raced \cup Races'
  PROVE  SInv'
<1>1. /\ todo[p] # <<>> /\ First(p).op # "update"
      /\ kind' = kind /\ chainClient' = chainClient /\ lost' = lost /\ utxo' = utxo /\ store' = store /\ pending' = pending
      /\ graph' = graph /\ last' = last /\ bound' = [bound EXCEPT !.faults = @ + 1]
      /\ Stop(p) /\ cut' = cut \cup LeftUndone(todo[p])
  BY DEF WriteFails, Doing, First
<1>2. /\ Work(p)' = {} /\ \A q \in Process \ {p} : Work(q)' = Work(q)
      /\ InOrder' /\ todo' \in [Process -> Seq(Operation)]
  BY <1>1, StopMoves DEF SInv
<1>3. Kept
  <2>2. Races' \subseteq Channel
    BY DEF Races
  <2>3. LeftUndone(todo[p]) \subseteq Channel
    BY Listed DEF SInv, TypeOK
  <2> QED
    BY <1>1, <1>2, <2>2, <2>3, Seeing DEF Kept, SInv, TypeOK
<1>4. StoreInv'
  BY <1>1, <1>2, <1>3, StopStep DEF SInv, Kept
<1>5. bound' \in [received : Nat, removals : Nat, faults : Nat]
  BY <1>1 DEF SInv, TypeOK
<1> QED
  BY <1>1, <1>3, <1>4, <1>5, KeptType DEF SInv, TypeOK

(* A message comes to the filter, which is free.                           *)
LEMMA OnWireMessage ==
  ASSUME SInv, NEW m \in Gossip, onWireMessage(m), Advance
  PROVE  SInv'
<1> DEFINE dv == [op |-> "deliver", m |-> m]
           ops == <<m, dv>>
           u == [at |-> m.at, ok |-> m.ok]
<1>1. /\ todo["filter"] = <<>> /\ todo' = [todo EXCEPT !["filter"] = ops]
      /\ kind' = kind /\ chainClient' = chainClient /\ lost' = lost /\ utxo' = utxo /\ store' = store /\ pending' = pending
      /\ graph' = graph /\ bound' = [bound EXCEPT !.received = @ + 1]
      /\ last' = IF m.op = "update" THEN [last EXCEPT ![<<m.c, m.d>>] = u] ELSE last
  BY DEF onWireMessage
<1>2. /\ m \in Operation /\ dv \in Operation /\ m.op \in {"channel", "update", "node"}
      /\ m.op = "update" => /\ m.c \in Channel /\ m.d \in Direction /\ u \in Stamp /\ <<m.c, m.d>> \in Key
                            /\ m = [op |-> "update", c |-> m.c, d |-> m.d, at |-> m.at, ok |-> m.ok]
  <2>1. m \in Operation /\ dv \in Operation /\ m.op \in {"channel", "update", "node"}
    BY GossipAssumption DEF Operation, ChannelMessage, UpdateMessage, NodeMessage
  <2> QED
    BY <2>1, OperationForms DEF Unshared, Stamp, Key
<1>3. Before(m, dv)
  BY <1>2 DEF Before, Following, Deleting, Unshared
<1>4. dv.op = "deliver"
  OBVIOUS
<1> HIDE DEF dv, u
<1>5. ops \in Seq(Operation) /\ Range(ops) = {m, dv} /\ Ordered(ops)
  BY <1>2, <1>3, Short
<1> HIDE DEF ops
<1>6. todo \in [Process -> Seq(Operation)] /\ (\A p \in Process : Ordered(todo[p])) /\ "filter" \in Process
  BY DEF SInv, TypeOK, InOrder, Process
<1>7. /\ todo' \in [Process -> Seq(Operation)] /\ todo'["filter"] = ops
      /\ \A p \in Process \ {"filter"} : todo'[p] = todo[p]
  BY <1>1, <1>5, <1>6
<1>8. Kept
  <2>1. InOrder'
    BY <1>5, <1>6, <1>7 DEF InOrder
  <2> QED
    BY <1>7, <2>1, Keeping DEF SInv
<1>9. Work("filter") = {} /\ Work("filter")' = {m, dv} /\ \A p \in Process \ {"filter"} : Work(p)' = Work(p)
  BY <1>1, <1>5, <1>7, Short DEF Work
<1>10. \A p \in Process \ {"filter"} : \A o \in Work(p) :
         o.op \notin Unshared /\ m.op = "update" /\ o.c = m.c => m.c \in raced'
  <2> SUFFICES ASSUME NEW p \in Process \ {"filter"}, NEW o \in Work(p), o.op \notin Unshared,
                      m.op = "update", o.c = m.c
               PROVE  m.c \in raced'
    OBVIOUS
  <2>1. m.c \in ChannelsOf(todo'["filter"])
    <3>1. "c" \in DOMAIN m
      BY <1>2, OperationForms DEF Unshared
    <3> QED
      BY <1>5, <1>7, <3>1 DEF ChannelsOf
  <2>2. m.c \in ChannelsOf(todo'[p])
    <3>1. o \in Range(todo'[p]) /\ o \in Operation
      BY <1>6, <1>7, Short DEF Work
    <3> QED
      BY <3>1, OperationForms DEF ChannelsOf
  <2> QED
    BY <1>6, <1>8, <2>1, <2>2 DEF Kept, RacesAreSeen
<1>11. \A p \in Process : \A o \in Work(p)' : o \in Work(p) \/ o.op \in {"channel", "update", "node", "deliver"}
  BY <1>2, <1>4, <1>6, <1>9
<1>12. \A p \in Process : \A o \in Work(p) : p # "filter" /\ o \in Work(p)'
  BY <1>6, <1>9
<1>13. /\ last' \in [Key -> Stamp]
       /\ \A c \in Channel, d \in Direction :
            \/ last'[<<c, d>>] = last[<<c, d>>] /\ (m.op = "update" => m.c # c \/ m.d # d)
            \/ m.op = "update" /\ m.c = c /\ m.d = d /\ last'[<<c, d>>] = u
  BY <1>1, <1>2 DEF SInv, TypeOK, Key
<1>14. StoreInv'
  <2>1. HandlersAreWhole'
    <3>1. \A p \in Process \ {"filter"} : \A o \in Work(p)' : o.op \in Deleting \cup {"putLinks", "forget"}
      BY <1>9 DEF SInv, StoreInv, HandlersAreWhole
    <3>2. \A o \in Work("filter")' : o.op \notin {"putAnn", "dropUpd", "unlink", "forget"}
      BY <1>2, <1>4, <1>9
    <3>3. ASSUME NEW p \in Process, NEW o \in Work(p)', p # "filter"
          PROVE  /\ o.op = "putAnn" => /\ Op("flushUpdates", o.c) \in Work(p)'
                                       /\ \A n \in EndsOf(o.c) : [op |-> "link", c |-> o.c, n |-> n] \in Work(p)'
                 /\ o.op \in {"dropUpd", "unlink"} => Op("dropAnn", o.c) \in Work(p)'
                 /\ o.op = "forget" => kind' = "memory"
      <4>1. o \in Work(p) /\ Work(p)' = Work(p)
        BY <1>9, <3>3
      <4> QED
        BY <1>1, <4>1 DEF SInv, StoreInv, HandlersAreWhole
    <3> QED
      BY <3>1, <3>2, <3>3 DEF HandlersAreWhole
  <2>2. LinksAreAtEnds'
    BY <1>1, <1>11 DEF SInv, StoreInv, LinksAreAtEnds
  <2>3. SavesAreAnnounced'
    BY <1>1, <1>8, <1>11, <1>12 DEF SInv, StoreInv, SavesAreAnnounced, Kept
  <2>4. ListsAreRight'
    BY <1>1, <1>8, <1>11, <1>12 DEF SInv, StoreInv, ListsAreRight, Kept, Op
  <2>5. DeletesAreWhole'
    <3> SUFFICES ASSUME NEW p \in Process, NEW c \in Channel \ raced', Op("dropAnn", c) \in Work(p)'
                 PROVE  /\ \A d \in Direction : store.upd[<<c, d>>] # 0 \/ last'[<<c, d>>] # None =>
                             [op |-> "dropUpd", c |-> c, d |-> d] \in Work(p)'
                        /\ \A n \in Node : c \in store.link[n] /\ <<c, n>> \notin lost =>
                             \E o \in Work(p)' : o.op \in {"unlink", "putLinks"} /\ o.c = c /\ o.n = n
      BY <1>1 DEF DeletesAreWhole
    <3>1. Op("dropAnn", c) \in Work(p) /\ p # "filter" /\ Work(p)' = Work(p)
      BY <1>6, <1>9, <1>11, <1>12 DEF Op
    <3>2. m.op = "update" => m.c # c
      BY <1>10, <3>1 DEF Op, Unshared
    <3>3. \A d \in Direction : last'[<<c, d>>] = last[<<c, d>>]
      BY <1>13, <3>2
    <3> QED
      BY <1>8, <3>1, <3>3 DEF SInv, StoreInv, DeletesAreWhole, Kept
  <2>6. LinksAreComing'
    BY <1>1, <1>8, <1>12 DEF SInv, StoreInv, LinksAreComing, Linking, Kept
  <2>7. LastIsAtHand'
    <3>1. ASSUME NEW c \in Channel \ (raced' \cup cut'), NEW d \in Direction, last'[<<c, d>>] # None
          PROVE  AtHand(c, d, last[<<c, d>>])'
      <4>1. CASE m.op = "update" /\ m.c = c /\ m.d = d /\ last'[<<c, d>>] = u
        <5>1. u.at = m.at /\ u.ok = m.ok
          BY DEF u
        <5> QED
          BY <1>2, <1>9, <4>1, <5>1 DEF AtHand
      <4>2. CASE last'[<<c, d>>] = last[<<c, d>>]
        <5>1. AtHand(c, d, last[<<c, d>>])
          BY <1>8, <3>1, <4>2 DEF SInv, StoreInv, LastIsAtHand, Kept
        <5> QED
          BY <1>1, <1>9, <4>2, <5>1 DEF AtHand
      <4> QED
        BY <1>13, <4>1, <4>2
    <3>2. \A o \in Work("filter")' : o.op = "update" =>
             store'.ann[o.c] # "none" \/ last'[<<o.c, o.d>>] = [at |-> o.at, ok |-> o.ok]
      BY <1>2, <1>4, <1>9, <1>13 DEF u
    <3>3. \A o \in Work("filter")' : o.op # "putUpd"
      BY <1>2, <1>4, <1>9
    <3> QED
      BY <3>1, <3>2, <3>3 DEF LastIsAtHand
  <2>8. NothingDangles'
    BY <1>1, <1>8 DEF SInv, StoreInv, NothingDangles, Kept
  <2> QED
    BY <2>1, <2>2, <2>3, <2>4, <2>5, <2>6, <2>7, <2>8 DEF StoreInv
<1>15. bound' \in [received : Nat, removals : Nat, faults : Nat]
  <2>1. bound \in [received : Nat, removals : Nat, faults : Nat]
    BY DEF SInv, TypeOK
  <2> QED
    BY <1>1, <2>1
<1> QED
  BY <1>1, <1>8, <1>13, <1>14, <1>15, KeptType DEF SInv, TypeOK

(* A restart: what was in the handlers is cut, and the store is kept or    *)
(* empty.                                                                  *)
LEMMA CrashKeeps ==
  ASSUME SInv, CrashAndRestart, raced' = raced \cup Races'
  PROVE  SInv' /\ GraphIsWhole'
<1> DEFINE kept == IF kind = "rocksdb" THEN store ELSE EmptyStore
           sweep == [op |-> "sweep", cs |-> {c \in Channel : kept.ann[c] = "extended"}]
<1>1. /\ kind' = kind /\ chainClient' = chainClient /\ lost' = lost /\ utxo' = utxo /\ store' = kept
      /\ pending' = EmptyPending /\ last' = [k \in Key |-> None] /\ graph' = allMessages(kept)
      /\ bound' = [bound EXCEPT !.faults = @ + 1]
      /\ cut' = cut \cup UNION {LeftUndone(todo[p]) : p \in Process}
      /\ todo' = [p \in Process |-> IF p = "start" /\ chainClient THEN <<sweep>> ELSE <<>>]
  BY DEF CrashAndRestart
<1>2. sweep \in Operation /\ sweep.op = "sweep"
  BY DEF Operation
<1> HIDE DEF sweep
<1>3. /\ <<sweep>> \in Seq(Operation) /\ Range(<<sweep>>) = {sweep} /\ Ordered(<<sweep>>)
      /\ <<>> \in Seq(Operation) /\ Range(<<>>) = {} /\ Ordered(<<>>)
  BY <1>2, Short
<1>4. "filter" \in Process
  BY DEF Process
<1> DEFINE s == <<sweep>>
           none == <<>>
<1>5. \A p \in Process : todo'[p] = none \/ todo'[p] = s
  BY <1>1
<1>6. \A p \in Process : p # "start" => todo'[p] = <<>>
  BY <1>1
<1>7. /\ todo' \in [Process -> Seq(Operation)]
      /\ \A p \in Process : Ordered(todo'[p]) /\ Range(todo'[p]) \subseteq {sweep}
  <2>1. s \in Seq(Operation) /\ Range(s) = {sweep} /\ Ordered(s)
    BY <1>3
  <2>2. none \in Seq(Operation) /\ Range(none) = {} /\ Ordered(none)
    BY <1>3
  <2>3. todo' = [p \in Process |-> IF p = "start" /\ chainClient THEN s ELSE none]
    BY <1>1
  <2> HIDE DEF s, none
  <2> QED
    BY <1>5, <2>1, <2>2, <2>3
<1>8. \A p \in Process : \A o \in Work(p)' : o.op = "sweep"
  BY <1>2, <1>7 DEF Work
<1>9. Races' = {}
  <2>1. \A p \in Process : ChannelsOf(todo'[p]) = {}
    <3> SUFFICES ASSUME NEW p \in Process, NEW o \in Range(todo'[p]), "c" \in DOMAIN o PROVE FALSE
      BY DEF ChannelsOf
    <3>1. o = sweep
      BY <1>7
    <3> QED
      BY <1>2, <3>1, OperationForms DEF Unshared
  <2> QED
    BY <2>1 DEF Races
<1>10. /\ cut \subseteq cut' /\ cut' \subseteq Channel
       /\ \A p \in Process : \A o \in Work(p) :
            o.op \in {"link", "putLinks", "dropAnn"} => o.c \in cut'
  <2>1. UNION {LeftUndone(todo[p]) : p \in Process} \subseteq Channel
    <3>1. \A p \in Process : LeftUndone(todo[p]) \subseteq Channel
      BY Listed DEF SInv, TypeOK
    <3> QED
      BY <3>1
  <2>2. \A p \in Process : LeftUndone(todo[p]) \subseteq cut'
    BY <1>1
  <2>3. \A p \in Process : \A o \in Work(p) : o.op \in {"link", "putLinks", "dropAnn"} => o.c \in LeftUndone(todo[p])
    BY DEF LeftUndone, Work
  <2> QED
    BY <1>1, <2>1, <2>2, <2>3 DEF SInv, TypeOK
<1>11. Kept
  <2>1. InOrder'
    BY <1>7 DEF InOrder
  <2> QED
    BY <1>7, <1>9, <1>10, <2>1, Seeing DEF Kept, SInv, TypeOK
<1>12. /\ store' \in StoreType /\ pending' \in [upd : [Key -> Stamp], node : [Node -> Stamp]]
       /\ last' \in [Key -> Stamp] /\ \A k \in Key : last'[k] = None
  <2>1. None \in Stamp
    BY DEF None, Stamp
  <2>2. EmptyStore \in StoreType /\ EmptyPending \in [upd : [Key -> Stamp], node : [Node -> Stamp]]
    BY <2>1 DEF EmptyStore, StoreType, EmptyPending
  <2> QED
    BY <1>1, <2>1, <2>2 DEF SInv, TypeOK
<1>13. \/ store' = store
       \/ /\ \A c \in Channel : store'.ann[c] = "none"
          /\ \A n \in Node : store'.link[n] = {}
          /\ \A k \in Key : store'.upd[k] = 0
  BY <1>1 DEF EmptyStore
<1>14. StoreInv'
  <2>1. HandlersAreWhole' /\ SavesAreAnnounced' /\ ListsAreRight'
    BY <1>8 DEF HandlersAreWhole, SavesAreAnnounced, ListsAreRight, Deleting
  <2>2. LinksAreAtEnds'
    BY <1>8, <1>13 DEF SInv, StoreInv, LinksAreAtEnds
  <2>3. DeletesAreWhole'
    BY <1>8 DEF DeletesAreWhole, Op
  <2>4. LinksAreComing'
    <3> SUFFICES ASSUME NEW c \in Channel \ (raced' \cup cut'), NEW n \in EndsOf(c),
                        store'.ann[c] # "none", c \notin store'.link[n], <<c, n>> \notin lost
                 PROVE  FALSE
      BY <1>1 DEF LinksAreComing
    <3>1. store' = store
      BY <1>13
    <3>2. PICK p \in Process : Linking(p, c, n)
      BY <1>10, <1>11, <3>1 DEF SInv, StoreInv, LinksAreComing, Kept
    <3> QED
      BY <1>10, <3>2 DEF Linking, Op
  <2>5. LastIsAtHand'
    <3>1. \A o \in Work("filter")' : o.op = "sweep"
      BY <1>4, <1>8
    <3> QED
      BY <1>12, <3>1 DEF LastIsAtHand, Key
  <2>6. NothingDangles'
    BY <1>1, <1>11, <1>13 DEF SInv, StoreInv, NothingDangles, Kept, Key, Direction
  <2> QED
    BY <2>1, <2>2, <2>3, <2>4, <2>5, <2>6 DEF StoreInv
<1>15. graph' \in GraphType /\ IsWhole(graph')
  BY <1>1, <1>12, RestartIsWhole
<1>16. bound' \in [received : Nat, removals : Nat, faults : Nat]
  <2>1. bound \in [received : Nat, removals : Nat, faults : Nat]
    BY DEF SInv, TypeOK
  <2> QED
    BY <1>1, <2>1
<1>17. SInv'
  BY <1>1, <1>11, <1>12, <1>14, <1>15, <1>16, KeptType DEF SInv, TypeOK
<1> QED
  BY <1>15, <1>17 DEF GraphIsWhole, IsWhole

-----------------------------------------------------------------------------
LEMMA InitInv == Init => IInv
<1> SUFFICES ASSUME Init PROVE IInv
  OBVIOUS
<1>1. None \in Stamp
  BY DEF None, Stamp
<1>2. EmptyStore \in StoreType /\ EmptyPending \in [upd : [Key -> Stamp], node : [Node -> Stamp]]
  BY <1>1 DEF EmptyStore, StoreType, EmptyPending
<1>3. EmptyGraph \in GraphType /\ IsWhole(EmptyGraph)
  BY DEF EmptyGraph, GraphType, IsWhole, Key
<1>4. todo \in [Process -> Seq(Operation)] /\ \A p \in Process : todo[p] = <<>>
  BY Short DEF Init
<1>5. TypeOK
  BY <1>1, <1>2, <1>3, <1>4, KindsAssumption DEF Init, TypeOK
<1>6. InOrder
  BY <1>4, Short DEF InOrder
<1>7. RacesAreSeen
  <2>1. \A p \in Process : ChannelsOf(todo[p]) = {}
    <3>1. Range(<<>>) = {}
      BY DEF Range
    <3> QED
      BY <1>4, <3>1 DEF ChannelsOf
  <2> QED
    BY <2>1 DEF RacesAreSeen
<1>8. StoreInv
  <2>1. \A p \in Process : Work(p) = {}
    BY <1>4, Short DEF Work
  <2>2. "filter" \in Process /\ "monitor" \in Process
    BY DEF Process
  <2>3. HandlersAreWhole /\ SavesAreAnnounced /\ ListsAreRight /\ DeletesAreWhole
    BY <2>1, <2>2 DEF HandlersAreWhole, SavesAreAnnounced, ListsAreRight, DeletesAreWhole
  <2>4. LinksAreAtEnds /\ LinksAreComing /\ NothingDangles
    BY <2>1 DEF Init, EmptyStore, LinksAreAtEnds, LinksAreComing, NothingDangles, Key, Direction
  <2>5. LastIsAtHand
    BY <2>1, <2>2 DEF Init, LastIsAtHand, Key
  <2> QED
    BY <2>3, <2>4, <2>5 DEF StoreInv
<1>9. GraphIsWhole
  BY <1>3, WholeGraph DEF Init
<1> QED
  BY <1>5, <1>6, <1>7, <1>8, <1>9 DEF IInv, SInv

LEMMA StepInv ==
  ASSUME SInv, GraphIsWhole, NEW p \in Process, Step(p), Advance
  PROVE  SInv' /\ GraphIsWhole'
<1>1. CASE deliver(p)
  BY <1>1, Deliver
<1>2. CASE ~deliver(p)
  <2>1. graph' = graph
    BY <1>2 DEF Step, _validateChannelAnnouncement, _validateOnChain, _flushPending, deletePending,
                _validateChannelUpdate, _validateNodeAnnouncement, putAnnouncement, putOutpoint, putUpdate,
                putNode, readLinks, _putNodeChannels, dropUpdate, dropAnnouncement, deleteFromMemory, _validateUtxos
  <2>2. GraphIsWhole'
    BY <2>1 DEF GraphIsWhole
  <2>3. SInv'
    BY <1>2, ValidateChannelAnnouncement, ValidateOnChain, FlushPending, DeletePending, ValidateChannelUpdate,
       ValidateNodeAnnouncement, PutAnnouncement, PutOutpoint, PutUpdate, PutNode, ReadLinks, PutNodeChannels,
       DropUpdate, DropAnnouncement, DeleteFromMemory, ValidateUtxos DEF Step
  <2> QED
    BY <2>2, <2>3
<1> QED
  BY <1>1, <1>2

LEMMA NextInv == IInv /\ [Next]_vars => IInv'
<1> SUFFICES ASSUME IInv, [Next]_vars PROVE IInv'
  OBVIOUS
<1>0. SInv /\ GraphIsWhole
  BY DEF IInv
<1>1. ASSUME NEW m \in Gossip, onWireMessage(m), Advance PROVE IInv'
  <2>1. GraphIsWhole'
    BY <1>0, <1>1 DEF onWireMessage, GraphIsWhole
  <2> QED
    BY <1>0, <1>1, <2>1, OnWireMessage DEF IInv
<1>2. ASSUME NEW p \in Process, Step(p), Advance PROVE IInv'
  BY <1>0, <1>2, StepInv DEF IInv
<1>3. ASSUME NEW c \in Channel, removeChannelByOutpoint(c), Advance PROVE IInv'
  BY <1>0, <1>3, RemoveChannel DEF IInv
<1>4. ASSUME NEW p \in Process, WriteFails(p), raced' = raced \cup Races' PROVE IInv'
  <2>1. GraphIsWhole'
    BY <1>0, <1>4 DEF WriteFails, GraphIsWhole
  <2> QED
    BY <1>0, <1>4, <2>1, WriteFailing DEF IInv
<1>5. ASSUME CrashAndRestart, raced' = raced \cup Races' PROVE IInv'
  BY <1>0, <1>5, CrashKeeps DEF IInv
<1>6. CASE UNCHANGED vars
  <2>1. /\ kind' = kind /\ chainClient' = chainClient /\ lost' = lost /\ utxo' = utxo /\ store' = store /\ pending' = pending
        /\ todo' = todo /\ graph' = graph /\ last' = last /\ raced' = raced /\ cut' = cut
        /\ lost' = lost /\ bound' = bound
    BY <1>6 DEF vars
  <2>2. TypeOK' /\ InOrder' /\ RacesAreSeen' /\ GraphIsWhole'
    BY <1>0, <2>1 DEF SInv, TypeOK, InOrder, RacesAreSeen, GraphIsWhole
  <2>3. StoreInv'
    BY <1>0, <2>1, SameWork DEF SInv, Work
  <2> QED
    BY <2>2, <2>3 DEF IInv, SInv
<1> QED
  BY <1>1, <1>2, <1>3, <1>4, <1>5, <1>6 DEF Next, Advance

(***************************************************************************)
(* Whatever messages come, whichever process is at its turn at each await, *)
(* wherever a write fails or the program ends: the invariant of the store, *)
(* the pending store and the handlers, and that of the graph.              *)
(***************************************************************************)
THEOREM Invariance == Spec => []IInv
BY InitInv, NextInv, PTL DEF Spec

(***************************************************************************)
(* Every variable keeps its type, and every operation of a handler has the *)
(* form that its action expects.                                           *)
(***************************************************************************)
THEOREM TypeCorrect == Spec => []TypeOK
<1>1. IInv => TypeOK
  BY DEF IInv, SInv
<1> QED
  BY <1>1, Invariance, PTL

(***************************************************************************)
(* saveChannelAnnouncement and deleteChannelAnnouncement write in an order *)
(* that leaves no link and no update without its announcement at any point *)
(* where they may be cut off, while one handler works on the channel.  All *)
(* that a handler of another channel may do is bring back a link at a node *)
(* that they share; and the memory store forgets one update.               *)
(***************************************************************************)
THEOREM StoreHasNothingDangling == Spec => []NothingDangles
<1>1. IInv => NothingDangles
  BY DEF IInv, SInv, StoreInv
<1> QED
  BY <1>1, Invariance, PTL

(***************************************************************************)
(* An announced channel that one handler at a time worked on, to the end,  *)
(* is listed at both of its nodes, unless a handler of another channel of  *)
(* that node read the list before it was there and wrote it back after:    *)
(* this is the only way in which the stores lose a link.                   *)
(***************************************************************************)
THEOREM ChannelsStayLinked == Spec => []AnnouncedIsLinked
<1>1. ASSUME IInv PROVE AnnouncedIsLinked
  <2> SUFFICES ASSUME NEW c \in Channel, c \notin raced \cup cut,
                      \A p \in Process : c \notin ChannelsOf(todo[p]),
                      store.ann[c] # "none", NEW n \in EndsOf(c), c \notin store.link[n],
                      <<c, n>> \notin lost
               PROVE  FALSE
    BY DEF AnnouncedIsLinked
  <2>1. PICK p \in Process : Linking(p, c, n)
    BY <1>1 DEF IInv, SInv, StoreInv, LinksAreComing
  <2>2. PICK o \in Work(p) : o.op \notin Unshared /\ o.c = c
    BY <2>1 DEF Linking, Op, Unshared
  <2>3. o \in Operation
    BY <1>1, Short DEF IInv, SInv, TypeOK, Work
  <2>4. c \in ChannelsOf(todo[p])
    BY <2>2, <2>3, OperationForms DEF ChannelsOf, Work
  <2> QED
    BY <2>4
<1> QED
  BY <1>1, Invariance, PTL

(***************************************************************************)
(* The filter loses no update: between two messages, the last one of each  *)
(* direction of a channel waits in the pending store or is in the store.   *)
(***************************************************************************)
THEOREM NoUpdateIsLost == Spec => []LastIsHeld
<1>1. ASSUME IInv PROVE LastIsHeld
  <2> SUFFICES ASSUME todo["filter"] = <<>>, NEW k \in Key, last[k] # None, k[1] \notin raced \cup cut
               PROVE  IF store.ann[k[1]] = "none" THEN pending.upd[k] = last[k]
                                                  ELSE last[k].ok => store.upd[k] >= last[k].at
    BY DEF LastIsHeld
  <2>1. Work("filter") = {}
    BY Short DEF Work
  <2>2. k = <<k[1], k[2]>> /\ k[1] \in Channel /\ k[2] \in Direction
    BY DEF Key
  <2> DEFINE c == k[1]
             d == k[2]
  <2>3. k = <<c, d>> /\ c \in Channel \ (raced \cup cut) /\ d \in Direction
    BY <2>2
  <2> HIDE DEF c, d
  <2>4. AtHand(c, d, last[<<c, d>>])
    BY <1>1, <2>3 DEF IInv, SInv, StoreInv, LastIsAtHand
  <2>5. \/ store.ann[c] = "none" /\ pending.upd[k] = last[k]
        \/ store.ann[c] # "none" /\ (last[k].ok => store.upd[k] >= last[k].at)
    BY <2>1, <2>3, <2>4 DEF AtHand
  <2> QED
    BY <2>5 DEF c
<1> QED
  BY <1>1, Invariance, PTL

(***************************************************************************)
(* GraphManager keeps nodes, channels and settings together, whatever it   *)
(* is told in whatever order, and after a restart from the store.          *)
(***************************************************************************)
THEOREM TheGraphIsWhole == Spec => []GraphIsWhole
<1>1. IInv => GraphIsWhole
  BY DEF IInv
<1> QED
  BY <1>1, Invariance, PTL

=============================================================================
