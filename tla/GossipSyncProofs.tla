--------------------------- MODULE GossipSyncProofs ---------------------------
(***************************************************************************)
(* Theorems about GossipSync, for all peers and kinds of remote nodes,     *)
(* replies of any size, chunks and connections.                            *)
(***************************************************************************)
EXTENDS GossipSync, TLAPS

THEOREM Initially == Init => IInv
<1> SUFFICES ASSUME Init PROVE IInv
  OBVIOUS
<1>1. tasks \in Seq(Task) /\ Len(tasks) = 0 /\ DOMAIN tasks = {}
  BY DEF Init
<1>2. TypeOK
  <2>1. syncTask \in [Peers -> 0..Len(tasks)]
    BY <1>1 DEF Init
  <2>2. owed \in [Peers -> [range : BOOLEAN, ends : Nat]]
    BY DEF Init, NothingOwed
  <2>3. announced \in [Peers -> Nat] /\ connections \in Nat
    BY DEF Init
  <2> QED
    BY <1>1, <2>1, <2>2, <2>3 DEF Init, TypeOK, SyncState
<1>3. OneSync /\ TasksAreCounted
  BY <1>1 DEF Init, OneSync, Unfinished, TasksAreCounted
<1>4. RelayFollows /\ (begun => started) /\ EnabledWhenSynced
  BY DEF Init, RelayFollows, EnabledWhenSynced
<1> QED
  BY <1>2, <1>3, <1>4 DEF IInv

-----------------------------------------------------------------------------
(* The list of tasks.  A task that is not done is changed, and if it is    *)
(* done then, the state is no longer "syncing".                            *)
LEMMA Updating ==
  ASSUME TypeOK, OneSync, TasksAreCounted, stalled => stalled',
         NEW k \in DOMAIN tasks, NEW t \in Task,
         tasks' = [tasks EXCEPT ![k] = t],
         tasks[k].stage \notin Done, Counted(t, stalled'),
         IF t.stage \in Done THEN syncState' # "Syncing" ELSE syncState' = syncState
  PROVE  /\ tasks' \in Seq(Task) /\ Len(tasks') = Len(tasks)
         /\ OneSync' /\ TasksAreCounted'
<1>1. tasks \in Seq(Task)
  BY DEF TypeOK
<1>2. /\ tasks' \in Seq(Task) /\ Len(tasks') = Len(tasks) /\ DOMAIN tasks' = DOMAIN tasks
      /\ \A j \in DOMAIN tasks : tasks'[j] = IF j = k THEN t ELSE tasks[j]
  BY <1>1
<1>3. k \in Unfinished
  BY DEF Unfinished
<1>4. Unfinished = {k} /\ syncState = "Syncing"
  BY <1>3 DEF OneSync
<1>5. Unfinished' = IF t.stage \in Done THEN {} ELSE {k}
  BY <1>2, <1>4 DEF Unfinished
<1>6. OneSync'
  BY <1>2, <1>4, <1>5 DEF OneSync
<1>7. TasksAreCounted'
  BY <1>2 DEF TasksAreCounted, Counted
<1> QED
  BY <1>2, <1>6, <1>7

(* A task is added while there is none that is not done. *)
LEMMA Adding ==
  ASSUME TypeOK, OneSync, TasksAreCounted, stalled' = stalled,
         NEW t \in Task,
         tasks' = Append(tasks, t),
         syncState # "Syncing", Counted(t, stalled),
         IF t.stage \in Done THEN syncState' # "Syncing" ELSE syncState' = "Syncing"
  PROVE  /\ tasks' \in Seq(Task) /\ Len(tasks') = Len(tasks) + 1
         /\ OneSync' /\ TasksAreCounted'
<1>1. tasks \in Seq(Task)
  BY DEF TypeOK
<1>2. /\ tasks' \in Seq(Task) /\ Len(tasks') = Len(tasks) + 1
      /\ DOMAIN tasks' = DOMAIN tasks \cup {Len(tasks) + 1}
      /\ tasks'[Len(tasks) + 1] = t /\ Len(tasks) + 1 \notin DOMAIN tasks
      /\ \A j \in DOMAIN tasks : tasks'[j] = tasks[j]
  BY <1>1
<1>3. Unfinished = {}
  BY DEF OneSync
<1>4. Unfinished' = IF t.stage \in Done THEN {} ELSE {Len(tasks) + 1}
  BY <1>2, <1>3 DEF Unfinished
<1>5. OneSync'
  BY <1>2, <1>4 DEF OneSync
<1>6. TasksAreCounted'
  BY <1>2 DEF TasksAreCounted
<1> QED
  BY <1>2, <1>5, <1>6

(* Nothing happens to them. *)
LEMMA Keeping ==
  ASSUME OneSync, TasksAreCounted, stalled => stalled', tasks' = tasks,
         syncState' = syncState \/ (syncState # "Syncing" /\ syncState' # "Syncing")
  PROVE  OneSync' /\ TasksAreCounted'
<1>1. OneSync'
  BY DEF OneSync, Unfinished
<1>2. TasksAreCounted'
  BY DEF TasksAreCounted, Counted
<1> QED
  BY <1>1, <1>2

-----------------------------------------------------------------------------
(* The end of a sync, with the peers P and the receivers R there are then. *)
LEMMA Succeeding ==
  ASSUME NEW P \in SUBSET Peers, NEW R \in SUBSET P,
         SyncSucceeds(P, R), peers' = P
  PROVE  /\ relaying' = TRUE /\ syncState' \in {"Synced", "Unsynced"}
         /\ receiving' \subseteq P
         /\ EnabledWhenSynced' /\ RelayFollows'
<1>1. /\ relaying' = TRUE /\ syncState' \in {"Synced", "Unsynced"}
      /\ receiving' \subseteq P
      /\ syncState' = "Synced" => Receivers(P) \subseteq receiving'
  BY DEF SyncSucceeds, Receivers, Enabled, Restarted
<1>2. EnabledWhenSynced'
  BY <1>1 DEF EnabledWhenSynced, Receivers
<1>3. RelayFollows'
  BY <1>1 DEF RelayFollows
<1> QED
  BY <1>1, <1>2, <1>3

LEMMA Failing ==
  ASSUME NEW R, SyncFails(R)
  PROVE  /\ relaying' = TRUE /\ syncState' = "Unsynced" /\ receiving' = R
         /\ EnabledWhenSynced' /\ RelayFollows'
BY DEF SyncFails, EnabledWhenSynced, RelayFollows, Restarted

-----------------------------------------------------------------------------
(* The environment. *)
LEMMA Environment ==
  ASSUME IInv,
         Start \/ \E p \in Peers : Connect(p) \/ Lose(p) \/ OnPeerClose(p)
  PROVE  IInv'
<1> USE DEF IInv
<1>1. CASE Start
  <2>1. TypeOK'
    BY <1>1 DEF Start, TypeOK, remote
  <2>2. OneSync' /\ TasksAreCounted'
    BY <1>1, Keeping DEF Start
  <2>3. RelayFollows' /\ (begun => started)' /\ EnabledWhenSynced'
    BY <1>1 DEF Start, RelayFollows, EnabledWhenSynced, Receivers
  <2> QED
    BY <2>1, <2>2, <2>3
<1>2. CASE \E p \in Peers : Connect(p) \/ Lose(p)
  <2>1. TypeOK'
    <3>1. CASE \E p \in Peers : Connect(p)
      BY <3>1 DEF Connect, TypeOK, manager, NothingOwed
    <3>2. CASE \E p \in Peers : Lose(p)
      BY <3>2 DEF Lose, TypeOK, manager
    <3> QED
      BY <1>2, <3>1, <3>2
  <2>2. OneSync' /\ TasksAreCounted'
    BY <1>2, Keeping DEF Connect, Lose, manager
  <2>3. RelayFollows' /\ (begun => started)' /\ EnabledWhenSynced'
    BY <1>2 DEF Connect, Lose, manager, RelayFollows, EnabledWhenSynced, Receivers
  <2> QED
    BY <2>1, <2>2, <2>3
<1>3. ASSUME NEW p \in Peers, OnPeerClose(p) PROVE IInv'
  <2>1. TypeOK'
    BY <1>3 DEF OnPeerClose, TypeOK, remote
  <2>2. OneSync' /\ TasksAreCounted'
    BY <1>3, Keeping DEF OnPeerClose
  <2>3. RelayFollows' /\ (begun => started)' /\ EnabledWhenSynced'
    BY <1>3 DEF OnPeerClose, RelayFollows, EnabledWhenSynced, Receivers
  <2> QED
    BY <2>1, <2>2, <2>3
<1> QED
  BY <1>1, <1>2, <1>3

-----------------------------------------------------------------------------
(* A peer is ready. *)
LEMMA StepOnPeerReady ==
  ASSUME IInv, NEW p \in Peers, OnPeerReady(p)
  PROVE  IInv'
<1> DEFINE R == receiving \ {p}
           P == peers \cup {p}
<1>1. /\ TypeOK /\ OneSync /\ TasksAreCounted /\ RelayFollows /\ (begun => started)
      /\ EnabledWhenSynced
  BY DEF IInv
<1>2. /\ ~stalled /\ peers' = P /\ started' = started
      /\ up' = up /\ connections' = connections
      /\ announced' = [announced EXCEPT ![p] = @ - 1] /\ announced[p] > 0
  BY DEF OnPeerReady
<1>3. R \subseteq P /\ P \in SUBSET Peers /\ announced' \in [Peers -> Nat]
  BY <1>1, <1>2 DEF TypeOK
<1>4. CASE EnableGossip(p, R) /\ syncState # "Unsynced"
  <2>1. /\ UNCHANGED <<syncState, relaying, tasks, owed, begun>>
        /\ receiving' = R \cup (Receivers({p}) \cap up)
        /\ stalled' = ~(Receivers({p}) \subseteq up)
        /\ syncTask' = [syncTask EXCEPT ![p] = 0]
    BY <1>4 DEF EnableGossip
  <2>2. TypeOK'
    BY <1>1, <1>2, <1>3, <2>1 DEF TypeOK, Receivers
  <2>3. OneSync' /\ TasksAreCounted'
    BY <1>1, <1>2, <2>1, Keeping
  <2>4. EnabledWhenSynced'
    BY <1>1, <1>2, <2>1 DEF EnabledWhenSynced, Receivers
  <2>5. RelayFollows' /\ (begun => started)'
    BY <1>1, <1>2, <2>1 DEF RelayFollows
  <2> QED
    BY <2>2, <2>3, <2>4, <2>5 DEF IInv
<1>5. CASE SyncPeer(p, R) /\ syncState = "Unsynced"
  <2>1. begun' = started /\ stalled' = stalled
    BY <1>5 DEF SyncPeer
  <2>2. CASE SyncNothing(p, R)
    <3>1. /\ SyncSucceeds(P, R) /\ UNCHANGED <<tasks, owed>>
          /\ syncTask' = [syncTask EXCEPT ![p] = 0]
      BY <2>2 DEF SyncNothing
    <3>2. /\ relaying' = TRUE /\ syncState' \in {"Synced", "Unsynced"}
          /\ receiving' \subseteq P
          /\ EnabledWhenSynced' /\ RelayFollows'
      BY <1>2, <1>3, <3>1, Succeeding
    <3>3. TypeOK'
      BY <1>1, <1>2, <1>3, <2>1, <3>1, <3>2 DEF TypeOK, SyncState
    <3>4. OneSync' /\ TasksAreCounted'
      BY <1>1, <1>2, <1>5, <2>1, <3>1, <3>2, Keeping
    <3> QED
      BY <1>2, <2>1, <3>2, <3>3, <3>4 DEF IInv
  <2>3. CASE SyncRange(p, R) /\ p \in up
    <3> DEFINE t == NewTask(p, "AwaitingChannelRange")
    <3>1. /\ syncTask' = [syncTask EXCEPT ![p] = Len(tasks) + 1]
          /\ syncState' = "Syncing" /\ relaying' = FALSE /\ receiving' = R
          /\ tasks' = Append(tasks, t)
          /\ owed' = [owed EXCEPT ![p].range = TRUE]
      BY <2>3 DEF SyncRange
    <3>2. t \in Task /\ t.stage \notin Done /\ Counted(t, stalled)
      BY DEF NewTask, Task, Stage, Done, Counted
    <3> HIDE DEF t
    <3>3. /\ tasks' \in Seq(Task) /\ Len(tasks') = Len(tasks) + 1
          /\ OneSync' /\ TasksAreCounted'
      BY <1>1, <1>5, <2>1, <3>1, <3>2, Adding
    <3>4. syncTask' \in [Peers -> 0..Len(tasks')]
      BY <1>1, <3>1, <3>3 DEF TypeOK
    <3>5. TypeOK'
      BY <1>1, <1>2, <1>3, <2>1, <3>1, <3>3, <3>4 DEF TypeOK, SyncState
    <3>6. RelayFollows' /\ EnabledWhenSynced'
      BY <1>2, <2>1, <3>1 DEF RelayFollows, EnabledWhenSynced
    <3> QED
      BY <1>2, <2>1, <3>3, <3>5, <3>6 DEF IInv
  <2>4. CASE SyncRange(p, R) /\ p \notin up
    <3> DEFINE t == NewTask(p, "Failed")
    <3>1. /\ syncTask' = [syncTask EXCEPT ![p] = Len(tasks) + 1]
          /\ SyncFails(R)
          /\ tasks' = Append(tasks, t) /\ owed' = owed
      BY <2>4 DEF SyncRange
    <3>2. t \in Task /\ t.stage \in Done /\ Counted(t, stalled)
      BY DEF NewTask, Task, Stage, Done, Counted
    <3> HIDE DEF t
    <3>3. /\ relaying' = TRUE /\ syncState' = "Unsynced" /\ receiving' = R
          /\ EnabledWhenSynced' /\ RelayFollows'
      BY <3>1, Failing
    <3>4. /\ tasks' \in Seq(Task) /\ Len(tasks') = Len(tasks) + 1
          /\ OneSync' /\ TasksAreCounted'
      BY <1>1, <1>5, <2>1, <3>1, <3>2, <3>3, Adding
    <3>5. syncTask' \in [Peers -> 0..Len(tasks')]
      BY <1>1, <3>1, <3>4 DEF TypeOK
    <3>6. TypeOK'
      BY <1>1, <1>2, <1>3, <2>1, <3>1, <3>3, <3>4, <3>5 DEF TypeOK, SyncState
    <3> QED
      BY <1>2, <2>1, <3>3, <3>4, <3>6 DEF IInv
  <2> QED
    BY <1>5, <2>2, <2>3, <2>4 DEF SyncPeer
<1> QED
  BY <1>4, <1>5 DEF OnPeerReady, MaySync

-----------------------------------------------------------------------------
(* What a message does to the task it is for. *)
LEMMA Hearing ==
  ASSUME TypeOK, NEW p \in Peers, NEW s, Hears(p, s)
  PROVE  /\ syncTask[p] \in DOMAIN tasks /\ tasks[syncTask[p]] \in Task
         /\ tasks[syncTask[p]].stage = s
<1>1. tasks \in Seq(Task) /\ syncTask[p] \in 1..Len(tasks)
  BY DEF TypeOK, Hears
<1> QED
  BY <1>1 DEF Hears

LEMMA Owing ==
  ASSUME TypeOK, NEW p \in Peers, NEW more \in BOOLEAN, NEW n \in Int,
         owed[p].ends + n >= 0, Owes(p, more, n)
  PROVE  owed' \in [Peers -> [range : BOOLEAN, ends : Nat]]
<1>1. owed \in [Peers -> [range : BOOLEAN, ends : Nat]]
  BY DEF TypeOK
<1>2. [range |-> more, ends |-> owed[p].ends + n] \in [range : BOOLEAN, ends : Nat]
  BY <1>1
<1> QED
  BY <1>1, <1>2 DEF Owes

(* The task t replaces the one that hears p: it is not done, or fails, or  *)
(* the handler throws.                                                     *)
LEMMA Progressing ==
  ASSUME IInv, NEW p \in Peers, NEW t \in Task, ~stalled,
         syncTask[p] \in DOMAIN tasks, tasks[syncTask[p]].stage \notin Done,
         t.stage \notin Done, Counted(t, FALSE), Progress(p, t),
         UNCHANGED <<up, announced, connections>>,
         owed' \in [Peers -> [range : BOOLEAN, ends : Nat]]
  PROVE  IInv'
<1>1. /\ TypeOK /\ OneSync /\ TasksAreCounted /\ RelayFollows /\ (begun => started)
      /\ EnabledWhenSynced
  BY DEF IInv
<1>2. /\ tasks' = [tasks EXCEPT ![syncTask[p]] = t]
      /\ UNCHANGED <<started, syncState, relaying, peers, syncTask, receiving, stalled, begun>>
  BY DEF Progress
<1>3. Counted(t, stalled')
  BY DEF Counted
<1>4. /\ tasks' \in Seq(Task) /\ Len(tasks') = Len(tasks)
      /\ OneSync' /\ TasksAreCounted'
  BY <1>1, <1>2, <1>3, Updating
<1>5. TypeOK'
  BY <1>1, <1>2, <1>4 DEF TypeOK
<1>6. RelayFollows' /\ (begun => started)' /\ EnabledWhenSynced'
  BY <1>1, <1>2 DEF RelayFollows, EnabledWhenSynced, Receivers
<1> QED
  BY <1>4, <1>5, <1>6 DEF IInv

LEMMA TaskFailing ==
  ASSUME IInv, NEW p \in Peers, NEW t \in Task,
         syncTask[p] \in DOMAIN tasks, tasks[syncTask[p]].stage \notin Done,
         TaskFails(p, t),
         UNCHANGED <<up, announced, connections>>,
         owed' \in [Peers -> [range : BOOLEAN, ends : Nat]]
  PROVE  IInv'
<1>1. /\ TypeOK /\ OneSync /\ TasksAreCounted /\ (begun => started)
  BY DEF IInv
<1> DEFINE u == [t EXCEPT !.stage = "Failed"]
<1>2. /\ tasks' = [tasks EXCEPT ![syncTask[p]] = u] /\ SyncFails(receiving)
      /\ UNCHANGED <<started, peers, syncTask, stalled, begun>>
  BY DEF TaskFails
<1>3. u \in Task /\ u.stage \in Done /\ Counted(u, stalled')
  BY DEF Task, Stage, Done, Counted
<1> HIDE DEF u
<1>4. /\ relaying' = TRUE /\ syncState' = "Unsynced" /\ receiving' = receiving
      /\ EnabledWhenSynced' /\ RelayFollows'
  BY <1>2, Failing
<1>5. /\ tasks' \in Seq(Task) /\ Len(tasks') = Len(tasks)
      /\ OneSync' /\ TasksAreCounted'
  BY <1>1, <1>2, <1>3, <1>4, Updating
<1>6. TypeOK'
  BY <1>1, <1>2, <1>4, <1>5 DEF TypeOK, SyncState
<1> QED
  BY <1>1, <1>2, <1>4, <1>5, <1>6 DEF IInv

LEMMA NotHearing ==
  ASSUME IInv, NEW p \in Peers, ~stalled, Unheard(p),
         UNCHANGED <<up, announced, connections>>,
         owed' \in [Peers -> [range : BOOLEAN, ends : Nat]]
  PROVE  IInv'
<1>1. /\ TypeOK /\ OneSync /\ TasksAreCounted /\ RelayFollows /\ (begun => started)
      /\ EnabledWhenSynced
  BY DEF IInv
<1>2. /\ stalled' = (p \notin peers)
      /\ UNCHANGED <<started, syncState, relaying, peers, syncTask, receiving, tasks, begun>>
  BY DEF Unheard
<1>3. TypeOK'
  BY <1>1, <1>2 DEF TypeOK
<1>4. OneSync' /\ TasksAreCounted'
  BY <1>1, <1>2, Keeping
<1>5. RelayFollows' /\ (begun => started)' /\ EnabledWhenSynced'
  BY <1>1, <1>2 DEF RelayFollows, EnabledWhenSynced, Receivers
<1> QED
  BY <1>3, <1>4, <1>5 DEF IInv

(* Asking for a chunk of what is queued. *)
LEMMA Asking ==
  ASSUME NEW t \in Task
  PROVE  /\ SendQuery(t) \in Task /\ SendQuery(t).stage = t.stage
         /\ SendQuery(t).results = t.results
         /\ SendQuery(t).asked + SendQuery(t).queue = t.asked + t.queue
         /\ [t EXCEPT !.queue = @ - Chunk(t)] \in Task
         /\ [t EXCEPT !.queue = @ - Chunk(t)].stage = t.stage
<1>1. Chunk(t) \in Nat /\ t.queue - Chunk(t) \in Nat /\ t.queue \in Nat /\ t.asked \in Nat
  BY GossipSyncAssumption DEF Chunk, Task
<1> DEFINE c == Chunk(t)
           s == [t EXCEPT !.queue = t.queue - c, !.asked = t.asked + c]
           u == [t EXCEPT !.queue = t.queue - c]
<1>2. SendQuery(t) = s /\ [t EXCEPT !.queue = @ - Chunk(t)] = u
  BY DEF SendQuery, Task
<1> HIDE DEF c
<1>3. c \in Nat /\ t.queue - c \in Nat /\ t.asked + c \in Nat
  BY <1>1 DEF c
<1>4. /\ s \in Task /\ s.stage = t.stage /\ s.results = t.results
      /\ s.queue = t.queue - c /\ s.asked = t.asked + c
  BY <1>3 DEF Task
<1>5. u \in Task /\ u.stage = t.stage
  BY <1>3 DEF Task
<1>6. s.asked + s.queue = t.asked + t.queue
  <2>1. (t.asked + c) + (t.queue - c) = t.asked + t.queue
    BY <1>1, <1>3
  <2> QED
    BY <1>4, <2>1
<1> HIDE DEF s, u
<1> QED
  BY <1>2, <1>4, <1>5, <1>6

-----------------------------------------------------------------------------
LEMMA StepReplyChannelRange ==
  ASSUME IInv, NEW p \in Peers, NEW full \in BOOLEAN, NEW n \in Nat, NEW height \in Nat,
         ReplyChannelRange(p, full, n, height)
  PROVE  IInv'
<1>1. TypeOK /\ TasksAreCounted
  BY DEF IInv
<1>2. ~stalled /\ UNCHANGED <<up, announced, connections>>
  BY DEF ReplyChannelRange
<1> DEFINE more == ~IsLast(p, full, height)
<1>3. more \in BOOLEAN /\ owed[p].ends \in Nat
  BY <1>1 DEF TypeOK, IsLast
<1>4. CASE ~Hears(p, "AwaitingChannelRange") /\ Unheard(p) /\ Owes(p, more, 0)
  <2>1. owed' \in [Peers -> [range : BOOLEAN, ends : Nat]]
    <3> HIDE DEF more
    <3> QED
      BY <1>1, <1>3, <1>4, Owing
  <2> QED
    BY <1>2, <1>4, <2>1, NotHearing
<1>5. CASE Hears(p, "AwaitingChannelRange") /\ HandleReplyChannelRange(p, full, n, height)
  <2> DEFINE t == Reported(tasks[syncTask[p]], full, n)
  <2>1. /\ syncTask[p] \in DOMAIN tasks /\ tasks[syncTask[p]] \in Task
        /\ tasks[syncTask[p]].stage = "AwaitingChannelRange"
    BY <1>1, <1>5, Hearing
  <2>2. Counted(tasks[syncTask[p]], FALSE)
    <3>1. Counted(tasks[syncTask[p]], stalled)
      BY <1>1, <2>1 DEF TasksAreCounted
    <3> QED
      BY <1>2, <3>1 DEF Counted
  <2>3. t \in Task /\ t.stage = "AwaitingChannelRange" /\ t.queue = 0 /\ t.asked = 0
    <3> DEFINE o == tasks[syncTask[p]]
               l == o.legacy \/ IsLegacyReply(full, n)
    <3>1. o \in Task /\ o.stage = "AwaitingChannelRange" /\ o.queue = 0 /\ o.asked = 0
      BY <2>1, <2>2 DEF Counted
    <3>2. l \in BOOLEAN /\ o.results + n \in Nat
      BY <3>1 DEF Task
    <3>3. t = [o EXCEPT !.legacy = l, !.results = o.results + n]
      BY <3>1 DEF Reported, Task
    <3> HIDE DEF o, l, t
    <3> QED
      BY <3>1, <3>2, <3>3 DEF Task
  <2>4. /\ Query(t) \in Task /\ Query(t).stage = "AwaitingChannels"
        /\ Query(t).asked + Query(t).queue = Query(t).results
    <3> DEFINE u == [t EXCEPT !.stage = "AwaitingChannels", !.queue = t.results]
    <3> HIDE DEF t
    <3>1. /\ u \in Task /\ u.stage = "AwaitingChannels" /\ u.results \in Nat
          /\ u.asked = 0 /\ u.queue = u.results
      BY <2>3 DEF Task, Stage
    <3>2. Query(t) = SendQuery(u)
      BY DEF Query
    <3> HIDE DEF u
    <3>3. /\ SendQuery(u) \in Task /\ SendQuery(u).stage = u.stage
          /\ SendQuery(u).results = u.results
          /\ SendQuery(u).asked + SendQuery(u).queue = u.asked + u.queue
      BY <3>1, Asking
    <3>4. u.asked + u.queue = u.results
      BY <3>1
    <3> QED
      BY <3>1, <3>2, <3>3, <3>4
  <2>5. \/ TaskFails(p, t) /\ Owes(p, more, 0)
        \/ Progress(p, Query(t)) /\ Owes(p, more, 1)
        \/ Progress(p, t) /\ Owes(p, more, 0)
    BY <1>5 DEF HandleReplyChannelRange
  <2> HIDE DEF t, more
  <2>6. owed' \in [Peers -> [range : BOOLEAN, ends : Nat]]
    BY <1>1, <1>3, <2>5, Owing
  <2>7. tasks[syncTask[p]].stage \notin Done /\ t.stage \notin Done /\ Counted(t, FALSE)
    BY <2>1, <2>3 DEF Done, Counted
  <2>8. Query(t).stage \notin Done /\ Counted(Query(t), FALSE)
    BY <2>4 DEF Done, Counted
  <2>9. CASE TaskFails(p, t)
    BY <1>2, <2>1, <2>3, <2>6, <2>7, <2>9, TaskFailing
  <2>10. CASE Progress(p, Query(t))
    BY <1>2, <2>1, <2>4, <2>6, <2>7, <2>8, <2>10, Progressing
  <2>11. CASE Progress(p, t)
    BY <1>2, <2>1, <2>3, <2>6, <2>7, <2>11, Progressing
  <2> QED
    BY <2>5, <2>9, <2>10, <2>11
<1> QED
  BY <1>4, <1>5 DEF ReplyChannelRange

LEMMA StepReplyShortChannelIdsEnd ==
  ASSUME IInv, NEW p \in Peers, NEW complete \in BOOLEAN,
         ReplyShortChannelIdsEnd(p, complete)
  PROVE  IInv'
<1>1. /\ TypeOK /\ OneSync /\ TasksAreCounted /\ RelayFollows /\ (begun => started)
      /\ EnabledWhenSynced
  BY DEF IInv
<1>2. ~stalled /\ owed[p].ends > 0 /\ UNCHANGED <<up, announced, connections>>
  BY DEF ReplyShortChannelIdsEnd
<1>3. owed[p].range \in BOOLEAN /\ owed[p].ends \in Nat /\ owed[p].ends + (-1) >= 0
  BY <1>1, <1>2 DEF TypeOK
<1>4. ASSUME Owes(p, owed[p].range, -1)
      PROVE  owed' \in [Peers -> [range : BOOLEAN, ends : Nat]]
  <2>1. -1 \in Int
    OBVIOUS
  <2> QED
    BY <1>1, <1>3, <1>4, <2>1, Owing
<1>5. CASE ~Hears(p, "AwaitingChannels") /\ Unheard(p) /\ Owes(p, owed[p].range, -1)
  BY <1>2, <1>4, <1>5, NotHearing
<1>6. CASE Hears(p, "AwaitingChannels") /\ HandleReplyShortChannelIdsEnd(p, complete)
  <2> DEFINE t == tasks[syncTask[p]]
             u == [t EXCEPT !.queue = @ - Chunk(t)]
             w == [t EXCEPT !.stage = "AwaitingMessages"]
  <2>1. syncTask[p] \in DOMAIN tasks /\ t \in Task /\ t.stage = "AwaitingChannels"
    BY <1>1, <1>6, Hearing
  <2>2. t.asked + t.queue = t.results /\ t.queue \in Nat /\ t.asked \in Nat
    BY <1>1, <1>2, <2>1 DEF TasksAreCounted, Counted, Task
  <2>3. \/ TaskFails(p, t) /\ Owes(p, owed[p].range, -1)
        \/ ~MoreToAsk(t) /\ Progress(p, w) /\ Owes(p, owed[p].range, -1)
        \/ Progress(p, SendQuery(t)) /\ UNCHANGED owed
        \/ /\ tasks' = [tasks EXCEPT ![syncTask[p]] = u] /\ stalled' = TRUE
           /\ UNCHANGED <<started, syncState, relaying, peers, syncTask, receiving, begun>>
           /\ Owes(p, owed[p].range, -1)
    BY <1>6 DEF HandleReplyShortChannelIdsEnd
  <2>4. owed' \in [Peers -> [range : BOOLEAN, ends : Nat]]
    BY <1>1, <1>4, <2>3 DEF TypeOK
  <2>5. t.stage \notin Done
    BY <2>1 DEF Done
  <2>6. u \in Task /\ u.stage = "AwaitingChannels"
    BY <2>1, Asking
  <2>7. w \in Task /\ w.stage = "AwaitingMessages" /\ w.queue = t.queue /\ w.asked = t.asked
        /\ w.results = t.results
    BY <2>1 DEF Task, Stage
  <2>8. /\ SendQuery(t) \in Task /\ SendQuery(t).stage = "AwaitingChannels"
        /\ SendQuery(t).asked + SendQuery(t).queue = SendQuery(t).results
    BY <2>1, <2>2, Asking
  <2> HIDE DEF u, w
  <2>9. CASE TaskFails(p, t)
    BY <1>2, <2>1, <2>4, <2>5, <2>9, TaskFailing
  <2>10. CASE ~MoreToAsk(t) /\ Progress(p, w)
    <3>1. w.stage \notin Done /\ Counted(w, FALSE)
      BY <2>2, <2>7, <2>10 DEF Counted, MoreToAsk, Done
    <3> QED
      BY <1>2, <2>1, <2>4, <2>5, <2>7, <2>10, <3>1, Progressing
  <2>11. CASE Progress(p, SendQuery(t))
    <3>1. SendQuery(t).stage \notin Done /\ Counted(SendQuery(t), FALSE)
      BY <2>8 DEF Counted, Done
    <3> QED
      BY <1>2, <2>1, <2>4, <2>5, <2>8, <2>11, <3>1, Progressing
  <2>12. CASE /\ tasks' = [tasks EXCEPT ![syncTask[p]] = u] /\ stalled' = TRUE
              /\ UNCHANGED <<started, syncState, relaying, peers, syncTask, receiving, begun>>
    <3>1. Counted(u, stalled') /\ u.stage \notin Done
      BY <2>6, <2>12 DEF Counted, Done
    <3>2. /\ tasks' \in Seq(Task) /\ Len(tasks') = Len(tasks)
          /\ OneSync' /\ TasksAreCounted'
      BY <1>1, <2>1, <2>5, <2>6, <2>12, <3>1, Updating
    <3>3. TypeOK'
      BY <1>1, <1>2, <2>4, <2>12, <3>2 DEF TypeOK
    <3>4. RelayFollows' /\ (begun => started)' /\ EnabledWhenSynced'
      BY <1>1, <2>12 DEF RelayFollows, EnabledWhenSynced
    <3> QED
      BY <3>2, <3>3, <3>4 DEF IInv
  <2> QED
    BY <2>3, <2>9, <2>10, <2>11, <2>12
<1> QED
  BY <1>5, <1>6 DEF ReplyShortChannelIdsEnd

LEMMA StepOnTimeout ==
  ASSUME IInv, NEW k \in DOMAIN tasks, OnTimeout(k)
  PROVE  IInv'
<1>1. TypeOK /\ OneSync /\ TasksAreCounted /\ (begun => started)
  BY DEF IInv
<1> DEFINE t == [tasks[k] EXCEPT !.stage = "Complete"]
<1>2. /\ tasks[k].stage = "AwaitingMessages"
      /\ tasks' = [tasks EXCEPT ![k] = t]
      /\ syncTask' = [p \in Peers |-> IF syncTask[p] = k THEN 0 ELSE syncTask[p]]
      /\ SyncSucceeds(peers, receiving)
      /\ UNCHANGED <<started, peers, stalled, begun, up, announced, connections, owed>>
  BY DEF OnTimeout, remote
<1>3. tasks[k] \in Task
  BY <1>1 DEF TypeOK
<1>4. Counted(tasks[k], stalled)
  BY <1>1 DEF TasksAreCounted
<1>5. t \in Task /\ t.stage \in Done /\ Counted(t, stalled') /\ tasks[k].stage \notin Done
  BY <1>2, <1>3, <1>4 DEF Task, Stage, Done, Counted
<1> HIDE DEF t
<1>6. /\ relaying' = TRUE /\ syncState' \in {"Synced", "Unsynced"}
      /\ receiving' \subseteq peers
      /\ EnabledWhenSynced' /\ RelayFollows'
  BY <1>1, <1>2, Succeeding DEF TypeOK
<1>7. /\ tasks' \in Seq(Task) /\ Len(tasks') = Len(tasks)
      /\ OneSync' /\ TasksAreCounted'
  BY <1>1, <1>2, <1>5, <1>6, Updating
<1>8. syncTask' \in [Peers -> 0..Len(tasks')]
  BY <1>1, <1>2, <1>7 DEF TypeOK
<1>9. TypeOK'
  BY <1>1, <1>2, <1>6, <1>7, <1>8 DEF TypeOK, SyncState
<1> QED
  BY <1>1, <1>2, <1>6, <1>7, <1>9 DEF IInv

-----------------------------------------------------------------------------
(* Every step keeps the invariant. *)
THEOREM Consecution == IInv /\ [Next]_vars => IInv'
<1> SUFFICES ASSUME IInv, [Next]_vars PROVE IInv'
  OBVIOUS
<1>1. CASE Start \/ \E p \in Peers : Connect(p) \/ Lose(p) \/ OnPeerClose(p)
  BY <1>1, Environment
<1>2. CASE \E p \in Peers : OnPeerReady(p)
  BY <1>2, StepOnPeerReady
<1>3. CASE \E p \in Peers : PartOfRange(p) \/ EndOfRange(p)
  <2>1. PICK p \in Peers, full \in BOOLEAN, n \in 0..MaxPart, height \in 0..(Target + 1) :
          ReplyChannelRange(p, full, n, height)
    BY <1>3 DEF PartOfRange, EndOfRange
  <2>2. n \in Nat /\ height \in Nat
    BY GossipSyncAssumption
  <2> QED
    BY <2>1, <2>2, StepReplyChannelRange
<1>4. CASE \E p \in Peers : \E complete \in BOOLEAN : ReplyShortChannelIdsEnd(p, complete)
  BY <1>4, StepReplyShortChannelIdsEnd
<1>5. CASE \E k \in DOMAIN tasks : OnTimeout(k)
  BY <1>5, StepOnTimeout
<1>6. CASE UNCHANGED vars
  BY <1>6 DEF vars, manager, remote, IInv, TypeOK, OneSync, Unfinished, TasksAreCounted,
     RelayFollows, EnabledWhenSynced, Receivers
<1> QED
  BY <1>1, <1>2, <1>3, <1>4, <1>5, <1>6 DEF Next

THEOREM Invariance == Spec => []IInv
BY Initially, Consecution, PTL DEF Spec

(* Every variable keeps its type. *)
THEOREM TypeCorrect == Spec => []TypeOK
<1>1. IInv => TypeOK
  BY DEF IInv
<1> QED
  BY <1>1, Invariance, PTL

(* The state is "syncing" exactly while one task is not done (_syncPeer).  *)
THEOREM SyncsDoNotOverlap == Spec => []OneSync
<1>1. IInv => OneSync
  BY DEF IInv
<1> QED
  BY <1>1, Invariance, PTL

(* Relaying stops while a sync goes on, and only then (_syncPeer).         *)
THEOREM RelayRests == Spec => []RelayFollows
<1>1. IInv => RelayFollows
  BY DEF IInv
<1> QED
  BY <1>1, Invariance, PTL

(* A sync that does not fail asks for all channels that were reported,     *)
(* however they are cut into parts and chunks (ChannelsQuery).             *)
THEOREM NoChannelIsForgotten == Spec => []AllAsked
<1>1. IInv => AllAsked
  BY DEF IInv, TasksAreCounted, Counted, AllAsked
<1> QED
  BY <1>1, Invariance, PTL

(* Once synchronized, every peer with gossip_queries is told to send what  *)
(* is new (_syncPeer, onPeerReady).                                        *)
THEOREM AllAreEnabled == Spec => []EnabledWhenSynced
<1>1. IInv => EnabledWhenSynced
  BY DEF IInv
<1> QED
  BY <1>1, Invariance, PTL
=============================================================================
