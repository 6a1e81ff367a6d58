----------------------------- MODULE BlockWatcher -----------------------------
(***************************************************************************)
(* The BlockWatcher: it polls bitcoind, follows the best chain block by    *)
(* block from the last block it knows, and calls its user for every block  *)
(* that is connected or disconnected.                                      *)
(*                                                                         *)
(* bitcoind is external: between any two of its answers the best chain may *)
(* grow or be reorganized, always to a longer one.  Blocks are those of    *)
(* Chains.  Each wait for an answer of bitcoind, or for the user's         *)
(* callback, is a place where other actions happen, and where the awaited  *)
(* promise may be rejected instead.                                        *)
(***************************************************************************)
EXTENDS Chains, SequencesExt

VARIABLES
  best,     \* bitcoind: the last block of the best chain
  known,    \* BlockWatcher.knownHash
  syncing,  \* BlockWatcher.syncing
  pc,       \* what _sync waits for, or "idle"
  target,   \* its local bestHash
  held,     \* the block it is connecting or disconnecting
  timer,    \* BlockWatcher._handle is set to poll again
  running,  \* start() was called, and not stop() after it
  failed    \* history: an awaited promise was rejected

chain == <<best, mined, stale>>
sync == <<known, syncing, pc, target, held, timer>>
vars == <<chain, sync, running, failed, view>>

At(b, n) == SubSeq(b, 1, n)
Ancestors(b) == {At(b, n) : n \in 0..Len(b)}   \* and itself
OnChain(b) == b \in Ancestors(best)

TypeOK ==
  /\ best \in Block /\ mined \subseteq Block /\ stale \subseteq mined
  /\ {known, view} \subseteq mined \cup {None}
  /\ pc \in {"idle", "best", "header", "connect", "connected", "disconnect", "disconnected"}
  /\ syncing \in BOOLEAN /\ timer \in BOOLEAN /\ running \in BOOLEAN /\ failed \in BOOLEAN

(* The watcher is made with the hash of a block it knows, which may be     *)
(* stale, or without one.                                                  *)
Init ==
  /\ best \in Block /\ known \in Block \cup {None}
  /\ known # None => Len(known) <= Len(best)
  /\ mined = Ancestors(best) \cup (IF known = None THEN {} ELSE Ancestors(known))
  /\ stale = mined \ Ancestors(best)
  /\ view = known
  /\ syncing = FALSE /\ pc = "idle" /\ target = None /\ held = None
  /\ timer = FALSE /\ running = FALSE /\ failed = FALSE

-----------------------------------------------------------------------------
(* bitcoind: the best chain grows, or is reorganized. *)
Mine ==
  \E b \in Block :
    /\ Len(b) > Len(best)
    /\ best' = b
    /\ mined' = mined \cup Ancestors(b)
    /\ stale' = stale \cup (mined \ Ancestors(b))
    /\ UNCHANGED <<sync, running, failed, view>>

(* _onPoll up to the first wait of _sync.  While another poll is syncing   *)
(* it only schedules the next one.                                         *)
OnPoll(pending) ==
  /\ IF syncing
       THEN timer' = TRUE /\ UNCHANGED <<syncing, pc>>
       ELSE timer' = pending /\ syncing' = TRUE /\ pc' = "best"
  /\ UNCHANGED <<chain, known, target, held, failed, view>>

Start == OnPoll(timer) /\ running' = TRUE

PollDue == timer /\ OnPoll(FALSE) /\ UNCHANGED running

(* stop() clears the timer, which a sync that goes on sets again. *)
Stop ==
  /\ running /\ running' = FALSE
  /\ timer' = FALSE
  /\ UNCHANGED <<chain, known, syncing, pc, target, held, failed, view>>

(* The head of the loop: done if the block known is the one it set out     *)
(* for.  The mutant leaves the flag set.                                   *)
StaySyncing == TRUE
NotSyncing == FALSE

Loop(goal, k) ==
  /\ known' = k
  /\ IF k = goal
       THEN pc' = "idle" /\ syncing' = NotSyncing /\ timer' = TRUE
       ELSE pc' = "header" /\ UNCHANGED <<syncing, timer>>

(* getBestBlockHash. *)
BestBlockHash ==
  /\ pc = "best"
  /\ target' = best
  /\ Loop(best, IF known = None THEN best ELSE known)
  /\ view' = IF known = None THEN best ELSE view
  /\ UNCHANGED <<chain, held, running, failed>>

(* getHeader of the block known: is it orphaned, has it a next block?  If  *)
(* neither, the loop asks again.  The mutant connects the best block alone. *)
Orphaned(b) == ~OnChain(b)

OnlyBest(b) == best
NextOf(b) == At(best, Len(b) + 1)

KnownHeader ==
  /\ pc = "header"
  /\ IF Orphaned(known)
       THEN held' = known /\ pc' = "disconnect"
       ELSE /\ known # best
            /\ held' = NextOf(known) /\ pc' = "connect"
  /\ UNCHANGED <<chain, known, syncing, target, timer, running, failed, view>>

(* _connectBlock and _disconnectBlock: what they ask bitcoind for does not *)
(* change, then the user is called...                                      *)
ConnectBlock ==
  /\ pc = "connect" /\ pc' = "connected"
  /\ view' = held
  /\ UNCHANGED <<chain, known, syncing, target, held, timer, running, failed>>

DisconnectBlock ==
  /\ pc = "disconnect" /\ pc' = "disconnected"
  /\ view' = Front(held)
  /\ UNCHANGED <<chain, known, syncing, target, held, timer, running, failed>>

(* ... and returns.                                                        *)
Previous(b) == Front(b)

Connected ==
  /\ pc = "connected" /\ Loop(target, held)
  /\ UNCHANGED <<chain, target, held, running, failed, view>>

Disconnected ==
  /\ pc = "disconnected" /\ Loop(target, Previous(held))
  /\ UNCHANGED <<chain, target, held, running, failed, view>>

(* The promise that is awaited is rejected: _onPoll ignores it. *)
Fail ==
  /\ pc # "idle" /\ pc' = "idle"
  /\ timer' = TRUE
  /\ failed' = TRUE
  /\ UNCHANGED <<chain, known, syncing, target, held, running, view>>

-----------------------------------------------------------------------------
Sync ==
  BestBlockHash \/ KnownHeader \/ ConnectBlock \/ DisconnectBlock \/ Connected \/ Disconnected

Next == Mine \/ Start \/ PollDue \/ Stop \/ Sync \/ Fail

Spec == Init /\ [][Next]_vars

(* The timer fires, and what is awaited is answered (or fails). *)
Fairness == WF_vars(PollDue) /\ WF_vars(Sync)

FairSpec == Spec /\ Fairness
-----------------------------------------------------------------------------
(* What the watcher knows is what its user was told, but for the call that *)
(* is in progress, or was when a promise was rejected: a new watcher made  *)
(* with knownHash misses no block and repeats none (_sync).                *)
KnownIsView ==
  pc \notin {"connected", "disconnected"} /\ ~failed => known = view

(* As long as no call fails, the user is again and again told all of the   *)
(* best chain while the watcher runs (_sync, _scheduleNext).               *)
Follows == []<>(view = best \/ failed \/ ~running)

-----------------------------------------------------------------------------
(* The inductive invariant of KnownIsView and IsFollower.                  *)

ChainInv ==
  /\ \A b \in mined : Ancestors(b) \subseteq mined
  /\ OnChain(best) /\ best \in mined
  /\ mined \ Ancestors(best) \subseteq stale
  /\ <<>> \notin stale

(* Where a sync stands, and what its user has been told. *)
SyncInv ==
  /\ pc # "idle" => syncing /\ ~failed
  /\ failed => syncing
  /\ pc \notin {"idle", "best"} => known \in mined
  /\ pc \in {"connect", "connected"} => held \in mined /\ held # <<>> /\ Front(held) = known
  /\ pc \in {"disconnect", "disconnected"} => held = known /\ held \in stale
  /\ pc = "connected" => view = held
  /\ pc = "disconnected" => view = Front(held)

IInv == TypeOK /\ ChainInv /\ SyncInv /\ KnownIsView
=============================================================================
