---------------------------- MODULE ChainFollower ----------------------------
(***************************************************************************)
(* What the class comment of BlockWatcher promises its user: blocks of the *)
(* best chain are connected one after the other, and a block is            *)
(* disconnected, as the last one connected, only when a reorganization has *)
(* happened to it.                                                         *)
(*                                                                         *)
(* A block is identified by its hash, and so by its whole ancestry: it is  *)
(* the sequence of the branches taken since the first block.               *)
(***************************************************************************)
EXTENDS Sequences, SequencesExt

VARIABLES
  mined,  \* the blocks that are or were in the best chain
  stale,  \* the blocks that have left it at some time
  view    \* the last block connected and not disconnected; None at first

CONSTANT None

Init == view = None \/ view \in mined

(* The chain grows, or is reorganized. *)
Mine ==
  /\ mined \subseteq mined' /\ stale \subseteq stale'
  /\ UNCHANGED view

(* The first block the user hears of follows the one it starts at. *)
Start ==
  /\ view = None /\ view' \in mined
  /\ UNCHANGED <<mined, stale>>

Connect ==
  /\ view # None
  /\ view' \in mined /\ view' # <<>> /\ Front(view') = view
  /\ UNCHANGED <<mined, stale>>

Disconnect ==
  /\ view # None
  /\ view \in stale /\ view # <<>> /\ view' = Front(view)
  /\ UNCHANGED <<mined, stale>>

Next == Mine \/ Start \/ Connect \/ Disconnect

Spec == Init /\ [][Next]_<<mined, stale, view>>
=============================================================================
