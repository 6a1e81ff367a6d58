-------------------------------- MODULE Chains --------------------------------
(***************************************************************************)
(* The blocks there may be, those that have been in the best chain, and    *)
(* what the user of a BlockWatcher may be told of them.  A block is        *)
(* identified by its hash, and so by its whole ancestry: it is the         *)
(* sequence of the branches taken since the first block.                   *)
(***************************************************************************)
EXTENDS Integers, Sequences

CONSTANTS
  Branch,  \* how chains may differ at one height
  Block,   \* bound: the blocks that may ever be mined
  None     \* no block

ASSUME BlockAssumption ==
  /\ None \notin Block
  /\ \A b \in Block :
       /\ b \in Seq(Branch)
       /\ \A n \in 0..Len(b) : SubSeq(b, 1, n) \in Block

VARIABLES
  mined,   \* history: the blocks that are or were in the best chain
  stale,   \* history: the blocks that have left it at some time
  view     \* the user: the last block connected and not disconnected

(* The user hears of the best chain block by block, and of the end of a    *)
(* block only if it was orphaned (class comment of BlockWatcher).          *)
Follower == INSTANCE ChainFollower
IsFollower == Follower!Spec
=============================================================================
