---------------------------- MODULE MCBlockWatcher ----------------------------
(* Small instances of BlockWatcher: the binary tree of all chains up to a  *)
(* height.                                                                 *)
EXTENDS BlockWatcher

CONSTANT MaxHeight

Tree == UNION {[1..n -> Branch] : n \in 0..MaxHeight}
=============================================================================
