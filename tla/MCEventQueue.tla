----------------------------- MODULE MCEventQueue -----------------------------
(* Small instances of EventQueue: a Peer as it is made by default, whose   *)
(* remote node sends messages of all kinds, and one with a larger buffer   *)
(* that gets only those that are known.                                    *)
EXTENDS EventQueue

CONSTANTS Default, Larger

HighWaters == [p \in Peers |-> IF p = Default THEN 1 ELSE 2]
Kinds      == [p \in Peers |-> IF p = Default THEN Kind ELSE {"known"}]
=============================================================================
