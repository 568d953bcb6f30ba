--------------------------- MODULE MCDispatchLoop ---------------------------
(* Instances of DispatchLoop for TLC.                                      *)
EXTENDS DispatchLoop

CONSTANTS w1, w2, w3, c1

(* Rows w1 and w2 on a queue of concurrency one, w3 without a queue.       *)
OneQueue == [w \in WF |-> IF w = w3 THEN 2 ELSE 1]
Narrow   == [l \in Lane |-> l]
=============================================================================
