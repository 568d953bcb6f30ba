-------------------------- MODULE KokotoRefinement --------------------------
(***************************************************************************)
(* The runtime of Kokoto implements DurableWorkflow as long as no          *)
(* dispatcher is wedged: a row that is pending or running is open, and     *)
(* claims, leases, attempts, retries and crashes are not visible.          *)
(***************************************************************************)
EXTENDS Kokoto

RowState(w) == IF status[w] \in {"pending", "running"} THEN "open" ELSE status[w]

Promise == INSTANCE DurableWorkflow WITH state <- [w \in WF |-> RowState(w)]

(* README.md, "Semantics": the steps of a workflow are logged exactly once *)
(* and in order, external effects happen at least once, transactional ones *)
(* exactly once, and a workflow ends once.                                 *)
KeepsPromise == Promise!Spec
=============================================================================
