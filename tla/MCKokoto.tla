------------------------------ MODULE MCKokoto ------------------------------
(* Instances of Kokoto for TLC: the queues and registries of small systems. *)
EXTENDS KokotoInv, TLC

CONSTANTS w1, w2, w3, w4, e1, e2, email

(* One queue, of concurrency one, and the rows that are enqueued on it.    *)
OneQueue     == <<email>>
OneAtATime   == [q \in {email} |-> 1]
AllEmail     == [w \in WF |-> email]
HalfEmail    == [w \in WF |-> IF w \in {w1, w2} THEN email ELSE NoQueue]

(* Rows of one kind have no identity of their own.                         *)
SameKind     == {p @@ q : p \in Permutations({w1, w2}), q \in Permutations({w3, w4})}

(* Every boot registers the workflow of every row.                         *)
AllKnown     == [e \in Exec |-> WF]
=============================================================================
