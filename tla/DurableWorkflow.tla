--------------------------- MODULE DurableWorkflow ---------------------------
(***************************************************************************)
(* What packages/kokoto promises to the author of a workflow and to the    *)
(* caller that enqueues it (README.md, "Semantics"): no executors, leases, *)
(* claims, attempts or workers, only rows that are open or finished, the   *)
(* log of completed steps, and the side effects that took place.           *)
(***************************************************************************)
EXTENDS Naturals

CONSTANTS
  WF,       \* workflow rows
  NSteps,   \* steps in the body of a workflow
  TxSteps   \* those that are txSteps

Steps == 1 .. NSteps

VARIABLES
  state,    \* "none", "open", or how the workflow ended
  stepLog,  \* the steps with a committed success row
  effects   \* how often the effect of a step took place

vars == <<state, stepLog, effects>>

Ends == {"success", "error", "cancelled"}

TypeOK ==
  /\ state \in [WF -> {"none", "open"} \cup Ends]
  /\ stepLog \in [WF -> SUBSET Steps]
  /\ effects \in [WF -> [Steps -> Nat]]

Init ==
  /\ state = [w \in WF |-> "none"]
  /\ stepLog = [w \in WF |-> {}]
  /\ effects = [w \in WF |-> [s \in Steps |-> 0]]

Enqueue(w) ==
  /\ state[w] = "none"
  /\ state' = [state EXCEPT ![w] = "open"]
  /\ UNCHANGED <<stepLog, effects>>

(* The step's turn has come: all before it are logged and it is not.       *)
IsNext(w, s) ==
  /\ state[w] = "open"
  /\ 1 .. s - 1 \subseteq stepLog[w]
  /\ s \notin stepLog[w]

Occurs(w, s) == effects' = [effects EXCEPT ![w][s] = @ + 1]
Logged(w, s) == stepLog' = [stepLog EXCEPT ![w] = @ \cup {s}]

(* The external effect of a step: at least once ...                        *)
Perform(w, s) ==
  /\ s \notin TxSteps
  /\ IsNext(w, s)
  /\ Occurs(w, s)
  /\ UNCHANGED <<state, stepLog>>

(* ... and, once it is logged, never again.                                *)
Log(w, s) ==
  /\ s \notin TxSteps
  /\ IsNext(w, s)
  /\ effects[w][s] > 0
  /\ Logged(w, s)
  /\ UNCHANGED <<state, effects>>

(* The writes of a txStep: exactly once.                                   *)
Commit(w, s) ==
  /\ s \in TxSteps
  /\ IsNext(w, s)
  /\ Occurs(w, s)
  /\ Logged(w, s)
  /\ UNCHANGED state

(* A workflow ends once; with success only after every step.               *)
End(w, outcome) ==
  /\ state[w] = "open"
  /\ outcome = "success" => stepLog[w] = Steps
  /\ state' = [state EXCEPT ![w] = outcome]
  /\ UNCHANGED <<stepLog, effects>>

Next ==
  \E w \in WF :
    \/ Enqueue(w)
    \/ \E s \in Steps : Perform(w, s) \/ Log(w, s) \/ Commit(w, s)
    \/ \E outcome \in Ends : End(w, outcome)

Spec == Init /\ [][Next]_vars
=============================================================================
