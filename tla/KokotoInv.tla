------------------------------ MODULE KokotoInv ------------------------------
(***************************************************************************)
(* The inductive invariant behind the safety properties of Kokoto.  It     *)
(* holds for dispatchers that are never wedged (~Wedge).                   *)
(***************************************************************************)
EXTENDS KokotoRefinement

(* The row of a worker is the one it claimed, under a lease that cannot    *)
(* lapse while the worker is in flight.                                    *)
Holds(k) ==
  /\ status[k.wf] = "running"
  /\ owner[k.wf] = k.ex
  /\ attempts[k.wf] = k.n
  /\ lease[k.wf] = "valid"
  /\ k.wf \in inFlight[k.ex]
  /\ Alive(k.ex)

Alone(k) == \A l \in workers : l.wf = k.wf => l = k

TickOnlyWhileOn == \A e \in Exec : lane[e] # 0 => phase[e] \in {"up", "stopping"}

ClaimInv ==
  /\ \A k \in workers : Holds(k) /\ Alone(k)
  /\ TickOnlyWhileOn

(* The worker knows the whole step log, because nobody else writes to it,  *)
(* and has got as far in the body as the log says.                         *)
CacheIsLog(k) == k.pc # "load" => k.cache = stepLog[k.wf]

Position(k) ==
  /\ k.at \in 1 .. NSteps + 1
  /\ k.pc = "load" => k.at = 1
  /\ 1 .. k.at - 1 \subseteq stepLog[k.wf]
  /\ k.pc \in {"run", "ran"} => k.at \notin stepLog[k.wf]
  /\ k.pc = "ran" => k.at \notin TxSteps /\ effects[k.wf][k.at] > 0

LogIsPrefix(w) ==
  \A s \in Steps : s \in stepLog[w] \/ effects[w][s] > 0 => 1 .. s - 1 \subseteq stepLog[w]

LoggedHappened(w) == \A s \in stepLog[w] : effects[w][s] > 0

TxOnce(w) == \A s \in TxSteps : effects[w][s] = IF s \in stepLog[w] THEN 1 ELSE 0

SuccessIsComplete(w) == status[w] = "success" => stepLog[w] = Steps

RowInv(w) == LogIsPrefix(w) /\ LoggedHappened(w) /\ TxOnce(w) /\ SuccessIsComplete(w)

StepInv ==
  /\ \A k \in workers : CacheIsLog(k) /\ Position(k)
  /\ \A w \in WF : RowInv(w)

(* A side effect that follows a cancel request is the last one, because    *)
(* the check before the next step sees the request.                        *)
CancelInv ==
  /\ \A w \in WF : late[w] <= 1
  /\ \A w \in WF : ~cancelReq[w] => late[w] = 0
  /\ \A k \in workers : k.pc = "run" => late[k.wf] = 0

IInv == TypeOK /\ ClaimInv /\ StepInv /\ CancelInv
=============================================================================
