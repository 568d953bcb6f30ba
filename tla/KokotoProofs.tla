----------------------------- MODULE KokotoProofs ---------------------------
(***************************************************************************)
(* Proofs about the durable runtime of Kokoto, for every number of rows,   *)
(* boots, queues, steps and attempts: its type invariant, what its         *)
(* inductive invariant implies, and that it implements DurableWorkflow.    *)
(* All but the first is proved for dispatchers that are never wedged       *)
(* (~Wedge).                                                               *)
(***************************************************************************)
EXTENDS KokotoInv, FiniteSetTheorems, TLAPS

(* A worker record stays one when its program counter, its position in the *)
(* body or its cache moves on.                                             *)
LEMMA WorkerMoves ==
  ASSUME NEW k \in Worker, NEW p \in WorkerPc
  PROVE  /\ [k EXCEPT !.pc = p] \in Worker
         /\ [k EXCEPT !.pc = p].pc = p
         /\ [k EXCEPT !.pc = p].at = k.at
  BY DEF Worker

LEMMA WorkerAdvances ==
  ASSUME NEW k \in Worker
  PROVE  /\ [k EXCEPT !.at = @ + 1] \in Worker
         /\ [k EXCEPT !.at = @ + 1].pc = k.pc
  BY DEF Worker

LEMMA WorkerLoads ==
  ASSUME NEW k \in Worker, NEW C \in SUBSET Steps
  PROVE  /\ [k EXCEPT !.pc = "begin", !.cache = C] \in Worker
         /\ [k EXCEPT !.pc = "begin", !.cache = C].pc = "begin"
  BY DEF Worker, WorkerPc

LEMMA WorkerRecords ==
  ASSUME NEW k \in Worker, k.at \in Steps
  PROVE  /\ [k EXCEPT !.pc = "begin", !.at = @ + 1, !.cache = @ \cup {k.at}] \in Worker
         /\ [k EXCEPT !.pc = "begin", !.at = @ + 1, !.cache = @ \cup {k.at}].pc = "begin"
<1>1. \A i \in Nat, C \in SUBSET Steps :
        /\ [k EXCEPT !.pc = "begin", !.at = i, !.cache = C] \in Worker
        /\ [k EXCEPT !.pc = "begin", !.at = i, !.cache = C].pc = "begin"
  BY DEF Worker, WorkerPc
<1>2. k.at + 1 \in Nat /\ k.cache \cup {k.at} \in SUBSET Steps
  BY DEF Worker
<1>3. QED
  BY <1>1, <1>2

LEMMA BatchFinite ==
  ASSUME NEW e \in Exec, NEW q, NEW B \in Batches(e, q)
  PROVE  B \subseteq WF /\ IsFiniteSet(B) /\ Cardinality(B) \in Nat
  BY ConstantsOK, FS_Subset, FS_CardinalityType DEF Batches, Ready

LEMMA LenNat == Len(QueueOrder) \in Nat
  BY ConstantsOK

-----------------------------------------------------------------------------
LEMMA InitTypeOK == Init => TypeOK
  BY DEF Init, TypeOK, Status, Phase, Lanes

LEMMA ProcessTypeOK ==
  ASSUME TypeOK, NEW e \in Exec, ProcessStep(e)
  PROVE  TypeOK'
<1> USE DEF TypeOK, rowVars, execVars, logVars
<1>1. CASE Register(e)
  BY <1>1 DEF Register, Phase
<1>2. CASE RefuseBoot(e)
  BY <1>2 DEF RefuseBoot, Phase
<1>3. CASE Start(e)
  BY <1>3 DEF Start, Phase, Status
<1>4. CASE Stop(e)
  BY <1>4 DEF Stop, Phase
<1>5. CASE StopReturns(e)
  BY <1>5 DEF StopReturns, Phase
<1>6. CASE Halt(e)
  BY <1>6 DEF Halt, Phase
<1>7. CASE BeginTick(e)
  BY <1>7, LenNat DEF BeginTick, Lanes
<1>8. CASE TickFails(e)
  BY <1>8 DEF TickFails
<1>9. CASE ClaimLane(e)
  <2>1. PICK B \in Batches(e, LaneQueue(e)) : ClaimRows(e, LaneQueue(e), B)
    BY <1>9 DEF ClaimLane
  <2>2. B \subseteq WF /\ Cardinality(B) \in Nat
    BY BatchFinite
  <2>3. \A w \in B : NewWorker(e, w) \in Worker
    BY <2>2 DEF NewWorker, StampOf, Worker, WorkerPc
  <2>4. /\ workers' \subseteq Worker
        /\ \A k \in workers' : k.pc \in {"run", "ran"} => k.at \in Steps
    BY <2>1, <2>3 DEF ClaimRows, NewWorker
  <2>5. lane' \in [Exec -> Lanes \cup {0}]
    BY <1>9, LenNat DEF ClaimLane, LaneAfter, Lanes
  <2>6. used' \in [Exec -> [Queues -> Nat]]
    BY <2>1, <2>2 DEF ClaimRows
  <2>7. QED
    BY <1>9, <2>1, <2>2, <2>4, <2>5, <2>6 DEF ClaimLane, ClaimRows, StampOf, Status
<1>10. QED
  BY <1>1, <1>2, <1>3, <1>4, <1>5, <1>6, <1>7, <1>8, <1>9 DEF ProcessStep

LEMMA ClientTypeOK ==
  ASSUME TypeOK, NEW w \in WF,
         \/ \E e \in Exec : Enqueue(e, w)
         \/ Cancel(w) \/ BackoffElapses(w) \/ LeaseLapses(w)
  PROVE  TypeOK'
<1> USE DEF TypeOK, rowVars, execVars, logVars, Status, Terminal
<1>1. ASSUME NEW e \in Exec, Enqueue(e, w) PROVE TypeOK'
  BY <1>1 DEF Enqueue
<1>2. CASE Cancel(w)
  BY <1>2 DEF Cancel
<1>3. CASE BackoffElapses(w)
  BY <1>3 DEF BackoffElapses
<1>4. CASE LeaseLapses(w)
  BY <1>4 DEF LeaseLapses
<1>5. QED
  BY <1>1, <1>2, <1>3, <1>4

LEMMA WorkerTypeOK ==
  ASSUME TypeOK, NEW k \in workers, WorkerStep(k)
  PROVE  TypeOK'
<1> USE DEF TypeOK, rowVars, execVars, logVars
<1>0. k \in Worker /\ k.wf \in WF /\ k.ex \in Exec
  BY DEF Worker
<1>a. ASSUME NEW next \in Worker, WorkerGoesOn(k, next),
             next.pc \in {"run", "ran"} => next.at \in Steps
      PROVE  /\ workers' \subseteq Worker
             /\ phase' \in [Exec -> Phase]
             /\ lane' \in [Exec -> Lanes \cup {0}]
             /\ inFlight' \in [Exec -> SUBSET WF]
             /\ used' \in [Exec -> [Queues -> Nat]]
             /\ \A l \in workers' : l.pc \in {"run", "ran"} => l.at \in Steps
  BY <1>a DEF WorkerGoesOn
<1>b. ASSUME WorkerEnds(k)
      PROVE  /\ workers' \subseteq Worker
             /\ phase' \in [Exec -> Phase]
             /\ lane' \in [Exec -> Lanes \cup {0}]
             /\ inFlight' \in [Exec -> SUBSET WF]
             /\ used' \in [Exec -> [Queues -> Nat]]
             /\ \A l \in workers' : l.pc \in {"run", "ran"} => l.at \in Steps
  BY <1>b, <1>0 DEF WorkerEnds, Monus
<1>c. ASSUME NEW outcome \in Terminal, FinalizeRow(k.wf, outcome)
      PROVE  /\ status' \in [WF -> Status]
             /\ owner' \in [WF -> Exec \cup {NoExec}]
             /\ lease' \in [WF -> {"none", "valid", "lapsed"}]
  BY <1>c, <1>0 DEF FinalizeRow, Status
<1>1. CASE LoadSteps(k)
  <2>1. [k EXCEPT !.pc = "begin", !.cache = stepLog[k.wf]] \in Worker
    BY <1>0, WorkerLoads
  <2>2. [k EXCEPT !.pc = "begin", !.cache = stepLog[k.wf]].pc = "begin"
    BY <1>0, WorkerLoads
  <2>3. QED
    BY <1>1, <1>a, <2>1, <2>2 DEF LoadSteps
<1>2. CASE UnknownWorkflow(k)
  BY <1>2, <1>b, <1>c DEF UnknownWorkflow, FinalizeRow, Terminal
<1>3. CASE ReplayStep(k)
  <2>1. k.pc = "begin" /\ WorkerGoesOn(k, [k EXCEPT !.at = @ + 1])
    BY <1>3 DEF ReplayStep
  <2>2. QED
    BY <1>3, <1>0, <1>a, <2>1, WorkerAdvances DEF ReplayStep
<1>4. CASE BeginStep(k)
  <2> DEFINE p == IF CancelSeen(k) THEN "cancelled" ELSE "run"
  <2>1. p \in WorkerPc
    BY DEF WorkerPc
  <2>2. k.at \in Steps /\ WorkerGoesOn(k, [k EXCEPT !.pc = p])
    BY <1>4 DEF BeginStep, AtNewStep
  <2> HIDE DEF p
  <2>3. QED
    BY <1>4, <1>0, <1>a, <2>1, <2>2, WorkerMoves DEF BeginStep
<1>5. CASE RunStep(k)
  <2>1. k.at \in Steps /\ WorkerGoesOn(k, [k EXCEPT !.pc = "ran"])
    BY <1>5 DEF RunStep
  <2>2. "ran" \in WorkerPc
    BY DEF WorkerPc
  <2>3. effects' \in [WF -> [Steps -> Nat]] /\ late' \in [WF -> Nat]
    BY <1>0, <1>5, <2>1 DEF RunStep, SideEffect
  <2>4. QED
    BY <1>5, <1>0, <1>a, <2>1, <2>2, <2>3, WorkerMoves DEF RunStep
<1>6. ASSUME k.pc \in {"run", "ran"}, LogStep(k.wf, k.at),
             UNCHANGED <<effects, late>> \/ SideEffect(k.wf, k.at),
             WorkerGoesOn(k, [k EXCEPT !.pc = "begin", !.at = @ + 1, !.cache = @ \cup {k.at}]),
             UNCHANGED rowVars
      PROVE  TypeOK'
  <2> DEFINE next == [k EXCEPT !.pc = "begin", !.at = @ + 1, !.cache = @ \cup {k.at}]
  <2>1. k.at \in Steps /\ WorkerGoesOn(k, next)
    BY <1>6
  <2>2. next \in Worker /\ next.pc = "begin"
    BY <1>0, <2>1, WorkerRecords
  <2> HIDE DEF next
  <2>3. stepLog' \in [WF -> SUBSET Steps]
    BY <1>0, <1>6, <2>1 DEF LogStep
  <2>4. effects' \in [WF -> [Steps -> Nat]] /\ late' \in [WF -> Nat]
    <3>1. CASE SideEffect(k.wf, k.at)
      BY <1>0, <2>1, <3>1 DEF SideEffect
    <3>2. CASE UNCHANGED <<effects, late>>
      BY <3>2
    <3>3. QED
      BY <1>6, <3>1, <3>2
  <2>5. QED
    BY <1>6, <1>a, <2>1, <2>2, <2>3, <2>4
<1>7. CASE RecordStep(k)
  BY <1>7, <1>6 DEF RecordStep
<1>7a. CASE CommitTxStep(k)
  BY <1>7a, <1>6 DEF CommitTxStep
<1>7b. CASE BodyThrows(k)
  <2> DEFINE next == [k EXCEPT !.pc = "failed"]
  <2>1. next \in Worker /\ next.pc = "failed"
    BY <1>0, WorkerMoves DEF WorkerPc
  <2>2. WorkerGoesOn(k, next) /\ UNCHANGED <<rowVars, logVars>>
    BY <1>7b DEF BodyThrows
  <2> HIDE DEF next
  <2>3. QED
    BY <1>a, <2>1, <2>2
<1>8. CASE Succeed(k)
  BY <1>8, <1>b, <1>c DEF Succeed, FinalizeRow, Terminal
<1>9. CASE FinishCancelled(k)
  BY <1>9, <1>b, <1>c DEF FinishCancelled, FinalizeRow, Terminal
<1>10. CASE Retry(k)
  BY <1>10, <1>0, <1>b DEF Retry, RequeueRow, Status
<1>11. CASE FinishError(k)
  BY <1>11, <1>b, <1>c DEF FinishError, FinalizeRow, Terminal
<1>12. CASE AbandonRow(k)
  BY <1>12, <1>b DEF AbandonRow
<1>13. QED
  BY <1>1, <1>2, <1>3, <1>4, <1>5, <1>7, <1>7a, <1>7b, <1>8, <1>9, <1>10, <1>11, <1>12
     DEF WorkerStep

LEMMA NextTypeOK == TypeOK /\ [Next]_vars => TypeOK'
<1> SUFFICES ASSUME TypeOK, [Next]_vars PROVE TypeOK'
  OBVIOUS
<1>1. CASE UNCHANGED vars
  BY <1>1 DEF vars, rowVars, execVars, TypeOK
<1>2. CASE Next
  BY <1>2, ProcessTypeOK, ClientTypeOK, WorkerTypeOK DEF Next
<1>3. QED
  BY <1>1, <1>2

(* Every column, counter and worker keeps its type, wedged or not.         *)
THEOREM TypeCorrect == Spec => []TypeOK
<1>1. QED
  BY InitTypeOK, NextTypeOK, PTL DEF Spec

-----------------------------------------------------------------------------
(* One worker to a row, and the row still as it was claimed.               *)

LEMMA InitClaimInv == Init => ClaimInv
  BY DEF Init, ClaimInv, TickOnlyWhileOn

LEMMA WorkerFields ==
  ASSUME TypeOK, NEW k \in workers
  PROVE  k \in Worker /\ k.wf \in WF /\ k.ex \in Exec /\ k.n \in Nat
  BY DEF TypeOK, Worker

LEMMA ProcessClaimInv ==
  ASSUME TypeOK, ClaimInv, NEW e \in Exec, ProcessStep(e)
  PROVE  ClaimInv'
<1> USE WorkerFields DEF ClaimInv, Alone, TickOnlyWhileOn
<1>1. CASE Register(e) \/ RefuseBoot(e) \/ Stop(e) \/ StopReturns(e)
  BY <1>1 DEF Register, RefuseBoot, Stop, StopReturns, TickDone, Holds, Alive,
              rowVars, TypeOK
<1>2. CASE Start(e)
  <2>1. ASSUME NEW k \in workers PROVE k.wf \notin Reclaimable
    BY DEF Holds, Reclaimable
  <2>2. ASSUME NEW k \in workers' PROVE Holds(k)'
    BY <1>2, <2>1, <2>2 DEF Start, Holds, Alive, TypeOK
  <2>3. QED
    BY <1>2, <2>2 DEF Start, TypeOK
<1>3. CASE Halt(e)
  BY <1>3 DEF Halt, Holds, Alive, rowVars, TypeOK
<1>4. CASE BeginTick(e)
  BY <1>4 DEF BeginTick, Holds, Alive, TypeOK
<1>5. CASE TickFails(e)
  BY <1>5 DEF TickFails, Holds, Alive, rowVars, TypeOK
<1>6. CASE ClaimLane(e)
  <2>1. PICK B \in Batches(e, LaneQueue(e)) : ClaimRows(e, LaneQueue(e), B)
    BY <1>6 DEF ClaimLane
  <2>2. B \subseteq WF
    BY BatchFinite
  <2>3. \A w \in B : status[w] = "pending"
    BY DEF Batches, Ready
  <2>4. phase[e] \in {"up", "stopping"} /\ phase' = phase
    BY <1>6 DEF ClaimLane
  <2>5. ASSUME NEW k \in workers PROVE k.wf \notin B
    BY <2>3 DEF Holds
  <2>6. ASSUME NEW k \in workers PROVE Holds(k)'
    BY <2>1, <2>2, <2>4, <2>5, <2>6 DEF ClaimRows, Holds, Alive, TypeOK
  <2>7. ASSUME NEW w \in B, NEW k, k = NewWorker(e, w) PROVE Holds(k)'
    <3>1. k.wf = w /\ k.ex = e /\ k.n = attempts[w] + 1
      BY <2>7 DEF NewWorker
    <3>2. QED
      BY <2>1, <2>2, <2>4, <3>1 DEF ClaimRows, Holds, Alive, TypeOK
  <2>8. workers' = workers \cup {NewWorker(e, w) : w \in B}
    BY <2>1 DEF ClaimRows
  <2>9. ASSUME NEW k \in workers', NEW l \in workers', l.wf = k.wf PROVE l = k
    <3>1. \A w \in B : NewWorker(e, w).wf = w
      BY DEF NewWorker
    <3>2. QED
      BY <2>5, <2>8, <2>9, <3>1
  <2>10. TickOnlyWhileOn'
    BY <1>6, <2>4 DEF ClaimLane, TypeOK
  <2>11. QED
    BY <2>6, <2>7, <2>8, <2>9, <2>10
<1>7. QED
  BY <1>1, <1>2, <1>3, <1>4, <1>5, <1>6 DEF ProcessStep

LEMMA ClientClaimInv ==
  ASSUME ~Wedge, TypeOK, ClaimInv, NEW w \in WF,
         \/ \E e \in Exec : Enqueue(e, w)
         \/ Cancel(w) \/ BackoffElapses(w) \/ LeaseLapses(w)
  PROVE  ClaimInv'
<1> USE WorkerFields DEF ClaimInv, Alone, TickOnlyWhileOn, execVars
<1>1. ASSUME NEW e \in Exec, Enqueue(e, w) PROVE ClaimInv'
  BY <1>1 DEF Enqueue, Holds, Alive, TypeOK
<1>2. CASE Cancel(w)
  BY <1>2 DEF Cancel, Holds, Alive, TypeOK
<1>3. CASE BackoffElapses(w)
  BY <1>3 DEF BackoffElapses, Holds, Alive, TypeOK
<1>4. CASE LeaseLapses(w)
  <2>1. ASSUME NEW k \in workers PROVE k.wf # w
    BY <1>4, <2>1 DEF LeaseLapses, Holds, Alive
  <2>2. QED
    BY <1>4, <2>1 DEF LeaseLapses, Holds, Alive, TypeOK
<1>5. QED
  BY <1>1, <1>2, <1>3, <1>4

(* A worker that moves on keeps its claim ...                              *)
LEMMA GoesOnClaimInv ==
  ASSUME TypeOK, ClaimInv, NEW k \in workers, NEW next, WorkerGoesOn(k, next),
         next.wf = k.wf, next.ex = k.ex, next.n = k.n, UNCHANGED rowVars
  PROVE  ClaimInv'
  BY WorkerFields
     DEF ClaimInv, Alone, TickOnlyWhileOn, WorkerGoesOn, Holds, Alive, rowVars, execVars

(* ... and one that ends leaves the claims on other rows alone.            *)
LEMMA EndsClaimInv ==
  ASSUME TypeOK, ClaimInv, NEW k \in workers, WorkerEnds(k), attempts' = attempts,
         \A w \in WF \ {k.wf} :
           status'[w] = status[w] /\ owner'[w] = owner[w] /\ lease'[w] = lease[w]
  PROVE  ClaimInv'
<1>1. ASSUME NEW l \in workers' PROVE l \in workers /\ l.wf # k.wf /\ l.wf \in WF
  BY <1>1, WorkerFields DEF ClaimInv, Alone, WorkerEnds
<1>2. ASSUME NEW l \in workers' PROVE Holds(l)'
  BY <1>1, <1>2, WorkerFields DEF ClaimInv, WorkerEnds, Holds, Alive, TypeOK
<1>3. QED
  BY <1>1, <1>2 DEF ClaimInv, Alone, TickOnlyWhileOn, WorkerEnds

(* Every step of a worker is one of these two kinds.                       *)
GoesOn(k) ==
  \E next : /\ WorkerGoesOn(k, next) /\ UNCHANGED rowVars
            /\ next.wf = k.wf /\ next.ex = k.ex /\ next.n = k.n

EndsAlone(k) ==
  /\ WorkerEnds(k)
  /\ attempts' = attempts /\ cancelReq' = cancelReq
  /\ \A w \in WF \ {k.wf} :
       status'[w] = status[w] /\ owner'[w] = owner[w] /\ lease'[w] = lease[w]

LEMMA WorkerStepShape ==
  ASSUME TypeOK, NEW k \in workers, WorkerStep(k)
  PROVE  GoesOn(k) \/ EndsAlone(k)
<1>0. k \in Worker /\ k.wf \in WF
  BY WorkerFields
<1> USE <1>0
<1>a. ASSUME NEW next, WorkerGoesOn(k, next), UNCHANGED rowVars,
             next.wf = k.wf, next.ex = k.ex, next.n = k.n
      PROVE  GoesOn(k)
  BY <1>a DEF GoesOn
<1>1. CASE LoadSteps(k)
  <2> DEFINE next == [k EXCEPT !.pc = "begin", !.cache = stepLog[k.wf]]
  <2>1. WorkerGoesOn(k, next) /\ UNCHANGED rowVars
    BY <1>1 DEF LoadSteps
  <2>2. next.wf = k.wf /\ next.ex = k.ex /\ next.n = k.n
    BY DEF Worker
  <2> HIDE DEF next
  <2>3. QED
    BY <1>a, <2>1, <2>2
<1>2. CASE ReplayStep(k)
  <2> DEFINE next == [k EXCEPT !.at = @ + 1]
  <2>1. WorkerGoesOn(k, next) /\ UNCHANGED rowVars
    BY <1>2 DEF ReplayStep
  <2>2. next.wf = k.wf /\ next.ex = k.ex /\ next.n = k.n
    BY DEF Worker
  <2> HIDE DEF next
  <2>3. QED
    BY <1>a, <2>1, <2>2
<1>3. CASE BeginStep(k)
  <2> DEFINE next == [k EXCEPT !.pc = IF CancelSeen(k) THEN "cancelled" ELSE "run"]
  <2>1. WorkerGoesOn(k, next) /\ UNCHANGED rowVars
    BY <1>3 DEF BeginStep
  <2>2. next.wf = k.wf /\ next.ex = k.ex /\ next.n = k.n
    BY DEF Worker
  <2> HIDE DEF next
  <2>3. QED
    BY <1>a, <2>1, <2>2
<1>4. CASE RunStep(k)
  <2> DEFINE next == [k EXCEPT !.pc = "ran"]
  <2>1. WorkerGoesOn(k, next) /\ UNCHANGED rowVars
    BY <1>4 DEF RunStep
  <2>2. next.wf = k.wf /\ next.ex = k.ex /\ next.n = k.n
    BY DEF Worker
  <2> HIDE DEF next
  <2>3. QED
    BY <1>a, <2>1, <2>2
<1>5. CASE RecordStep(k)
  <2> DEFINE next == [k EXCEPT !.pc = "begin", !.at = @ + 1, !.cache = @ \cup {k.at}]
  <2>1. WorkerGoesOn(k, next) /\ UNCHANGED rowVars
    BY <1>5 DEF RecordStep
  <2>2. next.wf = k.wf /\ next.ex = k.ex /\ next.n = k.n
    BY DEF Worker
  <2> HIDE DEF next
  <2>3. QED
    BY <1>a, <2>1, <2>2
<1>6. CASE CommitTxStep(k)
  <2> DEFINE next == [k EXCEPT !.pc = "begin", !.at = @ + 1, !.cache = @ \cup {k.at}]
  <2>1. WorkerGoesOn(k, next) /\ UNCHANGED rowVars
    BY <1>6 DEF CommitTxStep
  <2>2. next.wf = k.wf /\ next.ex = k.ex /\ next.n = k.n
    BY DEF Worker
  <2> HIDE DEF next
  <2>3. QED
    BY <1>a, <2>1, <2>2
<1>7. CASE BodyThrows(k)
  <2> DEFINE next == [k EXCEPT !.pc = "failed"]
  <2>1. WorkerGoesOn(k, next) /\ UNCHANGED rowVars
    BY <1>7 DEF BodyThrows
  <2>2. next.wf = k.wf /\ next.ex = k.ex /\ next.n = k.n
    BY DEF Worker
  <2> HIDE DEF next
  <2>3. QED
    BY <1>a, <2>1, <2>2
<1>8. CASE UnknownWorkflow(k)
  BY <1>8 DEF UnknownWorkflow, FinalizeRow, EndsAlone, TypeOK
<1>9. CASE Succeed(k)
  BY <1>9 DEF Succeed, FinalizeRow, EndsAlone, TypeOK
<1>10. CASE FinishCancelled(k)
  BY <1>10 DEF FinishCancelled, FinalizeRow, EndsAlone, TypeOK
<1>11. CASE Retry(k)
  BY <1>11 DEF Retry, RequeueRow, EndsAlone, TypeOK
<1>12. CASE FinishError(k)
  BY <1>12 DEF FinishError, FinalizeRow, EndsAlone, TypeOK
<1>13. CASE AbandonRow(k)
  BY <1>13 DEF AbandonRow, rowVars, EndsAlone
<1>14. QED
  BY <1>1, <1>2, <1>3, <1>4, <1>5, <1>6, <1>7, <1>8, <1>9, <1>10, <1>11, <1>12, <1>13
     DEF WorkerStep

LEMMA WorkerClaimInv ==
  ASSUME TypeOK, ClaimInv, NEW k \in workers, WorkerStep(k)
  PROVE  ClaimInv'
<1>1. CASE GoesOn(k)
  BY <1>1, GoesOnClaimInv DEF GoesOn
<1>2. CASE EndsAlone(k)
  BY <1>2, EndsClaimInv DEF EndsAlone
<1>3. QED
  BY <1>1, <1>2, WorkerStepShape

LEMMA NextClaimInv ==
  ASSUME ~Wedge, TypeOK, ClaimInv, [Next]_vars
  PROVE  ClaimInv'
<1>1. CASE UNCHANGED vars
  BY <1>1 DEF vars, rowVars, execVars, ClaimInv, Alone, TickOnlyWhileOn, Holds, Alive
<1>2. CASE Next
  BY <1>2, ProcessClaimInv, ClientClaimInv, WorkerClaimInv DEF Next
<1>3. QED
  BY <1>1, <1>2

(* A row never has two workers, and the one it has works on the row as it  *)
(* claimed it: status, owner and attempts are those of its claim.          *)
THEOREM OneWorkerPerRow == ASSUME ~Wedge PROVE Spec => []SingleWorker
<1>1. Init => TypeOK /\ ClaimInv
  BY InitTypeOK, InitClaimInv
<1>2. TypeOK /\ ClaimInv /\ [Next]_vars => (TypeOK /\ ClaimInv)'
  BY NextTypeOK, NextClaimInv
<1>3. ClaimInv => SingleWorker
  BY DEF ClaimInv, SingleWorker, Holds, Alone
<1>4. QED
  BY <1>1, <1>2, <1>3, PTL DEF Spec

-----------------------------------------------------------------------------
(* The step log: logged once, in order, and known to the worker.           *)

LEMMA InitStepInv == Init => StepInv
<1> SUFFICES ASSUME Init PROVE StepInv
  OBVIOUS
<1>1. ASSUME NEW w \in WF PROVE RowInv(w)
  <2>1. stepLog[w] = {} /\ status[w] = "none" /\ \A s \in Steps : effects[w][s] = 0
    BY <1>1 DEF Init
  <2>2. QED
    BY <2>1, ConstantsOK DEF RowInv, LogIsPrefix, LoggedHappened, TxOnce, SuccessIsComplete
<1>2. QED
  BY <1>1 DEF Init, StepInv

(* A step that leaves the log and the effects alone, reports no success    *)
(* and has no worker but old ones and new ones that have yet to load.      *)
LEMMA FrameStepInv ==
  ASSUME TypeOK, StepInv, stepLog' = stepLog, effects' = effects,
         \A k \in workers' : k \in workers \/ (k.pc = "load" /\ k.at = 1),
         \A w \in WF : status'[w] = "success" => status[w] = "success"
  PROVE  StepInv'
<1>1. ASSUME NEW k \in workers' PROVE CacheIsLog(k)' /\ Position(k)'
  <2>1. CASE k \in workers
    BY <2>1 DEF StepInv, CacheIsLog, Position
  <2>2. CASE k.pc = "load" /\ k.at = 1
    <3>1. 1 \in 1 .. NSteps + 1 /\ 1 .. 1 - 1 = {}
      BY ConstantsOK
    <3>2. QED
      BY <2>2, <3>1 DEF CacheIsLog, Position
  <2>3. QED
    BY <1>1, <2>1, <2>2
<1>2. ASSUME NEW w \in WF PROVE RowInv(w)'
  BY <1>2 DEF StepInv, RowInv, LogIsPrefix, LoggedHappened, TxOnce, SuccessIsComplete
<1>3. QED
  BY <1>1, <1>2 DEF StepInv

LEMMA ProcessStepInv ==
  ASSUME TypeOK, StepInv, NEW e \in Exec, ProcessStep(e)
  PROVE  StepInv'
<1>1. stepLog' = stepLog /\ effects' = effects
  BY DEF ProcessStep, Register, RefuseBoot, Start, Stop, StopReturns, Halt, BeginTick,
         TickFails, ClaimLane, logVars
<1>2. CASE ClaimLane(e)
  <2>1. PICK B \in Batches(e, LaneQueue(e)) : ClaimRows(e, LaneQueue(e), B)
    BY <1>2 DEF ClaimLane
  <2>2. \A k \in workers' : k \in workers \/ (k.pc = "load" /\ k.at = 1)
    BY <2>1 DEF ClaimRows, NewWorker
  <2>3. \A w \in WF : status'[w] = "success" => status[w] = "success"
    BY <2>1 DEF ClaimRows
  <2>4. QED
    BY <1>1, <2>2, <2>3, FrameStepInv
<1>3. CASE ~ClaimLane(e)
  <2>1. \A k \in workers' : k \in workers
    BY <1>3 DEF ProcessStep, Register, RefuseBoot, Start, Stop, StopReturns, Halt,
                BeginTick, TickFails
  <2>2. \A w \in WF : status'[w] = "success" => status[w] = "success"
    BY <1>3 DEF ProcessStep, Register, RefuseBoot, Start, Stop, StopReturns, Halt,
                BeginTick, TickFails, rowVars
  <2>3. QED
    BY <1>1, <2>1, <2>2, FrameStepInv
<1>4. QED
  BY <1>2, <1>3

LEMMA ClientStepInv ==
  ASSUME TypeOK, StepInv, NEW w \in WF,
         \/ \E e \in Exec : Enqueue(e, w)
         \/ Cancel(w) \/ BackoffElapses(w) \/ LeaseLapses(w)
  PROVE  StepInv'
<1>1. stepLog' = stepLog /\ effects' = effects /\ workers' = workers
  BY DEF Enqueue, Cancel, BackoffElapses, LeaseLapses, logVars
<1>2. ASSUME NEW v \in WF, status'[v] = "success" PROVE status[v] = "success"
  <2>1. ASSUME NEW e \in Exec, Enqueue(e, w) PROVE status[v] = "success"
    BY <1>2, <2>1 DEF Enqueue, TypeOK
  <2>2. CASE Cancel(w)
    BY <1>2, <2>2 DEF Cancel, TypeOK
  <2>3. CASE BackoffElapses(w) \/ LeaseLapses(w)
    BY <1>2, <2>3 DEF BackoffElapses, LeaseLapses
  <2>4. QED
    BY <2>1, <2>2, <2>3
<1>3. QED
  BY <1>1, <1>2, FrameStepInv

(* A worker moves on, writing at most to the log of its own row.           *)
LEMMA GoesOnStepInv ==
  ASSUME TypeOK, ClaimInv, StepInv, NEW k \in workers, NEW next,
         WorkerGoesOn(k, next), UNCHANGED status,
         \A w \in WF \ {k.wf} : stepLog'[w] = stepLog[w] /\ effects'[w] = effects[w],
         CacheIsLog(next)', Position(next)', RowInv(k.wf)'
  PROVE  StepInv'
<1>1. ASSUME NEW l \in workers', l # next PROVE CacheIsLog(l)' /\ Position(l)'
  <2>1. l \in workers /\ l.wf # k.wf /\ l.wf \in WF
    BY <1>1, WorkerFields DEF WorkerGoesOn, ClaimInv, Alone
  <2>2. QED
    BY <2>1 DEF StepInv, CacheIsLog, Position
<1>2. ASSUME NEW w \in WF, w # k.wf PROVE RowInv(w)'
  BY <1>2 DEF StepInv, RowInv, LogIsPrefix, LoggedHappened, TxOnce, SuccessIsComplete
<1>3. QED
  BY <1>1, <1>2 DEF StepInv

(* The same for a step that writes nothing.                                *)
LEMMA MovesStepInv ==
  ASSUME TypeOK, ClaimInv, StepInv, NEW k \in workers, NEW next,
         WorkerGoesOn(k, next), UNCHANGED <<status, stepLog, effects>>,
         next.wf = k.wf, CacheIsLog(next), Position(next)
  PROVE  StepInv'
<1>1. CacheIsLog(next)' /\ Position(next)'
  BY DEF CacheIsLog, Position
<1>2. RowInv(k.wf)'
  BY WorkerFields DEF StepInv, RowInv, LogIsPrefix, LoggedHappened, TxOnce, SuccessIsComplete
<1>3. QED
  BY <1>1, <1>2, GoesOnStepInv

LEMMA WorkerStepInv ==
  ASSUME TypeOK, ClaimInv, StepInv, NEW k \in workers, WorkerStep(k)
  PROVE  StepInv'
<1>0. /\ k \in Worker /\ k.wf \in WF /\ CacheIsLog(k) /\ Position(k) /\ RowInv(k.wf)
      /\ NSteps \in Nat /\ k.at \in Nat /\ k.cache \subseteq Steps
  BY WorkerFields, ConstantsOK DEF StepInv, Worker
<1>1. CASE LoadSteps(k)
  <2>1. PICK next : /\ next = [k EXCEPT !.pc = "begin", !.cache = stepLog[k.wf]]
                    /\ WorkerGoesOn(k, next)
    BY <1>1 DEF LoadSteps
  <2>2. /\ next.wf = k.wf /\ next.at = k.at /\ next.pc = "begin"
        /\ next.cache = stepLog[k.wf]
    BY <1>0, <2>1 DEF Worker
  <2>3. CacheIsLog(next) /\ Position(next)
    BY <1>0, <2>2 DEF CacheIsLog, Position
  <2>4. QED
    BY <1>1, <2>1, <2>2, <2>3, MovesStepInv DEF LoadSteps, rowVars, logVars
<1>2. CASE ReplayStep(k)
  <2>1. PICK next : next = [k EXCEPT !.at = @ + 1] /\ WorkerGoesOn(k, next)
    BY <1>2 DEF ReplayStep
  <2>2. /\ next.wf = k.wf /\ next.at = k.at + 1 /\ next.pc = "begin"
        /\ next.cache = k.cache
    BY <1>0, <1>2, <2>1 DEF Worker, ReplayStep
  <2>3. k.cache = stepLog[k.wf] /\ k.at \in stepLog[k.wf] /\ k.at \in Steps
    BY <1>0, <1>2 DEF CacheIsLog, ReplayStep
  <2>4. CacheIsLog(next) /\ Position(next)
    BY <1>0, <2>2, <2>3 DEF CacheIsLog, Position, Steps
  <2>5. QED
    BY <1>2, <2>1, <2>2, <2>4, MovesStepInv DEF ReplayStep, rowVars, logVars
<1>3. CASE BeginStep(k)
  <2>1. PICK next : /\ next = [k EXCEPT !.pc = IF CancelSeen(k) THEN "cancelled" ELSE "run"]
                    /\ WorkerGoesOn(k, next)
    BY <1>3 DEF BeginStep
  <2>2. /\ next.wf = k.wf /\ next.at = k.at /\ next.pc \in {"cancelled", "run"}
        /\ next.cache = k.cache
    BY <1>0, <2>1 DEF Worker
  <2>3. k.cache = stepLog[k.wf] /\ k.at \notin stepLog[k.wf]
    BY <1>0, <1>3 DEF CacheIsLog, BeginStep, AtNewStep
  <2>4. CacheIsLog(next) /\ Position(next)
    BY <1>0, <2>2, <2>3 DEF CacheIsLog, Position
  <2>5. QED
    BY <1>3, <2>1, <2>2, <2>4, MovesStepInv DEF BeginStep, rowVars, logVars
<1>4. CASE BodyThrows(k)
  <2>1. PICK next : next = [k EXCEPT !.pc = "failed"] /\ WorkerGoesOn(k, next)
    BY <1>4 DEF BodyThrows
  <2>2. /\ next.wf = k.wf /\ next.at = k.at /\ next.pc = "failed"
        /\ next.cache = k.cache /\ k.pc # "load"
    BY <1>0, <1>4, <2>1 DEF Worker, BodyThrows, AtNewStep
  <2>3. CacheIsLog(next) /\ Position(next)
    BY <1>0, <2>2 DEF CacheIsLog, Position
  <2>4. QED
    BY <1>4, <2>1, <2>2, <2>3, MovesStepInv DEF BodyThrows, rowVars, logVars
<1>5. CASE RunStep(k)
  <2>1. PICK next : next = [k EXCEPT !.pc = "ran"] /\ WorkerGoesOn(k, next)
    BY <1>5 DEF RunStep
  <2>2. /\ next.wf = k.wf /\ next.at = k.at /\ next.pc = "ran" /\ next.cache = k.cache
        /\ k.pc = "run" /\ k.at \in Steps \ TxSteps /\ k.at \notin stepLog[k.wf]
    BY <1>0, <1>5, <2>1 DEF Worker, RunStep, TypeOK, Position
  <2>3. /\ stepLog' = stepLog /\ UNCHANGED status
        /\ effects' = [effects EXCEPT ![k.wf][k.at] = @ + 1]
    BY <1>5 DEF RunStep, SideEffect, rowVars
  <2>4. /\ effects'[k.wf][k.at] = effects[k.wf][k.at] + 1 /\ effects[k.wf][k.at] \in Nat
        /\ \A s \in Steps \ {k.at} : effects'[k.wf][s] = effects[k.wf][s]
        /\ \A w \in WF \ {k.wf} : effects'[w] = effects[w]
    BY <1>0, <2>2, <2>3 DEF TypeOK
  <2>5. CacheIsLog(next)' /\ Position(next)'
    BY <1>0, <2>2, <2>3, <2>4 DEF CacheIsLog, Position
  <2>6. RowInv(k.wf)'
    BY <1>0, <2>2, <2>3, <2>4, ConstantsOK
       DEF RowInv, LogIsPrefix, LoggedHappened, TxOnce, SuccessIsComplete, Position
  <2>7. QED
    BY <2>1, <2>3, <2>4, <2>5, <2>6, GoesOnStepInv
<1>6. CASE RecordStep(k) \/ CommitTxStep(k)
  <2>1. PICK next :
          /\ next = [k EXCEPT !.pc = "begin", !.at = @ + 1, !.cache = @ \cup {k.at}]
          /\ WorkerGoesOn(k, next)
    BY <1>6 DEF RecordStep, CommitTxStep
  <2>2. /\ next.wf = k.wf /\ next.at = k.at + 1 /\ next.pc = "begin"
        /\ next.cache = k.cache \cup {k.at}
    <3>1. \A i, C : LET n == [k EXCEPT !.pc = "begin", !.at = i, !.cache = C]
                    IN  n.wf = k.wf /\ n.at = i /\ n.pc = "begin" /\ n.cache = C
      BY <1>0 DEF Worker
    <3>2. QED
      BY <2>1, <3>1
  <2>3. /\ k.pc \in {"run", "ran"} /\ k.at \in Steps /\ k.at \notin stepLog[k.wf]
        /\ k.cache = stepLog[k.wf]
    BY <1>0, <1>6 DEF RecordStep, CommitTxStep, TypeOK, Position, CacheIsLog
  <2>4. UNCHANGED status /\ stepLog' = [stepLog EXCEPT ![k.wf] = @ \cup {k.at}]
    BY <1>6 DEF RecordStep, CommitTxStep, LogStep, rowVars
  <2>5. /\ stepLog'[k.wf] = stepLog[k.wf] \cup {k.at}
        /\ \A w \in WF \ {k.wf} : stepLog'[w] = stepLog[w]
    BY <1>0, <2>4 DEF TypeOK
  <2>6. /\ effects'[k.wf][k.at] > 0
        /\ k.at \in TxSteps => effects'[k.wf][k.at] = 1
        /\ \A s \in Steps \ {k.at} : effects'[k.wf][s] = effects[k.wf][s]
        /\ \A w \in WF \ {k.wf} : effects'[w] = effects[w]
    <3>1. CASE RecordStep(k)
      BY <1>0, <3>1 DEF RecordStep, Position
    <3>2. CASE CommitTxStep(k)
      <4>1. effects' = [effects EXCEPT ![k.wf][k.at] = @ + 1] /\ k.at \in TxSteps
        BY <3>2 DEF CommitTxStep, SideEffect
      <4>2. effects[k.wf][k.at] = 0
        BY <1>0, <2>3, <4>1 DEF RowInv, TxOnce
      <4>3. QED
        BY <1>0, <2>3, <4>1, <4>2 DEF TypeOK
    <3>3. QED
      BY <1>6, <3>1, <3>2
  <2>7. CacheIsLog(next)' /\ Position(next)'
    <3>1. next.at \in 1 .. NSteps + 1 /\ 1 .. next.at - 1 \subseteq stepLog'[k.wf]
      BY <1>0, <2>2, <2>3, <2>5 DEF Position, Steps
    <3>2. QED
      BY <2>2, <2>3, <2>5, <3>1 DEF CacheIsLog, Position
  <2>8. RowInv(k.wf)'
    <3>1. LogIsPrefix(k.wf)'
      BY <1>0, <2>3, <2>5, <2>6 DEF RowInv, LogIsPrefix, Position
    <3>2. LoggedHappened(k.wf)'
      BY <1>0, <2>3, <2>5, <2>6 DEF RowInv, LoggedHappened, TypeOK
    <3>3. TxOnce(k.wf)'
      BY <1>0, <2>3, <2>5, <2>6, ConstantsOK DEF RowInv, TxOnce
    <3>4. SuccessIsComplete(k.wf)'
      BY <1>0, <2>3, <2>4, <2>5 DEF RowInv, SuccessIsComplete
    <3>5. QED
      BY <3>1, <3>2, <3>3, <3>4 DEF RowInv
  <2>9. QED
    BY <2>1, <2>4, <2>5, <2>6, <2>7, <2>8, GoesOnStepInv
<1>7. ASSUME WorkerEnds(k), UNCHANGED logVars, ~Succeed(k) PROVE StepInv'
  <2>1. \A l \in workers' : l \in workers
    BY <1>7 DEF WorkerEnds
  <2>2. \A w \in WF : status'[w] = "success" => status[w] = "success"
    BY <1>0, <1>7 DEF WorkerStep, LoadSteps, UnknownWorkflow, ReplayStep, BeginStep, RunStep,
          RecordStep, CommitTxStep, BodyThrows, FinishCancelled, Retry, FinishError,
          AbandonRow, FinalizeRow, RequeueRow, rowVars, TypeOK
  <2>3. QED
    BY <1>7, <2>1, <2>2, FrameStepInv DEF logVars
<1>8. CASE Succeed(k)
  <2>1. UNCHANGED <<stepLog, effects>> /\ workers' = workers \ {k}
    BY <1>8 DEF Succeed, WorkerEnds, logVars
  <2>2. stepLog[k.wf] = Steps
    <3>1. k.at = NSteps + 1
      BY <1>0, <1>8 DEF Succeed, Position
    <3>2. 1 .. k.at - 1 = Steps
      BY <3>1, ConstantsOK DEF Steps
    <3>3. stepLog[k.wf] \subseteq Steps
      BY <1>0 DEF TypeOK
    <3>4. QED
      BY <1>0, <3>2, <3>3 DEF Position
  <2>3. \A w \in WF \ {k.wf} : status'[w] = status[w]
    BY <1>8 DEF Succeed, FinalizeRow, TypeOK
  <2>4. ASSUME NEW w \in WF PROVE RowInv(w)'
    BY <2>1, <2>2, <2>3, <2>4
       DEF StepInv, RowInv, LogIsPrefix, LoggedHappened, TxOnce, SuccessIsComplete
  <2>5. ASSUME NEW l \in workers' PROVE CacheIsLog(l)' /\ Position(l)'
    BY <2>1, <2>5 DEF StepInv, CacheIsLog, Position
  <2>6. QED
    BY <2>4, <2>5 DEF StepInv
<1>9. CASE UnknownWorkflow(k) \/ FinishCancelled(k) \/ Retry(k) \/ FinishError(k)
           \/ AbandonRow(k)
  <2>1. WorkerEnds(k) /\ UNCHANGED logVars
    BY <1>9 DEF UnknownWorkflow, FinishCancelled, Retry, FinishError, AbandonRow
  <2>2. QED
    BY <1>7, <1>8, <2>1
<1>10. QED
  BY <1>1, <1>2, <1>3, <1>4, <1>5, <1>6, <1>8, <1>9 DEF WorkerStep

LEMMA NextStepInv ==
  ASSUME TypeOK, ClaimInv, StepInv, [Next]_vars
  PROVE  StepInv'
<1>1. CASE UNCHANGED vars
  BY <1>1, FrameStepInv DEF vars, rowVars
<1>2. CASE Next
  BY <1>2, ProcessStepInv, ClientStepInv, WorkerStepInv DEF Next
<1>3. QED
  BY <1>1, <1>2

-----------------------------------------------------------------------------
(* Cancel requests: the check before a step is the last chance to stop it. *)

LEMMA InitCancelInv == Init => CancelInv
  BY DEF Init, CancelInv

(* A step without side effects, that withdraws no cancel request and puts  *)
(* no worker past the check.                                               *)
LEMMA FrameCancelInv ==
  ASSUME TypeOK, CancelInv, late' = late,
         \A w \in WF : cancelReq[w] => cancelReq'[w],
         \A k \in workers' : k.pc = "run" => k \in workers
  PROVE  CancelInv'
  BY DEF CancelInv

LEMMA ProcessCancelInv ==
  ASSUME TypeOK, CancelInv, NEW e \in Exec, ProcessStep(e)
  PROVE  CancelInv'
<1>1. late' = late /\ cancelReq' = cancelReq
  BY DEF ProcessStep, Register, RefuseBoot, Start, Stop, StopReturns, Halt, BeginTick,
         TickFails, ClaimLane, logVars, rowVars
<1>2. CASE ClaimLane(e)
  <2>1. PICK B \in Batches(e, LaneQueue(e)) : ClaimRows(e, LaneQueue(e), B)
    BY <1>2 DEF ClaimLane
  <2>2. \A k \in workers' : k.pc = "run" => k \in workers
    BY <2>1 DEF ClaimRows, NewWorker
  <2>3. QED
    BY <1>1, <2>2, FrameCancelInv
<1>3. CASE ~ClaimLane(e)
  <2>1. \A k \in workers' : k \in workers
    BY <1>3 DEF ProcessStep, Register, RefuseBoot, Start, Stop, StopReturns, Halt,
                BeginTick, TickFails
  <2>2. QED
    BY <1>1, <2>1, FrameCancelInv
<1>4. QED
  BY <1>2, <1>3

LEMMA ClientCancelInv ==
  ASSUME TypeOK, CancelInv, NEW w \in WF,
         \/ \E e \in Exec : Enqueue(e, w)
         \/ Cancel(w) \/ BackoffElapses(w) \/ LeaseLapses(w)
  PROVE  CancelInv'
<1>1. late' = late /\ workers' = workers
  BY DEF Enqueue, Cancel, BackoffElapses, LeaseLapses, logVars
<1>2. \A v \in WF : cancelReq[v] => cancelReq'[v]
  BY DEF Enqueue, Cancel, BackoffElapses, LeaseLapses, TypeOK
<1>3. QED
  BY <1>1, <1>2, FrameCancelInv

(* The step of a worker past the check takes effect.                       *)
LEMMA EffectCancelInv ==
  ASSUME TypeOK, ClaimInv, CancelInv, NEW k \in workers, k.pc = "run",
         NEW next, next.pc # "run", WorkerGoesOn(k, next), SideEffect(k.wf, k.at),
         UNCHANGED rowVars
  PROVE  CancelInv'
<1>1. k.wf \in WF /\ late[k.wf] = 0
  BY WorkerFields DEF CancelInv
<1>2. /\ late'[k.wf] = IF cancelReq[k.wf] THEN 1 ELSE 0
      /\ \A w \in WF \ {k.wf} : late'[w] = late[w]
  BY <1>1 DEF SideEffect, TypeOK
<1>3. ASSUME NEW l \in workers', l.pc = "run" PROVE late'[l.wf] = 0
  <2>1. l \in workers /\ l.wf # k.wf /\ l.wf \in WF
    BY <1>3, WorkerFields DEF WorkerGoesOn, ClaimInv, Alone
  <2>2. QED
    BY <1>2, <1>3, <2>1 DEF CancelInv
<1>4. cancelReq' = cancelReq
  BY DEF rowVars
<1>5. QED
  BY <1>1, <1>2, <1>3, <1>4 DEF CancelInv

LEMMA WorkerCancelInv ==
  ASSUME TypeOK, ClaimInv, CancelInv, NEW k \in workers, WorkerStep(k)
  PROVE  CancelInv'
<1>0. k \in Worker /\ k.wf \in WF
  BY WorkerFields
<1>1. cancelReq' = cancelReq
  BY WorkerStepShape DEF GoesOn, EndsAlone, rowVars
<1>2. CASE LoadSteps(k) \/ ReplayStep(k) \/ BodyThrows(k)
  <2>1. PICK next : WorkerGoesOn(k, next) /\ next.pc # "run"
    <3>1. CASE LoadSteps(k)
      <4>1. [k EXCEPT !.pc = "begin", !.cache = stepLog[k.wf]].pc # "run"
        BY <1>0 DEF Worker
      <4>2. QED
        BY <3>1, <4>1 DEF LoadSteps
    <3>2. CASE ReplayStep(k)
      <4>1. [k EXCEPT !.at = @ + 1].pc = k.pc
        BY <1>0 DEF Worker
      <4>2. QED
        BY <3>2, <4>1 DEF ReplayStep
    <3>3. CASE BodyThrows(k)
      <4>1. [k EXCEPT !.pc = "failed"].pc # "run"
        BY <1>0 DEF Worker
      <4>2. QED
        BY <3>3, <4>1 DEF BodyThrows
    <3>4. QED
      BY <1>2, <3>1, <3>2, <3>3
  <2>2. late' = late
    BY <1>2 DEF LoadSteps, ReplayStep, BodyThrows, logVars
  <2>3. QED
    BY <1>1, <2>1, <2>2, FrameCancelInv DEF WorkerGoesOn
<1>3. CASE BeginStep(k)
  <2>1. PICK next : /\ next = [k EXCEPT !.pc = IF CancelSeen(k) THEN "cancelled" ELSE "run"]
                    /\ WorkerGoesOn(k, next)
    BY <1>3 DEF BeginStep
  <2>2. next.wf = k.wf /\ (next.pc = "run" => ~cancelReq[k.wf])
    BY <1>0, <2>1 DEF Worker, CancelSeen
  <2>3. late' = late
    BY <1>3 DEF BeginStep, logVars
  <2>4. ASSUME NEW l \in workers', l.pc = "run" PROVE late'[l.wf] = 0
    BY <1>0, <2>1, <2>2, <2>3, <2>4 DEF CancelInv, WorkerGoesOn
  <2>5. QED
    BY <1>1, <2>3, <2>4 DEF CancelInv
<1>4. CASE RunStep(k)
  <2>1. PICK next : next = [k EXCEPT !.pc = "ran"] /\ WorkerGoesOn(k, next)
    BY <1>4 DEF RunStep
  <2>2. next.pc # "run"
    BY <1>0, <2>1 DEF Worker
  <2>3. QED
    BY <1>4, <2>1, <2>2, EffectCancelInv DEF RunStep
<1>5. CASE CommitTxStep(k)
  <2>1. PICK next :
          /\ next = [k EXCEPT !.pc = "begin", !.at = @ + 1, !.cache = @ \cup {k.at}]
          /\ WorkerGoesOn(k, next)
    BY <1>5 DEF CommitTxStep
  <2>2. next.pc # "run"
    BY <1>0, <2>1 DEF Worker
  <2>3. QED
    BY <1>5, <2>1, <2>2, EffectCancelInv DEF CommitTxStep
<1>6. CASE RecordStep(k)
  <2>1. PICK next :
          /\ next = [k EXCEPT !.pc = "begin", !.at = @ + 1, !.cache = @ \cup {k.at}]
          /\ WorkerGoesOn(k, next)
    BY <1>6 DEF RecordStep
  <2>2. next.pc # "run" /\ late' = late
    BY <1>0, <1>6, <2>1 DEF Worker, RecordStep
  <2>3. QED
    BY <1>1, <2>1, <2>2, FrameCancelInv DEF WorkerGoesOn
<1>7. CASE UnknownWorkflow(k) \/ Succeed(k) \/ FinishCancelled(k) \/ Retry(k)
           \/ FinishError(k) \/ AbandonRow(k)
  <2>1. WorkerEnds(k) /\ late' = late
    BY <1>7 DEF UnknownWorkflow, Succeed, FinishCancelled, Retry, FinishError,
                AbandonRow, logVars
  <2>2. QED
    BY <1>1, <2>1, FrameCancelInv DEF WorkerEnds
<1>8. QED
  BY <1>2, <1>3, <1>4, <1>5, <1>6, <1>7 DEF WorkerStep

LEMMA NextCancelInv ==
  ASSUME TypeOK, ClaimInv, CancelInv, [Next]_vars
  PROVE  CancelInv'
<1>1. CASE UNCHANGED vars
  BY <1>1, FrameCancelInv DEF vars, rowVars
<1>2. CASE Next
  BY <1>2, ProcessCancelInv, ClientCancelInv, WorkerCancelInv DEF Next
<1>3. QED
  BY <1>1, <1>2

-----------------------------------------------------------------------------
(* The whole invariant is inductive.                                       *)
THEOREM InductiveInvariant == ASSUME ~Wedge PROVE Spec => []IInv
<1>1. Init => IInv
  BY InitTypeOK, InitClaimInv, InitStepInv, InitCancelInv DEF IInv
<1>2. IInv /\ [Next]_vars => IInv'
  BY NextTypeOK, NextClaimInv, NextStepInv, NextCancelInv DEF IInv
<1>3. QED
  BY <1>1, <1>2, PTL DEF Spec

(* The writes of a txStep are in the database exactly when its step row is. *)
THEOREM TransactionsOnce == ASSUME ~Wedge PROVE Spec => []TxExactlyOnce
<1>1. IInv => TxExactlyOnce
  BY DEF IInv, StepInv, RowInv, TxOnce, TxExactlyOnce
<1>2. QED
  BY <1>1, InductiveInvariant, PTL

(* Steps take effect in the order of the body, and success means all did.  *)
THEOREM StepsInOrder == ASSUME ~Wedge PROVE Spec => []InOrder
<1>1. IInv => InOrder
  BY DEF IInv, StepInv, RowInv, LogIsPrefix, LoggedHappened, SuccessIsComplete, InOrder
<1>2. QED
  BY <1>1, InductiveInvariant, PTL

(* At most one side effect follows a cancel request.                       *)
THEOREM CancelIsPrompt == ASSUME ~Wedge PROVE Spec => []CancelStopsSteps
<1>1. IInv => CancelStopsSteps
  BY DEF IInv, CancelInv, CancelStopsSteps
<1>2. QED
  BY <1>1, InductiveInvariant, PTL

-----------------------------------------------------------------------------
(* Counting: the caps and the attempts.                                    *)

(* The rows of a queue that an executor has in flight.                     *)
Flight(e, q) == {w \in inFlight[e] : QueueOf[w] = q}

(* inFlight stays under the global cap; perQueueInFlight counts at least   *)
(* the queue's rows in flight and stays under the queue's concurrency.     *)
Capped(e) ==
  /\ Cardinality(inFlight[e]) <= GlobalConcurrency
  /\ \A q \in Queues : /\ Cardinality(Flight(e, q)) <= used[e][q]
                       /\ used[e][q] <= Concurrency[q]

CapInv == \A e \in Exec : Capped(e) /\ (phase[e] = "new" => inFlight[e] = {})

LEMMA FlightFinite ==
  ASSUME TypeOK, NEW e \in Exec, NEW q
  PROVE  /\ IsFiniteSet(inFlight[e]) /\ Cardinality(inFlight[e]) \in Nat
         /\ IsFiniteSet(Flight(e, q)) /\ Cardinality(Flight(e, q)) \in Nat
<1>1. inFlight[e] \subseteq WF /\ Flight(e, q) \subseteq WF
  BY DEF TypeOK, Flight
<1>2. QED
  BY <1>1, ConstantsOK, FS_Subset, FS_CardinalityType

(* What a turn of a queue takes fits into what the caps leave.             *)
LEMMA BatchFits ==
  ASSUME TypeOK, NEW e \in Exec, Capped(e), NEW p \in Queues \cup {NoQueue},
         NEW B \in Batches(e, p)
  PROVE  /\ \A w \in B : QueueOf[w] = p
         /\ Cardinality(inFlight[e]) + Cardinality(B) <= GlobalConcurrency
         /\ p \in Queues => used[e][p] + Cardinality(B) <= Concurrency[p]
<1> DEFINE n == Cardinality(inFlight[e])
           b == Cardinality(B)
           r == Cardinality(Ready(p))
           c == CapacityRemaining(e)
           u == used[e][p]
           m == Concurrency[p]
<1>1. n \in Nat /\ n <= GlobalConcurrency /\ c = Monus(GlobalConcurrency, n)
  BY FlightFinite DEF Capped, CapacityRemaining
<1>2. b \in Nat /\ r \in Nat
  BY BatchFinite, ConstantsOK, FS_Subset, FS_CardinalityType DEF Ready
<1>3. p \in Queues => u \in Nat /\ m \in Nat /\ u <= m
  BY ConstantsOK DEF TypeOK, Capped
<1>4. b = AtMost(CapacityForQueue(e, p), r) /\ \A w \in B : QueueOf[w] = p
  BY DEF Batches, Ready
<1>5. p = NoQueue => b = AtMost(c, r)
  BY <1>4 DEF CapacityForQueue
<1>6. p \in Queues => b = AtMost(AtMost(c, Monus(m, u)), r)
  BY <1>4, ConstantsOK DEF CapacityForQueue
<1> HIDE DEF n, b, r, c, u, m
<1>7. n + b <= GlobalConcurrency
  BY <1>1, <1>2, <1>3, <1>5, <1>6, ConstantsOK DEF AtMost, Monus
<1>8. p \in Queues => u + b <= m
  BY <1>1, <1>2, <1>3, <1>6, ConstantsOK DEF AtMost, Monus
<1>9. QED
  BY <1>4, <1>7, <1>8 DEF n, b, u, m

LEMMA ClaimCapped ==
  ASSUME TypeOK, CapInv, NEW e \in Exec, ClaimLane(e)
  PROVE  Capped(e)'
<1> DEFINE p == LaneQueue(e)
<1>1. PICK B \in Batches(e, p) : ClaimRows(e, p, B)
  BY DEF ClaimLane
<1>2. p \in Queues \cup {NoQueue}
  BY LenNat, ConstantsOK DEF ClaimLane, LaneQueue, TypeOK, Lanes, Queues
<1> HIDE DEF p
<1>3. /\ \A w \in B : QueueOf[w] = p
      /\ Cardinality(inFlight[e]) + Cardinality(B) <= GlobalConcurrency
      /\ p \in Queues => used[e][p] + Cardinality(B) <= Concurrency[p]
  BY <1>2, BatchFits DEF CapInv
<1>4. IsFiniteSet(B) /\ Cardinality(B) \in Nat
  BY BatchFinite
<1>5. inFlight'[e] = inFlight[e] \cup B
  BY <1>1 DEF ClaimRows, TypeOK
<1>6. \A q \in Queues : used'[e][q] = IF q = p THEN used[e][q] + Cardinality(B) ELSE used[e][q]
  BY <1>1 DEF ClaimRows, TypeOK
<1>7. Cardinality(inFlight'[e]) <= GlobalConcurrency
  <2> DEFINE n == Cardinality(inFlight[e])
             b == Cardinality(B)
             i == Cardinality(inFlight[e] \cap B)
             t == Cardinality(inFlight'[e])
  <2>1. t = n + b - i /\ i \in Nat /\ n \in Nat
    BY <1>4, <1>5, FlightFinite, FS_Union, FS_Intersection, FS_CardinalityType
  <2>2. n + b <= GlobalConcurrency /\ b \in Nat
    BY <1>3, <1>4
  <2> HIDE DEF n, b, i, t
  <2>3. t <= GlobalConcurrency
    BY <2>1, <2>2, ConstantsOK
  <2>4. QED
    BY <2>3 DEF t
<1>8. ASSUME NEW q \in Queues
      PROVE  Cardinality(Flight(e, q)') <= used'[e][q] /\ used'[e][q] <= Concurrency[q]
  <2>1. CASE q = p
    <3> DEFINE n == Cardinality(Flight(e, q))
               b == Cardinality(B)
               i == Cardinality(Flight(e, q) \cap B)
               t == Cardinality(Flight(e, q)')
               u == used[e][q]
    <3>1. Flight(e, q)' = Flight(e, q) \cup B
      BY <1>3, <1>5, <2>1 DEF Flight
    <3>2. t = n + b - i /\ i \in Nat /\ n \in Nat
      BY <1>4, <3>1, FlightFinite, FS_Union, FS_Intersection, FS_CardinalityType
    <3>3. n <= u /\ u \in Nat /\ b \in Nat
      BY <1>4 DEF CapInv, Capped, TypeOK
    <3>4. used'[e][q] = u + b /\ u + b <= Concurrency[q]
      BY <1>3, <1>6, <2>1
    <3> HIDE DEF n, b, i, t, u
    <3>5. t <= u + b
      BY <3>2, <3>3
    <3>6. QED
      BY <3>4, <3>5 DEF t
  <2>2. CASE q # p
    <3>1. Flight(e, q)' = Flight(e, q)
      BY <1>3, <1>5, <2>2 DEF Flight
    <3>2. QED
      BY <1>6, <2>2, <3>1 DEF CapInv, Capped
  <2>3. QED
    BY <2>1, <2>2
<1>9. QED
  BY <1>7, <1>8 DEF Capped

(* The worker that ends is one of those counted.                           *)
LEMMA EndCapped ==
  ASSUME TypeOK, ClaimInv, CapInv, NEW k \in workers, WorkerEnds(k)
  PROVE  Capped(k.ex)'
<1> DEFINE e == k.ex
<1>1. e \in Exec /\ k.wf \in inFlight[e]
  BY WorkerFields DEF ClaimInv, Holds
<1> HIDE DEF e
<1>2. inFlight'[e] = inFlight[e] \ {k.wf}
  BY <1>1 DEF WorkerEnds, e, TypeOK
<1>3. \A q \in Queues :
        used'[e][q] = IF q = QueueOf[k.wf] THEN Monus(used[e][q], 1) ELSE used[e][q]
  BY <1>1 DEF WorkerEnds, e, TypeOK
<1>4. Cardinality(inFlight'[e]) <= GlobalConcurrency
  <2> DEFINE n == Cardinality(inFlight[e])
             t == Cardinality(inFlight'[e])
  <2>1. n \in Nat /\ t = n - 1
    BY <1>1, <1>2, FlightFinite, FS_RemoveElement
  <2>2. n <= GlobalConcurrency
    BY <1>1 DEF CapInv, Capped
  <2> HIDE DEF n, t
  <2>3. t <= GlobalConcurrency
    BY <2>1, <2>2, ConstantsOK
  <2>4. QED
    BY <2>3 DEF t
<1>5. ASSUME NEW q \in Queues
      PROVE  Cardinality(Flight(e, q)') <= used'[e][q] /\ used'[e][q] <= Concurrency[q]
  <2>1. CASE q = QueueOf[k.wf]
    <3> DEFINE n == Cardinality(Flight(e, q))
               t == Cardinality(Flight(e, q)')
               u == used[e][q]
               v == used'[e][q]
               m == Concurrency[q]
    <3>1. Flight(e, q)' = Flight(e, q) \ {k.wf} /\ k.wf \in Flight(e, q)
      BY <1>1, <1>2, <2>1 DEF Flight
    <3>2. t = n - 1 /\ n \in Nat
      BY <1>1, <3>1, FlightFinite, FS_RemoveElement
    <3>3. n # 0
      BY <1>1, <3>1, FlightFinite, FS_EmptySet
    <3>4. n <= u /\ u <= m /\ u \in Nat /\ m \in Nat
      BY <1>1, ConstantsOK DEF CapInv, Capped, TypeOK
    <3>5. v = Monus(u, 1)
      BY <1>3, <2>1
    <3> HIDE DEF n, t, u, v, m
    <3>6. t <= v /\ v <= m
      BY <3>2, <3>3, <3>4, <3>5 DEF Monus
    <3>7. QED
      BY <3>6 DEF t, v, m
  <2>2. CASE q # QueueOf[k.wf]
    <3>1. Flight(e, q)' = Flight(e, q)
      BY <1>2, <2>2 DEF Flight
    <3>2. QED
      BY <1>1, <1>3, <2>2, <3>1 DEF CapInv, Capped
  <2>3. QED
    BY <2>1, <2>2
<1>6. QED
  BY <1>4, <1>5 DEF Capped, e

(* A process that boots or goes has nothing in flight.                     *)
LEMMA NothingInFlight ==
  ASSUME TypeOK, NEW e \in Exec, inFlight'[e] = {},
         \A q \in Queues : used'[e][q] = 0
  PROVE  Capped(e)'
<1>1. \A q \in Queues : Flight(e, q)' = {}
  BY DEF Flight
<1>2. Cardinality({}) = 0
  BY FS_EmptySet
<1>3. 0 <= GlobalConcurrency /\ \A q \in Queues : 0 <= Concurrency[q]
  BY ConstantsOK
<1>4. Cardinality(inFlight'[e]) <= GlobalConcurrency
  BY <1>2, <1>3
<1>5. ASSUME NEW q \in Queues
      PROVE  Cardinality(Flight(e, q)') <= used'[e][q] /\ used'[e][q] <= Concurrency[q]
  BY <1>1, <1>2, <1>3
<1>6. QED
  BY <1>4, <1>5 DEF Capped

LEMMA CappedKept ==
  ASSUME NEW e \in Exec, Capped(e), inFlight'[e] = inFlight[e],
         \A q \in Queues : used'[e][q] = used[e][q]
  PROVE  Capped(e)'
  BY DEF Capped, Flight

LEMMA InitCapInv == Init => CapInv
<1> SUFFICES ASSUME Init, NEW e \in Exec PROVE Capped(e)
  BY DEF Init, CapInv
<1>1. inFlight[e] = {} /\ \A q \in Queues : used[e][q] = 0 /\ Flight(e, q) = {}
  BY DEF Init, Flight
<1>2. Cardinality({}) = 0 /\ 0 <= GlobalConcurrency /\ \A q \in Queues : 0 <= Concurrency[q]
  BY FS_EmptySet, ConstantsOK
<1>3. QED
  BY <1>1, <1>2 DEF Capped

LEMMA NextCapInv ==
  ASSUME TypeOK, ClaimInv, CapInv, [Next]_vars
  PROVE  CapInv'
<1> SUFFICES ASSUME NEW e \in Exec
             PROVE  Capped(e)' /\ (phase'[e] = "new" => inFlight'[e] = {})
  BY DEF CapInv
<1>0. Capped(e) /\ (phase[e] = "new" => inFlight[e] = {})
  BY DEF CapInv
<1> USE DEF TypeOK
<1>1. ASSUME NEW d \in Exec, Register(d)
      PROVE  Capped(e)' /\ (phase'[e] = "new" => inFlight'[e] = {})
  <2>1. CASE d = e
    BY <1>0, <1>1, <2>1, NothingInFlight DEF Register
  <2>2. CASE d # e
    BY <1>0, <1>1, <2>2, CappedKept DEF Register
  <2>3. QED
    BY <2>1, <2>2
<1>2. ASSUME NEW d \in Exec, Halt(d)
      PROVE  Capped(e)' /\ (phase'[e] = "new" => inFlight'[e] = {})
  <2>1. CASE d = e
    BY <1>2, <2>1, NothingInFlight DEF Halt
  <2>2. CASE d # e
    BY <1>0, <1>2, <2>2, CappedKept DEF Halt
  <2>3. QED
    BY <2>1, <2>2
<1>3. ASSUME NEW d \in Exec, ClaimLane(d)
      PROVE  Capped(e)' /\ (phase'[e] = "new" => inFlight'[e] = {})
  <2>1. CASE d = e
    <3>1. phase'[e] # "new"
      BY <1>3, <2>1 DEF ClaimLane, ClaimInv, TickOnlyWhileOn
    <3>2. QED
      BY <1>3, <2>1, <3>1, ClaimCapped
  <2>2. CASE d # e
    <3>1. inFlight'[e] = inFlight[e] /\ used'[e] = used[e] /\ phase' = phase
      BY <1>3, <2>2 DEF ClaimLane, ClaimRows
    <3>2. QED
      BY <1>0, <3>1, CappedKept
  <2>3. QED
    BY <2>1, <2>2
<1>4. ASSUME NEW k \in workers, WorkerEnds(k)
      PROVE  Capped(e)' /\ (phase'[e] = "new" => inFlight'[e] = {})
  <2>1. CASE k.ex = e
    BY <1>0, <1>4, <2>1, EndCapped DEF WorkerEnds
  <2>2. CASE k.ex # e
    <3>1. inFlight'[e] = inFlight[e] /\ used'[e] = used[e] /\ phase' = phase
      BY <1>4, <2>2, WorkerFields DEF WorkerEnds
    <3>2. QED
      BY <1>0, <3>1, CappedKept
  <2>3. QED
    BY <2>1, <2>2
<1>5. CASE UNCHANGED <<inFlight, used>> /\ (phase'[e] = "new" => phase[e] = "new")
  BY <1>0, <1>5, CappedKept
<1>6. ASSUME NEW d \in Exec, ProcessStep(d)
      PROVE  \/ Register(d) \/ Halt(d) \/ ClaimLane(d)
             \/ UNCHANGED <<inFlight, used>> /\ (phase'[e] = "new" => phase[e] = "new")
  BY <1>6 DEF ProcessStep, RefuseBoot, Start, Stop, StopReturns, BeginTick, TickFails
<1>7. ASSUME NEW w \in WF, \/ \E d \in Exec : Enqueue(d, w)
                          \/ Cancel(w) \/ BackoffElapses(w) \/ LeaseLapses(w)
      PROVE  UNCHANGED execVars
  BY <1>7 DEF Enqueue, Cancel, BackoffElapses, LeaseLapses
<1>8. ASSUME NEW k \in workers, WorkerStep(k)
      PROVE  WorkerEnds(k) \/ UNCHANGED execVars
  BY <1>8, WorkerStepShape DEF GoesOn, EndsAlone, WorkerGoesOn
<1>9. QED
  BY <1>1, <1>2, <1>3, <1>4, <1>5, <1>6, <1>7, <1>8 DEF Next, vars, execVars

(* An executor never runs more workers than its global cap, nor more of a  *)
(* queue than the queue's concurrency, over retries, throws and boots: each*)
(* worker has a row of its own in flight, and those are counted.           *)
THEOREM CapsHold == ASSUME ~Wedge PROVE Spec => []ConcurrencyCaps
<1>1. Init => IInv /\ CapInv
  BY InitTypeOK, InitClaimInv, InitStepInv, InitCancelInv, InitCapInv DEF IInv
<1>2. IInv /\ CapInv /\ [Next]_vars => (IInv /\ CapInv)'
  BY NextTypeOK, NextClaimInv, NextStepInv, NextCancelInv, NextCapInv DEF IInv
<1>3. IInv /\ CapInv => ConcurrencyCaps
  <2> SUFFICES ASSUME IInv, CapInv, NEW e \in Exec
               PROVE  /\ Cardinality(WorkersOf(e)) <= GlobalConcurrency
                      /\ \A q \in Queues : Cardinality({k \in WorkersOf(e) : QueueOf[k.wf] = q})
                                              <= Concurrency[q]
    BY DEF ConcurrencyCaps
  <2> USE DEF IInv
  <2>1. ASSUME NEW K, K \subseteq WorkersOf(e), NEW F, IsFiniteSet(F), \A k \in K : k.wf \in F
        PROVE  IsFiniteSet(K) /\ Cardinality(K) <= Cardinality(F)
    <3> DEFINE row == [k \in K |-> k.wf]
    <3>1. \A k, l \in K : k.wf = l.wf => k = l
      BY <2>1 DEF WorkersOf, ClaimInv, Alone
    <3>2. row \in [K -> F] /\ \A k, l \in K : row[k] = row[l] => k = l
      BY <2>1, <3>1
    <3> HIDE DEF row
    <3>3. row \in Injection(K, F)
      BY <3>2 DEF Injection, IsInjective
    <3>4. QED
      BY <2>1, <3>3, FS_Injection
  <2>2. \A k \in WorkersOf(e) : k.wf \in inFlight[e]
    BY DEF WorkersOf, ClaimInv, Holds
  <2>3. Cardinality(WorkersOf(e)) <= GlobalConcurrency
    <3> DEFINE n == Cardinality(WorkersOf(e))
               m == Cardinality(inFlight[e])
    <3>1. n <= m /\ n \in Nat /\ m \in Nat /\ m <= GlobalConcurrency
      BY <2>1, <2>2, FlightFinite, FS_CardinalityType DEF CapInv, Capped
    <3> HIDE DEF n, m
    <3>2. n <= GlobalConcurrency
      BY <3>1, ConstantsOK
    <3>3. QED
      BY <3>2 DEF n
  <2>4. ASSUME NEW q \in Queues
        PROVE  Cardinality({k \in WorkersOf(e) : QueueOf[k.wf] = q}) <= Concurrency[q]
    <3> DEFINE K == {k \in WorkersOf(e) : QueueOf[k.wf] = q}
               n == Cardinality(K)
               m == Cardinality(Flight(e, q))
               u == used[e][q]
               c == Concurrency[q]
    <3>1. K \subseteq WorkersOf(e) /\ \A k \in K : k.wf \in Flight(e, q)
      BY <2>2 DEF Flight
    <3> HIDE DEF K
    <3>2. n <= m /\ n \in Nat /\ m \in Nat
      BY <2>1, <3>1, FlightFinite, FS_CardinalityType
    <3>3. m <= u /\ u <= c /\ u \in Nat /\ c \in Nat
      BY ConstantsOK DEF CapInv, Capped, TypeOK
    <3> HIDE DEF n, m, u, c
    <3>4. n <= c
      BY <3>2, <3>3
    <3>5. QED
      BY <3>4 DEF n, c, K
  <2>5. QED
    BY <2>3, <2>4
<1>4. QED
  BY <1>1, <1>2, <1>3, PTL DEF Spec

(* A row that waits has had fewer attempts than one that ran: a boot is    *)
(* what a reclaim must pay with, and a retry stays below max_attempts.     *)
AttemptsOf(w) ==
  attempts[w] > 0 =>
    /\ Booted # {}
    /\ attempts[w] < MaxAttempts + Cardinality(Booted)
    /\ status[w] = "pending" => attempts[w] + 1 < MaxAttempts + Cardinality(Booted)

AttemptsInv ==
  /\ IsFiniteSet(Booted)
  /\ \A w \in WF : AttemptsOf(w) /\ (status[w] = "none" => attempts[w] = 0)

(* Boots only add up, one at a time.                                       *)
LEMMA BootsAddUp ==
  ASSUME TypeOK, IsFiniteSet(Booted), [Next]_vars
  PROVE  /\ IsFiniteSet(Booted') /\ Booted \subseteq Booted'
         /\ Cardinality(Booted) \in Nat /\ Cardinality(Booted') \in Nat
         /\ Cardinality(Booted) <= Cardinality(Booted')
         /\ \A e \in Exec : Start(e) => Cardinality(Booted') = Cardinality(Booted) + 1
<1>1. ASSUME NEW e \in Exec, Start(e) PROVE Booted' = Booted \cup {e} /\ e \notin Booted
  BY <1>1 DEF Start, Booted, TypeOK
<1>2. ASSUME NEW e \in Exec, Halt(e) PROVE Booted' = Booted \cup {e}
  BY <1>2 DEF Halt, Booted, TypeOK
<1>3. ASSUME NEW e \in Exec, ProcessStep(e), ~Start(e), ~Halt(e) PROVE Booted' = Booted
  BY <1>3 DEF ProcessStep, Register, RefuseBoot, Stop, StopReturns, BeginTick, TickFails,
              ClaimLane, Booted, TypeOK
<1>4. ASSUME NEW w \in WF, \/ \E d \in Exec : Enqueue(d, w)
                          \/ Cancel(w) \/ BackoffElapses(w) \/ LeaseLapses(w)
      PROVE  phase' = phase
  BY <1>4 DEF Enqueue, Cancel, BackoffElapses, LeaseLapses, execVars
<1>5. ASSUME NEW k \in workers, WorkerStep(k) PROVE phase' = phase
  BY <1>5, WorkerStepShape DEF GoesOn, EndsAlone, WorkerGoesOn, WorkerEnds, execVars
<1>6. phase' = phase => Booted' = Booted
  BY DEF Booted
<1>7. Booted' = Booted \/ \E e \in Exec : Booted' = Booted \cup {e}
  BY <1>1, <1>2, <1>3, <1>4, <1>5, <1>6 DEF Next, vars, execVars
<1>8. IsFiniteSet(Booted') /\ Booted \subseteq Booted'
  BY <1>7, FS_AddElement
<1>9. /\ Cardinality(Booted) \in Nat /\ Cardinality(Booted') \in Nat
      /\ Cardinality(Booted) <= Cardinality(Booted')
  BY <1>8, FS_Subset, FS_CardinalityType
<1>10. ASSUME NEW e \in Exec, Start(e) PROVE Cardinality(Booted') = Cardinality(Booted) + 1
  BY <1>1, <1>10, FS_AddElement
<1>11. QED
  BY <1>8, <1>9, <1>10

LEMMA InitAttemptsInv == Init => AttemptsInv
<1> SUFFICES ASSUME Init PROVE AttemptsInv
  OBVIOUS
<1>1. Booted = {}
  BY DEF Init, Booted
<1>2. QED
  BY <1>1, FS_EmptySet DEF Init, AttemptsInv, AttemptsOf

LEMMA NextAttemptsInv ==
  ASSUME TypeOK, ClaimInv, AttemptsInv, [Next]_vars
  PROVE  AttemptsInv'
<1> DEFINE b == Cardinality(Booted)
           c == Cardinality(Booted')
<1>1. /\ IsFiniteSet(Booted') /\ Booted \subseteq Booted'
      /\ b \in Nat /\ c \in Nat /\ b <= c /\ MaxAttempts \in Nat /\ MaxAttempts > 0
  BY BootsAddUp, ConstantsOK DEF AttemptsInv
<1> SUFFICES ASSUME NEW w \in WF
             PROVE  AttemptsOf(w)' /\ (status'[w] = "none" => attempts'[w] = 0)
  BY <1>1 DEF AttemptsInv
<1>2. /\ attempts[w] \in Nat /\ (status[w] = "none" => attempts[w] = 0)
      /\ attempts[w] > 0 => /\ Booted # {} /\ attempts[w] < MaxAttempts + b
                            /\ status[w] = "pending" => attempts[w] + 1 < MaxAttempts + b
  BY DEF AttemptsInv, AttemptsOf, TypeOK
<1>3. AttemptsOf(w)' <=>
        (attempts'[w] > 0 => /\ Booted' # {} /\ attempts'[w] < MaxAttempts + c
                             /\ status'[w] = "pending" => attempts'[w] + 1 < MaxAttempts + c)
  BY DEF AttemptsOf
<1> HIDE DEF b, c
<1>4. CASE /\ attempts'[w] = attempts[w]
           /\ status'[w] = "pending" => status[w] \in {"none", "pending"}
           /\ status'[w] = "none" => status[w] = "none"
  BY <1>1, <1>2, <1>3, <1>4
<1>5. CASE /\ attempts'[w] = attempts[w]
           /\ status'[w] = "pending"
           /\ c = b + 1
  BY <1>1, <1>2, <1>3, <1>5
<1>6. ASSUME NEW e \in Exec, ProcessStep(e)
      PROVE  AttemptsOf(w)' /\ (status'[w] = "none" => attempts'[w] = 0)
  <2>1. CASE Start(e)
    <3>1. c = b + 1
      BY <2>1, BootsAddUp DEF AttemptsInv, b, c
    <3>2. attempts'[w] = attempts[w] /\ (status'[w] = status[w] \/ status'[w] = "pending")
      BY <2>1 DEF Start
    <3>3. QED
      BY <3>1, <3>2, <1>4, <1>5
  <2>2. CASE ClaimLane(e)
    <3>1. PICK B \in Batches(e, LaneQueue(e)) : ClaimRows(e, LaneQueue(e), B)
      BY <2>2 DEF ClaimLane
    <3>2. CASE w \in B
      <4>1. status[w] = "pending" /\ status'[w] = "running" /\ attempts'[w] = attempts[w] + 1
        BY <3>1, <3>2 DEF Batches, Ready, ClaimRows
      <4>2. e \in Booted
        BY <2>2 DEF ClaimLane, ClaimInv, TickOnlyWhileOn, Booted
      <4>3. Booted' # {} /\ b > 0
        <5>1. b # 0
          BY <4>2, FS_EmptySet DEF b, AttemptsInv
        <5>2. QED
          BY <1>1, <4>2, <5>1
      <4>4. QED
        BY <1>1, <1>2, <1>3, <4>1, <4>3
    <3>3. CASE w \notin B
      <4>1. status'[w] = status[w] /\ attempts'[w] = attempts[w]
        BY <3>1, <3>3 DEF ClaimRows
      <4>2. QED
        BY <4>1, <1>4
    <3>4. QED
      BY <3>2, <3>3
  <2>3. CASE ~Start(e) /\ ~ClaimLane(e)
    <3>1. status' = status /\ attempts' = attempts
      BY <1>6, <2>3 DEF ProcessStep, Register, RefuseBoot, Stop, StopReturns, Halt, BeginTick,
                        TickFails, rowVars
    <3>2. QED
      BY <3>1, <1>4
  <2>4. QED
    BY <2>1, <2>2, <2>3
<1>7. ASSUME NEW v \in WF, \/ \E d \in Exec : Enqueue(d, v)
                          \/ Cancel(v) \/ BackoffElapses(v) \/ LeaseLapses(v)
      PROVE  AttemptsOf(w)' /\ (status'[w] = "none" => attempts'[w] = 0)
  <2>1. attempts' = attempts
    BY <1>7 DEF Enqueue, Cancel, BackoffElapses, LeaseLapses
  <2>2. /\ status'[w] = "pending" => status[w] \in {"none", "pending"}
        /\ status'[w] = "none" => status[w] = "none"
    BY <1>7 DEF Enqueue, Cancel, BackoffElapses, LeaseLapses, TypeOK
  <2>3. QED
    BY <2>1, <2>2, <1>4
<1>8. ASSUME NEW k \in workers, WorkerStep(k)
      PROVE  AttemptsOf(w)' /\ (status'[w] = "none" => attempts'[w] = 0)
  <2>1. k.wf \in WF /\ attempts[k.wf] = k.n /\ status[k.wf] = "running" /\ k.n \in Nat
    BY WorkerFields DEF ClaimInv, Holds
  <2>2. CASE Retry(k) /\ w = k.wf
    <3>1. attempts'[w] = attempts[w] /\ status'[w] = "pending" /\ attempts[w] < MaxAttempts
      BY <2>1, <2>2 DEF Retry, RequeueRow, CanRetry, TypeOK
    <3>2. Booted # {} => b > 0
      <4>1. Booted # {} => b # 0
        BY FS_EmptySet DEF b, AttemptsInv
      <4>2. QED
        BY <4>1, <1>1
    <3>3. QED
      BY <1>1, <1>2, <1>3, <3>1, <3>2
  <2>3. CASE ~(Retry(k) /\ w = k.wf)
    <3>1. /\ attempts'[w] = attempts[w]
          /\ status'[w] = status[w] \/ status'[w] \in Terminal
      <4>1. CASE LoadSteps(k) \/ ReplayStep(k) \/ BeginStep(k) \/ RunStep(k) \/ RecordStep(k)
                 \/ CommitTxStep(k) \/ BodyThrows(k) \/ AbandonRow(k)
        BY <4>1 DEF LoadSteps, ReplayStep, BeginStep, RunStep, RecordStep, CommitTxStep,
                    BodyThrows, AbandonRow, rowVars
      <4>2. CASE UnknownWorkflow(k) \/ Succeed(k) \/ FinishCancelled(k) \/ FinishError(k)
        BY <2>1, <4>2 DEF UnknownWorkflow, Succeed, FinishCancelled, FinishError, FinalizeRow,
                          Terminal, TypeOK
      <4>3. CASE Retry(k)
        BY <2>1, <2>3, <4>3 DEF Retry, RequeueRow, TypeOK
      <4>4. QED
        BY <1>8, <4>1, <4>2, <4>3 DEF WorkerStep
    <3>2. QED
      BY <3>1, <1>4 DEF Terminal
  <2>4. QED
    BY <2>2, <2>3
<1>9. CASE UNCHANGED vars
  BY <1>9, <1>4 DEF vars, rowVars
<1>10. QED
  BY <1>6, <1>7, <1>8, <1>9 DEF Next

(* Attempts beyond max_attempts are paid for by boots.                     *)
THEOREM AttemptsAreBounded == ASSUME ~Wedge PROVE Spec => []AttemptsBounded
<1>1. Init => IInv /\ AttemptsInv
  BY InitTypeOK, InitClaimInv, InitStepInv, InitCancelInv, InitAttemptsInv DEF IInv
<1>2. IInv /\ AttemptsInv /\ [Next]_vars => (IInv /\ AttemptsInv)'
  BY NextTypeOK, NextClaimInv, NextStepInv, NextCancelInv, NextAttemptsInv DEF IInv
<1>3. AttemptsInv => AttemptsBounded
  BY DEF AttemptsInv, AttemptsOf, AttemptsBounded
<1>4. QED
  BY <1>1, <1>2, <1>3, PTL DEF Spec

(* An executor whose stop() has resolved is in no tick, and only a tick    *)
(* claims.                                                                 *)
THEOREM StopIsFinal == ASSUME ~Wedge PROVE Spec => NoClaimAfterStop
<1>1. IInv /\ [Next]_vars =>
        [\A e \in Exec : phase[e] = "stopped" => Claims(e)' \subseteq Claims(e)]_vars
  <2> SUFFICES ASSUME IInv, Next, NEW e \in Exec, phase[e] = "stopped"
               PROVE  Claims(e)' \subseteq Claims(e)
    OBVIOUS
  <2> USE DEF IInv
  <2>1. CASE \A l \in workers' : l.ex = e => \E k \in workers : k.ex = e /\ k.wf = l.wf /\ k.n = l.n
    BY <2>1 DEF Claims, WorkersOf
  <2>2. ASSUME NEW d \in Exec, ClaimLane(d)
        PROVE  \A l \in workers' : l.ex = e => l \in workers
    <3>1. d # e
      BY <2>2 DEF ClaimLane, ClaimInv, TickOnlyWhileOn
    <3>2. PICK B : workers' = workers \cup {NewWorker(d, w) : w \in B}
      BY <2>2 DEF ClaimLane, ClaimRows
    <3>3. \A w \in B : NewWorker(d, w).ex = d
      BY DEF NewWorker
    <3>4. QED
      BY <3>1, <3>2, <3>3
  <2>3. ASSUME NEW d \in Exec, ProcessStep(d), ~ClaimLane(d)
        PROVE  workers' \subseteq workers
    BY <2>3 DEF ProcessStep, Register, RefuseBoot, Start, Stop, StopReturns, Halt, BeginTick,
                TickFails
  <2>4. ASSUME NEW w \in WF, \/ \E d \in Exec : Enqueue(d, w)
                            \/ Cancel(w) \/ BackoffElapses(w) \/ LeaseLapses(w)
        PROVE  workers' = workers
    BY <2>4 DEF Enqueue, Cancel, BackoffElapses, LeaseLapses
  <2>5. ASSUME NEW k \in workers, WorkerStep(k)
        PROVE  \A l \in workers' : l.ex = e => \E j \in workers : j.ex = e /\ j.wf = l.wf /\ j.n = l.n
    BY <2>5, WorkerStepShape DEF GoesOn, EndsAlone, WorkerGoesOn, WorkerEnds
  <2>6. QED
    BY <2>1, <2>2, <2>3, <2>4, <2>5 DEF Next
<1>2. QED
  BY <1>1, InductiveInvariant, PTL DEF Spec, NoClaimAfterStop

-----------------------------------------------------------------------------
(* The action properties, and that Kokoto implements DurableWorkflow.      *)

(* Only three actions write the step log or have a side effect.            *)
LEMMA LogWriters ==
  ASSUME [Next]_vars
  PROVE  \/ UNCHANGED <<stepLog, effects>>
         \/ \E k \in workers : RunStep(k) \/ RecordStep(k) \/ CommitTxStep(k)
<1>1. ASSUME NEW e \in Exec, ProcessStep(e) PROVE UNCHANGED <<stepLog, effects>>
  BY <1>1 DEF ProcessStep, Register, RefuseBoot, Start, Stop, StopReturns, Halt,
              BeginTick, TickFails, ClaimLane, logVars
<1>2. ASSUME NEW w \in WF,
             \/ \E e \in Exec : Enqueue(e, w)
             \/ Cancel(w) \/ BackoffElapses(w) \/ LeaseLapses(w)
      PROVE  UNCHANGED <<stepLog, effects>>
  BY <1>2 DEF Enqueue, Cancel, BackoffElapses, LeaseLapses, logVars
<1>3. ASSUME NEW k \in workers, WorkerStep(k)
      PROVE  \/ UNCHANGED <<stepLog, effects>>
             \/ RunStep(k) \/ RecordStep(k) \/ CommitTxStep(k)
  BY <1>3 DEF WorkerStep, LoadSteps, UnknownWorkflow, ReplayStep, BeginStep, BodyThrows,
              Succeed, FinishCancelled, Retry, FinishError, AbandonRow, logVars
<1>4. QED
  BY <1>1, <1>2, <1>3 DEF Next, vars

(* What each of the three does, in terms of the row alone.                 *)
LEMMA LogWritersDo ==
  ASSUME IInv, NEW k \in workers, RunStep(k) \/ RecordStep(k) \/ CommitTxStep(k)
  PROVE  /\ k.wf \in WF /\ k.at \in Steps
         /\ 1 .. k.at - 1 \subseteq stepLog[k.wf] /\ k.at \notin stepLog[k.wf]
         /\ status[k.wf] = "running" /\ status' = status
  BY WorkerFields
     DEF IInv, TypeOK, ClaimInv, Holds, StepInv, Position, RunStep, RecordStep,
         CommitTxStep, rowVars

(* A logged step has its effect no more.                                   *)
THEOREM LoggedStepsAreDone == ASSUME ~Wedge PROVE Spec => StepOnce
<1>1. ASSUME IInv, [Next]_vars, NEW w \in WF, NEW s \in stepLog[w]
      PROVE  effects'[w][s] = effects[w][s]
  <2>1. CASE UNCHANGED <<stepLog, effects>>
    BY <2>1
  <2>2. ASSUME NEW k \in workers, RunStep(k) \/ RecordStep(k) \/ CommitTxStep(k)
        PROVE  effects'[w][s] = effects[w][s]
    <3>1. k.at \notin stepLog[k.wf]
      BY <1>1, <2>2, LogWritersDo
    <3>2. \/ effects' = effects
          \/ effects' = [effects EXCEPT ![k.wf][k.at] = @ + 1]
      BY <2>2 DEF RunStep, RecordStep, CommitTxStep, SideEffect
    <3>3. s \in Steps /\ effects \in [WF -> [Steps -> Nat]]
      BY <1>1 DEF IInv, TypeOK
    <3>4. QED
      BY <1>1, <3>1, <3>2, <3>3
  <2>3. QED
    BY <1>1, <2>1, <2>2, LogWriters
<1>2. IInv /\ [Next]_vars =>
        [\A w \in WF : \A s \in stepLog[w] : effects'[w][s] = effects[w][s]]_vars
  BY <1>1
<1>3. QED
  BY <1>2, InductiveInvariant, PTL DEF Spec, StepOnce

-----------------------------------------------------------------------------
(* How the status of a row changes.                                        *)
Ended(w)   == status[w] \in {"pending", "running"} /\ status'[w] \in {"error", "cancelled"}
Success(w) == status[w] = "running" /\ status'[w] = "success" /\ stepLog[w] = Steps
Opened(w)  == status[w] = "none" /\ status'[w] = "pending"
Reopens(w) == {status[w], status'[w]} \subseteq {"pending", "running"}
Same(w)    == status'[w] = status[w]

(* A step changes the state of one row only, if claims and their return do *)
(* not count.                                                              *)
OneRowChanges ==
  \E w \in WF :
    /\ Ended(w) \/ Success(w) \/ Opened(w)
    /\ \A v \in WF \ {w} : Same(v)

LEMMA ProcessStatus ==
  ASSUME IInv, NEW e \in Exec, ProcessStep(e), NEW w \in WF
  PROVE  Same(w) \/ Reopens(w)
<1>1. CASE Start(e)
  BY <1>1 DEF Start, Reclaimable, Same, Reopens
<1>2. CASE ClaimLane(e)
  <2>1. PICK B \in Batches(e, LaneQueue(e)) : ClaimRows(e, LaneQueue(e), B)
    BY <1>2 DEF ClaimLane
  <2>2. status'[w] = status[w] \/ (status[w] = "pending" /\ status'[w] = "running")
    BY <2>1 DEF ClaimRows, Batches, Ready
  <2>3. QED
    BY <2>2 DEF Same, Reopens
<1>3. CASE ~Start(e) /\ ~ClaimLane(e)
  BY <1>3 DEF ProcessStep, Register, RefuseBoot, Stop, StopReturns, Halt, BeginTick,
              TickFails, rowVars, Same
<1>4. QED
  BY <1>1, <1>2, <1>3

LEMMA ClientStatus ==
  ASSUME IInv, NEW w \in WF,
         \/ \E e \in Exec : Enqueue(e, w)
         \/ Cancel(w) \/ BackoffElapses(w) \/ LeaseLapses(w)
  PROVE  OneRowChanges \/ \A v \in WF : Same(v)
<1> USE DEF IInv, TypeOK
<1>1. ASSUME NEW e \in Exec, Enqueue(e, w) PROVE OneRowChanges
  BY <1>1 DEF Enqueue, OneRowChanges, Opened, Same
<1>2. CASE Cancel(w) /\ status[w] = "pending"
  BY <1>2 DEF Cancel, OneRowChanges, Ended, Same
<1>3. CASE Cancel(w) /\ status[w] # "pending"
  BY <1>3 DEF Cancel, Same
<1>4. CASE BackoffElapses(w) \/ LeaseLapses(w)
  BY <1>4 DEF BackoffElapses, LeaseLapses, Same
<1>5. QED
  BY <1>1, <1>2, <1>3, <1>4

LEMMA WorkerStatus ==
  ASSUME IInv, NEW k \in workers, WorkerStep(k)
  PROVE  OneRowChanges \/ \A v \in WF : Same(v) \/ Reopens(v)
<1>0. k.wf \in WF /\ status[k.wf] = "running"
  BY WorkerFields DEF IInv, ClaimInv, Holds
<1>1. CASE Succeed(k)
  <2>1. stepLog[k.wf] = Steps
    <3>1. Position(k) /\ k.at = NSteps + 1
      BY <1>1, ConstantsOK DEF Succeed, IInv, StepInv, Position
    <3>2. 1 .. k.at - 1 = Steps
      BY <3>1, ConstantsOK DEF Steps
    <3>3. stepLog[k.wf] \subseteq Steps
      BY <1>0 DEF IInv, TypeOK
    <3>4. QED
      BY <3>1, <3>2, <3>3 DEF Position
  <2>2. QED
    BY <1>0, <1>1, <2>1 DEF Succeed, FinalizeRow, OneRowChanges, Success, Same, IInv, TypeOK
<1>2. CASE UnknownWorkflow(k) \/ FinishError(k) \/ FinishCancelled(k)
  <2>1. FinalizeRow(k.wf, "error") \/ FinalizeRow(k.wf, "cancelled")
    BY <1>2 DEF UnknownWorkflow, FinishError, FinishCancelled
  <2>2. QED
    BY <1>0, <2>1 DEF FinalizeRow, OneRowChanges, Ended, Same, IInv, TypeOK
<1>3. CASE Retry(k)
  BY <1>0, <1>3 DEF Retry, RequeueRow, Same, Reopens, IInv, TypeOK
<1>4. CASE \/ LoadSteps(k) \/ ReplayStep(k) \/ BeginStep(k) \/ RunStep(k) \/ RecordStep(k)
           \/ CommitTxStep(k) \/ BodyThrows(k) \/ AbandonRow(k)
  BY <1>4 DEF LoadSteps, ReplayStep, BeginStep, RunStep, RecordStep, CommitTxStep,
              BodyThrows, AbandonRow, rowVars, Same
<1>5. QED
  BY <1>1, <1>2, <1>3, <1>4 DEF WorkerStep

LEMMA StatusChanges ==
  ASSUME IInv, [Next]_vars
  PROVE  OneRowChanges \/ \A v \in WF : Same(v) \/ Reopens(v)
<1>1. CASE UNCHANGED vars
  BY <1>1 DEF vars, rowVars, Same
<1>2. CASE Next
  BY <1>2, ProcessStatus, ClientStatus, WorkerStatus DEF Next
<1>3. QED
  BY <1>1, <1>2

(* A finished workflow stays as it ended.                                  *)
THEOREM FinishedForGood == ASSUME ~Wedge PROVE Spec => TerminalStable
<1>1. IInv /\ [Next]_vars =>
        [\A w \in WF : status[w] \in Terminal => status'[w] = status[w]]_vars
  BY StatusChanges DEF OneRowChanges, Ended, Success, Opened, Reopens, Same, Terminal
<1>2. QED
  BY <1>1, InductiveInvariant, PTL DEF Spec, TerminalStable

-----------------------------------------------------------------------------
(* The refinement.                                                         *)

StateMap == [w \in WF |-> RowState(w)]

LEMMA InitPromise == Init => Promise!Init
  BY DEF Init, Promise!Init, Promise!Steps, Steps, RowState

LEMMA WritePromise ==
  ASSUME IInv, NEW k \in workers, RunStep(k) \/ RecordStep(k) \/ CommitTxStep(k)
  PROVE  Promise!Next
<1>1. /\ k.wf \in WF /\ k.at \in Promise!Steps
      /\ Promise!IsNext(k.wf, k.at)
      /\ StateMap' = StateMap
  BY LogWritersDo DEF Promise!IsNext, Promise!Steps, Steps, StateMap, RowState
<1>2. CASE RunStep(k)
  <2>1. Promise!Perform(k.wf, k.at)
    BY <1>1, <1>2 DEF RunStep, SideEffect, Promise!Perform, Promise!Occurs, StateMap
  <2>2. QED
    BY <1>1, <2>1 DEF Promise!Next
<1>3. CASE RecordStep(k)
  <2>1. k.at \notin TxSteps /\ effects[k.wf][k.at] > 0
    BY <1>3 DEF RecordStep, IInv, StepInv, Position
  <2>2. Promise!Log(k.wf, k.at)
    BY <1>1, <1>3, <2>1 DEF RecordStep, LogStep, Promise!Log, Promise!Logged, StateMap
  <2>3. QED
    BY <1>1, <2>2 DEF Promise!Next
<1>4. CASE CommitTxStep(k)
  <2>1. Promise!Commit(k.wf, k.at)
    BY <1>1, <1>4 DEF CommitTxStep, SideEffect, LogStep, Promise!Commit, Promise!Occurs,
                      Promise!Logged, StateMap
  <2>2. QED
    BY <1>1, <2>1 DEF Promise!Next
<1>5. QED
  BY <1>2, <1>3, <1>4

LEMMA StatusPromise ==
  ASSUME IInv, [Next]_vars, UNCHANGED <<stepLog, effects>>
  PROVE  Promise!Next \/ UNCHANGED Promise!vars
<1>1. CASE \A v \in WF : Same(v) \/ Reopens(v)
  <2>1. \A v \in WF : RowState(v)' = RowState(v)
    BY <1>1 DEF Same, Reopens, RowState
  <2>2. QED
    BY <2>1 DEF Promise!vars
<1>2. CASE OneRowChanges
  <2>1. PICK w \in WF : /\ Ended(w) \/ Success(w) \/ Opened(w)
                        /\ \A v \in WF \ {w} : Same(v)
    BY <1>2 DEF OneRowChanges
  <2>2. \A v \in WF \ {w} : RowState(v)' = RowState(v)
    BY <2>1 DEF Same, RowState
  <2>3. StateMap' = [StateMap EXCEPT ![w] = RowState(w)']
    BY <2>2 DEF StateMap
  <2>4. CASE Opened(w)
    <3>1. RowState(w) = "none" /\ RowState(w)' = "open"
      BY <2>4 DEF Opened, RowState
    <3>2. Promise!Enqueue(w)
      BY <2>3, <3>1 DEF Promise!Enqueue, StateMap
    <3>3. QED
      BY <3>2 DEF Promise!Next
  <2>5. CASE Ended(w) \/ Success(w)
    <3>1. PICK outcome \in Promise!Ends :
            /\ RowState(w) = "open" /\ RowState(w)' = outcome
            /\ outcome = "success" => stepLog[w] = Steps
      BY <2>5 DEF Ended, Success, RowState, Promise!Ends
    <3>2. Promise!End(w, outcome)
      BY <2>3, <3>1 DEF Promise!End, Promise!Steps, Steps, StateMap
    <3>3. QED
      BY <3>1, <3>2 DEF Promise!Next
  <2>6. QED
    BY <2>1, <2>4, <2>5
<1>3. QED
  BY <1>1, <1>2, StatusChanges

(* The runtime implements the promise of its README.                       *)
THEOREM PromiseKept == ASSUME ~Wedge PROVE Spec => KeepsPromise
<1>1. IInv /\ [Next]_vars => [Promise!Next]_(Promise!vars)
  BY LogWriters, WritePromise, StatusPromise
<1>2. QED
  BY <1>1, InitPromise, InductiveInvariant, PTL DEF Spec, KeepsPromise, Promise!Spec
=============================================================================
