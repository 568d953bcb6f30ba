------------------------------- MODULE Kokoto -------------------------------
(***************************************************************************)
(* The durable workflow runtime of packages/kokoto in `auto' dispatch      *)
(* mode: the _dc_workflow and _dc_step tables that every process shares,   *)
(* the executors (one per process boot) that claim rows and extend the     *)
(* leases on them, and the workers that run a claimed row step by step.    *)
(*                                                                         *)
(* A single SQL statement is one atomic step, and so is the JavaScript     *)
(* that runs between two awaits; processes, workers and clients interleave *)
(* at every await.  A database call or a step function may throw wherever  *)
(* the code awaits one.  Time is left out: a lease and a backoff are       *)
(* either still running or over, and LeaseLapses and BackoffElapses say    *)
(* when the first may become the second.                                   *)
(*                                                                         *)
(* A definition under a comment "Faulty variant" is used by no action: it  *)
(* is a mistake the code could contain, put in the place of the definition *)
(* that follows it to see that a property notices.                         *)
(***************************************************************************)
EXTENDS Naturals, Sequences, FiniteSets

CONSTANTS
  WF,                \* the workflow rows that may be enqueued
  Exec,              \* process boots: one executor id each, never reused
  NoExec,            \* executor_id IS NULL
  QueueOrder,        \* the registered queues, in registration order
  NoQueue,           \* queue IS NULL
  QueueOf,           \* the queue a row is enqueued on
  Concurrency,       \* the concurrency of a queue
  GlobalConcurrency, \* RuntimeConfig.globalConcurrency
  MaxAttempts,       \* max_attempts of every row
  NSteps,            \* ctx.step / ctx.txStep calls in the workflow body
  TxSteps,           \* those of them that are txSteps
  Registered,        \* the workflows that a boot registers
  Wedge              \* may a live dispatcher miss its heartbeat for a lease?

Queues == {QueueOrder[i] : i \in DOMAIN QueueOrder}
Lanes  == 1 .. Len(QueueOrder) + 1
Steps  == 1 .. NSteps

ASSUME ConstantsOK ==
  /\ IsFiniteSet(WF)
  /\ NoExec \notin Exec
  /\ QueueOrder \in Seq(Queues)
  /\ NoQueue \notin Queues
  /\ QueueOf \in [WF -> Queues \cup {NoQueue}]
  /\ Concurrency \in [Queues -> Nat \ {0}]
  /\ GlobalConcurrency \in Nat \ {0}
  /\ MaxAttempts \in Nat \ {0}
  /\ NSteps \in Nat
  /\ TxSteps \subseteq Steps
  /\ Registered \in [Exec -> SUBSET WF]
  /\ Wedge \in BOOLEAN

VARIABLES
  \* _dc_workflow, one function per column
  status,     \* "none" while the row does not exist
  owner,      \* executor_id
  lease,      \* claim_expires_at: NULL, in the future, in the past
  due,        \* scheduled_for <= now
  attempts,
  cancelReq,  \* cancel_requested_at IS NOT NULL
  startedAt,  \* started_at, as the number of the claim that stamped it; 0 is NULL
  \* _dc_step
  stepLog,    \* the steps of a workflow that have a success row
  \* the memory of each process
  phase,      \* how far start() and stop() have got
  lane,       \* the queue the current dispatch tick is at; 0 between ticks
  inFlight,   \* the Set of row ids with a worker
  used,       \* perQueueInFlight
  workers,    \* the running runWorkflow calls
  \* history, read by no action
  effects,    \* how often a step's side effect (or transaction) took place
  late        \* how many of a row's side effects came after a cancel request

rowVars  == <<status, owner, lease, due, attempts, cancelReq, startedAt>>
execVars == <<phase, lane, inFlight, used>>
logVars  == <<stepLog, effects, late>>
vars     == <<rowVars, stepLog, execVars, workers, effects, late>>

Terminal == {"success", "error", "cancelled"}
Status   == {"none", "pending", "running"} \cup Terminal
Phase    == {"new", "registered", "refused", "up", "stopping", "stopped", "down"}

(* A process that has registered its workflows and has not exited.         *)
Alive(e) == phase[e] \notin {"new", "down"}

(* The worker of the n-th claim of a row: it keeps the row as the claim    *)
(* returned it (attempts and started_at never refreshed) and the step log  *)
(* as it was when the worker loaded it.                                    *)
WorkerPc == {"load", "begin", "run", "ran", "failed", "cancelled"}

Worker ==
  [wf: WF, n: Nat, ex: Exec, stamp: Nat, at: Nat, cache: SUBSET Steps, pc: WorkerPc]

TypeOK ==
  /\ status \in [WF -> Status]
  /\ owner \in [WF -> Exec \cup {NoExec}]
  /\ lease \in [WF -> {"none", "valid", "lapsed"}]
  /\ due \in [WF -> BOOLEAN]
  /\ attempts \in [WF -> Nat]
  /\ cancelReq \in [WF -> BOOLEAN]
  /\ startedAt \in [WF -> Nat]
  /\ stepLog \in [WF -> SUBSET Steps]
  /\ phase \in [Exec -> Phase]
  /\ lane \in [Exec -> Lanes \cup {0}]
  /\ inFlight \in [Exec -> SUBSET WF]
  /\ used \in [Exec -> [Queues -> Nat]]
  /\ workers \subseteq Worker
  /\ \A k \in workers : k.pc \in {"run", "ran"} => k.at \in Steps
  /\ effects \in [WF -> [Steps -> Nat]]
  /\ late \in [WF -> Nat]

Init ==
  /\ status = [w \in WF |-> "none"]
  /\ owner = [w \in WF |-> NoExec]
  /\ lease = [w \in WF |-> "none"]
  /\ due = [w \in WF |-> FALSE]
  /\ attempts = [w \in WF |-> 0]
  /\ cancelReq = [w \in WF |-> FALSE]
  /\ startedAt = [w \in WF |-> 0]
  /\ stepLog = [w \in WF |-> {}]
  /\ phase = [e \in Exec |-> "new"]
  /\ lane = [e \in Exec |-> 0]
  /\ inFlight = [e \in Exec |-> {}]
  /\ used = [e \in Exec |-> [q \in Queues |-> 0]]
  /\ workers = {}
  /\ effects = [w \in WF |-> [s \in Steps |-> 0]]
  /\ late = [w \in WF |-> 0]

-----------------------------------------------------------------------------
(* The life of a process.                                                  *)

(* start(), up to the integrity check: workflows and queues are registered *)
(* and every queue's counter is set to zero.                               *)
Register(e) ==
  /\ phase[e] = "new"
  /\ phase' = [phase EXCEPT ![e] = "registered"]
  /\ used' = [used EXCEPT ![e] = [q \in Queues |-> 0]]
  /\ UNCHANGED <<rowVars, lane, inFlight, workers, logVars>>

(* quick_check did not say `ok', or a statement of start() threw: the      *)
(* dispatcher stays off for good.                                          *)
RefuseBoot(e) ==
  /\ phase[e] = "registered"
  /\ phase' = [phase EXCEPT ![e] = "refused"]
  /\ UNCHANGED <<rowVars, lane, inFlight, used, workers, logVars>>

(* Faulty variant: reclaim every running row of a previous boot, leased or *)
(* not.                                                                    *)
ReclaimableByStatus == {w \in WF : status[w] = "running"}

(* The rows that reclaimExpired resets.                                    *)
Reclaimable == {w \in WF : status[w] = "running" /\ lease[w] # "valid"}

(* The rest of start(): reclaim, then activate.  Nothing else reclaims.    *)
Start(e) ==
  /\ phase[e] = "registered"
  /\ phase' = [phase EXCEPT ![e] = "up"]
  /\ status' = [w \in WF |-> IF w \in Reclaimable THEN "pending" ELSE status[w]]
  /\ owner' = [w \in WF |-> IF w \in Reclaimable THEN NoExec ELSE owner[w]]
  /\ lease' = [w \in WF |-> IF w \in Reclaimable THEN "none" ELSE lease[w]]
  /\ startedAt' = [w \in WF |-> IF w \in Reclaimable THEN 0 ELSE startedAt[w]]
  /\ UNCHANGED <<due, attempts, cancelReq, lane, inFlight, used, workers, logVars>>

(* stop(): the dispatcher is switched off; a tick that is under way goes   *)
(* on to its end, and only then does stop() resolve.                       *)
Stop(e) ==
  /\ phase[e] = "up"
  /\ phase' = [phase EXCEPT ![e] = "stopping"]
  /\ UNCHANGED <<rowVars, lane, inFlight, used, workers, logVars>>

(* Faulty variant: stop() does not await the current tick.                 *)
TickIgnored(e) == phase[e] = "stopping"

TickDone(e) == lane[e] = 0

StopReturns(e) ==
  /\ phase[e] = "stopping"
  /\ TickDone(e)
  /\ phase' = [phase EXCEPT ![e] = "stopped"]
  /\ UNCHANGED <<rowVars, lane, inFlight, used, workers, logVars>>

(* The process goes away: a crash, a kill, or the process.exit(0) that     *)
(* follows stop().  Its workers stop wherever they are.                    *)
Halt(e) ==
  /\ Alive(e)
  /\ phase' = [phase EXCEPT ![e] = "down"]
  /\ lane' = [lane EXCEPT ![e] = 0]
  /\ inFlight' = [inFlight EXCEPT ![e] = {}]
  /\ used' = [used EXCEPT ![e] = [q \in Queues |-> 0]]
  /\ workers' = {k \in workers : k.ex # e}
  /\ UNCHANGED <<rowVars, logVars>>

-----------------------------------------------------------------------------
(* Clients and time.                                                       *)

(* startWorkflow: the row is inserted, to run now or, with runAt, later.   *)
(* A second call with the same idempotency key changes nothing.            *)
Enqueue(e, w) ==
  /\ Alive(e)
  /\ w \in Registered[e]
  /\ status[w] = "none"
  /\ status' = [status EXCEPT ![w] = "pending"]
  /\ \E now \in BOOLEAN : due' = [due EXCEPT ![w] = now]
  /\ UNCHANGED <<owner, lease, attempts, cancelReq, startedAt, execVars, workers, logVars>>

(* requestCancel: a pending row ends here, a running one is only flagged.  *)
Cancel(w) ==
  /\ status[w] \in {"pending", "running"}
  /\ status' = [status EXCEPT ![w] = IF @ = "pending" THEN "cancelled" ELSE @]
  /\ cancelReq' = [cancelReq EXCEPT ![w] = TRUE]
  /\ UNCHANGED <<owner, lease, due, attempts, startedAt, execVars, workers, logVars>>

(* The clock reaches scheduled_for.                                        *)
BackoffElapses(w) ==
  /\ status[w] = "pending"
  /\ ~due[w]
  /\ due' = [due EXCEPT ![w] = TRUE]
  /\ UNCHANGED <<status, owner, lease, attempts, cancelReq, startedAt,
                 execVars, workers, logVars>>

(* The clock reaches claim_expires_at.  An executor with a worker in       *)
(* flight extends its leases on every tick, and a tick comes much sooner   *)
(* than a lease runs out (a second against thirty), so the lease holds     *)
(* until the process is gone or has no worker left - unless it is wedged.  *)
(* A stopped executor ticks no more, but process.exit follows at once.     *)
LeaseLapses(w) ==
  /\ status[w] = "running"
  /\ lease[w] = "valid"
  /\ \/ phase[owner[w]] = "down"
     \/ inFlight[owner[w]] = {}
     \/ Wedge
  /\ lease' = [lease EXCEPT ![w] = "lapsed"]
  /\ UNCHANGED <<status, owner, due, attempts, cancelReq, startedAt,
                 execVars, workers, logVars>>

-----------------------------------------------------------------------------
(* The dispatch tick.                                                      *)

(* A tick starts, by the timer or a wake: with any worker in flight it     *)
(* extends the lease of every running row this executor owns.              *)
BeginTick(e) ==
  /\ phase[e] = "up"
  /\ lane[e] = 0
  /\ lane' = [lane EXCEPT ![e] = 1]
  /\ lease' = [w \in WF |->
                IF inFlight[e] # {} /\ status[w] = "running" /\ owner[w] = e
                THEN "valid" ELSE lease[w]]
  /\ UNCHANGED <<status, owner, due, attempts, cancelReq, startedAt,
                 phase, inFlight, used, workers, logVars>>

(* A statement of the tick throws; the next tick starts from scratch.      *)
TickFails(e) ==
  /\ lane[e] # 0
  /\ lane' = [lane EXCEPT ![e] = 0]
  /\ UNCHANGED <<rowVars, phase, inFlight, used, workers, logVars>>

(* The queue the tick is at: the registered queues, then the rows without. *)
LaneQueue(e) ==
  IF lane[e] <= Len(QueueOrder) THEN QueueOrder[lane[e]] ELSE NoQueue

AtMost(m, n) == IF m <= n THEN m ELSE n
Monus(m, n)  == IF m <= n THEN 0 ELSE m - n

(* Faulty variant: workers in flight are not counted.                      *)
CapacityUnused(e) == Monus(GlobalConcurrency, Cardinality({}))

CapacityRemaining(e) == Monus(GlobalConcurrency, Cardinality(inFlight[e]))

CapacityForQueue(e, q) ==
  IF q = NoQueue THEN CapacityRemaining(e)
  ELSE AtMost(CapacityRemaining(e), Monus(Concurrency[q], used[e][q]))

Ready(q) == {w \in WF : status[w] = "pending" /\ due[w] /\ QueueOf[w] = q}

(* claimPending takes as many ready rows as there is room for.  Which ones *)
(* (ORDER BY scheduled_for, created_at) is left open.                      *)
Batches(e, q) ==
  {B \in SUBSET Ready(q) :
     Cardinality(B) = AtMost(CapacityForQueue(e, q), Cardinality(Ready(q)))}

(* started_at = COALESCE(started_at, now), now being that of this claim.   *)
StampOf(w) == IF startedAt[w] = 0 THEN attempts[w] + 1 ELSE startedAt[w]

NewWorker(e, w) ==
  [wf |-> w, n |-> attempts[w] + 1, ex |-> e, stamp |-> StampOf(w),
   at |-> 1, cache |-> {}, pc |-> "load"]

(* claimPending's UPDATE ... RETURNING and a launchWorker for every row.   *)
ClaimRows(e, q, B) ==
  /\ status' = [w \in WF |-> IF w \in B THEN "running" ELSE status[w]]
  /\ owner' = [w \in WF |-> IF w \in B THEN e ELSE owner[w]]
  /\ lease' = [w \in WF |-> IF w \in B THEN "valid" ELSE lease[w]]
  /\ attempts' = [w \in WF |-> IF w \in B THEN attempts[w] + 1 ELSE attempts[w]]
  /\ startedAt' = [w \in WF |-> IF w \in B THEN StampOf(w) ELSE startedAt[w]]
  /\ workers' = workers \cup {NewWorker(e, w) : w \in B}
  /\ inFlight' = [inFlight EXCEPT ![e] = @ \cup B]
  /\ used' = [used EXCEPT ![e] = [p \in Queues |->
               IF p = q THEN @[p] + Cardinality(B) ELSE @[p]]]

LaneAfter(i) == IF i = Len(QueueOrder) + 1 THEN 0 ELSE i + 1

(* One queue's turn in the tick.  A stop() does not cut the tick short.    *)
ClaimLane(e) ==
  /\ lane[e] # 0
  /\ \E B \in Batches(e, LaneQueue(e)) : ClaimRows(e, LaneQueue(e), B)
  /\ lane' = [lane EXCEPT ![e] = LaneAfter(@)]
  /\ UNCHANGED <<due, cancelReq, phase, logVars>>

-----------------------------------------------------------------------------
(* A worker: runWorkflow, from the claimed row to the end of the attempt.  *)

(* finalizeWorkflow: by id, whatever the row's status and owner are now.   *)
FinalizeRow(w, outcome) ==
  /\ status' = [status EXCEPT ![w] = outcome]
  /\ owner' = [owner EXCEPT ![w] = NoExec]
  /\ lease' = [lease EXCEPT ![w] = "none"]
  /\ UNCHANGED <<due, attempts, cancelReq, startedAt>>

(* requeueWorkflow, with the same disregard for status and owner.          *)
RequeueRow(w) ==
  /\ status' = [status EXCEPT ![w] = "pending"]
  /\ owner' = [owner EXCEPT ![w] = NoExec]
  /\ lease' = [lease EXCEPT ![w] = "none"]
  /\ startedAt' = [startedAt EXCEPT ![w] = 0]
  /\ due' = [due EXCEPT ![w] = FALSE]
  /\ UNCHANGED <<attempts, cancelReq>>

(* Faulty variant: the queue's counter is not given back.                  *)
WorkerEndsUncounted(k) ==
  /\ workers' = workers \ {k}
  /\ inFlight' = [inFlight EXCEPT ![k.ex] = @ \ {k.wf}]
  /\ UNCHANGED <<phase, lane, used>>

(* The finally block of launchWorker.                                      *)
WorkerEnds(k) ==
  /\ workers' = workers \ {k}
  /\ inFlight' = [inFlight EXCEPT ![k.ex] = @ \ {k.wf}]
  /\ used' = [used EXCEPT ![k.ex] = [q \in Queues |->
               IF q = QueueOf[k.wf] THEN Monus(@[q], 1) ELSE @[q]]]
  /\ UNCHANGED <<phase, lane>>

WorkerGoesOn(k, next) ==
  /\ workers' = (workers \ {k}) \cup {next}
  /\ UNCHANGED execVars

(* The step function, or the transaction of a txStep, takes effect.        *)
SideEffect(w, s) ==
  /\ effects' = [effects EXCEPT ![w][s] = @ + 1]
  /\ late' = [late EXCEPT ![w] = IF cancelReq[w] THEN @ + 1 ELSE @]

(* Faulty variant: the success row is not written.                         *)
LogStepLost(w, s) == UNCHANGED stepLog

(* INSERT OR IGNORE INTO _dc_step: a row that is there already stays.      *)
LogStep(w, s) == stepLog' = [stepLog EXCEPT ![w] = @ \cup {s}]

(* Faulty variant: the cache is not consulted.                             *)
AtAnyStep(k) == k.pc = "begin" /\ k.at \in Steps

(* The body asks for its next step and the step is not in the cache.       *)
AtNewStep(k) == k.pc = "begin" /\ k.at \in Steps \ k.cache

(* The step log is read once, before the body runs.                        *)
LoadSteps(k) ==
  /\ k.pc = "load"
  /\ k.wf \in Registered[k.ex]
  /\ WorkerGoesOn(k, [k EXCEPT !.pc = "begin", !.cache = stepLog[k.wf]])
  /\ UNCHANGED <<rowVars, logVars>>

(* A row claimed by a process whose registry does not know its name.       *)
UnknownWorkflow(k) ==
  /\ k.pc = "load"
  /\ k.wf \notin Registered[k.ex]
  /\ FinalizeRow(k.wf, "error")
  /\ WorkerEnds(k)
  /\ UNCHANGED logVars

(* beginStep with a cached success: the stored output is returned.         *)
ReplayStep(k) ==
  /\ k.pc = "begin"
  /\ k.at \in k.cache
  /\ WorkerGoesOn(k, [k EXCEPT !.at = @ + 1])
  /\ UNCHANGED <<rowVars, logVars>>

(* Faulty variant: the row as it was claimed is asked, not the fresh one.  *)
CancelSeenAtClaim(k) == FALSE

CancelSeen(k) == cancelReq[k.wf]

(* beginStep without one: the row is read again for a cancel request.      *)
BeginStep(k) ==
  /\ AtNewStep(k)
  /\ WorkerGoesOn(k, [k EXCEPT !.pc = IF CancelSeen(k) THEN "cancelled" ELSE "run"])
  /\ UNCHANGED <<rowVars, logVars>>

(* ctx.step: the function has done its work; its row is not yet written.   *)
RunStep(k) ==
  /\ k.pc = "run"
  /\ k.at \notin TxSteps
  /\ SideEffect(k.wf, k.at)
  /\ WorkerGoesOn(k, [k EXCEPT !.pc = "ran"])
  /\ UNCHANGED <<rowVars, stepLog>>

RecordStep(k) ==
  /\ k.pc = "ran"
  /\ LogStep(k.wf, k.at)
  /\ WorkerGoesOn(k, [k EXCEPT !.pc = "begin", !.at = @ + 1, !.cache = @ \cup {k.at}])
  /\ UNCHANGED <<rowVars, effects, late>>

(* ctx.txStep: the function's writes and the step row commit together.     *)
CommitTxStep(k) ==
  /\ k.pc = "run"
  /\ k.at \in TxSteps
  /\ SideEffect(k.wf, k.at)
  /\ LogStep(k.wf, k.at)
  /\ WorkerGoesOn(k, [k EXCEPT !.pc = "begin", !.at = @ + 1, !.cache = @ \cup {k.at}])
  /\ UNCHANGED rowVars

(* Something the body awaits throws: the cancel lookup, the step function, *)
(* the transaction (rolled back), the write of the step row, or, after the *)
(* last step, finalizeWorkflow(..., 'success').  All are caught below.     *)
BodyThrows(k) ==
  /\ \/ AtNewStep(k)
     \/ k.pc \in {"run", "ran"}
     \/ k.pc = "begin" /\ k.at > NSteps
  /\ WorkerGoesOn(k, [k EXCEPT !.pc = "failed"])
  /\ UNCHANGED <<rowVars, logVars>>

Succeed(k) ==
  /\ k.pc = "begin"
  /\ k.at > NSteps
  /\ FinalizeRow(k.wf, "success")
  /\ WorkerEnds(k)
  /\ UNCHANGED logVars

FinishCancelled(k) ==
  /\ k.pc = "cancelled"
  /\ FinalizeRow(k.wf, "cancelled")
  /\ WorkerEnds(k)
  /\ UNCHANGED logVars

(* Faulty variant: one attempt too many.                                   *)
CanRetryOnceMore(k) == k.n <= MaxAttempts

(* row.attempts < row.max_attempts, of the row as it was claimed.          *)
CanRetry(k) == k.n < MaxAttempts

Retry(k) ==
  /\ k.pc = "failed"
  /\ CanRetry(k)
  /\ RequeueRow(k.wf)
  /\ WorkerEnds(k)
  /\ UNCHANGED logVars

FinishError(k) ==
  /\ k.pc = "failed"
  /\ ~CanRetry(k)
  /\ FinalizeRow(k.wf, "error")
  /\ WorkerEnds(k)
  /\ UNCHANGED logVars

(* A throw outside the try, or in the catch block: launchWorker swallows   *)
(* it, and the row stays `running' with nobody running it.                 *)
AbandonRow(k) ==
  /\ k.pc \in {"load", "cancelled", "failed"}
  /\ WorkerEnds(k)
  /\ UNCHANGED <<rowVars, logVars>>

WorkerStep(k) ==
  \/ LoadSteps(k)
  \/ UnknownWorkflow(k)
  \/ ReplayStep(k)
  \/ BeginStep(k)
  \/ RunStep(k)
  \/ RecordStep(k)
  \/ CommitTxStep(k)
  \/ BodyThrows(k)
  \/ Succeed(k)
  \/ FinishCancelled(k)
  \/ Retry(k)
  \/ FinishError(k)
  \/ AbandonRow(k)

-----------------------------------------------------------------------------
ProcessStep(e) ==
  \/ Register(e)
  \/ RefuseBoot(e)
  \/ Start(e)
  \/ Stop(e)
  \/ StopReturns(e)
  \/ Halt(e)
  \/ BeginTick(e)
  \/ TickFails(e)
  \/ ClaimLane(e)

Next ==
  \/ \E e \in Exec : ProcessStep(e)
  \/ \E e \in Exec, w \in WF : Enqueue(e, w)
  \/ \E w \in WF : Cancel(w) \/ BackoffElapses(w) \/ LeaseLapses(w)
  \/ \E k \in workers : WorkerStep(k)

Spec == Init /\ [][Next]_vars

(* What the code's scheduling justifies: start() always schedules a next   *)
(* tick, awaited work settles, the clock moves on.  A statement of a tick  *)
(* may throw, but not for ever.  Boots, crashes and clients owe nothing.   *)
Fairness ==
  /\ \A e \in Exec : WF_vars(BeginTick(e))
  /\ \A e \in Exec : \A i \in Lanes : SF_vars(lane[e] = i /\ ClaimLane(e))
  /\ \A e \in Exec : WF_vars(StopReturns(e))
  /\ \A w \in WF : WF_vars(\E k \in workers : k.wf = w /\ WorkerStep(k))
  /\ \A w \in WF : WF_vars(BackoffElapses(w))
  /\ \A w \in WF : WF_vars(LeaseLapses(w))

FairSpec == Spec /\ Fairness

-----------------------------------------------------------------------------
(* Properties that hold as long as no dispatcher is wedged (~Wedge).       *)

(* At most one worker runs a row, and the row is still the one it claimed: *)
(* the lease and the reclaim at boot never put two workers on a row.       *)
SingleWorker ==
  \A k \in workers :
    /\ status[k.wf] = "running"
    /\ owner[k.wf] = k.ex
    /\ attempts[k.wf] = k.n
    /\ \A l \in workers : l.wf = k.wf => l = k

(* Once the success row of a step is there, its function never runs again, *)
(* over every crash, reclaim, retry and replay (the step log of            *)
(* worker.server.ts).                                                      *)
StepOnce ==
  [][\A w \in WF : \A s \in stepLog[w] : effects'[w][s] = effects[w][s]]_vars

(* A txStep's writes are in the database exactly once if its row is in the *)
(* step log, and not at all otherwise.                                     *)
TxExactlyOnce ==
  \A w \in WF : \A s \in TxSteps :
    effects[w][s] = IF s \in stepLog[w] THEN 1 ELSE 0

(* Steps happen in the order of the body: a step takes effect only after   *)
(* every earlier one is logged, and a workflow that reports success has    *)
(* had the effect of all its steps.                                        *)
InOrder ==
  \A w \in WF :
    /\ \A s \in Steps : effects[w][s] > 0 => 1 .. s - 1 \subseteq stepLog[w]
    /\ status[w] = "success" => \A s \in Steps : effects[w][s] > 0

(* A finished workflow stays as it ended: no reclaim, late worker or       *)
(* cancel reopens it or gives it another outcome.                          *)
TerminalStable ==
  [][\A w \in WF : status[w] \in Terminal => status'[w] = status[w]]_vars

(* After a cancel request at most the one step whose check had already     *)
(* passed still takes effect, over all later attempts of the row.          *)
CancelStopsSteps == \A w \in WF : late[w] <= 1

(* Attempts beyond max_attempts come from reclaims only, and every boot    *)
(* but the first adds at most one.                                         *)
Booted == {e \in Exec : phase[e] \in {"up", "stopping", "stopped", "down"}}

AttemptsBounded ==
  \A w \in WF : attempts[w] > 0 => attempts[w] < MaxAttempts + Cardinality(Booted)

(* An executor never runs more workers than its global cap, nor more from  *)
(* a queue than the queue's concurrency.                                   *)
WorkersOf(e) == {k \in workers : k.ex = e}

ConcurrencyCaps ==
  \A e \in Exec :
    /\ Cardinality(WorkersOf(e)) <= GlobalConcurrency
    /\ \A q \in Queues :
         Cardinality({k \in WorkersOf(e) : QueueOf[k.wf] = q}) <= Concurrency[q]

(* Once stop() has resolved, the executor claims nothing more.             *)
Claims(e) == {<<k.wf, k.n>> : k \in WorkersOf(e)}

NoClaimAfterStop ==
  [][\A e \in Exec : phase[e] = "stopped" => Claims(e)' \subseteq Claims(e)]_vars

(* With an executor that stays up, every row reaches its end, or is left   *)
(* `running' without a worker: nothing waits in `pending' for ever, and no *)
(* worker runs for ever.                                                   *)
StaysUp == \E e \in Exec : <>[](phase[e] = "up")
Left(w) == status[w] = "running" /\ \A k \in workers : k.wf # w

Settles ==
  StaysUp => \A w \in WF : status[w] # "none" ~> (status[w] \in Terminal \/ Left(w))
=============================================================================
