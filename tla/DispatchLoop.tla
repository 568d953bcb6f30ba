---------------------------- MODULE DispatchLoop ----------------------------
(***************************************************************************)
(* When kokoto looks for work (runtime.server.ts): the timer and the wake  *)
(* event of scheduleDispatchSoon in auto mode, drain() in manual mode, the *)
(* wake-ups of startWorkflow, cancel, stop and of workers that end, and    *)
(* the loop of handle.result(), which sleeps on the same event.  Kokoto    *)
(* lets a tick begin at any time; here it begins when the code begins it.  *)
(*                                                                         *)
(* One executor.  A tick visits its lanes, the queues and then the rows    *)
(* without one, with an await at each; a worker is one step from its claim *)
(* to its end, and may end between two lanes of the tick that launched it. *)
(***************************************************************************)
EXTENDS Naturals, FiniteSets

CONSTANTS
  WF,          \* workflow rows
  NLanes,      \* the queues, and the lane of rows without a queue
  LaneOf,      \* the lane of each row
  Cap,         \* the concurrency of each lane
  Global,      \* globalConcurrency
  Client,      \* calls of handle.result()
  MaxFails,    \* bound: ticks that throw
  MaxRetries   \* bound: retries with a backoff

Lane == 1..NLanes

ASSUME LoopConstants ==
  /\ NLanes \in Nat /\ MaxFails \in Nat /\ MaxRetries \in Nat
  /\ LaneOf \in [WF -> Lane]
  /\ Cap \in [Lane -> Nat \ {0}]
  /\ Global \in Nat \ {0}

VARIABLES
  auto,        \* the dispatch mode, set once
  status,      \* "none", "pending", "backoff", "running" or "done"
  kicks,       \* rows whose startWorkflow has inserted but not yet woken
  active,      \* dispatcherActive
  lane,        \* the lane a tick is at; NLanes + 1: done; 0: no tick
  late,        \* rows due only after the clock reading of that tick
  timer,       \* the poll timer of scheduleDispatchSoon is set ...
  listening,   \* ... and its listener on `wake'
  drain,       \* where runDrain is
  batch,       \* the workers it awaits
  requested,   \* drainRequested
  result,      \* where each result() call is ...
  wants,       \* ... and the row it is for
  fails, retries,
  excused      \* history: ready rows that a full lane, a throw of a tick or
               \* of their startWorkflow, or a backoff left behind

clientVars == <<result, wants>>
drainVars  == <<drain, batch, requested>>
loopVars   == <<timer, listening>>
tickVars   == <<lane, late>>
counts     == <<fails, retries>>
vars == <<auto, status, kicks, active, tickVars, loopVars, drainVars, clientVars, counts, excused>>

Pending == {w \in WF : status[w] = "pending"}
Running == {w \in WF : status[w] = "running"}
NoTick  == 0
AtEnd   == NLanes + 1

TypeOK ==
  /\ auto \in BOOLEAN
  /\ status \in [WF -> {"none", "pending", "backoff", "running", "done"}]
  /\ kicks \subseteq WF
  /\ active \in BOOLEAN
  /\ lane \in NoTick..AtEnd
  /\ late \subseteq WF
  /\ timer \in BOOLEAN /\ listening \in BOOLEAN
  /\ drain \in {"none", "ticking", "settling", "ending"}
  /\ drain = "ticking" <=> ~auto /\ lane # NoTick
  /\ batch \subseteq WF
  /\ requested \in BOOLEAN
  /\ result \in [Client -> {"idle", "select", "read", "asleep", "returned", "timedOut"}]
  /\ wants \in [Client -> WF]
  /\ fails \in Nat /\ retries \in Nat
  /\ excused \subseteq WF

(* dispatchTick up to its first await.                                     *)
FirstLane == IF active THEN 1 ELSE AtEnd

(* start() has just returned.                                              *)
Init ==
  /\ auto \in BOOLEAN
  /\ status = [w \in WF |-> "none"]
  /\ kicks = {}
  /\ active = TRUE
  /\ lane = IF auto THEN 1 ELSE NoTick
  /\ late = {}
  /\ timer = FALSE /\ listening = FALSE
  /\ drain = "none" /\ batch = {} /\ requested = FALSE
  /\ result = [c \in Client |-> "idle"]
  /\ wants \in [Client -> WF]
  /\ fails = 0 /\ retries = 0
  /\ excused = {}

-----------------------------------------------------------------------------
(* Waking up.                                                              *)

(* scheduleDispatchSoon, called by the timer or the listener.              *)
Schedule(on) == IF on THEN lane' = 1 /\ late' = {} ELSE UNCHANGED tickVars

(* wakeHandler: a wake finds the loop only between two ticks.              *)
WakeLoop(on) ==
  IF listening THEN timer' = FALSE /\ listening' = FALSE /\ Schedule(on)
  ELSE UNCHANGED <<tickVars, loopVars>>

WakeResults ==
  result' = [c \in Client |-> IF result[c] = "asleep" THEN "select" ELSE result[c]]

Emit(on) == WakeLoop(on) /\ WakeResults

TimerFires ==
  /\ timer
  /\ timer' = FALSE /\ listening' = FALSE
  /\ Schedule(active)
  /\ UNCHANGED <<auto, status, kicks, active, drainVars, clientVars, counts, excused>>

(* runDrain, from the top of its loop to its first await.                  *)
StartDraining ==
  drain' = "ticking" /\ requested' = FALSE /\ lane' = FirstLane /\ late' = {}

(* Faulty variant: a request while another drain is under way is dropped.  *)
RequestDrainDropped ==
  IF drain = "none" THEN StartDraining ELSE UNCHANGED <<drain, requested, tickVars>>

(* drain(): single-flight.                                                 *)
RequestDrain ==
  IF drain = "none" THEN StartDraining
  ELSE requested' = TRUE /\ UNCHANGED <<drain, tickVars>>

-----------------------------------------------------------------------------
(* Clients of the runtime.                                                 *)

(* A tick under way claims by the time it began.                           *)
DueLate(w) == late' = IF lane = NoTick THEN late ELSE late \cup {w}

(* The INSERT of startWorkflow.                                            *)
Insert(w) ==
  /\ status[w] = "none"
  /\ status' = [status EXCEPT ![w] = "pending"]
  /\ kicks' = kicks \cup {w}
  /\ DueLate(w)
  /\ UNCHANGED <<auto, active, lane, loopVars, drainVars, clientVars, counts, excused>>

(* startWorkflow after it.                                                 *)
Kick(w) ==
  /\ w \in kicks
  /\ kicks' = kicks \ {w}
  /\ IF ~active THEN UNCHANGED <<tickVars, loopVars, drainVars, result>>
     ELSE IF auto THEN Emit(active) /\ UNCHANGED drainVars
     ELSE RequestDrain /\ UNCHANGED <<loopVars, batch, result>>
  /\ UNCHANGED <<auto, status, active, wants, counts, excused>>

(* The answer of the INSERT is lost, or the lookup by idempotency key after *)
(* it throws: the row is there, nobody is woken and no drain is asked for. *)
KickFails(w) ==
  /\ w \in kicks
  /\ kicks' = kicks \ {w}
  /\ excused' = excused \cup {w}
  /\ UNCHANGED <<auto, status, active, tickVars, loopVars, drainVars, clientVars, counts>>

(* cancel() of a row that may or may not end by it: only the wake matters. *)
Cancel ==
  /\ Emit(active)
  /\ UNCHANGED <<auto, status, kicks, active, drainVars, wants, counts, excused>>

Stop ==
  /\ active
  /\ active' = FALSE
  /\ Emit(FALSE)
  /\ UNCHANGED <<auto, status, kicks, drainVars, wants, counts, excused>>

(* result() of a handle that startWorkflow or getHandle has returned.      *)
Ask(c) ==
  /\ result[c] = "idle"
  /\ status[wants[c]] # "none" /\ wants[c] \notin kicks
  /\ result' = [result EXCEPT ![c] = "select"]
  /\ UNCHANGED <<auto, status, kicks, active, tickVars, loopVars, drainVars, wants, counts, excused>>

(* selectWorkflowById in result().                                         *)
ReadRow(c) ==
  /\ result[c] = "select"
  /\ result' = [result EXCEPT ![c] =
                  IF status[wants[c]] = "done" THEN "returned" ELSE "read"]
  /\ UNCHANGED <<auto, status, kicks, active, tickVars, loopVars, drainVars, wants, counts, excused>>

(* The deadline has passed, or it sleeps on a timer and the wake event.    *)
Sleep(c) ==
  /\ result[c] = "read"
  /\ \E to \in {"asleep", "timedOut"} : result' = [result EXCEPT ![c] = to]
  /\ UNCHANGED <<auto, status, kicks, active, tickVars, loopVars, drainVars, wants, counts, excused>>

(* Faulty variant: result() waits for the wake event alone.                *)
PollNever(c) == FALSE /\ UNCHANGED vars

PollFires(c) ==
  /\ result[c] = "asleep"
  /\ result' = [result EXCEPT ![c] = "select"]
  /\ UNCHANGED <<auto, status, kicks, active, tickVars, loopVars, drainVars, wants, counts, excused>>

-----------------------------------------------------------------------------
(* Ticks and workers.                                                      *)

InLane(S, l) == {w \in S : LaneOf[w] = l}
Smaller(m, n) == IF m <= n THEN m ELSE n
Left(m, n) == IF n <= m THEN m - n ELSE 0
Room(l) == Smaller(Left(Cap[l], Cardinality(InLane(Running, l))),
                   Left(Global, Cardinality(Running)))

(* claimPending for one lane, and the launches.  A row of the same         *)
(* millisecond as the tick is due although it came later.                  *)
ClaimLane ==
  /\ lane \in Lane
  /\ \E undue \in SUBSET late, S \in SUBSET InLane(Pending, lane) :
       LET due == InLane(Pending, lane) \ undue
       IN  /\ S \subseteq due
           /\ Cardinality(S) = Smaller(Room(lane), Cardinality(due))
           /\ status' = [w \in WF |-> IF w \in S THEN "running" ELSE status[w]]
           /\ excused' = (excused \cup due) \ S
  /\ lane' = lane + 1
  /\ UNCHANGED <<auto, kicks, active, late, loopVars, drainVars, clientVars, counts>>

(* Faulty variant: the loop waits for the wake event alone.                *)
ArmUntimed == timer' = FALSE /\ listening' = active

(* The finally block of scheduleDispatchSoon.                              *)
Arm == timer' = active /\ listening' = active

(* The last lane is done; in manual mode runDrain goes on.                 *)
EndTick ==
  /\ lane = AtEnd
  /\ IF auto
     THEN /\ lane' = NoTick /\ Arm
          /\ UNCHANGED <<late, drainVars>>
     ELSE /\ \/ Running # {} /\ drain' = "settling" /\ batch' = Running
                /\ lane' = NoTick /\ UNCHANGED <<late, requested>>
             \/ Running = {} /\ requested /\ StartDraining /\ UNCHANGED batch
             \/ Running = {} /\ ~requested /\ drain' = "ending"
                /\ lane' = NoTick /\ UNCHANGED <<late, batch, requested>>
          /\ UNCHANGED loopVars
  /\ UNCHANGED <<auto, status, kicks, active, clientVars, counts, excused>>

(* A statement of the tick throws: the loop goes on, runDrain does not.    *)
TickThrows ==
  /\ lane # NoTick /\ fails < MaxFails
  /\ fails' = fails + 1
  /\ lane' = NoTick
  /\ excused' = excused \cup Pending
  /\ IF auto THEN Arm /\ UNCHANGED drain
     ELSE drain' = "ending" /\ UNCHANGED loopVars
  /\ UNCHANGED <<auto, status, kicks, active, late, batch, requested, clientVars, retries>>

(* allSettled, and the next tick.                                          *)
BatchSettles ==
  /\ drain = "settling" /\ batch \cap Running = {}
  /\ drain' = "ticking" /\ lane' = FirstLane /\ late' = {} /\ batch' = {}
  /\ UNCHANGED <<auto, status, kicks, active, loopVars, requested, clientVars, counts, excused>>

(* Faulty variant: finally without the second look at drainRequested.      *)
DrainEndsForgetting ==
  /\ drain = "ending"
  /\ drain' = "none" /\ UNCHANGED <<tickVars, requested>>
  /\ UNCHANGED <<auto, status, kicks, active, loopVars, batch, clientVars, counts, excused>>

(* The finally block of drain(), a microtask later.                        *)
DrainEnds ==
  /\ drain = "ending"
  /\ IF requested THEN StartDraining ELSE drain' = "none" /\ UNCHANGED <<tickVars, requested>>
  /\ UNCHANGED <<auto, status, kicks, active, loopVars, batch, clientVars, counts, excused>>

(* A worker ends, with an outcome or a retry.                              *)
WorkerEnds(w) ==
  /\ status[w] = "running"
  /\ \/ status' = [status EXCEPT ![w] = "done"] /\ UNCHANGED retries
     \/ /\ retries < MaxRetries
        /\ retries' = retries + 1
        /\ status' = [status EXCEPT ![w] = "backoff"]
  /\ Emit(active)
  /\ UNCHANGED <<auto, kicks, active, drainVars, wants, fails, excused>>

BackoffElapses(w) ==
  /\ status[w] = "backoff"
  /\ status' = [status EXCEPT ![w] = "pending"]
  /\ excused' = excused \cup {w}
  /\ DueLate(w)
  /\ UNCHANGED <<auto, kicks, active, lane, loopVars, drainVars, clientVars, counts>>

Tick == ClaimLane \/ EndTick
Drain == BatchSettles \/ DrainEnds
Result(c) == ReadRow(c) \/ Sleep(c) \/ PollFires(c)

Next ==
  \/ TimerFires \/ Cancel \/ Stop
  \/ Tick \/ TickThrows \/ Drain
  \/ \E w \in WF : Insert(w) \/ Kick(w) \/ KickFails(w) \/ WorkerEnds(w) \/ BackoffElapses(w)
  \/ \E c \in Client : Ask(c) \/ Result(c)

(* Timers fire, statements and workers settle, time passes.  A call of     *)
(* startWorkflow comes to its wake, or throws before it.                   *)
Fairness ==
  /\ WF_vars(TimerFires) /\ WF_vars(Tick) /\ WF_vars(Drain)
  /\ \A w \in WF : /\ WF_vars(Kick(w) \/ KickFails(w))
                  /\ WF_vars(WorkerEnds(w)) /\ WF_vars(BackoffElapses(w))
  /\ \A c \in Client : WF_vars(Result(c))

Spec == Init /\ [][Next]_vars

FairSpec == Spec /\ Fairness

-----------------------------------------------------------------------------
(* The auto loop neither dies nor doubles: it is in a tick or waits with   *)
(* both its timer and its listener, and after stop() with neither.         *)
OneLoop ==
  /\ timer <=> listening
  /\ lane # NoTick => ~timer
  /\ auto /\ active => timer \/ lane # NoTick
  /\ timer => active

(* Manual mode: no request for a drain is lost, the one in the microtask   *)
(* between the end of runDrain and the finally block of drain() included.  *)
NoLostRequest == requested => drain # "none"

(* Manual mode: when no drain is under way, the ready rows are those whose *)
(* startWorkflow has yet to ask for one or threw before it did, and those  *)
(* a full lane, a tick that threw or a backoff left behind.                *)
DrainLeavesNothingElse ==
  ~auto /\ active /\ drain = "none" => Pending \subseteq kicks \cup excused

(* A ready row is claimed although its wake-up may fall into a tick and be *)
(* lost, or not come because startWorkflow threw: the poll timer finds it. *)
(* Manual mode has no timer: there a row that was left behind, or whose    *)
(* startWorkflow threw, waits for the next request of a drain.             *)
ReadyRowsRun ==
  \A w \in WF :
    status[w] = "pending"
      ~> (status[w] # "pending" \/ ~active \/ (~auto /\ w \in excused))

(* result() comes back once the row has ended, although the wake-up may    *)
(* come before it listens.                                                 *)
ResultComesBack ==
  \A c \in Client :
    (result[c] \notin {"idle"} /\ status[wants[c]] = "done")
      ~> result[c] \in {"returned", "timedOut"}

(* The loop and the drain stay alive: neither is armed twice, and neither  *)
(* forgets what it was asked for (scheduleDispatchSoon, drain).            *)
LoopInv == TypeOK /\ OneLoop /\ NoLostRequest
=============================================================================
