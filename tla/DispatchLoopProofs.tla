------------------------- MODULE DispatchLoopProofs -------------------------
(***************************************************************************)
(* What DispatchLoop promises of safety, proved for any rows, lanes, caps  *)
(* and clients.  A ready row of manual mode that no drain has seen yet is  *)
(* one whose startWorkflow has still to ask for a drain, or threw before   *)
(* it did, or a drain has been asked for, or the tick under way has its    *)
(* lane ahead (DrainInv).                                                  *)
(***************************************************************************)
EXTENDS DispatchLoop, TLAPS

(* Each mode leaves the machinery of the other alone.                      *)
ModeInv ==
  /\ auto => drain = "none" /\ ~requested
  /\ ~auto => ~timer

Known == kicks \cup excused

DrainInv ==
  ~auto /\ active /\ ~requested =>
    /\ drain \in {"none", "ending"} => Pending \subseteq Known
    /\ drain = "ticking" => /\ \A w \in Pending : w \in Known \/ LaneOf[w] >= lane
                            /\ late \cap Pending \subseteq Known

IInv == TypeOK /\ OneLoop /\ NoLostRequest /\ ModeInv /\ DrainInv

LEMMA InitInv == Init => IInv
  <1> SUFFICES ASSUME Init PROVE IInv OBVIOUS
  <1>1. TypeOK
    <2>1. lane \in NoTick..AtEnd /\ (drain = "ticking" <=> ~auto /\ lane # NoTick)
      BY LoopConstants DEF Init, NoTick, AtEnd
    <2>2. status \in [WF -> {"none", "pending", "backoff", "running", "done"}]
      BY DEF Init
    <2>3. result \in [Client -> {"idle", "select", "read", "asleep", "returned", "timedOut"}]
      BY DEF Init
    <2> QED BY <2>1, <2>2, <2>3 DEF Init, TypeOK
  <1>2. OneLoop /\ NoLostRequest /\ ModeInv
    BY DEF Init, OneLoop, NoLostRequest, ModeInv, NoTick
  <1>3. Pending = {} BY DEF Init, Pending
  <1>4. DrainInv BY <1>3 DEF DrainInv, Known
  <1> QED BY <1>1, <1>2, <1>4 DEF IInv

(* A wake finds the loop of auto mode between two ticks, or finds nothing. *)
LEMMA Woken ==
  ASSUME IInv, NEW on \in BOOLEAN, WakeLoop(on)
  PROVE  /\ ~timer' /\ ~listening' /\ timer' \in BOOLEAN /\ listening' \in BOOLEAN
         /\ \/ lane' = lane /\ late' = late /\ (timer => ~on)
            \/ auto /\ on /\ lane = NoTick /\ lane' = 1 /\ late' = {}
  <1>1. CASE listening
    BY <1>1 DEF WakeLoop, Schedule, IInv, TypeOK, OneLoop, ModeInv, tickVars, loopVars
  <1>2. CASE ~listening
    BY <1>2 DEF WakeLoop, IInv, TypeOK, OneLoop, tickVars, loopVars
  <1> QED BY <1>1, <1>2

(* What the loop's own part of the invariant needs of a step.              *)
LEMMA WakingKeeps ==
  ASSUME IInv, active' \in BOOLEAN, active' => active, UNCHANGED <<auto, drainVars>>,
         timer' \in BOOLEAN, listening' \in BOOLEAN, ~timer', ~listening',
         \/ lane' = lane /\ late' = late /\ (timer => ~active')
         \/ auto /\ lane' = 1 /\ late' = {}
  PROVE  /\ lane' \in NoTick..AtEnd /\ late' \subseteq WF
         /\ auto' \in BOOLEAN /\ timer' \in BOOLEAN /\ listening' \in BOOLEAN
         /\ (drain = "ticking" <=> ~auto /\ lane # NoTick)'
         /\ OneLoop' /\ NoLostRequest' /\ ModeInv'
  <1>1. lane' \in NoTick..AtEnd /\ late' \subseteq WF
    BY LoopConstants DEF IInv, TypeOK, NoTick, AtEnd
  <1>2. auto' \in BOOLEAN /\ timer' \in BOOLEAN /\ listening' \in BOOLEAN
    BY DEF IInv, TypeOK
  <1>3. (drain = "ticking" <=> ~auto /\ lane # NoTick)'
    BY DEF IInv, TypeOK, ModeInv, drainVars
  <1>4. OneLoop' BY DEF IInv, TypeOK, OneLoop, NoTick
  <1>5. NoLostRequest' /\ ModeInv' BY DEF IInv, NoLostRequest, ModeInv, drainVars
  <1> QED BY <1>1, <1>2, <1>3, <1>4, <1>5

LEMMA LoopStep ==
  ASSUME IInv,
         \/ TimerFires \/ Cancel \/ Stop
         \/ \E w \in WF : WorkerEnds(w)
  PROVE  IInv'
  <1>1. /\ active' \in BOOLEAN /\ (active' => active)
        /\ auto' = auto /\ drain' = drain /\ batch' = batch /\ requested' = requested
        /\ UNCHANGED <<kicks, wants, excused>>
    <2>1. CASE TimerFires
      BY <2>1 DEF TimerFires, drainVars, clientVars, IInv, TypeOK
    <2>2. CASE Cancel BY <2>2 DEF Cancel, drainVars, IInv, TypeOK
    <2>3. CASE Stop BY <2>3 DEF Stop, drainVars
    <2>4. CASE \E w \in WF : WorkerEnds(w) BY <2>4 DEF WorkerEnds, drainVars, IInv, TypeOK
    <2> QED BY <2>1, <2>2, <2>3, <2>4
  <1>7. /\ \A w \in WF : status'[w] = "pending" => status[w] = "pending"
        /\ status' \in [WF -> {"none", "pending", "backoff", "running", "done"}]
        /\ fails' \in Nat /\ retries' \in Nat
    <2>1. CASE TimerFires \/ Cancel \/ Stop
      BY <2>1 DEF TimerFires, Cancel, Stop, counts, IInv, TypeOK
    <2>2. ASSUME NEW w \in WF, WorkerEnds(w)
          PROVE  /\ \A v \in WF : status'[v] = "pending" => status[v] = "pending"
                 /\ status' \in [WF -> {"none", "pending", "backoff", "running", "done"}]
                 /\ fails' \in Nat /\ retries' \in Nat
      BY <2>2 DEF WorkerEnds, IInv, TypeOK
    <2> QED BY <2>1, <2>2
  <1>2. result' \in [Client -> {"idle", "select", "read", "asleep", "returned", "timedOut"}]
    BY DEF TimerFires, Cancel, Stop, WorkerEnds, Emit, WakeResults, clientVars, IInv, TypeOK
  <1>3. /\ ~timer' /\ ~listening' /\ timer' \in BOOLEAN /\ listening' \in BOOLEAN
        /\ \/ lane' = lane /\ late' = late /\ (timer => ~active')
           \/ auto /\ lane' = 1 /\ late' = {}
    <2>1. CASE TimerFires
      BY <2>1 DEF TimerFires, Schedule, IInv, ModeInv, tickVars
    <2>2. CASE Cancel BY <2>2, Woken DEF Cancel, Emit, IInv, TypeOK
    <2>3. CASE Stop BY <2>3, Woken DEF Stop, Emit
    <2>4. ASSUME NEW w \in WF, WorkerEnds(w)
          PROVE  /\ ~timer' /\ ~listening' /\ timer' \in BOOLEAN /\ listening' \in BOOLEAN
                 /\ \/ lane' = lane /\ late' = late /\ (timer => ~active')
                    \/ auto /\ lane' = 1 /\ late' = {}
      BY <2>4, Woken DEF WorkerEnds, Emit, IInv, TypeOK
    <2> QED BY <2>1, <2>2, <2>3, <2>4
  <1>4. /\ lane' \in NoTick..AtEnd /\ late' \subseteq WF
        /\ auto' \in BOOLEAN /\ timer' \in BOOLEAN /\ listening' \in BOOLEAN
        /\ (drain = "ticking" <=> ~auto /\ lane # NoTick)'
        /\ OneLoop' /\ NoLostRequest' /\ ModeInv'
    BY <1>1, <1>3, WakingKeeps DEF drainVars
  <1>5. TypeOK' BY <1>1, <1>2, <1>4, <1>7 DEF IInv, TypeOK
  <1>6. DrainInv'
    <2>1. /\ ~auto' => ~auto /\ lane' = lane /\ late' = late
          /\ drain' = drain /\ requested' = requested /\ Known' = Known
      BY <1>1, <1>3 DEF Known
    <2>2. Pending' \subseteq Pending BY <1>7 DEF Pending
    <2> QED BY <1>1, <2>1, <2>2 DEF IInv, DrainInv
  <1> QED BY <1>4, <1>5, <1>6 DEF IInv

(* A drain starts with a tick that has every lane ahead.                   *)
LEMMA Started ==
  ASSUME IInv, ~auto, StartDraining, auto' = auto, active' = active, timer' = timer,
         listening' = listening, status' \in [WF -> {"none", "pending", "backoff", "running", "done"}]
  PROVE  /\ lane' \in NoTick..AtEnd /\ late' \subseteq WF /\ drain' = "ticking"
         /\ requested' \in BOOLEAN
         /\ (drain = "ticking" <=> ~auto /\ lane # NoTick)'
         /\ OneLoop' /\ NoLostRequest' /\ ModeInv' /\ DrainInv'
  <1>1. /\ lane' \in 1..AtEnd /\ late' = {} /\ drain' = "ticking" /\ ~requested'
        /\ requested' \in BOOLEAN /\ (active => lane' = 1)
    <2>1. late' = {} /\ drain' = "ticking" /\ ~requested' /\ requested' \in BOOLEAN
      BY DEF StartDraining
    <2>2. CASE active
      BY <2>1, <2>2, LoopConstants DEF StartDraining, FirstLane, AtEnd
    <2>3. CASE ~active
      BY <2>1, <2>3, LoopConstants DEF StartDraining, FirstLane, AtEnd
    <2> QED BY <2>2, <2>3
  <1>2. lane' \in NoTick..AtEnd /\ lane' # NoTick
    BY <1>1, LoopConstants DEF NoTick, AtEnd
  <1>3. (drain = "ticking" <=> ~auto /\ lane # NoTick)'
    BY <1>1, <1>2
  <1>4. OneLoop' /\ NoLostRequest' /\ ModeInv'
    BY <1>1 DEF IInv, OneLoop, NoLostRequest, ModeInv
  <1>5. active => \A w \in WF : LaneOf[w] >= lane'
    BY <1>1, LoopConstants DEF Lane
  <1>6. DrainInv'
    BY <1>1, <1>5 DEF DrainInv, Pending
  <1> QED BY <1>1, <1>2, <1>3, <1>4, <1>6

LEMMA ClientStep ==
  ASSUME IInv,
         \/ \E w \in WF : Insert(w) \/ Kick(w) \/ KickFails(w) \/ BackoffElapses(w)
         \/ \E c \in Client : Ask(c) \/ Result(c)
  PROVE  IInv'
  <1> USE LoopConstants DEF IInv, TypeOK, OneLoop, NoLostRequest, ModeInv, NoTick, AtEnd,
        drainVars, clientVars, counts, tickVars, loopVars
  <1>1. ASSUME NEW w \in WF, Insert(w) PROVE IInv'
    BY <1>1 DEF Insert, DueLate, DrainInv, Pending, Known
  <1>2. ASSUME NEW w \in WF, Kick(w) PROVE IInv'
    <2>1. CASE ~active
      BY <1>2, <2>1 DEF Kick, DrainInv, Pending, Known
    <2>2. CASE active /\ auto
      <3>1. /\ ~timer' /\ ~listening' /\ timer' \in BOOLEAN /\ listening' \in BOOLEAN
            /\ \/ lane' = lane /\ late' = late /\ (timer => ~active')
               \/ auto /\ lane' = 1 /\ late' = {}
        BY <1>2, <2>2, Woken DEF Kick, Emit
      <3>2. /\ lane' \in NoTick..AtEnd /\ late' \subseteq WF
            /\ auto' \in BOOLEAN /\ timer' \in BOOLEAN /\ listening' \in BOOLEAN
            /\ (drain = "ticking" <=> ~auto /\ lane # NoTick)'
            /\ OneLoop' /\ NoLostRequest' /\ ModeInv'
        BY <1>2, <2>2, <3>1, WakingKeeps DEF Kick
      <3>3. result' \in [Client -> {"idle", "select", "read", "asleep", "returned", "timedOut"}]
        BY <1>2, <2>2 DEF Kick, Emit, WakeResults
      <3>4. TypeOK' BY <1>2, <2>2, <3>2, <3>3 DEF Kick
      <3> QED BY <1>2, <2>2, <3>2, <3>4 DEF Kick, DrainInv
    <2>3. CASE active /\ ~auto
      <3>1. CASE drain = "none"
        BY <1>2, <2>3, <3>1, Started DEF Kick, RequestDrain
      <3>2. CASE drain # "none"
        BY <1>2, <2>3, <3>2 DEF Kick, RequestDrain, DrainInv
      <3> QED BY <3>1, <3>2
    <2> QED BY <2>1, <2>2, <2>3
  <1>3. ASSUME NEW w \in WF, BackoffElapses(w) PROVE IInv'
    BY <1>3 DEF BackoffElapses, DueLate, DrainInv, Pending, Known
  <1>4. ASSUME NEW c \in Client, Ask(c) \/ Result(c) PROVE IInv'
    BY <1>4 DEF Ask, Result, ReadRow, Sleep, PollFires, DrainInv, Pending, Known
  <1>5. ASSUME NEW w \in WF, KickFails(w) PROVE IInv'
    BY <1>5 DEF KickFails, DrainInv, Pending, Known
  <1> QED BY <1>1, <1>2, <1>3, <1>4, <1>5

LEMMA TickStep ==
  ASSUME IInv, Tick \/ TickThrows \/ Drain
  PROVE  IInv'
  <1> USE LoopConstants DEF IInv, TypeOK, OneLoop, NoLostRequest, ModeInv, NoTick, AtEnd,
        drainVars, clientVars, counts, tickVars, loopVars
  <1>1. CASE ClaimLane
    BY <1>1 DEF ClaimLane, InLane, Lane, DrainInv, Pending, Known
  <1>2. CASE EndTick
    <2>1. CASE auto
      BY <1>2, <2>1 DEF EndTick, Arm, DrainInv
    <2>2. CASE ~auto /\ Running = {} /\ requested /\ StartDraining
      BY <1>2, <2>2, Started DEF EndTick
    <2>3. CASE ~auto /\ Running # {} /\ drain' = "settling"
      BY <1>2, <2>3 DEF EndTick, DrainInv, Running
    <2>4. CASE ~auto /\ ~requested /\ drain' = "ending"
      <3>1. drain = "ticking" /\ \A w \in WF : ~(LaneOf[w] >= lane)
        BY <1>2, <2>4 DEF EndTick, Lane
      <3> QED BY <1>2, <2>4, <3>1 DEF EndTick, DrainInv, Pending, Known
    <2> QED BY <1>2, <2>1, <2>2, <2>3, <2>4 DEF EndTick
  <1>3. CASE TickThrows
    BY <1>3 DEF TickThrows, Arm, DrainInv, Pending, Known
  <1>4. CASE BatchSettles
    BY <1>4 DEF BatchSettles, FirstLane, DrainInv, Pending, Known, Lane
  <1>5. CASE DrainEnds
    <2>1. CASE requested
      BY <1>5, <2>1, Started DEF DrainEnds
    <2>2. CASE ~requested
      BY <1>5, <2>2 DEF DrainEnds, DrainInv, Pending, Known
    <2> QED BY <2>1, <2>2
  <1> QED BY <1>1, <1>2, <1>3, <1>4, <1>5 DEF Tick, Drain

LEMMA NextInv == IInv /\ [Next]_vars => IInv'
  <1>1. IInv /\ Next => IInv' BY LoopStep, ClientStep, TickStep DEF Next
  <1>2. IInv /\ UNCHANGED vars => IInv'
    BY DEF IInv, vars, TypeOK, OneLoop, NoLostRequest, ModeInv, DrainInv, Pending, Known,
      drainVars, clientVars, counts, tickVars, loopVars
  <1> QED BY <1>1, <1>2

(* The inductive invariant of the loop: its ticks, its drains and the rows *)
(* a drain is still to see.                                                *)
THEOREM InductiveInvariant == Spec => []IInv
  BY InitInv, NextInv, PTL DEF Spec

-----------------------------------------------------------------------------
(* Auto mode has one loop, alive until stop(); manual mode forgets no      *)
(* request for a drain.                                                    *)
THEOREM LoopStaysAlive == Spec => []LoopInv
  <1>1. IInv => LoopInv BY DEF IInv, LoopInv
  <1> QED BY <1>1, InductiveInvariant, PTL

(* A drain leaves no ready row behind but those that a full lane, a throw  *)
(* or a backoff explains, and those whose startWorkflow has yet to ask for *)
(* the next, or threw.                                                     *)
THEOREM DrainIsComplete == Spec => []DrainLeavesNothingElse
  <1>1. IInv => DrainLeavesNothingElse
    BY DEF IInv, NoLostRequest, DrainInv, DrainLeavesNothingElse, Known
  <1> QED BY <1>1, InductiveInvariant, PTL
=============================================================================
