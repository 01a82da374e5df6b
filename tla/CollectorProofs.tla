--------------------------- MODULE CollectorProofs ---------------------------
(***************************************************************************)
(* The safety of Collector, for every batch size, bound of the queue and   *)
(* tolerance of the watchdog: an orderly exit, its code and what it leaves *)
(* unwritten, and the silence that a restart needs.                        *)
(***************************************************************************)
EXTENDS Collector, TLAPS

\* The watchdog trips before its count passes the tolerance, and the intervals
\* it has counted since the last search were silent.
SilenceIsCounted ==
    /\ reporter # "done" => silent_ticks < ToleranceTicks
    /\ ~heard => quiet_ticks > silent_ticks

\* The coroutines end in an order, and only after the stop signal, which has
\* one of two causes.
StopHasACause ==
    /\ stop_signal => operator_stopped \/ restart_requested
    /\ reporter = "done" => stop_signal
    /\ node \in {"stopping", "stopped"} => flusher = "done" /\ reporter = "done"

\* When run() has ended in order, the queue holds what came since.
DrainLeavesTheLate == flusher = "done" /\ ~drain_failed => pending_count <= late

IInv == /\ TypeOK
        /\ SilenceIsCounted
        /\ StopHasACause
        /\ DrainLeavesTheLate
        /\ ExitZeroMeansSignalled
-----------------------------------------------------------------------------
\* What every place of run() does to the buffer, whatever it found in the queue:
\* the types are kept, and run() ends with an empty queue.
Placed == /\ Buffer!TypeOK'
          /\ flusher' = "done" => pending_count' = 0

\* The numbers of the buffer.
LEMMA Sizes == /\ BatchSize \in Nat /\ BatchSize > 0
               /\ MaximumPendingEvents \in Nat /\ MaximumPendingEvents > 0
               /\ ToleranceTicks \in Nat /\ ToleranceTicks > 0
BY CollectorAssumption

\* A flush takes a batch off the queue.
LEMMA FlushOncePlaces ==
    ASSUME NEW n \in 0..MaximumPendingEvents, NEW site \in Buffer!Flushing,
           Buffer!FlushOnce(n, site), stop_signal' \in BOOLEAN
    PROVE  Placed
<1>1. Buffer!BatchOf(n) \in 0..BatchSize /\ n - Buffer!BatchOf(n) \in 0..MaximumPendingEvents
  BY Sizes DEF Buffer!BatchOf
<1>2. QED  BY <1>1 DEF Placed, Buffer!FlushOnce, Buffer!TypeOK, Buffer!Flushing

\* Another await leaves the queue alone.
LEMMA SuspendPlaces ==
    ASSUME NEW n \in 0..MaximumPendingEvents,
           NEW site \in {"waiting", "retrying", "done"},
           Buffer!Suspend(n, site), stop_signal' \in BOOLEAN
    PROVE  /\ Buffer!TypeOK'
           /\ flusher' = site
           /\ site = "done" /\ n = 0 => Placed
           /\ site # "done" => Placed
BY Sizes DEF Placed, Buffer!Suspend, Buffer!TypeOK

\* The drain ends when nothing is left.
LEMMA DrainPlaces ==
    ASSUME NEW n \in 0..MaximumPendingEvents, Buffer!Drain(n), stop_signal' \in BOOLEAN
    PROVE  Placed
<1>1. CASE n > 0 /\ Buffer!FlushOnce(n, "flush_drain")
  BY <1>1, FlushOncePlaces DEF Buffer!Flushing
<1>2. CASE n = 0 /\ Buffer!Suspend(n, "done")
  BY <1>2, SuspendPlaces
<1>3. QED  BY <1>1, <1>2 DEF Buffer!Drain

LEMMA LoopTopPlaces ==
    ASSUME NEW n \in 0..MaximumPendingEvents, Buffer!LoopTop(n), stop_signal' \in BOOLEAN
    PROVE  Placed
<1>1. CASE stop_signal /\ Buffer!Drain(n)
  BY <1>1, DrainPlaces
<1>2. CASE Buffer!FlushOnce(n, "flush_size")
  BY <1>2, FlushOncePlaces DEF Buffer!Flushing
<1>3. CASE Buffer!Suspend(n, "waiting")
  BY <1>3, SuspendPlaces
<1>4. QED  BY <1>1, <1>2, <1>3 DEF Buffer!LoopTop

LEMMA AfterWaitPlaces ==
    ASSUME NEW n \in 0..MaximumPendingEvents, Buffer!AfterWait(n), stop_signal' \in BOOLEAN
    PROVE  Placed
<1>1. CASE Buffer!FlushOnce(n, "flush_interval")
  BY <1>1, FlushOncePlaces DEF Buffer!Flushing
<1>2. CASE Buffer!LoopTop(n)
  BY <1>2, LoopTopPlaces
<1>3. QED  BY <1>1, <1>2 DEF Buffer!AfterWait

LEMMA WaitForIntervalPlaces ==
    ASSUME NEW n \in 0..MaximumPendingEvents, Buffer!WaitForInterval(n),
           stop_signal' \in BOOLEAN
    PROVE  Placed
<1>1. CASE Buffer!AfterWait(n)
  BY <1>1, AfterWaitPlaces
<1>2. CASE Buffer!Suspend(n, "waiting")
  BY <1>2, SuspendPlaces
<1>3. QED  BY <1>1, <1>2 DEF Buffer!WaitForInterval

\* Only the drain that gives up after a failed insert ends with events queued.
LEMMA FlushReturnedPlaces ==
    ASSUME NEW n \in 0..MaximumPendingEvents, NEW wrote \in BOOLEAN,
           Buffer!FlushReturned(n, wrote), stop_signal' \in BOOLEAN
    PROVE  /\ Buffer!TypeOK'
           /\ Placed \/ (flusher = "flush_drain" /\ ~wrote)
<1>1. CASE /\ flusher = "flush_size"
           /\ IF wrote THEN Buffer!LoopTop(n) ELSE Buffer!WaitForInterval(n)
  <2>1. Placed
    BY <1>1, LoopTopPlaces, WaitForIntervalPlaces
  <2>2. QED  BY <2>1 DEF Placed
<1>2. CASE /\ flusher = "flush_interval"
           /\ IF wrote \/ n = 0 THEN Buffer!LoopTop(n) ELSE Buffer!Suspend(n, "retrying")
  <2>1. Placed
    BY <1>2, LoopTopPlaces, SuspendPlaces
  <2>2. QED  BY <2>1 DEF Placed
<1>3. CASE flusher = "flush_drain" /\ wrote /\ Buffer!Drain(n)
  <2>1. Placed
    BY <1>3, DrainPlaces
  <2>2. QED  BY <2>1 DEF Placed
<1>4. CASE flusher = "flush_drain" /\ ~wrote /\ Buffer!Suspend(n, "done")
  BY <1>4, SuspendPlaces
<1>5. QED  BY <1>1, <1>2, <1>3, <1>4 DEF Buffer!FlushReturned

\* A step of run() keeps the types; run() ends once, and with an empty queue
\* unless the insert of a drain has failed.
LEMMA FlushMoves ==
    ASSUME Buffer!TypeOK, Buffer!Flush
    PROVE  /\ Buffer!TypeOK'
           /\ stop_signal' = stop_signal
           /\ flusher # "done"
           /\ \/ flusher' = "done" => pending_count' = 0
              \/ flusher = "flush_drain" /\ insert = "failed"
<1>1. /\ pending_count \in 0..MaximumPendingEvents /\ batch_count \in 0..BatchSize
      /\ stop_signal \in BOOLEAN
  BY DEF Buffer!TypeOK
<1>2. /\ stop_signal' = stop_signal /\ flusher # "done"
  BY DEF Buffer!Flush, Buffer!Begin, Buffer!InsertReturns, Buffer!FlushReturned,
         Buffer!WaitEnds, Buffer!RetryDelayEnds
<1>3. CASE Buffer!Begin \/ Buffer!WaitEnds \/ Buffer!RetryDelayEnds
  <2>1. Placed
    BY <1>1, <1>2, <1>3, LoopTopPlaces, AfterWaitPlaces
    DEF Buffer!Begin, Buffer!WaitEnds, Buffer!RetryDelayEnds
  <2>2. QED  BY <1>2, <2>1 DEF Placed
<1>4. CASE insert = "succeeded" /\ Buffer!FlushReturned(pending_count, TRUE)
  BY <1>1, <1>2, <1>4, FlushReturnedPlaces DEF Placed
<1>5. CASE /\ insert = "failed"
           /\ Buffer!FlushReturned(Buffer!Returned(pending_count, batch_count), FALSE)
  <2>1. Buffer!Returned(pending_count, batch_count) \in 0..MaximumPendingEvents
    BY <1>1, Sizes DEF Buffer!Returned
  <2>2. QED  BY <1>1, <1>2, <1>5, <2>1, FlushReturnedPlaces DEF Placed
<1>6. QED  BY <1>3, <1>4, <1>5 DEF Buffer!Flush, Buffer!InsertReturns
-----------------------------------------------------------------------------
\* The types of the buffer, when the queue, the batch and run() stay as they are,
LEMMA BufferKept ==
    ASSUME Buffer!TypeOK,
           UNCHANGED <<pending_count, batch_count, flusher>>,
           insert' \in {"idle", "running", "succeeded", "failed"},
           stop_signal' \in BOOLEAN
    PROVE  Buffer!TypeOK'
BY DEF Buffer!TypeOK

\* and the other types, in three groups.
CountersTyped == /\ silent_ticks \in 0..ToleranceTicks
                 /\ quiet_ticks \in 0..ToleranceTicks + 1
                 /\ late \in 0..MaximumPendingEvents
PlacesTyped == /\ node \in {"starting", "online", "stopping", "stopped"}
               /\ reporter \in {"created", "waiting", "done"}
               /\ process \in {"running", "exit 0", "exit 1", "killed"}
FlagsTyped == /\ heard \in BOOLEAN
              /\ restart_requested \in BOOLEAN
              /\ operator_stopped \in BOOLEAN
              /\ drain_failed \in BOOLEAN

LEMMA Types == TypeOK <=> Buffer!TypeOK /\ CountersTyped /\ PlacesTyped /\ FlagsTyped
BY Zenon DEF TypeOK, CountersTyped, PlacesTyped, FlagsTyped

LEMMA TypesNext == TypeOK' <=> (Buffer!TypeOK /\ CountersTyped /\ PlacesTyped /\ FlagsTyped)'
BY Zenon DEF TypeOK, CountersTyped, PlacesTyped, FlagsTyped

\* The first process satisfies the invariant,
LEMMA InitSatisfies == ASSUME Init PROVE IInv
<1>1. TypeOK
  <2>1. pending_count \in 0..MaximumPendingEvents /\ batch_count \in 0..BatchSize
    BY Sizes DEF Init, Buffer!Init
  <2>2. Buffer!TypeOK
    BY <2>1 DEF Init, Buffer!Init, Buffer!TypeOK
  <2>3. CountersTyped
    BY Sizes DEF Init, CountersTyped
  <2>4. PlacesTyped
    BY DEF Init, PlacesTyped
  <2>5. FlagsTyped
    BY DEF Init, FlagsTyped
  <2>6. QED  BY <2>2, <2>3, <2>4, <2>5, Types
<1>2. SilenceIsCounted /\ StopHasACause /\ DrainLeavesTheLate /\ ExitZeroMeansSignalled
  BY Sizes DEF Init, Buffer!Init, SilenceIsCounted, StopHasACause, DrainLeavesTheLate,
               ExitZeroMeansSignalled
<1>3. QED  BY <1>1, <1>2 DEF IInv

\* and so does every later one.
LEMMA BootSatisfies == ASSUME Boot PROVE IInv'
<1>1. TypeOK'
  <2>1. pending_count' \in 0..MaximumPendingEvents /\ batch_count' \in 0..BatchSize
    BY Sizes DEF Boot
  <2>2. Buffer!TypeOK'
    BY <2>1 DEF Boot, Buffer!TypeOK
  <2>3. CountersTyped'
    BY Sizes DEF Boot, CountersTyped
  <2>4. PlacesTyped'
    BY DEF Boot, PlacesTyped
  <2>5. FlagsTyped'
    BY DEF Boot, FlagsTyped
  <2>6. QED  BY <2>2, <2>3, <2>4, <2>5, TypesNext
<1>2. (SilenceIsCounted /\ StopHasACause /\ DrainLeavesTheLate /\ ExitZeroMeansSignalled)'
  BY Sizes DEF Boot, SilenceIsCounted, StopHasACause, DrainLeavesTheLate,
               ExitZeroMeansSignalled
<1>3. QED  BY <1>1, <1>2 DEF IInv

\* A search that arrives makes the queue no longer than what came late.
LEMMA HearPreserves == ASSUME IInv, Hear PROVE IInv'
<1>1. TypeOK'
  BY Sizes DEF IInv, Hear, Buffer!Add, Capped, TypeOK, Buffer!TypeOK
<1>2. SilenceIsCounted' /\ StopHasACause' /\ ExitZeroMeansSignalled'
  BY DEF IInv, Hear, Buffer!Add, SilenceIsCounted, StopHasACause, ExitZeroMeansSignalled
<1>3. DrainLeavesTheLate'
  BY Sizes DEF IInv, Hear, Buffer!Add, Capped, TypeOK, Buffer!TypeOK, DrainLeavesTheLate
<1>4. QED  BY <1>1, <1>2, <1>3 DEF IInv

\* A step of run() is taken while the node is online.
LEMMA FlusherPreserves == ASSUME IInv, FlusherSteps PROVE IInv'
<1>1. /\ Buffer!TypeOK'
      /\ stop_signal' = stop_signal
      /\ flusher # "done"
      /\ \/ flusher' = "done" => pending_count' = 0
         \/ flusher = "flush_drain" /\ insert = "failed"
  BY FlushMoves DEF IInv, TypeOK, FlusherSteps
<1>2. TypeOK'
  BY <1>1 DEF IInv, TypeOK, FlusherSteps, reporter_vars
<1>3. SilenceIsCounted' /\ StopHasACause' /\ ExitZeroMeansSignalled'
  BY <1>1 DEF IInv, FlusherSteps, reporter_vars, SilenceIsCounted, StopHasACause,
              ExitZeroMeansSignalled
<1>4. DrainLeavesTheLate'
  <2>1. drain_failed' = (drain_failed \/ (flusher = "flush_drain" /\ insert = "failed"))
        /\ late' = late /\ late \in Nat
    BY DEF IInv, TypeOK, FlusherSteps
  <2>2. SUFFICES ASSUME flusher' = "done", ~drain_failed' PROVE pending_count' <= late'
    BY DEF DrainLeavesTheLate
  <2>3. ~(flusher = "flush_drain" /\ insert = "failed")
    BY <2>1, <2>2
  <2>4. pending_count' = 0
    BY <1>1, <2>2, <2>3
  <2>5. QED  BY <2>1, <2>4
<1>5. QED  BY <1>2, <1>3, <1>4 DEF IInv

\* The worker thread touches nothing that the invariant compares.
LEMMA InsertEndsPreserves == ASSUME IInv, InsertEnds PROVE IInv'
<1>1. /\ insert' \in {"succeeded", "failed"}
      /\ UNCHANGED <<pending_count, batch_count, flusher, stop_signal, node, reporter,
                     heard, silent_ticks, restart_requested, process,
                     operator_stopped, quiet_ticks, drain_failed, late>>
  BY DEF InsertEnds, Buffer!InsertEnds, reporter_vars, history_vars
<1>2. TypeOK'
  <2>1. Buffer!TypeOK'
    BY <1>1, Types, BufferKept DEF IInv, Buffer!TypeOK
  <2>2. CountersTyped'
    BY <1>1, Types DEF IInv, CountersTyped
  <2>3. PlacesTyped'
    BY <1>1, Types DEF IInv, PlacesTyped
  <2>4. FlagsTyped'
    BY <1>1, Types DEF IInv, FlagsTyped
  <2>5. QED  BY <2>1, <2>2, <2>3, <2>4, TypesNext
<1>3. (SilenceIsCounted /\ StopHasACause /\ DrainLeavesTheLate /\ ExitZeroMeansSignalled)'
  BY <1>1 DEF IInv, SilenceIsCounted, StopHasACause, DrainLeavesTheLate,
              ExitZeroMeansSignalled
<1>4. QED  BY <1>2, <1>3 DEF IInv

\* The reporter ends because of the signal,
LEMMA ReporterPreserves == ASSUME IInv, ReporterBegins \/ ReporterStopped PROVE IInv'
<1>1. /\ node = "online" \/ stop_signal
      /\ reporter \in {"created", "waiting"}
      /\ reporter' = "waiting" \/ (reporter' = "done" /\ stop_signal)
      /\ reporter = "waiting" => reporter' = "done"
      /\ UNCHANGED <<buffer_vars, node, heard, silent_ticks, restart_requested,
                     process, operator_stopped, history_vars>>
  BY DEF ReporterBegins, ReporterStopped, ReporterLoop
<1>2. TypeOK'
  <2>1. Buffer!TypeOK'
    BY <1>1, Types, BufferKept DEF IInv, Buffer!TypeOK, buffer_vars
  <2>2. CountersTyped'
    BY <1>1, Types DEF IInv, CountersTyped, history_vars
  <2>3. PlacesTyped'
    BY <1>1, Types DEF IInv, PlacesTyped, history_vars
  <2>4. FlagsTyped'
    BY <1>1, Types DEF IInv, FlagsTyped, history_vars
  <2>5. QED  BY <2>1, <2>2, <2>3, <2>4, TypesNext
<1>3. (SilenceIsCounted /\ StopHasACause /\ DrainLeavesTheLate /\ ExitZeroMeansSignalled)'
  BY <1>1 DEF IInv, SilenceIsCounted, StopHasACause, DrainLeavesTheLate,
              ExitZeroMeansSignalled, buffer_vars, history_vars
<1>4. QED  BY <1>2, <1>3 DEF IInv

\* or it sets it.
LEMMA TickPreserves == ASSUME IInv, Tick PROVE IInv'
<1>1. /\ process = "running" /\ reporter = "waiting"
      /\ silent_ticks' = IF heard THEN 0 ELSE silent_ticks + 1
      /\ heard' = FALSE
      /\ quiet_ticks' = IF quiet_ticks + 1 <= ToleranceTicks + 1
                        THEN quiet_ticks + 1 ELSE ToleranceTicks + 1
      /\ UNCHANGED <<pending_count, batch_count, flusher, insert, node, process,
                     operator_stopped, drain_failed, late>>
  BY DEF Tick, Record, PreviousReceived, Capped, RequestRestart, Buffer!SetStop,
         buffer_vars
<1>2. \/ /\ silent_ticks' >= ToleranceTicks
         /\ stop_signal' = TRUE /\ reporter' = "done" /\ restart_requested' = TRUE
      \/ /\ ~(silent_ticks' >= ToleranceTicks)
         /\ reporter' = IF stop_signal THEN "done" ELSE "waiting"
         /\ stop_signal' = stop_signal /\ restart_requested' = restart_requested
  BY DEF Tick, RestartDue, RequestRestart, Buffer!SetStop, ReporterLoop, buffer_vars
<1>3. /\ silent_ticks \in Nat /\ silent_ticks < ToleranceTicks
      /\ quiet_ticks \in 0..ToleranceTicks + 1
      /\ ~heard => quiet_ticks > silent_ticks
  BY <1>1 DEF IInv, TypeOK, SilenceIsCounted
<1>4. silent_ticks' \in 0..ToleranceTicks /\ quiet_ticks' \in 0..ToleranceTicks + 1
  BY <1>1, <1>3, Sizes
<1>5. TypeOK'
  <2>1. Buffer!TypeOK'
    BY <1>1, <1>2 DEF IInv, TypeOK, Buffer!TypeOK
  <2>2. QED  BY <1>1, <1>2, <1>4, <2>1 DEF IInv, TypeOK
<1>6. SilenceIsCounted'
  BY <1>1, <1>2, <1>3, <1>4, Sizes DEF SilenceIsCounted
<1>7. (StopHasACause /\ DrainLeavesTheLate /\ ExitZeroMeansSignalled)'
  BY <1>1, <1>2 DEF IInv, StopHasACause, DrainLeavesTheLate, ExitZeroMeansSignalled
<1>8. QED  BY <1>5, <1>6, <1>7 DEF IInv

\* Whatever ends, the exit code is zero only after a stop without a request.
LEMMA LifecyclePreserves ==
    ASSUME IInv,
           \/ LoggedIn \/ StartFails \/ StopNode \/ NodeStopped \/ NodeStopFails \/ Killed
    PROVE  IInv'
<1>1. UNCHANGED <<buffer_vars, reporter_vars, operator_stopped, history_vars>>
  BY DEF LoggedIn, StartFails, StopNode, NodeStopped, NodeStopFails, Killed
<1>2. UNCHANGED <<pending_count, batch_count, flusher, insert, stop_signal, reporter,
                  heard, silent_ticks, restart_requested, operator_stopped,
                  quiet_ticks, drain_failed, late>>
  BY <1>1 DEF buffer_vars, reporter_vars, history_vars
<1>3. /\ node' \in {"starting", "online", "stopping", "stopped"}
      /\ process' \in {"running", "exit 0", "exit 1", "killed"}
      /\ node' \in {"stopping", "stopped"} =>
            \/ node \in {"stopping", "stopped"}
            \/ flusher = "done" /\ reporter = "done"
      /\ process' = "exit 0" => node = "stopping" /\ ~restart_requested
  BY DEF IInv, TypeOK, LoggedIn, StartFails, StopNode, NodeStopped, NodeStopFails, Killed
<1>4. TypeOK'
  <2>1. Buffer!TypeOK'
    BY <1>2 DEF IInv, TypeOK, Buffer!TypeOK
  <2>2. QED  BY <1>2, <1>3, <2>1 DEF IInv, TypeOK
<1>5. (SilenceIsCounted /\ StopHasACause /\ DrainLeavesTheLate)'
  BY <1>2, <1>3 DEF IInv, SilenceIsCounted, StopHasACause, DrainLeavesTheLate
<1>6. ExitZeroMeansSignalled'
  BY <1>2, <1>3 DEF IInv, StopHasACause, ExitZeroMeansSignalled
<1>7. QED  BY <1>4, <1>5, <1>6 DEF IInv

\* A signal is the other cause of a stop.
LEMMA SignalPreserves == ASSUME IInv, Signal PROVE IInv'
<1>1. /\ stop_signal' = TRUE /\ operator_stopped' = TRUE
      /\ UNCHANGED <<pending_count, batch_count, flusher, insert, node, reporter, heard,
                     silent_ticks, restart_requested, process, quiet_ticks,
                     drain_failed, late>>
  BY DEF Signal, Buffer!SetStop, reporter_vars, history_vars
<1>2. TypeOK'
  <2>1. Buffer!TypeOK'
    BY <1>1, Types, BufferKept DEF IInv, Buffer!TypeOK
  <2>2. CountersTyped'
    BY <1>1, Types DEF IInv, CountersTyped
  <2>3. PlacesTyped'
    BY <1>1, Types DEF IInv, PlacesTyped
  <2>4. FlagsTyped'
    BY <1>1, Types DEF IInv, FlagsTyped
  <2>5. QED  BY <2>1, <2>2, <2>3, <2>4, TypesNext
<1>3. (SilenceIsCounted /\ StopHasACause /\ DrainLeavesTheLate /\ ExitZeroMeansSignalled)'
  BY <1>1 DEF IInv, SilenceIsCounted, StopHasACause, DrainLeavesTheLate,
              ExitZeroMeansSignalled
<1>4. QED  BY <1>2, <1>3 DEF IInv

\* A step that changes nothing preserves everything.
LEMMA StutterPreserves == ASSUME IInv, UNCHANGED vars PROVE IInv'
<1>1. UNCHANGED <<pending_count, batch_count, flusher, insert, stop_signal, node,
                  reporter, heard, silent_ticks, restart_requested, process,
                  operator_stopped, quiet_ticks, drain_failed, late>>
  BY DEF vars, buffer_vars, reporter_vars, history_vars
<1>2. TypeOK'
  <2>1. Buffer!TypeOK'
    BY <1>1, Types, BufferKept DEF IInv, Buffer!TypeOK
  <2>2. CountersTyped'
    BY <1>1, Types DEF IInv, CountersTyped
  <2>3. PlacesTyped'
    BY <1>1, Types DEF IInv, PlacesTyped
  <2>4. FlagsTyped'
    BY <1>1, Types DEF IInv, FlagsTyped
  <2>5. QED  BY <2>1, <2>2, <2>3, <2>4, TypesNext
<1>3. (SilenceIsCounted /\ StopHasACause /\ DrainLeavesTheLate /\ ExitZeroMeansSignalled)'
  BY <1>1 DEF IInv, SilenceIsCounted, StopHasACause, DrainLeavesTheLate,
              ExitZeroMeansSignalled
<1>4. QED  BY <1>2, <1>3 DEF IInv

LEMMA NextPreserves == ASSUME IInv, [Next]_vars PROVE IInv'
<1>1. CASE Hear
  BY <1>1, HearPreserves
<1>2. CASE FlusherSteps
  BY <1>2, FlusherPreserves
<1>3. CASE InsertEnds
  BY <1>3, InsertEndsPreserves
<1>4. CASE ReporterBegins \/ ReporterStopped
  BY <1>4, ReporterPreserves
<1>5. CASE Tick
  BY <1>5, TickPreserves
<1>6. CASE LoggedIn \/ StartFails \/ StopNode \/ NodeStopped \/ NodeStopFails \/ Killed
  BY <1>6, LifecyclePreserves
<1>7. CASE Signal
  BY <1>7, SignalPreserves
<1>8. CASE SupervisorRestarts \/ OperatorStarts
  BY <1>8, BootSatisfies DEF SupervisorRestarts, OperatorStarts
<1>9. CASE UNCHANGED vars
  BY <1>9, StutterPreserves
<1>10. QED
  BY <1>1, <1>2, <1>3, <1>4, <1>5, <1>6, <1>7, <1>8, <1>9, Zenon DEF Next
-----------------------------------------------------------------------------
\* The inductive invariant holds in every run of the collector and its restarts.
THEOREM InvariantHolds == Spec => []IInv
<1>1. Init => IInv
  BY InitSatisfies
<1>2. IInv /\ [Next]_vars => IInv'
  BY NextPreserves
<1>3. QED  BY <1>1, <1>2, PTL DEF Spec

\* Every variable keeps its type: the watchdog never counts past its tolerance
\* and the queue never outgrows its bound.
THEOREM TypeCorrect == Spec => []TypeOK
<1>1. IInv => TypeOK
  BY DEF IInv
<1>2. QED  BY <1>1, InvariantHolds, PTL

\* A process that exits with zero was told to stop, whatever races the signal.
THEOREM ExitCodeIsHonest == Spec => []ExitZeroMeansSignalled
<1>1. IInv => ExitZeroMeansSignalled
  BY DEF IInv
<1>2. QED  BY <1>1, InvariantHolds, PTL

\* An orderly exit whose drain succeeded leaves only what arrived after it.
THEOREM OnlyTheLateAreLost == Spec => []LeftoversArrivedLate
<1>1. IInv => LeftoversArrivedLate
  BY DEF IInv, StopHasACause, DrainLeavesTheLate, LeftoversArrivedLate
<1>2. QED  BY <1>1, InvariantHolds, PTL

\* The watchdog asks for a restart only after a whole tolerance of silence.
THEOREM SilenceBeforeRestart == Spec => RestartNeedsSilence
<1>1. ASSUME IInv, [Next]_vars, ~restart_requested, restart_requested'
      PROVE  quiet_ticks' > ToleranceTicks
  <2>1. Tick
    BY <1>1 DEF Next, Hear, LoggedIn, StartFails, FlusherSteps, InsertEnds, ReporterBegins,
                ReporterStopped, StopNode, NodeStopped, NodeStopFails, Signal, Killed,
                SupervisorRestarts, OperatorStarts, Boot, reporter_vars, vars
  <2>2. /\ silent_ticks' >= ToleranceTicks
        /\ silent_ticks' = IF heard THEN 0 ELSE silent_ticks + 1
        /\ quiet_ticks' = IF quiet_ticks + 1 <= ToleranceTicks + 1
                          THEN quiet_ticks + 1 ELSE ToleranceTicks + 1
    BY <1>1, <2>1 DEF Tick, Record, RestartDue, Capped
  <2>3. /\ silent_ticks \in Nat /\ quiet_ticks \in Nat
        /\ ~heard => quiet_ticks > silent_ticks
    BY <1>1, Types, Sizes DEF IInv, CountersTyped, SilenceIsCounted
  <2>4. ~heard
    BY <2>2, Sizes
  <2>5. quiet_ticks >= ToleranceTicks
    BY <2>2, <2>3, <2>4, Sizes
  <2>6. QED  BY <2>2, <2>3, <2>5, Sizes
<1>2. IInv /\ [Next]_vars =>
         [(~restart_requested /\ restart_requested') => quiet_ticks' > ToleranceTicks]_vars
  BY <1>1
<1>3. QED  BY <1>2, InvariantHolds, PTL DEF Spec, RestartNeedsSilence
=============================================================================
