------------------------------ MODULE Collector ------------------------------
(***************************************************************************)
(* One collector container: the process of collector/__main__.py with its  *)
(* three concurrent activities (the Soulseek node, the flush loop of the   *)
(* event buffer and the statistics reporter with its silence watchdog),    *)
(* the signals it gets, its exit and its restart by the supervisor.        *)
(*                                                                         *)
(* The buffer is FlushLoop, which SearchEventBuffer implements.  A message *)
(* that is not a search, or repeats one, changes nothing here: only what   *)
(* the deduplicator lets through reaches add() and counts as heard.        *)
(* aioslsk (the node's client), Docker (signals, restart: unless-stopped)  *)
(* and ClickHouse are external.                                            *)
(***************************************************************************)
EXTENDS Naturals

CONSTANTS BatchSize, MaximumPendingEvents,   \* of the buffer
          ToleranceTicks                     \* SilenceWatchdog.tolerance_ticks

ASSUME CollectorAssumption ==
    {BatchSize, MaximumPendingEvents, ToleranceTicks} \subseteq Nat \ {0}

VARIABLES pending_count, batch_count, flusher, insert, stop_signal,  \* FlushLoop
          node,                \* the Soulseek client
          reporter,            \* report_statistics()
          heard,               \* received # previous_received
          silent_ticks,        \* of the watchdog
          restart_requested,   \* what report_statistics() returned
          process,             \* running, or how it ended
          operator_stopped     \* the container was told to stop

\* History, for the properties only; nothing below reads it.
VARIABLES quiet_ticks,    \* ticks since the last search, one more if there was none
          drain_failed,   \* run() logged "giving up"
          late            \* searches added after run() had finished

buffer_vars == <<pending_count, batch_count, flusher, insert, stop_signal>>
reporter_vars == <<reporter, heard, silent_ticks, restart_requested>>
history_vars == <<quiet_ticks, drain_failed, late>>
vars == <<buffer_vars, node, reporter_vars, process, operator_stopped, history_vars>>

Buffer == INSTANCE FlushLoop

TypeOK == /\ Buffer!TypeOK
          /\ node \in {"starting", "online", "stopping", "stopped"}
          /\ reporter \in {"created", "waiting", "done"}
          /\ heard \in BOOLEAN
          /\ silent_ticks \in 0..ToleranceTicks
          /\ restart_requested \in BOOLEAN
          /\ process \in {"running", "exit 0", "exit 1", "killed"}
          /\ operator_stopped \in BOOLEAN
          /\ quiet_ticks \in 0..ToleranceTicks + 1
          /\ drain_failed \in BOOLEAN
          /\ late \in 0..MaximumPendingEvents

\* The memory of a process that has just reached node.start().  The handler is
\* registered before the login, so searches can arrive from here on.
Init == /\ Buffer!Init
        /\ node = "starting"
        /\ reporter = "created" /\ heard = FALSE
        /\ silent_ticks = 0 /\ restart_requested = FALSE
        /\ process = "running" /\ operator_stopped = FALSE
        /\ quiet_ticks = 1 /\ drain_failed = FALSE /\ late = 0
-----------------------------------------------------------------------------
Capped(n, bound) == IF n <= bound THEN n ELSE bound

\* _handle_message passes a new search on to add(), while the client lives.
Hear == /\ process = "running"
        /\ node \in {"starting", "online", "stopping"}
        /\ Buffer!Add
        /\ heard' = TRUE
        /\ quiet_ticks' = 0
        /\ late' = IF flusher = "done" THEN Capped(late + 1, MaximumPendingEvents)
                                       ELSE late
        /\ UNCHANGED <<node, reporter, silent_ticks, restart_requested,
                       process, operator_stopped, drain_failed>>

LoggedIn == /\ process = "running" /\ node = "starting"
            /\ node' = "online"
            /\ UNCHANGED <<buffer_vars, reporter_vars, process, operator_stopped,
                           history_vars>>

\* client.start() or login() raises: nothing catches it.
StartFails == /\ process = "running" /\ node = "starting"
              /\ process' = "exit 1"
              /\ UNCHANGED <<buffer_vars, node, reporter_vars, operator_stopped,
                             history_vars>>

\* asyncio.gather runs both coroutines once the node is online.
FlusherSteps == /\ process = "running" /\ node = "online"
                /\ Buffer!Flush
                /\ drain_failed' = (drain_failed \/ (flusher = "flush_drain"
                                                       /\ insert = "failed"))
                /\ UNCHANGED <<node, reporter_vars, process, operator_stopped,
                               quiet_ticks, late>>

InsertEnds == /\ process = "running"
              /\ Buffer!InsertEnds
              /\ UNCHANGED <<node, reporter_vars, process, operator_stopped,
                             history_vars>>

\* The condition of the while loop of report_statistics().
ReporterLoop(stopped) == reporter' = IF stopped THEN "done" ELSE "waiting"

ReporterBegins == /\ process = "running" /\ node = "online"
                  /\ reporter = "created"
                  /\ ReporterLoop(stop_signal)
                  /\ UNCHANGED <<buffer_vars, node, heard, silent_ticks,
                                 restart_requested, process, operator_stopped,
                                 history_vars>>

ReporterStopped == /\ process = "running"
                   /\ reporter = "waiting" /\ stop_signal
                   /\ reporter' = "done"
                   /\ UNCHANGED <<buffer_vars, node, heard, silent_ticks,
                                  restart_requested, process, operator_stopped,
                                  history_vars>>

\* Mutant: SilenceWatchdog.record does not reset its count.
RecordNeverResets == silent_ticks' = IF heard THEN silent_ticks ELSE silent_ticks + 1

\* SilenceWatchdog.record.
Record == silent_ticks' = IF heard THEN 0 ELSE silent_ticks + 1

\* Mutant: previous_received keeps its first value.
PreviousReceivedKept == UNCHANGED heard

\* previous_received = received.
PreviousReceived == heard' = FALSE

\* Mutant: one tick more than the tolerance.
RestartDueLate == silent_ticks' > ToleranceTicks

\* What SilenceWatchdog.record returns.
RestartDue == silent_ticks' >= ToleranceTicks

\* Mutant: the tick that trips the watchdog reports an ordinary shutdown.
RequestForgotten == Buffer!SetStop /\ reporter' = "done" /\ UNCHANGED restart_requested

\* stop_signal.set() and return True.
RequestRestart == Buffer!SetStop /\ reporter' = "done" /\ restart_requested' = TRUE

\* The statistics interval elapses.  The timeout can win against a stop signal
\* set in the same pass of the event loop, so a tick may find it set.
Tick == /\ process = "running" /\ reporter = "waiting"
        /\ Record
        /\ PreviousReceived
        /\ quiet_ticks' = Capped(quiet_ticks + 1, ToleranceTicks + 1)
        /\ \/ RestartDue /\ RequestRestart
           \/ /\ ~RestartDue /\ ReporterLoop(stop_signal)
              /\ UNCHANGED <<buffer_vars, restart_requested>>
        /\ UNCHANGED <<node, process, operator_stopped, drain_failed, late>>

\* Mutant: the node is stopped without waiting for the flush loop.
StopNodeEarly == /\ process = "running" /\ node = "online"
                 /\ reporter = "done"
                 /\ node' = "stopping"
                 /\ UNCHANGED <<buffer_vars, reporter_vars, process, operator_stopped,
                                history_vars>>

\* gather() has both results; the finally clause awaits node.stop().
StopNode == /\ process = "running" /\ node = "online"
            /\ flusher = "done" /\ reporter = "done"
            /\ node' = "stopping"
            /\ UNCHANGED <<buffer_vars, reporter_vars, process, operator_stopped,
                           history_vars>>

NodeStopped == /\ process = "running" /\ node = "stopping"
               /\ node' = "stopped"
               /\ process' = IF restart_requested THEN "exit 1" ELSE "exit 0"
               /\ UNCHANGED <<buffer_vars, reporter_vars, operator_stopped, history_vars>>

\* client.stop() raises out of the finally clause.
NodeStopFails == /\ process = "running" /\ node = "stopping"
                 /\ process' = "exit 1"
                 /\ UNCHANGED <<buffer_vars, node, reporter_vars, operator_stopped,
                                history_vars>>
-----------------------------------------------------------------------------
\* docker stop, or an interrupt: SIGTERM or SIGINT sets the signal.
Signal == /\ process = "running"
          /\ Buffer!SetStop
          /\ operator_stopped' = TRUE
          /\ UNCHANGED <<node, reporter_vars, process, history_vars>>

\* SIGKILL after the grace period, the memory limit, or a host failure.
Killed == /\ process = "running"
          /\ process' = "killed"
          /\ UNCHANGED <<buffer_vars, node, reporter_vars, operator_stopped, history_vars>>

\* The next process starts with empty memory.
Boot == /\ process # "running"
        /\ pending_count' = 0 /\ batch_count' = 0
        /\ flusher' = "created" /\ insert' = "idle" /\ stop_signal' = FALSE
        /\ node' = "starting"
        /\ reporter' = "created" /\ heard' = FALSE
        /\ silent_ticks' = 0 /\ restart_requested' = FALSE
        /\ process' = "running" /\ operator_stopped' = FALSE
        /\ quiet_ticks' = 1 /\ drain_failed' = FALSE /\ late' = 0

\* restart: unless-stopped.
SupervisorRestarts == ~operator_stopped /\ Boot

\* A later docker compose up.
OperatorStarts == operator_stopped /\ Boot

Next == \/ Hear \/ LoggedIn \/ StartFails
        \/ FlusherSteps \/ InsertEnds
        \/ ReporterBegins \/ ReporterStopped \/ Tick
        \/ StopNode \/ NodeStopped \/ NodeStopFails
        \/ Signal \/ Killed \/ SupervisorRestarts \/ OperatorStarts

Spec == Init /\ [][Next]_vars

\* The event loop runs ready coroutines, timers fire, an insert and the client's
\* stop end one way or the other, the supervisor restarts what it must.  Nothing
\* makes a login end, a search arrive or a signal come.
Fairness == /\ WF_vars(FlusherSteps) /\ WF_vars(InsertEnds)
            /\ WF_vars(ReporterBegins) /\ WF_vars(ReporterStopped \/ Tick)
            /\ WF_vars(StopNode) /\ WF_vars(NodeStopped \/ NodeStopFails)
            /\ WF_vars(SupervisorRestarts)

FairSpec == Spec /\ Fairness
-----------------------------------------------------------------------------
\* The watchdog never restarts a node that hears searches: when it trips, the
\* last ToleranceTicks intervals between ticks were silent, every one.
RestartNeedsSilence ==
    [][(~restart_requested /\ restart_requested') => quiet_ticks' > ToleranceTicks]_vars

\* Exit code zero says the operator asked for it: a node that stopped because
\* of the silence, or that failed, never exits as if it had been told to.
ExitZeroMeansSignalled == process = "exit 0" => operator_stopped

\* What an orderly exit leaves unwritten, no insert having failed in the drain,
\* arrived after run() had finished, while the client was still connected.
LeftoversArrivedLate ==
    node = "stopped" /\ ~drain_failed => pending_count <= late

\* No silent collector stays up: a process that runs for ever after its login
\* hears searches for ever.  (Silence trips the watchdog, its stop ends both
\* coroutines, and the process exits.)
NoSilentCollector ==
    <>[](process = "running" /\ node # "starting") => []<><<Hear>>_vars
-----------------------------------------------------------------------------
\* buffer.py: "Flush until stopped, then drain what is left."  Unless an insert
\* of the drain failed, an orderly exit leaves no event behind.
StopDrainsEverything == node = "stopped" /\ ~drain_failed => pending_count = 0
=============================================================================
