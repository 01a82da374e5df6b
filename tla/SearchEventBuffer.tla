-------------------------- MODULE SearchEventBuffer --------------------------
(***************************************************************************)
(* SearchEventBuffer (collector/buffer.py) with its events and statistics. *)
(* The n-th event passed to add() is the number n.  As in FlushLoop, whose *)
(* control this module repeats over the real queue, one action is what     *)
(* run() does between two awaits and the parameter q is the queue _pending *)
(* at the place the operator is named for.                                 *)
(*                                                                         *)
(* ClickHouse is external.  A successful insert has stored the batch.  A   *)
(* failed one may have stored any part of it: the answer can be lost after *)
(* the insert, and a batch that spans two partitions is not one unit.      *)
(***************************************************************************)
EXTENDS Naturals, Sequences, FiniteSets, Functions

CONSTANTS BatchSize,              \* batch_size
          MaximumPendingEvents,   \* maximum_pending_events
          MaxReceived,            \* bound: events the network delivers
          MaxFailedFlushes        \* bound: inserts that fail

ASSUME BufferAssumption == /\ BatchSize \in Nat \ {0}
                           /\ MaximumPendingEvents \in Nat \ {0}
                           /\ MaxReceived \in Nat
                           /\ MaxFailedFlushes \in Nat

VARIABLES pending,          \* the deque _pending
          batch,            \* the local of the flush_once() in progress
          flusher,          \* the await run() is suspended at
          insert,           \* the worker thread of asyncio.to_thread
          stop_signal,      \* the asyncio.Event
          received, written, dropped, failed_flushes,   \* BufferStatistics
          stored            \* the events in table search_query_events

vars == <<pending, batch, flusher, insert, stop_signal,
          received, written, dropped, failed_flushes, stored>>

Event == 1..received

Flushing == {"flush_size", "flush_interval", "flush_drain"}

TypeOK == /\ pending \in Seq(Event) /\ Len(pending) <= MaximumPendingEvents
          /\ batch \in Seq(Event) /\ Len(batch) <= BatchSize
          /\ flusher \in {"created", "waiting", "retrying", "done"} \cup Flushing
          /\ insert \in {"idle", "running", "succeeded", "failed"}
          /\ stop_signal \in BOOLEAN
          /\ received \in Nat /\ written \in Nat
          /\ dropped \in Nat /\ failed_flushes \in Nat
          /\ stored \in SUBSET Event

Init == /\ pending = <<>> /\ batch = <<>>
        /\ flusher = "created" /\ insert = "idle" /\ stop_signal = FALSE
        /\ received = 0 /\ written = 0 /\ dropped = 0 /\ failed_flushes = 0
        /\ stored = {}
-----------------------------------------------------------------------------
\* How many events _take_batch removes from the queue q.
BatchLength(q) == IF Len(q) <= BatchSize THEN Len(q) ELSE BatchSize

\* How many events of b _return_batch finds room for in front of the queue q.
Room(q, b) == IF Len(q) + Len(b) <= MaximumPendingEvents
              THEN Len(b) ELSE MaximumPendingEvents - Len(q)

\* Mutant: the batch is walked oldest first when looking for room.
ReturnBatchKeepsOldest(q, b) == SubSeq(b, 1, Room(q, b)) \o q

\* Mutant: the batch is prepended without looking for room.
ReturnBatchUnbounded(q, b) == b \o q

\* _return_batch prepends newest first, so what finds no room is the oldest.
ReturnBatch(q, b) == SubSeq(b, Len(b) - Room(q, b) + 1, Len(b)) \o q

\* add() on the queue q: a full queue loses its oldest event.
Appended(q, e) == Append(IF Len(q) >= MaximumPendingEvents THEN Tail(q) ELSE q, e)

FlushOnce(q, site) == /\ batch' = SubSeq(q, 1, BatchLength(q))
                      /\ pending' = SubSeq(q, BatchLength(q) + 1, Len(q))
                      /\ flusher' = site
                      /\ insert' = "running"

Suspend(q, site) == /\ pending' = q
                    /\ batch' = <<>>
                    /\ flusher' = site
                    /\ insert' = "idle"

Drain(q) == \/ q # <<>> /\ FlushOnce(q, "flush_drain")
            \/ q = <<>> /\ Suspend(q, "done")

\* Mutant: while True, the stop signal only ends the wait.
LoopTopForever(q) == \/ Len(q) >= BatchSize /\ FlushOnce(q, "flush_size")
                     \/ Len(q) < BatchSize /\ Suspend(q, "waiting")

LoopTop(q) == \/ stop_signal /\ Drain(q)
              \/ ~stop_signal /\ Len(q) >= BatchSize /\ FlushOnce(q, "flush_size")
              \/ ~stop_signal /\ Len(q) < BatchSize /\ Suspend(q, "waiting")

\* Mutant: the interval flushes only a whole batch.
AfterWaitWholeBatch(q) == \/ Len(q) >= BatchSize /\ FlushOnce(q, "flush_interval")
                          \/ Len(q) < BatchSize /\ LoopTop(q)

AfterWait(q) == \/ q # <<>> /\ FlushOnce(q, "flush_interval")
                \/ q = <<>> /\ LoopTop(q)

WaitForInterval(q) == \/ stop_signal /\ AfterWait(q)
                      \/ ~stop_signal /\ Suspend(q, "waiting")

\* Mutant: the drain does not give up when a flush fails.
FlushReturnedDrainsOn(q, wrote) ==
    \/ /\ flusher = "flush_size"
       /\ IF wrote THEN LoopTop(q) ELSE WaitForInterval(q)
    \/ /\ flusher = "flush_interval"
       /\ IF wrote \/ q = <<>> THEN LoopTop(q) ELSE Suspend(q, "retrying")
    \/ flusher = "flush_drain" /\ Drain(q)

FlushReturned(q, wrote) ==
    \/ /\ flusher = "flush_size"
       /\ IF wrote THEN LoopTop(q) ELSE WaitForInterval(q)
    \/ /\ flusher = "flush_interval"
       /\ IF wrote \/ q = <<>> THEN LoopTop(q) ELSE Suspend(q, "retrying")
    \/ /\ flusher = "flush_drain"
       /\ IF wrote THEN Drain(q) ELSE Suspend(q, "done")
-----------------------------------------------------------------------------
statistics == <<received, written, dropped, failed_flushes>>

Begin == /\ flusher = "created"
         /\ LoopTop(pending)
         /\ UNCHANGED <<stop_signal, statistics, stored>>

\* Mutant: an event pushed out of the full queue is not counted.
AddUncounted == /\ received < MaxReceived
                /\ received' = received + 1
                /\ pending' = Appended(pending, received + 1)
                /\ UNCHANGED <<batch, flusher, insert, stop_signal,
                               written, dropped, failed_flushes, stored>>

Add == /\ received < MaxReceived
       /\ received' = received + 1
       /\ pending' = Appended(pending, received + 1)
       /\ dropped' = IF Len(pending) >= MaximumPendingEvents
                     THEN dropped + 1 ELSE dropped
       /\ UNCHANGED <<batch, flusher, insert, stop_signal,
                      written, failed_flushes, stored>>

SetStop == /\ stop_signal' = TRUE
           /\ UNCHANGED <<pending, batch, flusher, insert, statistics, stored>>

InsertSucceeds == /\ insert = "running"
                  /\ insert' = "succeeded"
                  /\ stored' = stored \cup Range(batch)
                  /\ UNCHANGED <<pending, batch, flusher, stop_signal, statistics>>

InsertFails == /\ insert = "running"
               /\ failed_flushes < MaxFailedFlushes
               /\ insert' = "failed"
               /\ \E part \in SUBSET Range(batch) : stored' = stored \cup part
               /\ UNCHANGED <<pending, batch, flusher, stop_signal, statistics>>

FlushSucceeded == /\ insert = "succeeded"
                  /\ written' = written + Len(batch)
                  /\ FlushReturned(pending, TRUE)
                  /\ UNCHANGED <<stop_signal, received, dropped, failed_flushes, stored>>

\* Mutant: the events of a failed batch that find no room are not counted.
FlushFailedUncounted == /\ insert = "failed"
                        /\ failed_flushes' = failed_flushes + 1
                        /\ FlushReturned(ReturnBatch(pending, batch), FALSE)
                        /\ UNCHANGED <<stop_signal, received, written, dropped, stored>>

FlushFailed == /\ insert = "failed"
               /\ failed_flushes' = failed_flushes + 1
               /\ dropped' = dropped + Len(batch) - Room(pending, batch)
               /\ FlushReturned(ReturnBatch(pending, batch), FALSE)
               /\ UNCHANGED <<stop_signal, received, written, stored>>

WaitEnds == /\ flusher = "waiting"
            /\ AfterWait(pending)
            /\ UNCHANGED <<stop_signal, statistics, stored>>

RetryDelayEnds == /\ flusher = "retrying"
                  /\ LoopTop(pending)
                  /\ UNCHANGED <<stop_signal, statistics, stored>>

Insert == InsertSucceeds \/ InsertFails

Next == \/ Begin \/ WaitEnds \/ RetryDelayEnds \/ FlushSucceeded \/ FlushFailed
        \/ Insert \/ Add \/ SetStop

Spec == Init /\ [][Next]_vars

\* The event loop runs what is ready, timers fire, and ClickHouse answers or
\* the driver's timeout does.  Nothing makes a search arrive or a signal come.
Fairness == /\ WF_vars(Begin) /\ WF_vars(WaitEnds) /\ WF_vars(RetryDelayEnds)
            /\ WF_vars(FlushSucceeded) /\ WF_vars(FlushFailed)
            /\ WF_vars(Insert)

FairSpec == Spec /\ Fairness
-----------------------------------------------------------------------------
\* The events no longer held by the buffer nor known to the database.
Lost == Event \ (stored \cup Range(pending) \cup Range(batch))

\* Every event given to add() is in exactly one place: written, dropped, queued
\* or in the batch of the flush in progress.  This is what makes the statistics
\* line of the collector add up, whatever add() does while an insert is awaited.
Conservation == received = written + dropped + Len(pending) + Len(batch)

\* "The oldest are dropped": the queue is always the newest events received, in
\* order and without a gap, even after a failed batch is put back in front of
\* the events that arrived while its insert was awaited.
PendingIsNewest ==
    \A k \in DOMAIN pending : pending[k] = received - Len(pending) + k

\* "Dropped and counted": no event disappears without being counted in dropped.
\* (More may be counted than lost: a batch that failed after it was stored.)
LossIsCounted == Cardinality(Lost) <= dropped

\* No event waits for ever: once the outage ends each queued event is written,
\* dropped or, after run() has given up, left behind.
EveryEventSettles ==
    \A e \in 1..MaxReceived :
        (e \in Range(pending)) ~>
            (e \notin Range(pending) \cup Range(batch) \/ flusher = "done")

\* A stop is noticed from every await of run(), also from the retry delay and
\* from a flush that fails, and run() ends once events cease to arrive.
StopEndsRun == stop_signal ~> (flusher = "done")

\* The abstraction used by the Collector module: only the lengths matter to the
\* control flow of run().
Control == INSTANCE FlushLoop WITH pending_count <- Len(pending),
                                   batch_count <- Len(batch)

\* Every step of the buffer is a step of FlushLoop, or leaves it alone.
ImplementsFlushLoop == Control!Spec
=============================================================================
