------------------------------ MODULE FlushLoop ------------------------------
(***************************************************************************)
(* The control of SearchEventBuffer (collector/buffer.py) with the events  *)
(* abstracted to how many there are: the coroutine run(), the flush_once() *)
(* it awaits, the insert that flush_once() hands to a worker thread, and   *)
(* the two callbacks of the event loop that interleave with it, add() and  *)
(* stop_signal.set().                                                      *)
(*                                                                         *)
(* asyncio runs the code between two awaits without interruption, so one   *)
(* action is everything run() does from the await it resumes at to the     *)
(* next one.  The operators below are named for the place in run() that is *)
(* reached; their parameter n is the length of _pending on arrival there.  *)
(* No counter grows, so arrivals are unbounded here.  The module           *)
(* SearchEventBuffer keeps the events themselves and implements this one.  *)
(***************************************************************************)
EXTENDS Naturals

\* Both are positive; the modules that instantiate this one assume it.
CONSTANTS BatchSize,             \* events per insert
          MaximumPendingEvents   \* bound of the queue _pending

VARIABLES pending_count,   \* len(_pending)
          batch_count,     \* len(batch) of the flush_once() in progress
          flusher,         \* the await run() is suspended at
          insert,          \* the worker thread of asyncio.to_thread
          stop_signal      \* the asyncio.Event

vars == <<pending_count, batch_count, flusher, insert, stop_signal>>

\* The three flush_once() calls of run().
Flushing == {"flush_size", "flush_interval", "flush_drain"}

TypeOK == /\ pending_count \in 0..MaximumPendingEvents
          /\ batch_count \in 0..BatchSize
          /\ flusher \in {"created", "waiting", "retrying", "done"} \cup Flushing
          /\ insert \in {"idle", "running", "succeeded", "failed"}
          /\ stop_signal \in BOOLEAN

Init == /\ pending_count = 0
        /\ batch_count = 0
        /\ flusher = "created"
        /\ insert = "idle"
        /\ stop_signal = FALSE
-----------------------------------------------------------------------------
\* How many events _take_batch removes from a queue of n.
BatchOf(n) == IF n <= BatchSize THEN n ELSE BatchSize

\* How long a queue of n is once _return_batch has put b events back.
Returned(n, b) == IF n + b <= MaximumPendingEvents THEN n + b ELSE MaximumPendingEvents

\* await flush_once(): take a batch and wait for its insert.
FlushOnce(n, site) == /\ batch_count' = BatchOf(n)
                      /\ pending_count' = n - BatchOf(n)
                      /\ flusher' = site
                      /\ insert' = "running"

\* Any other await, and the end of run().
Suspend(n, site) == /\ pending_count' = n
                    /\ batch_count' = 0
                    /\ flusher' = site
                    /\ insert' = "idle"

Drain(n) == \/ n > 0 /\ FlushOnce(n, "flush_drain")
            \/ n = 0 /\ Suspend(n, "done")

LoopTop(n) == \/ stop_signal /\ Drain(n)
              \/ ~stop_signal /\ n >= BatchSize /\ FlushOnce(n, "flush_size")
              \/ ~stop_signal /\ n < BatchSize /\ Suspend(n, "waiting")

AfterWait(n) == \/ n > 0 /\ FlushOnce(n, "flush_interval")
                \/ n = 0 /\ LoopTop(n)

\* wait_for(stop_signal.wait()) returns at once when the signal is set.
WaitForInterval(n) == \/ stop_signal /\ AfterWait(n)
                      \/ ~stop_signal /\ Suspend(n, "waiting")

\* Where run() goes when flush_once() returns; wrote says it returned more than 0.
FlushReturned(n, wrote) ==
    \/ /\ flusher = "flush_size"
       /\ IF wrote THEN LoopTop(n) ELSE WaitForInterval(n)
    \/ /\ flusher = "flush_interval"
       /\ IF wrote \/ n = 0 THEN LoopTop(n) ELSE Suspend(n, "retrying")
    \/ /\ flusher = "flush_drain"
       /\ IF wrote THEN Drain(n) ELSE Suspend(n, "done")
-----------------------------------------------------------------------------
\* run() is scheduled for the first time.
Begin == /\ flusher = "created"
         /\ LoopTop(pending_count)
         /\ UNCHANGED stop_signal

\* add(): a full queue loses its oldest event to the new one.
Add == /\ pending_count' = IF pending_count >= MaximumPendingEvents
                           THEN pending_count ELSE pending_count + 1
       /\ UNCHANGED <<batch_count, flusher, insert, stop_signal>>

\* stop_signal.set(), by a signal handler or by the watchdog.
SetStop == /\ stop_signal' = TRUE
           /\ UNCHANGED <<pending_count, batch_count, flusher, insert>>

\* The database answers, or does not, in the worker thread.
InsertEnds == /\ insert = "running"
              /\ insert' \in {"succeeded", "failed"}
              /\ UNCHANGED <<pending_count, batch_count, flusher, stop_signal>>

\* flush_once() resumes on the event loop and run() goes on.
InsertReturns == /\ \/ insert = "succeeded" /\ FlushReturned(pending_count, TRUE)
                    \/ /\ insert = "failed"
                       /\ FlushReturned(Returned(pending_count, batch_count), FALSE)
                 /\ UNCHANGED stop_signal

\* The flush interval elapses or the stop signal arrives.
WaitEnds == /\ flusher = "waiting"
            /\ AfterWait(pending_count)
            /\ UNCHANGED stop_signal

\* asyncio.sleep(RETRY_DELAY_SECONDS) ends; a stop does not cut it short.
RetryDelayEnds == /\ flusher = "retrying"
                  /\ LoopTop(pending_count)
                  /\ UNCHANGED stop_signal

\* The steps of run() itself.
Flush == Begin \/ InsertReturns \/ WaitEnds \/ RetryDelayEnds

Next == Flush \/ InsertEnds \/ Add \/ SetStop

Spec == Init /\ [][Next]_vars
=============================================================================
