----------------------- MODULE SearchEventBufferProofs -----------------------
(***************************************************************************)
(* Theorems of SearchEventBuffer, for every batch size, queue bound and    *)
(* number of arrivals and failures.                                        *)
(*                                                                         *)
(* Whatever place of run() a step reaches, it leaves the queue q it found  *)
(* there in one of two ways: a batch is taken off its front, or it is left *)
(* alone.  Moved says so; the lemma RunMoves shows it once for all of the  *)
(* control flow, and the invariants are proved of Moved.                   *)
(***************************************************************************)
EXTENDS SearchEventBuffer, FiniteSetTheorems, SequenceTheorems, TLAPS

\* The effect of run() on a queue q, wherever it suspends next.
Moved(q) == \/ \E site \in Flushing : q # <<>> /\ FlushOnce(q, site)
            \/ \E site \in {"waiting", "retrying", "done"} : Suspend(q, site)

\* A batch exists exactly while run() awaits its insert.
BatchInFlight == \/ flusher \in Flushing /\ insert # "idle" /\ batch # <<>>
                 \/ flusher \notin Flushing /\ insert = "idle" /\ batch = <<>>

\* The batch in flight is a run of events without a gap, and the queue follows
\* it without a gap unless the queue has been full since it was taken.
BatchPlaced ==
    /\ \A k \in DOMAIN batch : batch[k] = batch[Len(batch)] - Len(batch) + k
    /\ batch # <<>> => \/ batch[Len(batch)] = received - Len(pending)
                       \/ Len(pending) = MaximumPendingEvents

\* PendingIsNewest is not inductive alone: a failed batch is put back in front
\* of the queue, so what is known of the batch must be part of the invariant.
IInv == TypeOK /\ BatchInFlight /\ Conservation /\ PendingIsNewest /\ BatchPlaced
-----------------------------------------------------------------------------
(* The operators on queues.                                                  *)

\* _take_batch takes at least one event of a queue that has any, and at most
\* batch_size of them.
LEMMA BatchLengthBounds ==
    ASSUME NEW S, NEW q \in Seq(S)
    PROVE  /\ BatchLength(q) \in 0..Len(q)
           /\ BatchLength(q) <= BatchSize
           /\ q # <<>> => BatchLength(q) >= 1
BY BufferAssumption, LenProperties, EmptySeq DEF BatchLength

\* The batch and the rest are the two parts of the queue, in order.
LEMMA TakeBatch ==
    ASSUME NEW S, NEW q \in Seq(S), NEW n \in 0..Len(q)
    PROVE  /\ SubSeq(q, 1, n) \in Seq(S)
           /\ Len(SubSeq(q, 1, n)) = n
           /\ \A k \in 1..n : SubSeq(q, 1, n)[k] = q[k]
           /\ SubSeq(q, n + 1, Len(q)) \in Seq(S)
           /\ Len(SubSeq(q, n + 1, Len(q))) = Len(q) - n
           /\ \A k \in 1..(Len(q) - n) : SubSeq(q, n + 1, Len(q))[k] = q[n + k]
<1>1. Len(q) \in Nat /\ \A k \in 1..Len(q) : q[k] \in S
  BY LenProperties, ElementOfSeq
<1>2. /\ SubSeq(q, 1, n) \in Seq(S)
      /\ Len(SubSeq(q, 1, n)) = IF 1 <= n THEN n - 1 + 1 ELSE 0
      /\ \A k \in 1..(n - 1 + 1) : SubSeq(q, 1, n)[k] = q[1 + k - 1]
  <2>1. \A k \in 1..n : q[k] \in S
    BY <1>1
  <2>2. QED  BY <2>1, <1>1, SubSeqProperties
<1>3. /\ SubSeq(q, n + 1, Len(q)) \in Seq(S)
      /\ Len(SubSeq(q, n + 1, Len(q))) =
            IF n + 1 <= Len(q) THEN Len(q) - (n + 1) + 1 ELSE 0
      /\ \A k \in 1..(Len(q) - (n + 1) + 1) :
            SubSeq(q, n + 1, Len(q))[k] = q[(n + 1) + k - 1]
  <2>1. \A k \in (n + 1)..Len(q) : q[k] \in S
    BY <1>1
  <2>2. n + 1 \in Int /\ Len(q) \in Int
    BY <1>1
  <2>3. QED  BY <2>1, <2>2, SubSeqProperties
<1>4. QED  BY <1>1, <1>2, <1>3

\* _return_batch never fills the queue beyond its bound; what it keeps of the
\* batch are its last Room(q, b) events, in front of the queue.
LEMMA ReturnBatchProperties ==
    ASSUME NEW S, NEW q \in Seq(S), NEW b \in Seq(S),
           Len(q) <= MaximumPendingEvents
    PROVE  /\ Room(q, b) \in 0..Len(b)
           /\ ReturnBatch(q, b) \in Seq(S)
           /\ Len(ReturnBatch(q, b)) = Room(q, b) + Len(q)
           /\ Len(ReturnBatch(q, b)) <= MaximumPendingEvents
           /\ \A k \in 1..(Room(q, b) + Len(q)) :
                 ReturnBatch(q, b)[k] = IF k <= Room(q, b)
                                        THEN b[Len(b) - Room(q, b) + k]
                                        ELSE q[k - Room(q, b)]
<1> DEFINE r == Room(q, b)
           kept == SubSeq(b, Len(b) - r + 1, Len(b))
<1>1. Len(q) \in Nat /\ Len(b) \in Nat /\ MaximumPendingEvents \in Nat
  BY LenProperties, BufferAssumption
<1>2. r \in 0..Len(b) /\ r + Len(q) <= MaximumPendingEvents
  BY <1>1 DEF Room
<1>3. /\ kept \in Seq(S)
      /\ Len(kept) = r
      /\ \A k \in 1..r : kept[k] = b[Len(b) - r + k]
  <2>1. Len(b) - r \in 0..Len(b)
    BY <1>1, <1>2
  <2>2. /\ SubSeq(b, (Len(b) - r) + 1, Len(b)) \in Seq(S)
        /\ Len(SubSeq(b, (Len(b) - r) + 1, Len(b))) = Len(b) - (Len(b) - r)
        /\ \A k \in 1..(Len(b) - (Len(b) - r)) :
              SubSeq(b, (Len(b) - r) + 1, Len(b))[k] = b[(Len(b) - r) + k]
    BY <2>1, TakeBatch
  <2>3. Len(b) - (Len(b) - r) = r
    BY <1>1, <1>2
  <2>4. QED  BY <2>2, <2>3
<1>4. /\ kept \o q \in Seq(S)
      /\ Len(kept \o q) = Len(kept) + Len(q)
      /\ \A k \in 1..(Len(kept) + Len(q)) :
            (kept \o q)[k] = IF k <= Len(kept) THEN kept[k] ELSE q[k - Len(kept)]
  BY <1>3, ConcatProperties
<1>5. ReturnBatch(q, b) = kept \o q
  BY DEF ReturnBatch
<1> HIDE DEF r, kept
<1>6. QED  
  <2>1. /\ ReturnBatch(q, b) \in Seq(S)
        /\ Len(ReturnBatch(q, b)) = r + Len(q)
        /\ \A k \in 1..(r + Len(q)) :
              ReturnBatch(q, b)[k] = IF k <= r THEN b[Len(b) - r + k] ELSE q[k - r]
    <3>1. SUFFICES ASSUME NEW k \in 1..(r + Len(q))
                   PROVE  (kept \o q)[k] = IF k <= r THEN b[Len(b) - r + k] ELSE q[k - r]
      BY <1>3, <1>4, <1>5
    <3>2. (kept \o q)[k] = IF k <= r THEN kept[k] ELSE q[k - r]
      BY <1>3, <1>4
    <3>3. k <= r => k \in 1..r
      BY <1>1, <1>2
    <3>4. QED  BY <1>3, <3>2, <3>3
  <2>2. QED  BY <1>1, <1>2, <2>1 DEF r

\* add() keeps the bound, and appends to the queue without its head when full.
LEMMA AppendedProperties ==
    ASSUME NEW S, NEW q \in Seq(S), NEW e \in S, Len(q) <= MaximumPendingEvents
    PROVE  /\ Appended(q, e) \in Seq(S)
           /\ Len(q) < MaximumPendingEvents =>
                 /\ Len(Appended(q, e)) = Len(q) + 1
                 /\ \A k \in 1..Len(q) : Appended(q, e)[k] = q[k]
           /\ Len(q) >= MaximumPendingEvents =>
                 /\ Len(Appended(q, e)) = Len(q)
                 /\ \A k \in 1..(Len(q) - 1) : Appended(q, e)[k] = q[k + 1]
           /\ Appended(q, e)[Len(Appended(q, e))] = e
<1>1. Len(q) \in Nat /\ MaximumPendingEvents \in Nat \ {0}
  BY LenProperties, BufferAssumption
<1>2. CASE Len(q) < MaximumPendingEvents
  <2>1. Appended(q, e) = Append(q, e)
    BY <1>1, <1>2 DEF Appended
  <2>2. QED  BY <1>1, <1>2, <2>1, AppendProperties
<1>3. CASE Len(q) >= MaximumPendingEvents
  <2>1. Appended(q, e) = Append(Tail(q), e)
    BY <1>1, <1>3 DEF Appended
  <2>2. q # <<>>
    BY <1>1, <1>3, EmptySeq
  <2>3. /\ Tail(q) \in Seq(S) /\ Len(Tail(q)) = Len(q) - 1
        /\ \A k \in 1..Len(Tail(q)) : Tail(q)[k] = q[k + 1]
    BY <2>2, HeadTailProperties
  <2>4. /\ Append(Tail(q), e) \in Seq(S)
        /\ Len(Append(Tail(q), e)) = Len(Tail(q)) + 1
        /\ \A k \in 1..Len(Tail(q)) : Append(Tail(q), e)[k] = Tail(q)[k]
        /\ Append(Tail(q), e)[Len(Tail(q)) + 1] = e
    BY <2>3, AppendProperties
  <2>5. Len(Tail(q)) + 1 = Len(q)
    BY <1>1, <2>3
  <2>6. \A k \in 1..(Len(q) - 1) : Append(Tail(q), e)[k] = q[k + 1]
    BY <2>3, <2>4
  <2>7. ~(Len(q) < MaximumPendingEvents)
    BY <1>1, <1>3
  <2>8. QED  BY <2>1, <2>4, <2>5, <2>6, <2>7
<1>4. QED  BY <1>1, <1>2, <1>3
-----------------------------------------------------------------------------
(* The control flow of run().                                                *)

\* The drain moves the queue as every place in run() does: into a batch, or nowhere.
LEMMA DrainMoves == ASSUME NEW q, Drain(q) PROVE Moved(q)
BY Zenon DEF Drain, Moved, Flushing

\* So does the head of the while loop, whichever of its branches is taken.
LEMMA LoopTopMoves == ASSUME NEW S, NEW q \in Seq(S), LoopTop(q) PROVE Moved(q)
<1>1. CASE stop_signal /\ Drain(q)
  BY <1>1, DrainMoves
<1>2. CASE ~stop_signal /\ Len(q) >= BatchSize /\ FlushOnce(q, "flush_size")
  <2>1. q # <<>>
    BY <1>2, BufferAssumption, EmptySeq
  <2>2. QED  BY <1>2, <2>1, Zenon DEF Moved, Flushing
<1>3. CASE ~stop_signal /\ Len(q) < BatchSize /\ Suspend(q, "waiting")
  BY <1>3, Zenon DEF Moved
<1>4. QED  BY <1>1, <1>2, <1>3, Zenon DEF LoopTop

\* So does run() after its wait.
LEMMA AfterWaitMoves == ASSUME NEW S, NEW q \in Seq(S), AfterWait(q) PROVE Moved(q)
<1>1. CASE q # <<>> /\ FlushOnce(q, "flush_interval")
  BY <1>1, Zenon DEF Moved, Flushing
<1>2. CASE q = <<>> /\ LoopTop(q)
  BY <1>2, LoopTopMoves
<1>3. QED  BY <1>1, <1>2, Zenon DEF AfterWait

\* So does run() when flush_once() returns, at each of its three call sites.
LEMMA FlushReturnedMoves ==
    ASSUME NEW S, NEW q \in Seq(S), NEW wrote \in BOOLEAN, FlushReturned(q, wrote)
    PROVE  Moved(q)
<1>1. CASE LoopTop(q)
  BY <1>1, LoopTopMoves
<1>2. CASE WaitForInterval(q)
  <2>1. CASE stop_signal /\ AfterWait(q)
    BY <2>1, AfterWaitMoves
  <2>2. CASE ~stop_signal /\ Suspend(q, "waiting")
    BY <2>2, Zenon DEF Moved
  <2>3. QED  BY <1>2, <2>1, <2>2, Zenon DEF WaitForInterval
<1>3. CASE Drain(q)
  BY <1>3, DrainMoves
<1>4. CASE Suspend(q, "retrying")
  BY <1>4, Zenon DEF Moved
<1>5. CASE Suspend(q, "done")
  BY <1>5, Zenon DEF Moved
<1>6. QED  BY <1>1, <1>2, <1>3, <1>4, <1>5, Zenon DEF FlushReturned

\* The steps of run(), each with the queue that it moves and the statistics it
\* leaves behind.
RunStep == \/ /\ flusher \in {"created", "waiting", "retrying"}
              /\ Moved(pending)
              /\ UNCHANGED <<stop_signal, statistics, stored>>
           \/ /\ insert = "succeeded"
              /\ Moved(pending)
              /\ written' = written + Len(batch)
              /\ UNCHANGED <<stop_signal, received, dropped, failed_flushes, stored>>
           \/ /\ insert = "failed"
              /\ Moved(ReturnBatch(pending, batch))
              /\ dropped' = dropped + Len(batch) - Room(pending, batch)
              /\ failed_flushes' = failed_flushes + 1
              /\ UNCHANGED <<stop_signal, received, written, stored>>

\* A step of run() moves the queue that it finds, after a success the same queue and
\* after a failure the queue with the batch put back, and accounts for the batch.
LEMMA RunMoves ==
    ASSUME TypeOK, Begin \/ WaitEnds \/ RetryDelayEnds \/ FlushSucceeded \/ FlushFailed
    PROVE  RunStep
<1>1. /\ pending \in Seq(Event) /\ batch \in Seq(Event)
      /\ Len(pending) <= MaximumPendingEvents
  BY DEF TypeOK
<1>2. CASE Begin
  BY <1>1, <1>2, LoopTopMoves, Zenon DEF Begin, RunStep
<1>3. CASE WaitEnds
  BY <1>1, <1>3, AfterWaitMoves, Zenon DEF WaitEnds, RunStep
<1>4. CASE RetryDelayEnds
  BY <1>1, <1>4, LoopTopMoves, Zenon DEF RetryDelayEnds, RunStep
<1>5. CASE FlushSucceeded
  <2>1. Moved(pending)
    BY <1>1, <1>5, FlushReturnedMoves DEF FlushSucceeded
  <2>2. QED  BY <1>5, <2>1, Zenon DEF FlushSucceeded, RunStep
<1>6. CASE FlushFailed
  <2>1. ReturnBatch(pending, batch) \in Seq(Event)
    BY <1>1, ReturnBatchProperties
  <2>2. Moved(ReturnBatch(pending, batch))
    BY <1>6, <2>1, FlushReturnedMoves DEF FlushFailed
  <2>3. QED  BY <1>6, <2>2, Zenon DEF FlushFailed, RunStep
<1>7. QED  BY <1>2, <1>3, <1>4, <1>5, <1>6
-----------------------------------------------------------------------------
(* What Moved(q) leaves behind.                                              *)

\* Moving a queue loses none of its events: queue and batch are as long as it was.
LEMMA MovedLengths ==
    ASSUME NEW q \in Seq(Event), Len(q) <= MaximumPendingEvents, Moved(q)
    PROVE  /\ pending' \in Seq(Event) /\ Len(pending') <= MaximumPendingEvents
           /\ batch' \in Seq(Event) /\ Len(batch') <= BatchSize
           /\ flusher' \in {"created", "waiting", "retrying", "done"} \cup Flushing
           /\ insert' \in {"idle", "running"}
           /\ BatchInFlight'
           /\ Len(pending') + Len(batch') = Len(q)
<1>1. Len(q) \in Nat /\ BatchSize \in Nat /\ MaximumPendingEvents \in Nat
  BY LenProperties, BufferAssumption
<1>2. ASSUME NEW site \in Flushing, q # <<>>, FlushOnce(q, site)
      PROVE  /\ pending' \in Seq(Event) /\ Len(pending') <= MaximumPendingEvents
             /\ batch' \in Seq(Event) /\ Len(batch') <= BatchSize
             /\ flusher' \in {"created", "waiting", "retrying", "done"} \cup Flushing
             /\ insert' \in {"idle", "running"}
             /\ BatchInFlight'
             /\ Len(pending') + Len(batch') = Len(q)
  <2> DEFINE n == BatchLength(q)
  <2>1. n \in 0..Len(q) /\ n <= BatchSize /\ n >= 1
    BY <1>2, BatchLengthBounds
  <2>2. /\ pending' = SubSeq(q, n + 1, Len(q))
        /\ batch' = SubSeq(q, 1, n)
        /\ flusher' = site /\ insert' = "running"
    BY <1>2 DEF FlushOnce
  <2> HIDE DEF n
  <2>3. /\ pending' \in Seq(Event) /\ Len(pending') = Len(q) - n
        /\ batch' \in Seq(Event) /\ Len(batch') = n
    BY <2>1, <2>2, TakeBatch
  <2>4. batch' # <<>>
    BY <2>1, <2>3, EmptySeq
  <2>5. BatchInFlight'
    BY <2>2, <2>4 DEF BatchInFlight
  <2>6. QED  BY <1>1, <2>1, <2>2, <2>3, <2>5
<1>3. ASSUME NEW site \in {"waiting", "retrying", "done"}, Suspend(q, site)
      PROVE  /\ pending' \in Seq(Event) /\ Len(pending') <= MaximumPendingEvents
             /\ batch' \in Seq(Event) /\ Len(batch') <= BatchSize
             /\ flusher' \in {"created", "waiting", "retrying", "done"} \cup Flushing
             /\ insert' \in {"idle", "running"}
             /\ BatchInFlight'
             /\ Len(pending') + Len(batch') = Len(q)
  <2>1. pending' = q /\ batch' = <<>> /\ flusher' = site /\ insert' = "idle"
    BY <1>3 DEF Suspend
  <2>2. <<>> \in Seq(Event) /\ Len(<<>>) = 0
    BY EmptySeq
  <2>3. BatchInFlight'
    BY <2>1 DEF BatchInFlight, Flushing
  <2>4. Len(batch') = 0 /\ batch' \in Seq(Event)
    BY <2>1, <2>2
  <2>5. QED  BY <1>1, <2>1, <2>3, <2>4
<1>4. QED  BY <1>2, <1>3, Zenon DEF Moved

\* A queue of the newest events is cut into a batch and a queue that follow
\* each other without a gap.
LEMMA MovedPlaces ==
    ASSUME NEW q \in Seq(Event), Moved(q), received \in Nat, received' = received,
           \A k \in 1..Len(q) : q[k] = received - Len(q) + k
    PROVE  PendingIsNewest' /\ BatchPlaced'
<1>1. Len(q) \in Nat
  BY LenProperties
<1>2. ASSUME NEW site \in Flushing, q # <<>>, FlushOnce(q, site)
      PROVE  PendingIsNewest' /\ BatchPlaced'
  <2> DEFINE n == BatchLength(q)
  <2>1. n \in 0..Len(q) /\ n >= 1
    BY <1>2, BatchLengthBounds
  <2>2. pending' = SubSeq(q, n + 1, Len(q)) /\ batch' = SubSeq(q, 1, n)
    BY <1>2 DEF FlushOnce
  <2> HIDE DEF n
  <2>3. /\ pending' \in Seq(Event) /\ Len(pending') = Len(q) - n
        /\ \A k \in 1..(Len(q) - n) : pending'[k] = q[n + k]
        /\ batch' \in Seq(Event) /\ Len(batch') = n
        /\ \A k \in 1..n : batch'[k] = q[k]
    BY <2>1, <2>2, TakeBatch
  <2>4. DOMAIN pending' = 1..(Len(q) - n) /\ DOMAIN batch' = 1..n
    BY <2>3, LenProperties
  <2>5. ASSUME NEW k \in 1..(Len(q) - n)
        PROVE  pending'[k] = received - (Len(q) - n) + k
    <3>1. n + k \in 1..Len(q) /\ pending'[k] = q[n + k]
      BY <1>1, <2>1, <2>3
    <3>2. q[n + k] = received - Len(q) + (n + k)
      BY <3>1
    <3>3. QED  BY <1>1, <2>1, <3>1, <3>2
  <2>6. ASSUME NEW k \in 1..n
        PROVE  batch'[k] = received - Len(q) + k
    <3>1. k \in 1..Len(q) /\ batch'[k] = q[k]
      BY <1>1, <2>1, <2>3
    <3>2. QED  BY <3>1
  <2>7. batch'[n] = received - Len(q) + n
    BY <1>1, <2>1, <2>6
  <2>8. PendingIsNewest'
    BY <2>3, <2>4, <2>5 DEF PendingIsNewest
  <2>9. ASSUME NEW k \in 1..n
        PROVE  batch'[k] = batch'[n] - n + k
    BY <1>1, <2>1, <2>6, <2>7
  <2>10. batch'[n] = received - (Len(q) - n)
    BY <1>1, <2>1, <2>7
  <2>11. BatchPlaced'
    BY <2>3, <2>4, <2>9, <2>10 DEF BatchPlaced
  <2>12. QED  BY <2>8, <2>11
<1>3. ASSUME NEW site \in {"waiting", "retrying", "done"}, Suspend(q, site)
      PROVE  PendingIsNewest' /\ BatchPlaced'
  <2>1. pending' = q /\ batch' = <<>>
    BY <1>3 DEF Suspend
  <2>2. DOMAIN q = 1..Len(q)
    BY LenProperties
  <2>3. PendingIsNewest'
    BY <2>1, <2>2 DEF PendingIsNewest
  <2>4. BatchPlaced'
    BY <2>1 DEF BatchPlaced
  <2>5. QED  BY <2>3, <2>4
<1>4. QED  BY <1>2, <1>3, Zenon DEF Moved
-----------------------------------------------------------------------------
(* The invariant.                                                            *)

\* A failed batch is put back so that the queue is again the newest events.
LEMMA ReturnedIsNewest ==
    ASSUME IInv, insert # "idle",
           NEW q, q = ReturnBatch(pending, batch)
    PROVE  \A k \in 1..Len(q) : q[k] = received - Len(q) + k
<1> DEFINE r == Room(pending, batch)
<1>1. /\ pending \in Seq(Event) /\ batch \in Seq(Event)
      /\ Len(pending) <= MaximumPendingEvents /\ received \in Nat
      /\ batch # <<>>
  BY DEF IInv, TypeOK, BatchInFlight
<1>2. /\ Len(pending) \in Nat /\ DOMAIN pending = 1..Len(pending)
      /\ Len(batch) \in Nat \ {0} /\ DOMAIN batch = 1..Len(batch)
      /\ MaximumPendingEvents \in Nat
  BY <1>1, LenProperties, EmptySeq, BufferAssumption
<1>3. /\ r \in 0..Len(batch) /\ Len(q) = r + Len(pending)
      /\ \A k \in 1..(r + Len(pending)) :
            q[k] = IF k <= r THEN batch[Len(batch) - r + k] ELSE pending[k - r]
  BY <1>1, ReturnBatchProperties
<1>4. ASSUME Len(pending) = MaximumPendingEvents
      PROVE  r = 0
  <2>1. ~(Len(pending) + Len(batch) <= MaximumPendingEvents)
    BY <1>2, <1>4
  <2>2. MaximumPendingEvents - Len(pending) = 0
    BY <1>2, <1>4
  <2>3. QED  BY <2>1, <2>2 DEF Room
<1> HIDE DEF r
<1>5. SUFFICES ASSUME NEW k \in 1..(r + Len(pending))
               PROVE  q[k] = received - (r + Len(pending)) + k
  BY <1>3
<1>6. CASE k <= r
  <2>1. batch[Len(batch)] = received - Len(pending)
    <3>1. r # 0
      BY <1>2, <1>3, <1>6
    <3>2. Len(pending) # MaximumPendingEvents
      BY <1>4, <3>1
    <3>3. QED  BY <1>1, <3>2 DEF IInv, BatchPlaced
  <2>2. Len(batch) - r + k \in 1..Len(batch)
    BY <1>2, <1>3, <1>6
  <2>3. batch[Len(batch) - r + k]
          = batch[Len(batch)] - Len(batch) + (Len(batch) - r + k)
    BY <1>2, <2>2 DEF IInv, BatchPlaced
  <2>4. QED  BY <1>1, <1>2, <1>3, <1>6, <2>1, <2>3
<1>7. CASE ~(k <= r)
  <2>1. k - r \in 1..Len(pending)
    BY <1>2, <1>3, <1>7
  <2>2. pending[k - r] = received - Len(pending) + (k - r)
    BY <1>2, <2>1 DEF IInv, PendingIsNewest
  <2>3. QED  BY <1>1, <1>2, <1>3, <1>7, <2>2
<1>8. QED  BY <1>6, <1>7

\* An empty buffer satisfies the inductive invariant.
LEMMA InitEstablishes == Init => IInv
<1> SUFFICES ASSUME Init PROVE IInv
  OBVIOUS
<1> USE DEF Init
<1>1. <<>> \in Seq(Event) /\ Len(<<>>) = 0
  BY EmptySeq
<1>2. TypeOK
  <2>1. Len(pending) <= MaximumPendingEvents /\ Len(batch) <= BatchSize
    BY <1>1, BufferAssumption
  <2>2. pending \in Seq(Event) /\ batch \in Seq(Event) /\ stored \in SUBSET Event
    BY <1>1
  <2>3. QED  BY <2>1, <2>2 DEF TypeOK
<1>3. BatchInFlight /\ Conservation
  BY <1>1 DEF BatchInFlight, Conservation, Flushing
<1>4. PendingIsNewest /\ BatchPlaced
  BY <1>1 DEF PendingIsNewest, BatchPlaced
<1>5. QED  BY <1>2, <1>3, <1>4 DEF IInv

LEMMA SumRegrouped ==
    ASSUME NEW w \in Nat, NEW d \in Nat, NEW p \in Nat, NEW b \in Nat
    PROVE  w + d + (p + b) = w + d + p + b
OBVIOUS

\* What returns to the queue and what is dropped make up the batch.
LEMMA ReturnedBalance ==
    ASSUME NEW w \in Nat, NEW d \in Nat, NEW p \in Nat, NEW b \in Nat, NEW r \in 0..b
    PROVE  w + d + p + b = w + (d + b - r) + (r + p)
OBVIOUS

\* No step of run() breaks it: neither a batch taken, written, or put back.
LEMMA RunPreserves == ASSUME IInv, RunStep PROVE IInv'
<1>1. /\ pending \in Seq(Event) /\ Len(pending) <= MaximumPendingEvents
      /\ batch \in Seq(Event)
      /\ stop_signal \in BOOLEAN /\ stored \in SUBSET Event
      /\ received \in Nat /\ written \in Nat /\ dropped \in Nat
      /\ failed_flushes \in Nat
      /\ received = written + dropped + Len(pending) + Len(batch)
  BY DEF IInv, TypeOK, Conservation
<1>2. /\ Len(pending) \in Nat /\ DOMAIN pending = 1..Len(pending)
      /\ Len(batch) \in Nat
  BY <1>1, LenProperties
<1>3. received' = received /\ Event' = Event
  BY DEF RunStep, statistics, Event
<1>4. \A k \in 1..Len(pending) : pending[k] = received - Len(pending) + k
  BY <1>2 DEF IInv, PendingIsNewest
<1>5. ASSUME NEW q \in Seq(Event), Len(q) <= MaximumPendingEvents, Moved(q),
             \A k \in 1..Len(q) : q[k] = received - Len(q) + k,
             stop_signal' \in BOOLEAN, stored' \in SUBSET Event,
             written' \in Nat, dropped' \in Nat, failed_flushes' \in Nat,
             received = written' + dropped' + Len(q)
      PROVE  IInv'
  <2>1. /\ pending' \in Seq(Event) /\ Len(pending') <= MaximumPendingEvents
        /\ batch' \in Seq(Event) /\ Len(batch') <= BatchSize
        /\ flusher' \in {"created", "waiting", "retrying", "done"} \cup Flushing
        /\ insert' \in {"idle", "running"}
        /\ BatchInFlight'
        /\ Len(pending') + Len(batch') = Len(q)
    BY <1>5, MovedLengths
  <2>2. TypeOK'
    BY <1>1, <1>3, <1>5, <2>1 DEF TypeOK
  <2>3. Len(pending') \in Nat /\ Len(batch') \in Nat /\ Len(q) \in Nat
    BY <1>5, <2>1, LenProperties
  <2>4. Conservation'
    <3>1. received' = written' + dropped' + Len(q)
      BY <1>3, <1>5
    <3>2. written' \in Nat /\ dropped' \in Nat
      BY <1>5
    <3>3. written' + dropped' + (Len(pending') + Len(batch'))
             = written' + dropped' + Len(pending') + Len(batch')
      BY ONLY <2>3, <3>2, SumRegrouped
    <3>4. Len(q) = Len(pending') + Len(batch')
      BY <2>1
    <3>5. received' = written' + dropped' + Len(pending') + Len(batch')
      BY ONLY <3>1, <3>3, <3>4
    <3>6. QED  BY <3>5 DEF Conservation
  <2>5. PendingIsNewest' /\ BatchPlaced'
    BY <1>1, <1>3, <1>5, MovedPlaces
  <2>6. QED  BY <2>1, <2>2, <2>4, <2>5 DEF IInv
<1>6. CASE /\ flusher \in {"created", "waiting", "retrying"}
           /\ Moved(pending)
           /\ UNCHANGED <<stop_signal, statistics, stored>>
  <2>1. Len(batch) = 0
    BY <1>6, EmptySeq DEF IInv, BatchInFlight, Flushing
  <2>2. QED  BY <1>1, <1>2, <1>4, <1>5, <1>6, <2>1 DEF statistics
<1>7. CASE /\ insert = "succeeded"
           /\ Moved(pending)
           /\ written' = written + Len(batch)
           /\ UNCHANGED <<stop_signal, received, dropped, failed_flushes, stored>>
  BY <1>1, <1>2, <1>4, <1>5, <1>7
<1>8. CASE /\ insert = "failed"
           /\ Moved(ReturnBatch(pending, batch))
           /\ dropped' = dropped + Len(batch) - Room(pending, batch)
           /\ failed_flushes' = failed_flushes + 1
           /\ UNCHANGED <<stop_signal, received, written, stored>>
  <2> DEFINE q == ReturnBatch(pending, batch)
  <2>1. /\ Room(pending, batch) \in 0..Len(batch)
        /\ q \in Seq(Event)
        /\ Len(q) = Room(pending, batch) + Len(pending)
        /\ Len(q) <= MaximumPendingEvents
    BY <1>1, ReturnBatchProperties
  <2>2. \A k \in 1..Len(q) : q[k] = received - Len(q) + k
    BY <1>8, ReturnedIsNewest
  <2>3. dropped' \in Nat /\ received = written' + dropped' + Len(q)
    <3>1. /\ written' = written /\ dropped' = dropped + Len(batch) - Room(pending, batch)
          /\ Len(q) = Room(pending, batch) + Len(pending)
      BY <1>8, <2>1
    <3>2. /\ written \in Nat /\ dropped \in Nat /\ received \in Nat
          /\ Len(batch) \in Nat /\ Len(pending) \in Nat
          /\ Room(pending, batch) \in 0..Len(batch)
      BY <1>1, <1>2, <2>1
    <3>3. received = written + dropped + Len(pending) + Len(batch)
      BY <1>1, <1>2
    <3> HIDE DEF q
    <3>4. /\ Len(batch) - Room(pending, batch) \in Nat
          /\ dropped' = dropped + (Len(batch) - Room(pending, batch))
      BY <3>1, <3>2
    <3>5. received = written + (dropped + Len(batch) - Room(pending, batch))
                             + (Room(pending, batch) + Len(pending))
      BY <3>2, <3>3, ReturnedBalance
    <3>6. dropped' \in Nat
      BY <3>2, <3>4
    <3>7. QED  BY ONLY <3>1, <3>5, <3>6
  <2>4. failed_flushes' \in Nat /\ Moved(q)
    BY <1>1, <1>8
  <2> HIDE DEF q
  <2>5. QED  BY <1>1, <1>5, <1>8, <2>1, <2>2, <2>3, <2>4
<1>9. QED  BY <1>6, <1>7, <1>8 DEF RunStep

\* Nor does an event that arrives at any await, into a full queue or not.
LEMMA AddPreserves == ASSUME IInv, Add PROVE IInv'
<1>1. /\ pending \in Seq(Event) /\ Len(pending) <= MaximumPendingEvents
      /\ batch \in Seq(Event) /\ Len(batch) <= BatchSize
      /\ stored \in SUBSET Event
      /\ received \in Nat /\ written \in Nat /\ dropped \in Nat
  BY DEF IInv, TypeOK
<1>2. /\ received' = received + 1
      /\ pending' = Appended(pending, received + 1)
      /\ dropped' = IF Len(pending) >= MaximumPendingEvents
                    THEN dropped + 1 ELSE dropped
      /\ UNCHANGED <<batch, flusher, insert, stop_signal,
                     written, failed_flushes, stored>>
  BY DEF Add
<1>3. Event \subseteq Event' /\ received + 1 \in Event'
  BY <1>1, <1>2 DEF Event
<1>4. /\ pending \in Seq(Event') /\ batch \in Seq(Event')
      /\ Len(pending) \in Nat /\ Len(batch) \in Nat
      /\ MaximumPendingEvents \in Nat
      /\ DOMAIN pending = 1..Len(pending) /\ DOMAIN batch = 1..Len(batch)
  BY <1>1, <1>3, SeqMonotonic, LenProperties, BufferAssumption
<1>5. /\ pending' \in Seq(Event')
      /\ Len(pending) < MaximumPendingEvents =>
            /\ Len(pending') = Len(pending) + 1
            /\ \A k \in 1..Len(pending) : pending'[k] = pending[k]
      /\ Len(pending) >= MaximumPendingEvents =>
            /\ Len(pending') = Len(pending)
            /\ \A k \in 1..(Len(pending) - 1) : pending'[k] = pending[k + 1]
      /\ pending'[Len(pending')] = received + 1
  <2> DEFINE a == Appended(pending, received + 1)
         T == 1..(received + 1)
  <2> HIDE DEF T
  <2>0. Event' = T
    BY <1>2 DEF Event, T
  <2>1. /\ a \in Seq(T)
        /\ Len(pending) < MaximumPendingEvents =>
              /\ Len(a) = Len(pending) + 1
              /\ \A k \in 1..Len(pending) : a[k] = pending[k]
        /\ Len(pending) >= MaximumPendingEvents =>
              /\ Len(a) = Len(pending)
              /\ \A k \in 1..(Len(pending) - 1) : a[k] = pending[k + 1]
        /\ a[Len(a)] = received + 1
    <3>1. pending \in Seq(T) /\ received + 1 \in T
      BY <1>3, <1>4, <2>0
    <3>2. Len(pending) <= MaximumPendingEvents
      BY <1>1
    <3>3. QED  BY ONLY <3>1, <3>2, AppendedProperties
  <2>2. pending' = a
    BY <1>2
  <2> HIDE DEF a
  <2>3. QED  BY <2>0, <2>1, <2>2
<1>6. DOMAIN pending' = 1..Len(pending') /\ Len(pending') <= MaximumPendingEvents
  BY <1>1, <1>4, <1>5, LenProperties
<1>7. TypeOK'
  BY <1>1, <1>2, <1>3, <1>4, <1>5, <1>6 DEF IInv, TypeOK
<1>8. BatchInFlight'
  BY <1>2 DEF IInv, BatchInFlight
<1>9. Conservation'
  BY <1>1, <1>2, <1>4, <1>5 DEF IInv, Conservation
<1>10. ASSUME NEW k \in 1..Len(pending')
       PROVE  pending'[k] = received' - Len(pending') + k
  <2>1. \A j \in 1..Len(pending) : pending[j] = received - Len(pending) + j
    BY <1>4 DEF IInv, PendingIsNewest
  <2>2. CASE k = Len(pending')
    BY <1>1, <1>2, <1>4, <1>5, <2>2
  <2>3. CASE k # Len(pending') /\ Len(pending) < MaximumPendingEvents
    <3>1. k \in 1..Len(pending) /\ pending'[k] = pending[k]
      <4>1. Len(pending') = Len(pending) + 1
        BY <1>5, <2>3
      <4>2. k \in 1..Len(pending)
        BY <1>4, <2>3, <4>1
      <4>3. QED  BY <1>5, <2>3, <4>2
    <3>2. QED  BY <1>1, <1>2, <1>4, <1>5, <2>1, <2>3, <3>1
  <2>4. CASE k # Len(pending') /\ Len(pending) >= MaximumPendingEvents
    <3>1. k + 1 \in 1..Len(pending) /\ pending'[k] = pending[k + 1]
      BY <1>4, <1>5, <2>4
    <3>2. QED  BY <1>1, <1>2, <1>4, <1>5, <2>1, <2>4, <3>1
  <2>5. QED  BY <1>4, <2>2, <2>3, <2>4
<1>11. PendingIsNewest'
  BY <1>6, <1>10 DEF PendingIsNewest
<1>12. BatchPlaced'
  <2>1. Len(pending') = MaximumPendingEvents
        \/ received' - Len(pending') = received - Len(pending)
    <3>1. CASE Len(pending) < MaximumPendingEvents
      <4>1. Len(pending') = Len(pending) + 1 /\ received' = received + 1
        BY <1>2, <1>5, <3>1
      <4>2. QED  BY <1>1, <1>4, <4>1
    <3>2. CASE Len(pending) >= MaximumPendingEvents
      <4>1. Len(pending') = Len(pending)
        BY <1>5, <3>2
      <4>2. Len(pending) = MaximumPendingEvents
        <5>1. /\ Len(pending) \in Nat /\ MaximumPendingEvents \in Nat
              /\ Len(pending) <= MaximumPendingEvents
          BY <1>1, <1>4
        <5>2. QED  BY ONLY <3>2, <5>1
      <4>3. QED  BY <4>1, <4>2
    <3>3. QED  BY <1>4, <3>1, <3>2
  <2>2. Len(pending) = MaximumPendingEvents => Len(pending') = MaximumPendingEvents
    BY <1>4, <1>5
  <2>3. batch' = batch
    BY <1>2
  <2>4. QED  BY <2>1, <2>2, <2>3 DEF IInv, BatchPlaced
<1>13. QED  BY <1>7, <1>8, <1>9, <1>11, <1>12 DEF IInv

\* Nor does the worker thread, which touches the database only.
LEMMA InsertPreserves == ASSUME IInv, Insert PROVE IInv'
<1>1. /\ insert = "running" /\ insert' \in {"succeeded", "failed"}
      /\ UNCHANGED <<pending, batch, flusher, stop_signal, statistics>>
      /\ stored' \subseteq stored \cup Range(batch)
  BY Zenon DEF Insert, InsertSucceeds, InsertFails
<1>2. Range(batch) \subseteq Event
  <2>1. batch \in Seq(Event)
    BY DEF IInv, TypeOK
  <2>2. QED  BY <2>1, LenProperties, ElementOfSeq DEF Range
<1>3. Event' = Event
  BY <1>1 DEF statistics, Event
<1>4. TypeOK'
  BY <1>1, <1>2, <1>3 DEF IInv, TypeOK, statistics
<1>5. BatchInFlight'
  BY <1>1 DEF IInv, BatchInFlight
<1>6. Conservation' /\ PendingIsNewest' /\ BatchPlaced'
  BY <1>1 DEF IInv, Conservation, PendingIsNewest, BatchPlaced, statistics
<1>7. QED  BY <1>4, <1>5, <1>6 DEF IInv

\* Nor does the stop signal.
LEMMA SetStopPreserves == ASSUME IInv, SetStop PROVE IInv'
<1>1. /\ stop_signal' = TRUE
      /\ UNCHANGED <<pending, batch, flusher, insert, statistics, stored>>
  BY DEF SetStop
<1>2. Event' = Event
  BY <1>1 DEF statistics, Event
<1>3. TypeOK'
  BY <1>1, <1>2 DEF IInv, TypeOK, statistics
<1>4. BatchInFlight' /\ Conservation' /\ PendingIsNewest' /\ BatchPlaced'
  BY <1>1 DEF IInv, BatchInFlight, Conservation, PendingIsNewest, BatchPlaced, statistics
<1>5. QED  BY <1>3, <1>4 DEF IInv

\* Nor does a step that leaves the buffer alone.
LEMMA StutterPreserves == ASSUME IInv, UNCHANGED vars PROVE IInv'
<1>1. Event' = Event
  BY DEF vars, Event
<1>2. TypeOK'
  BY <1>1 DEF IInv, TypeOK, vars
<1>3. BatchInFlight' /\ Conservation' /\ PendingIsNewest' /\ BatchPlaced'
  BY DEF IInv, BatchInFlight, Conservation, PendingIsNewest, BatchPlaced, vars
<1>4. QED  BY <1>2, <1>3 DEF IInv

\* The invariant holds whatever add() and the stop signal do while an insert is
\* awaited, and however many inserts fail.
THEOREM InvariantHolds == Spec => []IInv
<1>1. Init => IInv
  BY InitEstablishes
<1>2. IInv /\ [Next]_vars => IInv'
  <2> SUFFICES ASSUME IInv, [Next]_vars PROVE IInv'
    OBVIOUS
  <2>1. CASE Begin \/ WaitEnds \/ RetryDelayEnds \/ FlushSucceeded \/ FlushFailed
    <3>1. TypeOK
      BY DEF IInv
    <3>2. QED  BY <2>1, <3>1, RunMoves, RunPreserves
  <2>2. CASE Insert
    BY <2>2, InsertPreserves
  <2>3. CASE Add
    BY <2>3, AddPreserves
  <2>4. CASE SetStop
    BY <2>4, SetStopPreserves
  <2>5. CASE UNCHANGED vars
    BY <2>5, StutterPreserves
  <2>6. QED  BY <2>1, <2>2, <2>3, <2>4, <2>5 DEF Next
<1>3. QED  BY <1>1, <1>2, PTL DEF Spec

\* Every variable keeps its type; the queue never outgrows its bound.
THEOREM TypeCorrect == Spec => []TypeOK
<1>1. IInv => TypeOK
  BY DEF IInv
<1>2. QED  BY <1>1, InvariantHolds, PTL

\* The collector's statistics always add up: every event received is written,
\* dropped, queued or in the batch in flight.
THEOREM EventsAreConserved == Spec => []Conservation
<1>1. IInv => Conservation
  BY DEF IInv
<1>2. QED  BY <1>1, InvariantHolds, PTL

\* The queue is always the newest events received, without a gap: whatever was
\* dropped is older than everything that is kept.
THEOREM QueueIsNewest == Spec => []PendingIsNewest
<1>1. IInv => PendingIsNewest
  BY DEF IInv
<1>2. QED  BY <1>1, InvariantHolds, PTL
-----------------------------------------------------------------------------
(* No event is lost without being counted.                                   *)

\* A batch whose insert has succeeded is in the database before run() hears of it.
SuccessIsStored == insert = "succeeded" => Range(batch) \subseteq stored

LossInv == IInv /\ SuccessIsStored /\ LossIsCounted
-----------------------------------------------------------------------------
\* A step that loses the events C, and counts as many, keeps the account.
LEMMA CountedLoss ==
    ASSUME TypeOK, LossIsCounted, TypeOK',
           NEW C, IsFiniteSet(C), Lost' \subseteq Lost \cup C,
           dropped' >= dropped + Cardinality(C)
    PROVE  LossIsCounted'
<1> DEFINE after == Lost'
<1>1. received \in Nat /\ dropped \in Nat /\ dropped' \in Nat
  BY DEF TypeOK
<1>2. IsFiniteSet(Event)
  BY <1>1, FS_Interval DEF Event
<1>3. Lost \in SUBSET Event
  BY DEF Lost
<1>4. IsFiniteSet(Lost)
  BY <1>2, <1>3, FS_Subset
<1>5. Cardinality(Lost) \in Nat /\ Cardinality(C) \in Nat
  BY <1>4, FS_CardinalityType
<1>6. /\ IsFiniteSet(Lost \cup C)
      /\ Cardinality(Lost \cup C) <= Cardinality(Lost) + Cardinality(C)
  <2>1. /\ IsFiniteSet(Lost \cup C)
        /\ Cardinality(Lost \cup C)
              = Cardinality(Lost) + Cardinality(C) - Cardinality(Lost \cap C)
    BY <1>4, FS_Union
  <2>2. Lost \cap C \in SUBSET Lost
    OBVIOUS
  <2>3. IsFiniteSet(Lost \cap C)
    BY <1>4, <2>2, FS_Subset
  <2>4. Cardinality(Lost \cap C) \in Nat
    BY <2>3, FS_CardinalityType
  <2>5. QED  BY <1>5, <2>1, <2>4
<1>7. after \in SUBSET (Lost \cup C)
  OBVIOUS
<1> HIDE DEF after
<1>8. Cardinality(after) <= Cardinality(Lost \cup C) /\ Cardinality(after) \in Nat
  BY <1>6, <1>7, FS_Subset, FS_CardinalityType
<1>9. Cardinality(Lost) <= dropped /\ Cardinality(Lost \cup C) \in Nat
  BY <1>6, FS_CardinalityType DEF LossIsCounted
<1>10. Cardinality(after) <= dropped'
  BY <1>1, <1>5, <1>6, <1>8, <1>9
<1>11. QED  BY <1>10 DEF LossIsCounted, after

\* A step that loses nothing keeps it too.
LEMMA NothingLost ==
    ASSUME TypeOK, LossIsCounted, TypeOK', Lost' \subseteq Lost, dropped' >= dropped
    PROVE  LossIsCounted'
<1>1. IsFiniteSet({}) /\ Cardinality({}) = 0
  BY FS_EmptySet
<1>2. dropped \in Nat /\ dropped' \in Nat
  BY DEF TypeOK
<1>3. Lost' \subseteq Lost \cup {} /\ dropped' >= dropped + Cardinality({})
  BY <1>1, <1>2
<1>4. QED  BY <1>1, <1>3, CountedLoss

\* The first m elements of a sequence are at most m.
LEMMA FewerThanPlaces ==
    ASSUME NEW f, NEW m \in Nat
    PROVE  /\ IsFiniteSet({f[k] : k \in 1..m})
           /\ Cardinality({f[k] : k \in 1..m}) <= m
<1> DEFINE T == {f[k] : k \in 1..m}
           g == [k \in 1..m |-> f[k]]
<1>1. g \in Surjection(1..m, T)
  BY DEF Surjection
<1>2. IsFiniteSet(1..m) /\ Cardinality(1..m) = m
  <2>1. /\ IsFiniteSet(1..m)
        /\ Cardinality(1..m) = IF 1 > m THEN 0 ELSE m - 1 + 1
    BY FS_Interval
  <2>2. QED  BY <2>1
<1> HIDE DEF T, g
<1>3. IsFiniteSet(T) /\ Cardinality(T) <= Cardinality(1..m)
  BY <1>1, <1>2, FS_Surjection
<1>4. QED  BY <1>2, <1>3 DEF T

\* Moving a queue keeps all of its events, in the queue or in the batch.
LEMMA MovedKeepsEvents ==
    ASSUME NEW q \in Seq(Event), Moved(q)
    PROVE  Range(q) \subseteq Range(pending') \cup Range(batch')
<1>1. Len(q) \in Nat /\ DOMAIN q = 1..Len(q)
  BY LenProperties
<1>2. ASSUME NEW site \in Flushing, q # <<>>, FlushOnce(q, site)
      PROVE  Range(q) \subseteq Range(pending') \cup Range(batch')
  <2> DEFINE n == BatchLength(q)
  <2>1. n \in 0..Len(q)
    BY BatchLengthBounds
  <2>2. pending' = SubSeq(q, n + 1, Len(q)) /\ batch' = SubSeq(q, 1, n)
    BY <1>2 DEF FlushOnce
  <2> HIDE DEF n
  <2>3. /\ pending' \in Seq(Event) /\ Len(pending') = Len(q) - n
        /\ \A k \in 1..(Len(q) - n) : pending'[k] = q[n + k]
        /\ batch' \in Seq(Event) /\ Len(batch') = n
        /\ \A k \in 1..n : batch'[k] = q[k]
    BY <2>1, <2>2, TakeBatch
  <2>4. DOMAIN pending' = 1..(Len(q) - n) /\ DOMAIN batch' = 1..n
    BY <2>3, LenProperties
  <2>5. ASSUME NEW k \in 1..Len(q)
        PROVE  q[k] \in Range(pending') \cup Range(batch')
    <3>1. CASE k <= n
      <4>1. k \in DOMAIN batch' /\ batch'[k] = q[k]
        BY <2>1, <2>3, <2>4, <3>1
      <4>2. QED  BY <4>1 DEF Range
    <3>2. CASE ~(k <= n)
      <4>1. k - n \in 1..(Len(q) - n) /\ n + (k - n) = k
        BY <1>1, <2>1, <3>2
      <4>2. k - n \in DOMAIN pending' /\ pending'[k - n] = q[k]
        BY <2>3, <2>4, <4>1
      <4>3. QED  BY <4>2 DEF Range
    <3>3. QED  BY <3>1, <3>2
  <2>6. QED  BY <1>1, <2>5 DEF Range
<1>3. ASSUME NEW site \in {"waiting", "retrying", "done"}, Suspend(q, site)
      PROVE  Range(q) \subseteq Range(pending') \cup Range(batch')
  <2>1. pending' = q
    BY <1>3 DEF Suspend
  <2>2. QED  BY <2>1
<1>4. QED  BY <1>2, <1>3, Zenon DEF Moved

\* What _return_batch does not put back are the first events of the batch, and it
\* puts back as many as there is room for.
LEMMA ReturnBatchKeepsEvents ==
    ASSUME TypeOK
    PROVE  Range(pending) \cup Range(batch)
              \subseteq Range(ReturnBatch(pending, batch))
                        \cup {batch[k] : k \in 1..(Len(batch) - Room(pending, batch))}
<1> DEFINE q == ReturnBatch(pending, batch)
           r == Room(pending, batch)
<1>1. /\ pending \in Seq(Event) /\ batch \in Seq(Event)
      /\ Len(pending) <= MaximumPendingEvents
  BY DEF TypeOK
<1>2. /\ Len(pending) \in Nat /\ DOMAIN pending = 1..Len(pending)
      /\ Len(batch) \in Nat /\ DOMAIN batch = 1..Len(batch)
  BY <1>1, LenProperties
<1>3. /\ r \in 0..Len(batch) /\ q \in Seq(Event) /\ Len(q) = r + Len(pending)
      /\ \A k \in 1..(r + Len(pending)) :
            q[k] = IF k <= r THEN batch[Len(batch) - r + k] ELSE pending[k - r]
  BY <1>1, ReturnBatchProperties
<1>4. DOMAIN q = 1..(r + Len(pending))
  BY <1>3, LenProperties
<1> HIDE DEF q, r
<1>5. ASSUME NEW k \in 1..Len(pending) PROVE pending[k] \in Range(q)
  <2>1. r + k \in 1..(r + Len(pending)) /\ ~(r + k <= r) /\ (r + k) - r = k
    BY <1>2, <1>3
  <2>2. q[r + k] = pending[k]
    BY <1>3, <2>1
  <2>3. QED  BY <1>4, <2>1, <2>2 DEF Range
<1>6. ASSUME NEW k \in 1..Len(batch)
      PROVE  batch[k] \in Range(q) \cup {batch[j] : j \in 1..(Len(batch) - r)}
  <2>1. CASE k <= Len(batch) - r
    <3>1. k \in 1..(Len(batch) - r)
      BY <1>2, <1>3, <2>1
    <3>2. QED  BY <3>1
  <2>2. CASE ~(k <= Len(batch) - r)
    <3> DEFINE j == k - (Len(batch) - r)
    <3>1. j \in 1..(r + Len(pending)) /\ j <= r /\ Len(batch) - r + j = k
      BY <1>2, <1>3, <2>2
    <3> HIDE DEF j
    <3>2. q[j] = batch[k]
      BY <1>3, <3>1
    <3>3. QED  BY <1>4, <3>1, <3>2 DEF Range
  <2>3. QED  BY <2>1, <2>2
<1>7. QED  BY <1>2, <1>5, <1>6 DEF Range, q, r
-----------------------------------------------------------------------------
\* A step of run() loses at most what it does not put back, and counts that.
LEMMA RunCounts == ASSUME LossInv, RunStep, IInv' PROVE LossInv'
<1>1. TypeOK /\ TypeOK' /\ LossIsCounted /\ BatchInFlight
  BY DEF LossInv, IInv
<1>2. /\ pending \in Seq(Event) /\ batch \in Seq(Event)
      /\ Len(pending) <= MaximumPendingEvents
      /\ dropped \in Nat /\ dropped' \in Nat /\ Len(batch) \in Nat
  BY <1>1, LenProperties DEF TypeOK
<1>3. /\ Event' = Event /\ stored' = stored
      /\ Lost = Event \ (stored \cup Range(pending) \cup Range(batch))
      /\ Lost' = Event \ (stored \cup Range(pending') \cup Range(batch'))
  BY DEF RunStep, statistics, Event, Lost
<1>4. ASSUME NEW q \in Seq(Event), Len(q) <= MaximumPendingEvents, Moved(q)
      PROVE  SuccessIsStored' /\ Range(q) \subseteq Range(pending') \cup Range(batch')
  <2>1. insert' \in {"idle", "running"}
    BY <1>4, MovedLengths
  <2>2. QED  BY <1>4, <2>1, MovedKeepsEvents DEF SuccessIsStored
<1>5. CASE /\ flusher \in {"created", "waiting", "retrying"}
           /\ Moved(pending)
           /\ UNCHANGED <<stop_signal, statistics, stored>>
  <2>1. batch = <<>>
    BY <1>1, <1>5 DEF BatchInFlight, Flushing
  <2>2. Range(batch) = {}
    BY <2>1 DEF Range
  <2>3. SuccessIsStored' /\ Lost' \subseteq Lost
    BY <1>2, <1>3, <1>4, <1>5, <2>2
  <2>4. dropped' >= dropped
    BY <1>2, <1>5 DEF statistics
  <2>5. QED  BY <1>1, <2>3, <2>4, NothingLost DEF LossInv
<1>6. CASE /\ insert = "succeeded"
           /\ Moved(pending)
           /\ written' = written + Len(batch)
           /\ UNCHANGED <<stop_signal, received, dropped, failed_flushes, stored>>
  <2>1. Range(batch) \subseteq stored
    BY <1>6 DEF LossInv, SuccessIsStored
  <2>2. SuccessIsStored' /\ Lost' \subseteq Lost
    BY <1>2, <1>3, <1>4, <1>6, <2>1
  <2>3. dropped' >= dropped
    BY <1>2, <1>6
  <2>4. QED  BY <1>1, <2>2, <2>3, NothingLost DEF LossInv
<1>7. CASE /\ insert = "failed"
           /\ Moved(ReturnBatch(pending, batch))
           /\ dropped' = dropped + Len(batch) - Room(pending, batch)
           /\ failed_flushes' = failed_flushes + 1
           /\ UNCHANGED <<stop_signal, received, written, stored>>
  <2> DEFINE q == ReturnBatch(pending, batch)
             m == Len(batch) - Room(pending, batch)
             C == {batch[k] : k \in 1..m}
  <2>1. /\ Room(pending, batch) \in 0..Len(batch) /\ q \in Seq(Event)
        /\ Len(q) <= MaximumPendingEvents
    BY <1>2, ReturnBatchProperties
  <2>2. m \in Nat
    BY <1>2, <2>1
  <2>3. Range(pending) \cup Range(batch) \subseteq Range(q) \cup C
    BY <1>1, ReturnBatchKeepsEvents
  <2>4. SuccessIsStored' /\ Range(q) \subseteq Range(pending') \cup Range(batch')
    BY <1>4, <1>7, <2>1
  <2>5. dropped' = dropped + m
    BY <1>2, <1>7, <2>1
  <2> HIDE DEF m, q
  <2>6. IsFiniteSet(C) /\ Cardinality(C) <= m
    BY <2>2, FewerThanPlaces
  <2>7. Cardinality(C) \in Nat
    BY <2>6, FS_CardinalityType
  <2> HIDE DEF C
  <2>8. dropped' >= dropped + Cardinality(C)
    BY <1>2, <2>2, <2>5, <2>6, <2>7
  <2>9. Lost' \subseteq Lost \cup C
    BY <1>3, <2>3, <2>4
  <2>10. LossIsCounted'
    BY <1>1, <2>6, <2>8, <2>9, CountedLoss
  <2>11. QED  BY <2>4, <2>10 DEF LossInv
<1>8. QED  BY <1>5, <1>6, <1>7 DEF RunStep

\* A full queue loses its head to a new event, and counts it.
LEMMA AddCounts == ASSUME LossInv, Add, IInv' PROVE LossInv'
<1>1. TypeOK /\ TypeOK' /\ LossIsCounted
  BY DEF LossInv, IInv
<1>2. /\ received' = received + 1
      /\ pending' = Appended(pending, received + 1)
      /\ dropped' = IF Len(pending) >= MaximumPendingEvents
                    THEN dropped + 1 ELSE dropped
      /\ UNCHANGED <<batch, flusher, insert, stop_signal,
                     written, failed_flushes, stored>>
  BY DEF Add
<1>3. /\ received \in Nat /\ dropped \in Nat
      /\ Len(pending) <= MaximumPendingEvents /\ pending \in Seq(Event)
  BY <1>1 DEF TypeOK
<1> DEFINE T == 1..(received + 1)
<1>4. Event' = T /\ Event' = Event \cup {received + 1}
  BY <1>2, <1>3 DEF Event
<1>5. pending \in Seq(T) /\ received + 1 \in T
  <2>1. Event \subseteq T /\ received + 1 \in T
    BY <1>3 DEF Event
  <2>2. QED  BY <1>3, <2>1, SeqMonotonic
<1> HIDE DEF T
<1>6. /\ Len(pending) \in Nat /\ MaximumPendingEvents \in Nat \ {0}
      /\ DOMAIN pending = 1..Len(pending)
  BY <1>3, LenProperties, BufferAssumption
<1>7. /\ pending' \in Seq(T)
      /\ Len(pending) < MaximumPendingEvents =>
            /\ Len(pending') = Len(pending) + 1
            /\ \A k \in 1..Len(pending) : pending'[k] = pending[k]
      /\ Len(pending) >= MaximumPendingEvents =>
            /\ Len(pending') = Len(pending)
            /\ \A k \in 1..(Len(pending) - 1) : pending'[k] = pending[k + 1]
      /\ pending'[Len(pending')] = received + 1
  <2> DEFINE a == Appended(pending, received + 1)
  <2>1. /\ a \in Seq(T)
        /\ Len(pending) < MaximumPendingEvents =>
              /\ Len(a) = Len(pending) + 1
              /\ \A k \in 1..Len(pending) : a[k] = pending[k]
        /\ Len(pending) >= MaximumPendingEvents =>
              /\ Len(a) = Len(pending)
              /\ \A k \in 1..(Len(pending) - 1) : a[k] = pending[k + 1]
        /\ a[Len(a)] = received + 1
    <3>1. Len(pending) <= MaximumPendingEvents
      BY <1>3
    <3>2. QED  BY ONLY <1>5, <3>1, AppendedProperties
  <2>2. pending' = a
    BY <1>2
  <2> HIDE DEF a
  <2>3. QED  BY <2>1, <2>2
<1>8. Len(pending') \in Nat /\ DOMAIN pending' = 1..Len(pending')
  BY <1>7, LenProperties
<1>9. received + 1 \in Range(pending')
  <2>1. Len(pending') \in 1..Len(pending')
    <3>1. \/ Len(pending') = Len(pending) + 1
          \/ Len(pending') = Len(pending) /\ Len(pending) >= 1
      <4>1. Len(pending) < MaximumPendingEvents \/ Len(pending) >= MaximumPendingEvents
        BY <1>6
      <4>2. Len(pending) >= MaximumPendingEvents => Len(pending) >= 1
        BY <1>6
      <4>3. QED  BY <1>7, <4>1, <4>2
    <3> DEFINE l == Len(pending')
    <3>2. l \in Nat /\ Len(pending) \in Nat
      BY <1>6, <1>8
    <3>3. l = Len(pending) + 1 \/ (l = Len(pending) /\ Len(pending) >= 1)
      BY <3>1
    <3> HIDE DEF l
    <3>4. l \in 1..l
      BY <3>2, <3>3
    <3>5. QED  BY <3>4 DEF l
  <2>2. QED  BY <1>7, <1>8, <2>1 DEF Range
<1>10. /\ Lost = Event \ (stored \cup Range(pending) \cup Range(batch))
       /\ Lost' = Event' \ (stored \cup Range(pending') \cup Range(batch))
  BY <1>2 DEF Lost
<1>11. ASSUME Len(pending) < MaximumPendingEvents PROVE LossIsCounted'
  <2>1. ASSUME NEW k \in 1..Len(pending) PROVE pending[k] \in Range(pending')
    <3>1. k \in DOMAIN pending' /\ pending'[k] = pending[k]
      <4>1. Len(pending') = Len(pending) + 1 /\ pending'[k] = pending[k]
        BY <1>7, <1>11
      <4>2. QED  BY <1>6, <1>8, <4>1
    <3>2. QED  BY <3>1 DEF Range
  <2>2. Range(pending) \subseteq Range(pending')
    BY <1>6, <2>1 DEF Range
  <2>3. Lost' \subseteq Lost
    BY <1>4, <1>9, <1>10, <2>2
  <2>4. dropped' >= dropped
    BY <1>2, <1>3, <1>6, <1>11
  <2>5. QED  BY <1>1, <2>3, <2>4, NothingLost
<1>12. ASSUME Len(pending) >= MaximumPendingEvents PROVE LossIsCounted'
  <2>1. ASSUME NEW k \in 1..Len(pending) PROVE pending[k] \in Range(pending') \cup {pending[1]}
    <3>1. CASE k = 1
      BY <3>1
    <3>2. CASE k # 1
      <4>1. k - 1 \in 1..(Len(pending) - 1) /\ (k - 1) + 1 = k
        BY <1>6, <3>2
      <4>2. k - 1 \in DOMAIN pending' /\ pending'[k - 1] = pending[k]
        <5>1. /\ Len(pending') = Len(pending)
              /\ \A j \in 1..(Len(pending) - 1) : pending'[j] = pending[j + 1]
          BY <1>7, <1>12
        <5>2. pending'[k - 1] = pending[k]
          BY <4>1, <5>1
        <5>3. k - 1 \in 1..Len(pending)
          BY <1>6, <4>1
        <5>4. QED  BY <1>8, <5>1, <5>2, <5>3
      <4>3. QED  BY <4>2 DEF Range
    <3>3. QED  BY <3>1, <3>2
  <2>2. Range(pending) \subseteq Range(pending') \cup {pending[1]}
    BY <1>6, <2>1 DEF Range
  <2>3. Lost' \subseteq Lost \cup {pending[1]}
    BY <1>4, <1>9, <1>10, <2>2
  <2>4. IsFiniteSet({pending[1]}) /\ Cardinality({pending[1]}) = 1
    BY FS_Singleton
  <2>5. dropped' >= dropped + Cardinality({pending[1]})
    BY <1>2, <1>3, <1>12, <2>4
  <2>6. QED  BY <1>1, <2>3, <2>4, <2>5, CountedLoss
<1>13. LossIsCounted'
  BY <1>6, <1>11, <1>12
<1>14. SuccessIsStored'
  BY <1>2 DEF LossInv, SuccessIsStored
<1>15. QED  BY <1>13, <1>14 DEF LossInv

\* The worker thread only adds to the database, the whole batch if it succeeds.
LEMMA InsertCounts == ASSUME LossInv, Insert, IInv' PROVE LossInv'
<1>1. TypeOK /\ TypeOK' /\ LossIsCounted
  BY DEF LossInv, IInv
<1>2. /\ pending' = pending /\ batch' = batch
      /\ received' = received /\ dropped' = dropped
      /\ stored \subseteq stored'
      /\ insert' = "succeeded" => Range(batch) \subseteq stored'
  BY Zenon DEF Insert, InsertSucceeds, InsertFails, statistics
<1>3. Lost' \subseteq Lost
  BY <1>2 DEF Lost, Event
<1>4. dropped' >= dropped
  BY <1>1, <1>2 DEF TypeOK
<1>5. LossIsCounted'
  BY <1>1, <1>3, <1>4, NothingLost
<1>6. SuccessIsStored'
  BY <1>2 DEF SuccessIsStored
<1>7. QED  BY <1>5, <1>6 DEF LossInv

\* The stop signal and a step that leaves the buffer alone lose nothing.
LEMMA RestCounts == ASSUME LossInv, SetStop \/ UNCHANGED vars, IInv' PROVE LossInv'
<1>1. /\ pending' = pending /\ batch' = batch /\ insert' = insert /\ stored' = stored
      /\ received' = received /\ dropped' = dropped
  BY DEF SetStop, vars, statistics
<1>2. QED  BY <1>1 DEF LossInv, SuccessIsStored, LossIsCounted, Lost, Event

\* Nothing has come, so nothing is lost.
LEMMA InitCounts == ASSUME Init PROVE LossInv
<1>1. received = 0 /\ dropped = 0 /\ insert = "idle"
  BY DEF Init
<1>2. Event = {}
  BY <1>1 DEF Event
<1>3. Lost = {}
  BY <1>2 DEF Lost
<1>4. LossIsCounted
  BY <1>1, <1>3, FS_EmptySet DEF LossIsCounted
<1>5. SuccessIsStored
  BY <1>1 DEF SuccessIsStored
<1>6. QED  BY <1>4, <1>5, InitEstablishes DEF LossInv

\* Dropped and counted: there are never more events lost than the statistics say,
\* through overflow, failed inserts and whatever part of them was stored.
THEOREM LossesAreCounted == Spec => []LossIsCounted
<1>1. ASSUME LossInv, [Next]_vars, IInv' PROVE LossInv'
  <2>1. CASE Begin \/ WaitEnds \/ RetryDelayEnds \/ FlushSucceeded \/ FlushFailed
    <3>1. TypeOK
      BY <1>1 DEF LossInv, IInv
    <3>2. QED  BY <1>1, <2>1, <3>1, RunMoves, RunCounts
  <2>2. CASE Insert
    BY <1>1, <2>2, InsertCounts
  <2>3. CASE Add
    BY <1>1, <2>3, AddCounts
  <2>4. CASE SetStop \/ UNCHANGED vars
    BY <1>1, <2>4, RestCounts
  <2>5. QED  BY <1>1, <2>1, <2>2, <2>3, <2>4, Zenon DEF Next
<1>2. Init => LossInv
  BY InitCounts
<1>3. LossInv => LossIsCounted
  BY DEF LossInv
<1>4. QED  BY <1>1, <1>2, <1>3, InvariantHolds, PTL DEF Spec
-----------------------------------------------------------------------------
(* SearchEventBuffer implements FlushLoop: the Collector module may use the  *)
(* counts in place of the events.  Each operator of run() on a queue implies *)
(* the one of the same name on the length of the queue; the lemmas follow    *)
(* the control flow from its ends, FlushOnce and Suspend, to its beginnings. *)

\* The numbers that the control flow compares.
LEMMA QueueLength ==
    ASSUME NEW S, NEW q \in Seq(S)
    PROVE  /\ Len(q) \in Nat /\ BatchSize \in Nat \ {0}
           /\ q = <<>> <=> Len(q) = 0
           /\ q # <<>> <=> Len(q) > 0
<1>1. Len(q) \in Nat /\ BatchSize \in Nat \ {0} /\ (q = <<>> <=> Len(q) = 0)
  BY LenProperties, EmptySeq, BufferAssumption
<1>2. QED  BY <1>1

\* A batch taken off the queue is a batch taken off its length.
LEMMA FlushOnceCounts ==
    ASSUME NEW S, NEW q \in Seq(S), NEW site, FlushOnce(q, site)
    PROVE  Control!FlushOnce(Len(q), site)
<1> DEFINE n == BatchLength(q)
<1>1. n \in 0..Len(q) /\ n = Control!BatchOf(Len(q))
  BY BatchLengthBounds DEF BatchLength, Control!BatchOf
<1>2. /\ batch' = SubSeq(q, 1, n) /\ pending' = SubSeq(q, n + 1, Len(q))
      /\ flusher' = site /\ insert' = "running"
  BY DEF FlushOnce
<1> HIDE DEF n
<1>3. Len(batch') = n /\ Len(pending') = Len(q) - n
  BY <1>1, <1>2, TakeBatch
<1>4. QED  BY <1>1, <1>2, <1>3 DEF Control!FlushOnce

\* The other awaits keep the queue and have no batch.
LEMMA SuspendCounts ==
    ASSUME NEW q, NEW site, Suspend(q, site)
    PROVE  Control!Suspend(Len(q), site)
<1>1. pending' = q /\ batch' = <<>> /\ flusher' = site /\ insert' = "idle"
  BY DEF Suspend
<1>2. Len(pending') = Len(q) /\ Len(batch') = 0
  BY <1>1, EmptySeq
<1>3. QED  BY <1>1, <1>2 DEF Control!Suspend

\* The drain of a queue is the drain of its length.
LEMMA DrainCounts ==
    ASSUME NEW S, NEW q \in Seq(S), Drain(q)
    PROVE  Control!Drain(Len(q))
<1>1. CASE q # <<>> /\ FlushOnce(q, "flush_drain")
  <2>1. Len(q) > 0 /\ Control!FlushOnce(Len(q), "flush_drain")
    BY <1>1, QueueLength, FlushOnceCounts
  <2>2. QED  BY <2>1, Zenon DEF Control!Drain
<1>2. CASE q = <<>> /\ Suspend(q, "done")
  <2>1. Len(q) = 0 /\ Control!Suspend(Len(q), "done")
    BY <1>2, QueueLength, SuspendCounts
  <2>2. QED  BY <2>1, Zenon DEF Control!Drain
<1>3. QED  BY <1>1, <1>2, Zenon DEF Drain

\* So is the head of the loop,
LEMMA LoopTopCounts ==
    ASSUME NEW S, NEW q \in Seq(S), LoopTop(q)
    PROVE  Control!LoopTop(Len(q))
<1>1. CASE stop_signal /\ Drain(q)
  BY <1>1, DrainCounts, Zenon DEF Control!LoopTop
<1>2. CASE ~stop_signal /\ Len(q) >= BatchSize /\ FlushOnce(q, "flush_size")
  BY <1>2, FlushOnceCounts, Zenon DEF Control!LoopTop
<1>3. CASE ~stop_signal /\ Len(q) < BatchSize /\ Suspend(q, "waiting")
  BY <1>3, SuspendCounts, Zenon DEF Control!LoopTop
<1>4. QED  BY <1>1, <1>2, <1>3, Zenon DEF LoopTop

\* the place after the wait,
LEMMA AfterWaitCounts ==
    ASSUME NEW S, NEW q \in Seq(S), AfterWait(q)
    PROVE  Control!AfterWait(Len(q))
<1>1. CASE q # <<>> /\ FlushOnce(q, "flush_interval")
  <2>1. Len(q) > 0 /\ Control!FlushOnce(Len(q), "flush_interval")
    BY <1>1, QueueLength, FlushOnceCounts
  <2>2. QED  BY <2>1, Zenon DEF Control!AfterWait
<1>2. CASE q = <<>> /\ LoopTop(q)
  <2>1. Len(q) = 0 /\ Control!LoopTop(Len(q))
    BY <1>2, QueueLength, LoopTopCounts
  <2>2. QED  BY <2>1, Zenon DEF Control!AfterWait
<1>3. QED  BY <1>1, <1>2, Zenon DEF AfterWait

\* the wait itself,
LEMMA WaitForIntervalCounts ==
    ASSUME NEW S, NEW q \in Seq(S), WaitForInterval(q)
    PROVE  Control!WaitForInterval(Len(q))
<1>1. CASE stop_signal /\ AfterWait(q)
  BY <1>1, AfterWaitCounts, Zenon DEF Control!WaitForInterval
<1>2. CASE ~stop_signal /\ Suspend(q, "waiting")
  BY <1>2, SuspendCounts, Zenon DEF Control!WaitForInterval
<1>3. QED  BY <1>1, <1>2, Zenon DEF WaitForInterval

\* and the return of flush_once() to each of its call sites.
LEMMA FlushReturnedCounts ==
    ASSUME NEW S, NEW q \in Seq(S), NEW wrote \in BOOLEAN, FlushReturned(q, wrote)
    PROVE  Control!FlushReturned(Len(q), wrote)
<1>1. CASE /\ flusher = "flush_size"
           /\ IF wrote THEN LoopTop(q) ELSE WaitForInterval(q)
  BY <1>1, LoopTopCounts, WaitForIntervalCounts, Zenon DEF Control!FlushReturned
<1>2. CASE /\ flusher = "flush_interval"
           /\ IF wrote \/ q = <<>> THEN LoopTop(q) ELSE Suspend(q, "retrying")
  <2>1. q = <<>> <=> Len(q) = 0
    BY QueueLength
  <2>2. IF wrote \/ Len(q) = 0
        THEN Control!LoopTop(Len(q)) ELSE Control!Suspend(Len(q), "retrying")
    BY <1>2, <2>1, LoopTopCounts, SuspendCounts, Zenon
  <2>3. QED  BY <1>2, <2>2, Zenon DEF Control!FlushReturned
<1>3. CASE /\ flusher = "flush_drain"
           /\ IF wrote THEN Drain(q) ELSE Suspend(q, "done")
  BY <1>3, DrainCounts, SuspendCounts, Zenon DEF Control!FlushReturned
<1>4. QED  BY <1>1, <1>2, <1>3, Zenon DEF FlushReturned

\* Putting a batch back makes the queue as long as the abstraction says.
LEMMA ReturnedCounts ==
    ASSUME TypeOK
    PROVE  /\ ReturnBatch(pending, batch) \in Seq(Event)
           /\ Len(ReturnBatch(pending, batch))
                 = Control!Returned(Len(pending), Len(batch))
<1>1. /\ pending \in Seq(Event) /\ batch \in Seq(Event)
      /\ Len(pending) <= MaximumPendingEvents
  BY DEF TypeOK
<1>2. /\ ReturnBatch(pending, batch) \in Seq(Event)
      /\ Len(ReturnBatch(pending, batch)) = Room(pending, batch) + Len(pending)
  BY <1>1, ReturnBatchProperties
<1>3. /\ Len(pending) \in Nat /\ Len(batch) \in Nat /\ MaximumPendingEvents \in Nat
  BY <1>1, LenProperties, BufferAssumption
<1>4. Room(pending, batch) + Len(pending) = Control!Returned(Len(pending), Len(batch))
  BY <1>3 DEF Room, Control!Returned
<1>5. QED  BY <1>2, <1>4

\* An event that arrives makes the queue longer by one, or leaves it full.
LEMMA AddAbstracts == ASSUME TypeOK, Add PROVE Control!Add
<1>1. /\ pending' = Appended(pending, received + 1)
      /\ batch' = batch /\ flusher' = flusher /\ insert' = insert
      /\ stop_signal' = stop_signal
  BY DEF Add
<1> DEFINE S == Event \cup {received + 1}
<1>2. /\ pending \in Seq(S) /\ received + 1 \in S
      /\ Len(pending) <= MaximumPendingEvents
  <2>1. pending \in Seq(Event) /\ Len(pending) <= MaximumPendingEvents
    BY DEF TypeOK
  <2>2. Event \subseteq S
    OBVIOUS
  <2>3. QED  BY <2>1, <2>2, SeqMonotonic
<1>3. Len(pending) \in Nat /\ MaximumPendingEvents \in Nat
  BY <1>2, LenProperties, BufferAssumption
<1> HIDE DEF S
<1>4. /\ Len(pending) < MaximumPendingEvents => Len(pending') = Len(pending) + 1
      /\ Len(pending) >= MaximumPendingEvents => Len(pending') = Len(pending)
  BY <1>1, <1>2, AppendedProperties
<1>5. Len(pending') = IF Len(pending) >= MaximumPendingEvents
                      THEN Len(pending) ELSE Len(pending) + 1
  BY <1>3, <1>4
<1>6. QED  BY <1>1, <1>5 DEF Control!Add
-----------------------------------------------------------------------------
\* The buffer begins as the abstraction does.
LEMMA InitRefines == ASSUME Init PROVE Control!Init
<1>1. Len(pending) = 0 /\ Len(batch) = 0
  BY EmptySeq DEF Init
<1>2. QED  BY <1>1 DEF Init, Control!Init

\* Every step of the buffer is one of the abstraction, or leaves its counts alone.
LEMMA NextRefines == ASSUME TypeOK, [Next]_vars PROVE [Control!Next]_Control!vars
<1>1. pending \in Seq(Event) /\ batch \in Seq(Event)
  BY DEF TypeOK
<1>2. CASE Begin
  <2>1. Control!Begin
    BY <1>1, <1>2, LoopTopCounts, Zenon DEF Begin, Control!Begin
  <2>2. QED  BY <2>1, Zenon DEF Control!Next, Control!Flush
<1>3. CASE WaitEnds
  <2>1. Control!WaitEnds
    BY <1>1, <1>3, AfterWaitCounts, Zenon DEF WaitEnds, Control!WaitEnds
  <2>2. QED  BY <2>1, Zenon DEF Control!Next, Control!Flush
<1>4. CASE RetryDelayEnds
  <2>1. Control!RetryDelayEnds
    BY <1>1, <1>4, LoopTopCounts, Zenon DEF RetryDelayEnds, Control!RetryDelayEnds
  <2>2. QED  BY <2>1, Zenon DEF Control!Next, Control!Flush
<1>5. CASE FlushSucceeded
  <2>1. /\ insert = "succeeded" /\ FlushReturned(pending, TRUE)
        /\ stop_signal' = stop_signal
    BY <1>5, Zenon DEF FlushSucceeded
  <2>2. Control!FlushReturned(Len(pending), TRUE)
    BY <1>1, <2>1, FlushReturnedCounts
  <2>3. Control!InsertReturns
    BY <2>1, <2>2, Zenon DEF Control!InsertReturns
  <2>4. QED  BY <2>3, Zenon DEF Control!Next, Control!Flush
<1>6. CASE FlushFailed
  <2>1. /\ insert = "failed" /\ FlushReturned(ReturnBatch(pending, batch), FALSE)
        /\ stop_signal' = stop_signal
    BY <1>6, Zenon DEF FlushFailed
  <2>2. Control!FlushReturned(Len(ReturnBatch(pending, batch)), FALSE)
    BY <2>1, ReturnedCounts, FlushReturnedCounts
  <2>3. Control!FlushReturned(Control!Returned(Len(pending), Len(batch)), FALSE)
    BY <2>2, ReturnedCounts, Zenon
  <2>4. Control!InsertReturns
    BY <2>1, <2>3, Zenon DEF Control!InsertReturns
  <2>5. QED  BY <2>4, Zenon DEF Control!Next, Control!Flush
<1>7. CASE Insert
  <2>1. /\ insert = "running" /\ insert' \in {"succeeded", "failed"}
        /\ pending' = pending /\ batch' = batch
        /\ flusher' = flusher /\ stop_signal' = stop_signal
    BY <1>7, Zenon DEF Insert, InsertSucceeds, InsertFails
  <2>2. Control!InsertEnds
    BY <2>1 DEF Control!InsertEnds
  <2>3. QED  BY <2>2, Zenon DEF Control!Next
<1>8. CASE Add
  BY <1>8, AddAbstracts, Zenon DEF Control!Next
<1>9. CASE SetStop
  <2>1. Control!SetStop
    BY <1>9 DEF SetStop, Control!SetStop
  <2>2. QED  BY <2>1, Zenon DEF Control!Next
<1>10. CASE UNCHANGED vars
  BY <1>10 DEF vars, Control!vars
<1>11. QED  BY <1>2, <1>3, <1>4, <1>5, <1>6, <1>7, <1>8, <1>9, <1>10, Zenon DEF Next

\* The buffer with its events implements the counts that the collector is composed
\* with, for every batch size and every bound of the queue.
THEOREM Refinement == Spec => ImplementsFlushLoop
<1>1. Init => Control!Init
  BY InitRefines
<1>2. TypeOK /\ [Next]_vars => [Control!Next]_Control!vars
  BY NextRefines
<1>3. QED  BY <1>1, <1>2, TypeCorrect, PTL DEF Spec, ImplementsFlushLoop, Control!Spec
=============================================================================
