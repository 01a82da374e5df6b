------------------------- MODULE MCSearchEventBuffer -------------------------
(* The buffer with room for three events, batches of two, six arrivals and   *)
(* three failed inserts: the queue overflows by add() and by a returned      *)
(* batch, and run() meets a failure in each of its three flush calls.        *)
EXTENDS SearchEventBuffer

MCBatchSize == 2
MCMaximumPendingEvents == 3
MCMaxReceived == 6
MCMaxFailedFlushes == 3
=============================================================================
