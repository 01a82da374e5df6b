---------------------------- MODULE MCCollector ----------------------------
(* Room for four events, batches of two and a watchdog that trips at the     *)
(* third silent interval: the queue overflows, a drain takes several         *)
(* inserts, and a search between two ticks interrupts a silence.  Arrivals,  *)
(* failures and restarts are unbounded.                                      *)
EXTENDS Collector

MCBatchSize == 2
MCMaximumPendingEvents == 4
MCToleranceTicks == 3
=============================================================================
