------------------------ MODULE MCSyncIdentification ------------------------
(* Up to four rows at three moments of two hours, in two buckets, those of   *)
(* the second moment without a track, and one command that fails.            *)
EXTENDS SyncIdentification

MCHourLength == 2
MCOverlap == 1
MCBuckets == 2
MCTracked == {r \in (1..3) \X (0..1) : r[1] # 2}
MCMaxTime == 3
MCMaxRows == 4
MCMaxFailures == 1
=============================================================================
