---------------------------- MODULE MCReprocess ----------------------------
(* Three moments over two partitions, batches of two rows, an overlap of one *)
(* moment, two parser versions, two catalogues, at most one row stored twice *)
(* and two runs of the command: a run that dies anywhere, or is overtaken by *)
(* arrivals, by the TTL of either layer or by a new parser, and the run that *)
(* follows it.                                                               *)
EXTENDS Reprocess

MCDayLength == 2
MCOverlap == 1
MCReadBatch == 2
MCRawLife == 1
MCParsedLife == 2
MCMaxTime == 3
MCMaxVersion == 2
MCMaxCommands == 2
MCMaxTwice == 1

Incremental == [incremental |-> TRUE, rebuild |-> FALSE, from |-> 0]
Full == [incremental |-> FALSE, rebuild |-> FALSE, from |-> 0]
Rebuild == [incremental |-> FALSE, rebuild |-> TRUE, from |-> 0]
SinceSecondDay == [incremental |-> FALSE, rebuild |-> FALSE, from |-> 3]
IncrementalRebuild == [incremental |-> TRUE, rebuild |-> TRUE, from |-> 0]

MCInvocations == {Incremental, Full, Rebuild, SinceSecondDay, IncrementalRebuild}

\* Two catalogues: a row goes from both charts to one, from one to both and from
\* none to both.
MCParsings == {<<"song", "artist", "nothing">>, <<"artist", "song", "song">>}

\* What sync_identification.sh runs.
MCScheduledInvocations == {Incremental}
MCOneVersion == 1
=============================================================================
