------------------------------ MODULE Reprocess ------------------------------
(***************************************************************************)
(* The three layers of the storage and the command that feeds one from     *)
(* another: raw events (search_query_events), parsed events                *)
(* (parsed_search_queries) and the hourly aggregates that two materialized *)
(* views fill on every insert into the parsed layer, with                  *)
(* parsing/reprocess_command.py running beside the writer of the raw       *)
(* layer.                                                                  *)
(*                                                                         *)
(* A row is the moment it was received; rows reach the raw layer in that   *)
(* order (the buffer is first in, first out, and the pull of               *)
(* sync_identification.sh goes hour by hour).  Of what a query parses to   *)
(* only the views that take the row are kept, and it is chosen for every   *)
(* batch anew: the parser, the catalogue and --no-catalogue may differ     *)
(* between two readings of a row.  ClickHouse is external.  Its            *)
(* ReplacingMergeTree removes the second copy of a row at some later       *)
(* merge, its TTL removes old rows of a partition at some later merge, and *)
(* an insert that fires materialized views is not one unit.                *)
(***************************************************************************)
EXTENDS Integers, FiniteSets, FiniteSetsExt

CONSTANTS DayLength,     \* moments per daily partition
          Overlap,       \* WATERMARK_OVERLAP_SECONDS
          ReadBatch,     \* READ_BATCH_SIZE
          RawLife,       \* TTL of the raw layer, in moments
          ParsedLife,    \* TTL of the parsed layer
          Parsings,      \* what a parser with a catalogue, or without, makes of rows
          Invocations,   \* bound: command lines in use, see Invocation
          MaxTime,       \* bound: moments
          MaxVersion,    \* bound: parser versions
          MaxCommands,   \* bound: runs of the command
          MaxTwice       \* bound: rows stored twice

ASSUME ReprocessAssumption ==
    /\ {DayLength, ReadBatch, RawLife, ParsedLife, MaxVersion} \subseteq Nat \ {0}
    /\ {Overlap, MaxTime, MaxCommands, MaxTwice} \subseteq Nat
    /\ RawLife <= ParsedLife

Row == 1..MaxTime

DayOf(r) == (r - 1) \div DayLength

\* DEFAULT_SINCE is before every row.
DefaultSince == 0

\* A command line.  --since names a day, here by its first moment.
Invocation == [incremental : BOOLEAN, rebuild : BOOLEAN,
               from : {DefaultSince} \cup {r \in Row : r % DayLength = 1 % DayLength}]

ASSUME InvocationsAssumption == Invocations \subseteq Invocation

View == {"artist", "track"}

\* What a query is parsed to: nothing (no artist, or too little confidence), an
\* artist, or an artist and a track.
Outcome == {"nothing", "artist", "song"}

ASSUME ParsingsAssumption == Parsings \subseteq [Row -> Outcome]

\* The WHERE clauses of the two materialized views.
Takes(v, outcome) == outcome = "song" \/ (outcome = "artist" /\ v = "artist")

\* DERIVED_TABLES, in the order in which they are truncated.
DerivedTables == <<"parsed", "artist", "track">>

VARIABLES now,       \* the last moment
          raw,       \* copies <<row, n>> in the raw layer
          parsed,    \* the parser_version of each parsed row, 0 if there is none
          counted,   \* how often each view has counted each row
          version    \* PARSER_VERSION of the deployed command

VARIABLES phase,       \* where the command is
          truncated,   \* tables a rebuild has cleared
          since,       \* its local
          days,        \* daily partitions still to read
          stream       \* copies of the open partition still to read

\* History, for the properties only.
VARIABLES commands,   \* runs begun
          whole,      \* this run reads everything, after clearing everything
          sound,      \* every run since the last rebuild ended well and left no gap
          rebuilt,    \* nothing was begun since a rebuild ended
          twice,      \* rows that were ever stored twice
          last,       \* what a row was last parsed to since the parsed layer was
                      \* cleared, or "unread"; kept when the parsed row expires
          listed,     \* when the last run listed the partitions
          reads       \* runs told to read a row since each view was cleared

storage == <<raw, parsed, counted>>
locals == <<truncated, since, days, stream>>
runs == <<commands, whole, sound, rebuilt, twice>>
readings == <<last, listed, reads>>
history == <<runs, readings>>
vars == <<now, storage, version, phase, locals, history>>

TypeOK == /\ now \in 0..MaxTime
          /\ raw \subseteq {r \in Row : r <= now} \X {1, 2}
          /\ parsed \in [Row -> 0..version]
          /\ counted \in [View -> [Row -> Nat]]
          /\ version \in 1..MaxVersion
          /\ phase \in {"idle", "rebuild", "dates", "days", "stream"}
          /\ truncated \in 0..3
          /\ since \in DefaultSince - Overlap..MaxTime
          /\ days \subseteq {DayOf(r) : r \in Row}
          /\ stream \subseteq Row \X {1, 2}
          /\ (phase = "stream") => stream # {}
          /\ commands \in 0..MaxCommands
          /\ {whole, sound, rebuilt} \subseteq BOOLEAN
          /\ twice \subseteq Row
          /\ last \in [Row -> Outcome \cup {"unread"}]
          /\ listed \in 0..now
          /\ reads \in [View -> [Row -> Nat]]

Init == /\ now = 0
        /\ raw = {}
        /\ parsed = [r \in Row |-> 0]
        /\ counted = [v \in View |-> [r \in Row |-> 0]]
        /\ version = 1
        /\ phase = "idle" /\ truncated = 0 /\ since = 0 /\ days = {} /\ stream = {}
        /\ commands = 0 /\ whole = FALSE /\ sound = TRUE /\ rebuilt = FALSE
        /\ twice = {}
        /\ last = [r \in Row |-> "unread"]
        /\ listed = 0
        /\ reads = [v \in View |-> [r \in Row |-> 0]]
-----------------------------------------------------------------------------
Live(r) == r + RawLife > now

\* The next moment: a row arrives, or none does.  A retry of an insert whose
\* answer was lost stores a second copy.
Arrive == /\ now < MaxTime
          /\ now' = now + 1
          /\ \E copies \in {{}, {1}, {1, 2}} :
                /\ raw' = raw \cup ({now'} \X copies)
                /\ twice' = IF copies = {1, 2} THEN twice \cup {now'} ELSE twice
                /\ Cardinality(twice') <= MaxTwice
          /\ UNCHANGED <<parsed, counted, version, phase, locals,
                         commands, whole, sound, rebuilt, readings>>

\* A background merge of a raw partition removes second copies.
MergeRaw == \E d \in {DayOf(c[1]) : c \in raw} :
    LET second == {c \in raw : DayOf(c[1]) = d /\ c[2] = 2}
    IN /\ second # {}
       /\ raw' = raw \ second
       /\ UNCHANGED <<now, parsed, counted, version, phase, locals, history>>

ExpireRaw == \E d \in {DayOf(c[1]) : c \in raw} :
    LET old == {c \in raw : DayOf(c[1]) = d /\ ~Live(c[1])}
    IN /\ old # {}
       /\ raw' = raw \ old
       /\ UNCHANGED <<now, parsed, counted, version, phase, locals, history>>

ExpireParsed == \E d \in {DayOf(r) : r \in Row} :
    LET old == {r \in Row : parsed[r] # 0 /\ DayOf(r) = d /\ r + ParsedLife <= now}
    IN /\ old # {}
       /\ parsed' = [r \in Row |-> IF r \in old THEN 0 ELSE parsed[r]]
       /\ UNCHANGED <<now, raw, counted, version, phase, locals, history>>

\* A better parser is deployed between two runs.
NewParser == /\ phase = "idle" /\ version < MaxVersion
             /\ version' = version + 1
             /\ UNCHANGED <<now, storage, phase, locals, history>>
-----------------------------------------------------------------------------
AtVersion == {r \in Row : parsed[r] = version}

\* resolve_incremental_since.
IncrementalSince == IF AtVersion = {} THEN DefaultSince ELSE Max(AtVersion) - Overlap

\* main() up to the first command it sends; the watermark is read before a
\* rebuild clears the table it is read from.
Begin == /\ phase = "idle" /\ commands < MaxCommands
         /\ \E i \in Invocations :
               /\ since' = IF i.incremental THEN IncrementalSince ELSE i.from
               /\ phase' = IF i.rebuild THEN "rebuild" ELSE "dates"
               /\ whole' = (i.rebuild /\ since' <= Min(Row))
               /\ sound' = (sound /\ (i.rebuild \/ ~i.incremental => since' <= Min(Row)))
         /\ commands' = commands + 1
         /\ rebuilt' = FALSE
         /\ reads' = [v \in View |-> [r \in Row |->
                        IF r >= since' THEN reads[v][r] + 1 ELSE reads[v][r]]]
         /\ UNCHANGED <<now, storage, version, truncated, days, stream, twice,
                        last, listed>>

\* Mutant: the aggregates are not among the tables to clear.
ClearedParsedOnly(t) == /\ parsed' = IF t = "parsed" THEN [r \in Row |-> 0] ELSE parsed
                        /\ UNCHANGED counted

\* TRUNCATE TABLE of one derived table.
Cleared(t) == /\ parsed' = IF t = "parsed" THEN [r \in Row |-> 0] ELSE parsed
              /\ counted' = IF t \in View
                            THEN [counted EXCEPT ![t] = [r \in Row |-> 0]] ELSE counted

\* rebuild_derived_tables, one command at a time.
Truncate == /\ phase = "rebuild"
            /\ Cleared(DerivedTables[truncated + 1])
            /\ truncated' = (truncated + 1) % 3
            /\ phase' = IF truncated' = 0 THEN "dates" ELSE "rebuild"
            /\ last' = IF truncated = 0 THEN [r \in Row |-> "unread"] ELSE last
            /\ reads' = [v \in View |-> IF v = DerivedTables[truncated + 1]
                            THEN [r \in Row |-> IF r >= since THEN 1 ELSE 0] ELSE reads[v]]
            /\ UNCHANGED <<now, raw, version, since, days, stream, runs, listed>>

\* Mutant: only the newest partition is read.
ReadNewestDate ==
    /\ phase = "dates"
    /\ days' = IF \E c \in raw : c[1] >= since THEN {Max({DayOf(c[1]) : c \in raw})} ELSE {}
    /\ phase' = "days" /\ listed' = now
    /\ UNCHANGED <<now, storage, version, truncated, since, stream, runs, last, reads>>

\* DATES_QUERY.
ReadDates == /\ phase = "dates"
             /\ days' = {DayOf(c[1]) : c \in {x \in raw : x[1] >= since}}
             /\ phase' = "days" /\ listed' = now
             /\ UNCHANGED <<now, storage, version, truncated, since, stream,
                            runs, last, reads>>

\* Mutant: the rest of a partition is inserted also when nothing is left.
OpenDayWithoutCheck ==
    /\ phase = "days" /\ days # {}
    /\ stream' = {c \in raw : DayOf(c[1]) = Min(days) /\ c[1] >= since}
    /\ days' = days \ {Min(days)}
    /\ phase' = "stream"
    /\ UNCHANGED <<now, storage, version, truncated, since, history>>

\* Mutant: every row of a listed partition is read, those before the watermark too.
OpenDayWhole == /\ phase = "days" /\ days # {}
                /\ stream' = {c \in raw : DayOf(c[1]) = Min(days)}
                /\ days' = days \ {Min(days)}
                /\ phase' = IF stream' = {} THEN "days" ELSE "stream"
                /\ UNCHANGED <<now, storage, version, truncated, since, history>>

\* STREAM_QUERY reads what the partition holds when it is opened, both copies of
\* a row if they are not merged yet.
OpenDay == /\ phase = "days" /\ days # {}
           /\ stream' = {c \in raw : DayOf(c[1]) = Min(days) /\ c[1] >= since}
           /\ days' = days \ {Min(days)}
           /\ phase' = IF stream' = {} THEN "days" ELSE "stream"
           /\ UNCHANGED <<now, storage, version, truncated, since, history>>

\* The partition streams in key order, which says nothing of time: a batch is
\* any full batch of what is left, or all of it.
Batches == {b \in SUBSET stream : Cardinality(b) = ReadBatch
                                  \/ (b = stream /\ Cardinality(b) < ReadBatch)}

Stored(batch, parse) ==
    /\ parsed' = [r \in Row |-> IF \E c \in batch : c[1] = r THEN version ELSE parsed[r]]
    /\ last' = [r \in Row |-> IF \E c \in batch : c[1] = r THEN parse[r] ELSE last[r]]

\* The materialized views add the rows of a batch that they take on top of what
\* they hold.
FannedOut(batch, parse, views) ==
    counted' = [v \in View |-> [r \in Row |->
        counted[v][r] + IF v \in views
                        THEN Cardinality({c \in batch : c[1] = r /\ Takes(v, parse[r])})
                        ELSE 0]]

\* _flush_batch: one insert, whose success means that both views took it.
FlushBatch == /\ phase = "stream"
              /\ \E batch \in Batches, parse \in Parsings :
                    /\ Stored(batch, parse)
                    /\ FannedOut(batch, parse, View)
                    /\ stream' = stream \ batch
              /\ phase' = IF stream' = {} THEN "days" ELSE "stream"
              /\ UNCHANGED <<now, raw, version, truncated, since, days,
                             runs, listed, reads>>

Finish == /\ phase = "days" /\ days = {}
          /\ phase' = "idle" /\ since' = 0
          /\ sound' = (sound \/ whole) /\ rebuilt' = whole
          /\ whole' = FALSE
          /\ UNCHANGED <<now, storage, version, truncated, days, stream, commands, twice,
                         readings>>

\* The process ends where it is: an exception of a query, the memory limit, a kill.
Dead == /\ phase' = "idle" /\ truncated' = 0 /\ since' = 0 /\ days' = {} /\ stream' = {}
        /\ sound' = FALSE /\ whole' = FALSE
        /\ UNCHANGED <<now, raw, version, commands, rebuilt, twice, listed, reads>>

Die == /\ phase # "idle"
       /\ Dead
       /\ UNCHANGED <<parsed, counted, last>>

\* An insert fails (a view over its memory limit) with any of its effects done.
FlushFails == /\ phase = "stream"
              /\ \E batch \in Batches, parse \in Parsings, views \in SUBSET View :
                    /\ Stored(batch, parse) \/ UNCHANGED <<parsed, last>>
                    /\ FannedOut(batch, parse, views)
              /\ Dead

Next == \/ Arrive \/ MergeRaw \/ ExpireRaw \/ ExpireParsed \/ NewParser
        \/ Begin \/ Truncate \/ ReadDates \/ OpenDay \/ FlushBatch \/ Finish
        \/ Die \/ FlushFails

Spec == Init /\ [][Next]_vars
-----------------------------------------------------------------------------
\* Incremental runs leave no gap behind the watermark: unless a run died or was
\* told to start late, every raw row up to the newest parsed one has been read, is
\* parsed if the parsed layer still keeps rows of its age, and is counted by every
\* view that takes what it was last parsed to, whatever arrived while the runs were
\* reading.
NoHoles ==
    sound /\ phase = "idle" /\ AtVersion # {} =>
        \A c \in raw : c[1] <= Max(AtVersion) =>
            /\ c[1] + ParsedLife > now => parsed[c[1]] = version
            /\ last[c[1]] # "unread"
            /\ \A v \in View : Takes(v, last[c[1]]) => counted[v][c[1]] >= 1

\* "A full reparse must start from empty": after a rebuild that ran to its end each
\* view counts a row once if it takes what the rebuild parsed it to and not at all
\* otherwise, whatever the runs before it did and wherever one of them died; and
\* every row that the raw layer held when the rebuild listed the partitions, and
\* still holds, was read.  (A row stored twice and not merged yet may be counted
\* twice.)
RebuildIsExact ==
    rebuilt =>
        /\ \A r \in Row \ twice, v \in View :
              counted[v][r] = IF Takes(v, last[r]) THEN 1 ELSE 0
        /\ \A c \in raw : c[1] <= listed => last[c[1]] # "unread"

\* The watermark and the partitions bound what a run adds: since a view was cleared
\* it has counted a row at most once for every run that was told to read from
\* before that row, through runs that died, inserts that failed between the views
\* and rebuilds that were broken off.  (A row stored twice is the exception.)
CountedOncePerRun ==
    \A r \in Row \ twice, v \in View : counted[v][r] <= reads[v][r]
-----------------------------------------------------------------------------
\* reprocess_command.py: "ReplacingMergeTree collapses the duplicates, so nothing
\* is double-counted", said of runs that end well.
NothingDoubleCounted ==
    sound => \A r \in Row \ twice, v \in View : counted[v][r] <= 1
=============================================================================
