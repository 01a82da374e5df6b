-------------------------- MODULE SyncIdentification --------------------------
(***************************************************************************)
(* scripts/sync_identification.sh, run by sync_cron.sh beside the local    *)
(* storage, and the two storages it connects: the raw layer of the jump,   *)
(* which the collector fills, is pulled to the local host, parsed there,   *)
(* and the local aggregates are shipped back and swapped in.  Any command  *)
(* can fail, also after a part of it was done or only its answer was lost; *)
(* the script then ends (set -euo pipefail) and cron starts it again.  One *)
(* failure does not end it: the hours to pull are read from a process      *)
(* substitution, whose exit status bash does not look at.                  *)
(*                                                                         *)
(* A row is the moment it was received and its artist; rows of one moment  *)
(* are told apart by the artist, and an artist is a bucket of the transfer.*)
(* What the reprocess command does in detail is the module Reprocess: here *)
(* it is one insert of everything from its watermark on, and a row parses  *)
(* to the same always.                                                     *)
(***************************************************************************)
EXTENDS Integers, Sequences, FiniteSets, FiniteSetsExt

CONSTANTS HourLength,   \* moments per hour
          Overlap,      \* WATERMARK_OVERLAP_SECONDS, in moments
          Buckets,      \* buckets
          Tracked,      \* rows that are parsed to a track, not to an artist alone
          MaxTime,      \* bound: moments
          MaxRows,      \* bound: rows on the jump
          MaxFailures   \* bound: commands that fail

ASSUME SyncAssumption == /\ {HourLength, Buckets, MaxTime, MaxRows} \subseteq Nat \ {0}
                         /\ {Overlap, MaxFailures} \subseteq Nat

Row == (1..MaxTime) \X (0..Buckets - 1)
ASSUME TrackedAssumption == Tracked \subseteq Row

Time(r) == r[1]
Bucket(r) == r[2]
HourOf(r) == (Time(r) - 1) \div HourLength

Newest(rows) == Max({Time(r) : r \in rows})

\* The tables that are shipped, in this order, and the views that fill them.
Tables == <<"artist", "track">>
View == {"artist", "track"}
Takes(v, r) == v = "artist" \/ r \in Tracked

\* An aggregate table says how often each row is counted; 2 stands for more.
Table == [Row -> 0..2]
Empty == [r \in Row |-> 0]
Added(t, rows, much) == [r \in Row |-> IF r \in rows THEN Min({t[r] + much[r], 2}) ELSE t[r]]

VARIABLES now,      \* the moment
          jump,     \* rows in the jump's raw layer
          here,     \* rows in the local raw layer
          parsed,   \* rows in the local parsed layer
          counted,  \* the local aggregates
          live,     \* the aggregates that the jump serves
          staging   \* the tables _incoming on the jump

VARIABLES step,       \* where the script is
          watermark,  \* its variables; hours are those still to pull
          hours,
          table,
          bucket

\* History, for the properties and the bound only.
VARIABLES late,      \* rows that reached the jump after a row of their moment was pulled
          torn,      \* a failure left a row behind a watermark
          failures

rawLayers == <<now, jump, here>>
locals == <<watermark, hours, table, bucket>>
vars == <<rawLayers, parsed, counted, live, staging, step, locals, late, torn, failures>>

TypeOK == /\ now \in 1..MaxTime
          /\ {jump, here, parsed, late} \subseteq SUBSET Row
          /\ here \subseteq jump /\ parsed \subseteq here
          /\ \A t \in {counted, live, staging} : DOMAIN t = View
          /\ \A v \in View : {counted[v], live[v], staging[v]} \subseteq Table
          /\ step \in {"idle", "count", "hours", "pull", "reprocess", "stage", "ship", "swap"}
          /\ watermark \in 0..MaxTime
          /\ hours \subseteq {HourOf(r) : r \in jump}
          /\ table \in 1..Len(Tables)
          /\ bucket \in 0..Buckets - 1
          /\ torn \in BOOLEAN
          /\ failures \in 0..MaxFailures

\* What migrate_data_to_jump.sh leaves: the same rows, parsed on both sides.
Init == /\ now = 1
        /\ jump = {<<1, 0>>} /\ here = jump /\ parsed = jump
        /\ counted = [v \in View |-> [r \in Row |->
                         IF r \in jump /\ Takes(v, r) THEN 1 ELSE 0]]
        /\ live = counted
        /\ staging = [v \in View |-> Empty]
        /\ step = "idle"
        /\ watermark = 0 /\ hours = {} /\ table = 1 /\ bucket = 0
        /\ late = {} /\ torn = FALSE /\ failures = 0
-----------------------------------------------------------------------------
\* The collector on the jump; rows arrive in the order of their moments.
Arrive == /\ Cardinality(jump) < MaxRows
          /\ \E r \in Row \ jump :
                /\ Time(r) = now
                /\ jump' = jump \cup {r}
                /\ late' = IF now <= Newest(here) THEN late \cup {r} ELSE late
          /\ UNCHANGED <<now, here, parsed, counted, live, staging, step, locals,
                         torn, failures>>

Tick == /\ now < MaxTime
        /\ now' = now + 1
        /\ UNCHANGED <<jump, here, parsed, counted, live, staging, step, locals,
                       late, torn, failures>>
-----------------------------------------------------------------------------
\* sync_cron.sh: nothing happens while the lock is held.
Begin == /\ step = "idle"
         /\ watermark' = Newest(here)
         /\ step' = "count"
         /\ UNCHANGED <<rawLayers, parsed, counted, live, staging, hours, table, bucket,
                        late, torn, failures>>

NewOnJump == {r \in jump : Time(r) > watermark}

\* Mutant: one new row is none.
ReadCountOfMany ==
    /\ step = "count"
    /\ step' = IF Cardinality(NewOnJump) > 1 THEN "hours" ELSE "reprocess"
    /\ UNCHANGED <<rawLayers, parsed, counted, live, staging, locals,
                   late, torn, failures>>

ReadCount == /\ step = "count"
             /\ step' = IF Cardinality(NewOnJump) > 0 THEN "hours" ELSE "reprocess"
             /\ UNCHANGED <<rawLayers, parsed, counted, live, staging, locals,
                            late, torn, failures>>

HoursOnJump == {HourOf(r) : r \in NewOnJump}

\* The loop over the hours that were read, which may be none.
Listed(list) == /\ step = "hours"
                /\ hours' = list
                /\ step' = IF list = {} THEN "reprocess" ELSE "pull"
                /\ UNCHANGED <<rawLayers, parsed, counted, live, staging, watermark, table,
                               bucket, late, torn>>

ReadHours == Listed(HoursOnJump) /\ UNCHANGED failures

\* Mutant: the newest hour first.
NextHourLast == Max(hours)

\* The hours are read ORDER BY 1.
NextHour == Min(hours)

RowsOfHour == {r \in NewOnJump : HourOf(r) = NextHour}

PullHour == /\ step = "pull"
            /\ here' = here \cup RowsOfHour
            /\ hours' = hours \ {NextHour}
            /\ step' = IF hours' = {} THEN "reprocess" ELSE "pull"
            /\ UNCHANGED <<now, jump, parsed, counted, live, staging, watermark, table, bucket,
                           late, torn, failures>>

\* resolve_incremental_since.
Since(rows) == Newest(rows) - Overlap

Unparsed == {r \in here : Time(r) >= Since(parsed)}

One == [r \in Row |-> 1]

\* The command adds what it reads to the aggregates once more.
Reprocess == /\ step = "reprocess"
             /\ parsed' = parsed \cup Unparsed
             /\ counted' = [v \in View |->
                    Added(counted[v], {r \in Unparsed : Takes(v, r)}, One)]
             /\ step' = "stage"
             /\ UNCHANGED <<rawLayers, live, staging, locals, late, torn, failures>>

\* Mutant: what an earlier attempt left in the table is not removed.
OpenStagingAsItIs ==
    /\ step = "stage"
    /\ step' = "ship"
    /\ UNCHANGED <<rawLayers, parsed, counted, live, staging, locals, late, torn, failures>>

OpenStaging == /\ step = "stage"
               /\ staging' = [staging EXCEPT ![Tables[table]] = Empty]
               /\ step' = "ship"
               /\ UNCHANGED <<rawLayers, parsed, counted, live, locals, late, torn, failures>>

RowsOfBucket == {r \in Row : Bucket(r) = bucket}

Sent(rows) == staging' = [staging EXCEPT ![Tables[table]] =
                              Added(@, rows, counted[Tables[table]])]

\* Mutant: seq 0 buckets.
ShipBucketTooFar ==
    /\ step = "ship"
    /\ Sent(RowsOfBucket)
    /\ bucket' = (bucket + 1) % (Buckets + 1)
    /\ step' = IF bucket' = 0 THEN "swap" ELSE "ship"
    /\ UNCHANGED <<rawLayers, parsed, counted, live, watermark, hours, table,
                   late, torn, failures>>

ShipBucket == /\ step = "ship"
              /\ Sent(RowsOfBucket)
              /\ bucket' = (bucket + 1) % Buckets
              /\ step' = IF bucket' = 0 THEN "swap" ELSE "ship"
              /\ UNCHANGED <<rawLayers, parsed, counted, live, watermark, hours, table,
                             late, torn, failures>>

Exchanged == LET v == Tables[table] IN
             /\ live' = [live EXCEPT ![v] = staging[v]]
             /\ staging' = [staging EXCEPT ![v] = live[v]]

\* EXCHANGE TABLES, then the next table or the end of the script.
Swap == /\ step = "swap"
        /\ Exchanged
        /\ table' = (table % Len(Tables)) + 1
        /\ step' = IF table' = 1 THEN "idle" ELSE "stage"
        /\ watermark' = IF table' = 1 THEN 0 ELSE watermark
        /\ UNCHANGED <<rawLayers, parsed, counted, hours, bucket, late, torn, failures>>
-----------------------------------------------------------------------------
\* A command fails and the script ends with it.
Fails == /\ step # "idle" /\ failures < MaxFailures
         /\ failures' = failures + 1
         /\ step' = "idle" /\ watermark' = 0 /\ hours' = {} /\ table' = 1 /\ bucket' = 0
         /\ UNCHANGED <<now, jump, late>>

\* The list of the hours breaks off before one of them, and the script goes on with
\* those that it has.
ReadHoursFails == /\ failures < MaxFailures
                  /\ failures' = failures + 1
                  /\ \E h \in HoursOnJump : Listed({k \in HoursOnJump : k < h})

\* Before anything of it was done; or the script is killed there.
CommandFails == /\ Fails
                /\ UNCHANGED <<here, parsed, counted, live, staging, torn>>

\* The rows of an hour come in key order, not by time: some were inserted.
PullFails == /\ step = "pull" /\ Fails
             /\ \E some \in SUBSET RowsOfHour :
                   /\ some # {}
                   /\ here' = here \cup some
                   /\ torn' = (torn \/ \E r \in RowsOfHour \ some : Time(r) <= Newest(some))
             /\ UNCHANGED <<parsed, counted, live, staging>>

\* Some batches of the command were inserted, and of the one that failed what it
\* had reached: the parsed layer, a view.
ReprocessFails ==
    /\ step = "reprocess" /\ Fails
    /\ \E some \in SUBSET Unparsed, views \in SUBSET View :
          /\ parsed' \in {parsed \cup some, parsed \cup Unparsed}
          /\ counted' = [v \in View |->
                 Added(counted[v],
                       {r \in IF v \in views THEN Unparsed ELSE some : Takes(v, r)}, One)]
    /\ torn' = (torn \/ \E r \in Unparsed, v \in View :
                   Takes(v, r) /\ counted'[v][r] = 0 /\ Time(r) < Since(parsed'))
    /\ UNCHANGED <<here, live, staging>>

ShipFails == /\ step = "ship" /\ Fails
             /\ \E some \in SUBSET RowsOfBucket : Sent(some)
             /\ UNCHANGED <<here, parsed, counted, live, torn>>

\* The tables were exchanged, and the answer did not come back.
SwapFails == /\ step = "swap" /\ Fails
             /\ Exchanged
             /\ UNCHANGED <<here, parsed, counted, torn>>

GoOn == ReadCount \/ ReadHours \/ PullHour \/ Reprocess \/ OpenStaging \/ ShipBucket \/ Swap

Next == \/ Arrive \/ Tick \/ Begin \/ GoOn
        \/ ReadHoursFails \/ CommandFails \/ PullFails \/ ReprocessFails \/ ShipFails \/ SwapFails

Spec == Init /\ [][Next]_vars

\* Cron starts the script, and the script goes on until it ends.
FairSpec == Spec /\ WF_vars(Begin) /\ WF_vars(GoOn)
-----------------------------------------------------------------------------
\* The pull takes what is newer than the newest local row, so a row it skips never
\* comes again: whatever arrived during a pull, whichever hour it stopped at and
\* wherever its list of hours broke off, no row is skipped, unless an insert was torn
\* within an hour or the row came after another row of its own moment was pulled.
PullLeavesNoGap ==
    ~torn => \A r \in jump \ late : Time(r) < Newest(here) => r \in here

\* "swapped in atomically": what the jump starts to serve is a whole local table,
\* each row counted as often as it is here, whatever earlier runs left behind.
LiveIsTheLocalTable ==
    [][\A v \in View : live'[v] # live[v] => live'[v] = counted[v]]_vars

\* A row that the jump collected is some runs later in those of its charts that take
\* it, whatever failed in between without leaving the row behind a watermark.
CatchesUp ==
    []~torn => \A r \in Row : r \in jump \ late ~> \A v \in View : Takes(v, r) => live[v][r] > 0
=============================================================================
