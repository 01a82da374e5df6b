------------------------------ MODULE Migrations ------------------------------
(***************************************************************************)
(* The schema and storage/migrations.py, which brings it up to date: the   *)
(* files of storage/migrations/ are applied in order, statement by         *)
(* statement, and each file is recorded after its last statement.  A run   *)
(* can die between any two commands, an answer can be lost after the       *)
(* command was executed, and a second run may be started beside the first. *)
(*                                                                         *)
(* A schema is a set of pairs of an object and something that is true of   *)
(* it.  ClickHouse is external; it does no transactions over statements.   *)
(***************************************************************************)
EXTENDS Integers, Sequences, FiniteSetsExt

CONSTANTS Runners,      \* processes that may run apply_migrations
          Releases,     \* bound: for each release, how many migrations it has
          MaxFailures   \* bound: runs that die of something else than a statement
-----------------------------------------------------------------------------
(* The statements, in the order of the files.                                *)

Statement(op, object, facts) == [op |-> op, object |-> object, facts |-> facts]

CreateIfMissing(object) == Statement("create_if_missing", object, {"exists"})
Create(object, facts) == Statement("create", object, {"exists"} \cup facts)
DropIfExists(object) == Statement("drop", object, {})
Alter(object, fact) == Statement("alter", object, {fact})

SearchQueryEvents == <<CreateIfMissing("raw")>>
ParsedSearchQueries == <<CreateIfMissing("parsed")>>
ChartAggregates == <<CreateIfMissing("artist"), CreateIfMissing("artist_view"),
                     CreateIfMissing("track"), CreateIfMissing("track_view")>>
ImportedSource == <<Alter("raw", "imported")>>

\* Mutant: the old tables are not dropped.
KeyEpochOverTheOld ==
    <<Alter("parsed", "key_epoch"),
      DropIfExists("artist_view"), DropIfExists("track_view"),
      Create("artist", {"key_epoch"}), Create("artist_view", {"key_epoch"}),
      Create("track", {"key_epoch"}), Create("track_view", {"key_epoch"})>>

KeyEpoch ==
    <<Alter("parsed", "key_epoch"),
      DropIfExists("artist_view"), DropIfExists("track_view"),
      DropIfExists("artist"), DropIfExists("track"),
      Create("artist", {"key_epoch"}), Create("artist_view", {"key_epoch"}),
      Create("track", {"key_epoch"}), Create("track_view", {"key_epoch"})>>

ShortenRetention == <<Alter("raw", "short"), Alter("parsed", "short")>>
MusicbrainzArtists == <<CreateIfMissing("catalogue")>>

\* The migrations that a complete directory holds.
Migration == <<SearchQueryEvents, ParsedSearchQueries, ChartAggregates, ImportedSource,
               KeyEpoch, ShortenRetention, MusicbrainzArtists>>

Total == Len(Migration)
KeyEpochIdentifier == 5

ASSUME MigrationsAssumption == Releases \subseteq 1..Total /\ MaxFailures \in Nat

View == {"artist_view", "track_view"}
Target == [artist_view |-> "artist", track_view |-> "track"]

Exists(object, S) == <<object, "exists">> \in S

\* What a statement makes of a schema; IF NOT EXISTS leaves an object as it is.
Effect(S, st) ==
    CASE st.op = "create_if_missing" /\ Exists(st.object, S) -> S
      [] st.op = "drop" -> {x \in S : x[1] # st.object}
      [] OTHER -> S \cup {<<st.object, f>> : f \in st.facts}

\* A statement the server can execute: a view needs the columns that it reads.
Accepted(S, st) ==
    /\ st.op = "create" => ~Exists(st.object, S)
    /\ st.op = "alter" => Exists(st.object, S)
    /\ st.object \in View /\ st.op # "drop" => \A f \in st.facts : <<"parsed", f>> \in S

\* A view whose target is missing may be refused, or created all the same.
Doubtful(S, st) == st.object \in View /\ st.op # "drop" /\ ~Exists(Target[st.object], S)

\* A file executed to its end.
Completed(S, file) ==
    LET after[k \in 0..Len(file)] == IF k = 0 THEN S ELSE Effect(after[k - 1], file[k])
    IN after[Len(file)]

\* The schema of an empty database after the first n migrations.
Fresh[n \in 0..Total] == IF n = 0 THEN {} ELSE Completed(Fresh[n - 1], Migration[n])
-----------------------------------------------------------------------------
VARIABLES deployed,   \* how many migrations the newest release has
          schema,     \* the database
          holds,      \* aggregate tables with counts in them
          recorded    \* schema_migrations

VARIABLES directory,  \* the migrations of each runner's release
          applied,    \* its already_applied
          at,         \* the migration it is at, 0 when it does not run
          done        \* how many statements of that migration it has executed

\* History, for the properties and the bound only.
VARIABLES overlapped,  \* two runs were in progress at a time
          failures

runner == <<directory, applied, at, done>>
vars == <<deployed, schema, holds, recorded, runner, overlapped, failures>>

Running(r) == at[r] # 0

TypeOK == /\ deployed \in Releases
          /\ schema \subseteq Fresh[Total]
          /\ holds \subseteq {o \in {"artist", "track"} : Exists(o, schema)}
          /\ recorded \subseteq 1..deployed
          /\ directory \in [Runners -> 0..deployed]
          /\ applied \in [Runners -> SUBSET recorded]
          /\ at \in [Runners -> 0..Total + 1]
          /\ \A r \in Runners : /\ at[r] <= directory[r] + 1
                                /\ IF at[r] \in 1..directory[r]
                                   THEN done[r] \in 0..Len(Migration[at[r]])
                                   ELSE done[r] = 0
          /\ overlapped \in BOOLEAN
          /\ failures \in 0..MaxFailures

Init == /\ deployed \in Releases
        /\ schema = {} /\ holds = {} /\ recorded = {}
        /\ directory = [r \in Runners |-> 0]
        /\ applied = [r \in Runners |-> {}]
        /\ at = [r \in Runners |-> 0]
        /\ done = [r \in Runners |-> 0]
        /\ overlapped = FALSE /\ failures = 0
-----------------------------------------------------------------------------
\* A release with more migrations.
Deploy == /\ \E n \in Releases : n > deployed /\ deployed' = n
          /\ UNCHANGED <<schema, holds, recorded, runner, overlapped, failures>>

\* A batch of parsed rows is inserted and every view adds it to its table.
Count == /\ Exists("parsed", schema)
         /\ \A v \in View : Exists(v, schema) => Exists(Target[v], schema)
         /\ holds' = holds \cup {Target[v] : v \in {x \in View : Exists(x, schema)}}
         /\ UNCHANGED <<deployed, schema, recorded, runner, overlapped, failures>>

\* Mutant: the newest record is not read.
ReadAppliedIdentifiersLate == {m \in recorded : \E n \in recorded : m < n}

ReadAppliedIdentifiers == recorded

\* Where the loop stops next after migration m: what was read as applied is
\* skipped; one past the directory is the end of the loop.
NextToApply(m, newest, known) == Min({n \in m + 1..newest + 1 : n \notin known})

\* apply_migrations up to its loop.  The commands before the read create what is
\* missing and change nothing else.
Start(r) ==
    /\ ~Running(r)
    /\ directory' = [directory EXCEPT ![r] = deployed]
    /\ applied' = [applied EXCEPT ![r] = ReadAppliedIdentifiers]
    /\ at' = [at EXCEPT ![r] = NextToApply(0, deployed, applied'[r])]
    /\ overlapped' = (overlapped \/ \E q \in Runners : Running(q))
    /\ UNCHANGED <<deployed, schema, holds, recorded, done, failures>>

Ended(r) == /\ directory' = [directory EXCEPT ![r] = 0]
            /\ applied' = [applied EXCEPT ![r] = {}]
            /\ at' = [at EXCEPT ![r] = 0]
            /\ done' = [done EXCEPT ![r] = 0]

\* The loop has reached a migration that is not recorded.
Applying(r) == at[r] \in 1..directory[r]

NextStatement(r) == Migration[at[r]][done[r] + 1]
Unfinished(r) == Applying(r) /\ done[r] < Len(Migration[at[r]])

Executed(st) == /\ Accepted(schema, st)
                /\ schema' = Effect(schema, st)
                /\ holds' = {o \in holds : Exists(o, schema')}

Execute(r) == /\ Unfinished(r)
              /\ Executed(NextStatement(r))
              /\ done' = [done EXCEPT ![r] = @ + 1]
              /\ UNCHANGED <<deployed, recorded, directory, applied, at, overlapped, failures>>

\* The next turn of the loop.
GoToNext(r) == /\ at' = [at EXCEPT ![r] = NextToApply(@, directory[r], applied[r])]
               /\ done' = [done EXCEPT ![r] = 0]

\* Mutant: a refused statement is logged, and the loop goes on.
RefuseAndGoOn(r) ==
    /\ Unfinished(r)
    /\ ~Accepted(schema, NextStatement(r)) \/ Doubtful(schema, NextStatement(r))
    /\ GoToNext(r)
    /\ UNCHANGED <<deployed, schema, holds, recorded, directory, applied, overlapped, failures>>

\* The exception of a refused statement ends the run.
Refuse(r) == /\ Unfinished(r)
             /\ ~Accepted(schema, NextStatement(r)) \/ Doubtful(schema, NextStatement(r))
             /\ Ended(r)
             /\ UNCHANGED <<deployed, schema, holds, recorded, overlapped, failures>>

\* Mutant: the record is written before the statements are executed.
RecordFirst(r) ==
    /\ Applying(r)
    /\ recorded' = recorded \cup {at[r]}
    /\ GoToNext(r)
    /\ UNCHANGED <<deployed, schema, holds, directory, applied, overlapped, failures>>

\* Mutant: the next migration is begun where this one ended.
RecordWithoutReset(r) ==
    /\ Applying(r) /\ ~Unfinished(r)
    /\ recorded' = recorded \cup {at[r]}
    /\ at' = [at EXCEPT ![r] = NextToApply(@, directory[r], applied[r])]
    /\ UNCHANGED <<deployed, schema, holds, directory, applied, done, overlapped, failures>>

Record(r) == /\ Applying(r) /\ ~Unfinished(r)
             /\ recorded' = recorded \cup {at[r]}
             /\ GoToNext(r)
             /\ UNCHANGED <<deployed, schema, holds, directory, applied, overlapped, failures>>

Finish(r) == /\ at[r] = directory[r] + 1 /\ Running(r)
             /\ Ended(r)
             /\ UNCHANGED <<deployed, schema, holds, recorded, overlapped, failures>>

\* The run is killed or loses the server, before the next command or after the
\* server has executed it.
Die(r) == /\ Running(r) /\ failures < MaxFailures
          /\ failures' = failures + 1
          /\ Ended(r)
          /\ \/ UNCHANGED <<schema, holds, recorded>>
             \/ Unfinished(r) /\ Executed(NextStatement(r)) /\ UNCHANGED recorded
             \/ /\ Applying(r) /\ ~Unfinished(r)
                /\ recorded' = recorded \cup {at[r]} /\ UNCHANGED <<schema, holds>>
          /\ UNCHANGED <<deployed, overlapped>>

GoOn(r) == Execute(r) \/ Refuse(r) \/ Record(r) \/ Finish(r)

Next == Deploy \/ Count \/ \E r \in Runners : Start(r) \/ GoOn(r) \/ Die(r)

Spec == Init /\ [][Next]_vars

\* A run goes on until it ends, and whoever deploys runs it again.
FairSpec == /\ Spec
            /\ \A r \in Runners : WF_vars(GoOn(r))
            /\ WF_vars(\E r \in Runners : Start(r))
-----------------------------------------------------------------------------
\* Migrations are recorded in the order of their files and without a gap, also
\* when runs overlap, die, or were started from different releases.
RecordedInOrder == \A m \in recorded : 1..m \subseteq recorded

\* "so a fresh database reaches the same schema as a long-running one": whatever
\* was refused, interrupted or applied twice on the way there, as long as no two
\* runs overlapped.
SameSchemaAsFresh ==
    recorded = 1..deployed /\ ~overlapped => schema = Fresh[deployed]

\* A run that finds everything recorded changes nothing, and from the record of
\* migration 0005 on no run drops the counts that have come since, as long as no two
\* runs overlapped.
CountsOutliveMigrations ==
    [][~overlapped' => /\ recorded = 1..deployed => schema' = schema
                       /\ KeyEpochIdentifier \in recorded => holds \subseteq holds']_vars

\* However a run ended, another one gets the deployed migrations recorded: no
\* half applied migration stops the next attempt.
RetriesGetThrough ==
    []~overlapped => \A n \in Releases : deployed = n ~> 1..n \subseteq recorded
=============================================================================
