--------------------------- MODULE ReprocessProofs ---------------------------
(***************************************************************************)
(* Theorems of the reprocess command.                                      *)
(*                                                                         *)
(* Of Reprocess, for every length of a day, overlap, batch size, pair of   *)
(* retentions, set of command lines, set of parsings and bound:            *)
(* incremental runs leave no hole, a rebuild is exact, and no run counts a *)
(* row twice.  The properties speak of the time between two runs, or of    *)
(* whole runs; the invariant says what a run has done so far: which rows   *)
(* it has behind it, which are still to come, and which it will not reach  *)
(* because they arrived too late, all of these being newer than whatever   *)
(* it parses.                                                              *)
(*                                                                         *)
(* Of Identification, for all queries, dumps, sizes of chunks and lists of *)
(* words: what a parsed row says.  Of the keys that matter to a batch, the *)
(* looked up ones lie between those that the table has held all the while  *)
(* and those that it has held at some time; the longest match grows with   *)
(* the keys, so the row lies between the two answers as well.              *)
(***************************************************************************)
EXTENDS Reprocess, Identification, FiniteSetTheorems, WellFoundedInduction,
        SequenceTheorems, TLAPS

\* Whatever is stored, read or to be read has arrived.
NothingOfTheFuture ==
    /\ \A r \in Row : parsed[r] # 0 => r <= now
    /\ \A d \in days : \E r \in Row : r <= now /\ DayOf(r) = d
    /\ \A c \in stream : c[1] <= now
    /\ sound => since <= now + 1

\* Where the locals of the command are in use.
LocalsInUse ==
    /\ phase # "stream" => stream = {}
    /\ phase \notin {"days", "stream"} => days = {}
    /\ \A c \in stream : DayOf(c[1]) \notin days
    /\ phase # "rebuild" => truncated = 0
    /\ phase = "rebuild" => truncated <= 2
    /\ whole => phase # "idle"
    /\ rebuilt => phase = "idle"

\* A row that was read, is parsed unless it is too old to keep, and is counted by
\* every view that takes it.
Covered(r) == /\ r + ParsedLife > now => parsed[r] = version
              /\ last[r] # "unread"
              /\ \A v \in View : Takes(v, last[r]) => counted[v][r] >= 1

\* A run that clears the tables, or that follows nothing, starts from the first row.
WholeFromTheStart == whole \/ (sound /\ phase = "rebuild") => since <= Min(Row)

\* What a run does not read because of its watermark has been read before.
CoveredBeforeSince ==
    sound /\ phase # "idle" => \A c \in raw : c[1] < since => Covered(c[1])

\* The run will read the row.
ToCome(r) == DayOf(r) \in days \/ \E n \in {1, 2} : <<r, n>> \in stream

\* The run will not read the row: it is newer than all that is parsed or to come.
Beyond(r) == /\ \A m \in AtVersion : m < r
             /\ \A c \in stream : c[1] < r
             /\ \A d \in days : d < DayOf(r)

CoveredFromSince ==
    (sound \/ whole) /\ phase \in {"days", "stream"} =>
        \A c \in raw : since <= c[1] => Covered(c[1]) \/ ToCome(c[1]) \/ Beyond(c[1])

\* NoHoles, by the parsed rows instead of the newest one.
CoveredWhenIdle ==
    sound /\ phase = "idle" =>
        \A c \in raw, m \in AtVersion : c[1] <= m => Covered(c[1])

HolesInv == /\ WholeFromTheStart /\ CoveredBeforeSince
            /\ CoveredFromSince /\ CoveredWhenIdle

\* Tables are cleared in their order, and a whole run reads into cleared tables.
ClearedSoFar ==
    /\ phase = "rebuild" /\ truncated >= 1 => \A r \in Row : last[r] = "unread"
    /\ phase = "rebuild" /\ truncated >= 2 => \A r \in Row : counted["artist"][r] = 0
    /\ whole /\ phase = "dates" =>
          \A r \in Row : last[r] = "unread" /\ \A v \in View : counted[v][r] = 0

\* A row that was not stored twice has no second copy.
CopiesAreTwice ==
    \A r \in Row \ twice : <<r, 2>> \notin raw /\ <<r, 2>> \notin stream

\* RebuildIsExact while the rebuild goes on: what is still to come was not read,
\* and nothing but what was read is counted.
ExactSoFar ==
    whole /\ phase \in {"days", "stream"} =>
        \A r \in Row \ twice :
            /\ ToCome(r) => last[r] = "unread"
            /\ \A v \in View : counted[v][r] = IF Takes(v, last[r]) THEN 1 ELSE 0

\* Of what the raw layer held when the partitions were listed, all is read or to come.
ReadSoFar ==
    whole /\ phase \in {"days", "stream"} =>
        \A c \in raw : c[1] <= listed => last[c[1]] # "unread" \/ ToCome(c[1])

ExactInv == ClearedSoFar /\ CopiesAreTwice /\ ExactSoFar /\ ReadSoFar /\ RebuildIsExact

\* A run reads nothing from before the moment that it was told to start from,
StreamFromSince == \A c \in stream : c[1] >= since

\* and a row that it is still to read was counted less often than runs were told to.
OneRunToGo(r) ==
    phase # "idle" /\ r >= since /\ (phase \in {"rebuild", "dates"} \/ ToCome(r)) =>
        \A v \in View : counted[v][r] < reads[v][r]

CountedInv == /\ StreamFromSince /\ CountedOncePerRun
              /\ \A r \in Row \ twice : OneRunToGo(r)

IInv == /\ TypeOK /\ NothingOfTheFuture /\ LocalsInUse
        /\ HolesInv /\ ExactInv /\ CountedInv
-----------------------------------------------------------------------------
(* Numbers, days and batches.                                                *)

LEMMA Constants ==
    /\ DayLength \in Nat /\ DayLength > 0
    /\ ParsedLife \in Nat /\ MaxVersion \in Nat
    /\ Overlap \in Nat /\ MaxTime \in Nat /\ MaxCommands \in Nat
BY ReprocessAssumption

\* A set of natural numbers that is not empty has a smallest element,
LEMMA MinOfNaturals ==
    ASSUME NEW S, S \subseteq Nat, S # {}
    PROVE  Min(S) \in S /\ \A y \in S : Min(S) <= y
<1> DEFINE Less == {p \in Nat \X Nat : p[1] < p[2]}
<1>1. IsWellFoundedOn(Less, Nat)
  BY NatLessThanWellFounded DEF OpToRel
<1>2. PICK x \in S : \A y \in S : <<y, x>> \notin Less
  BY <1>1, WFMin
<1>3. ASSUME NEW y \in S PROVE x <= y
  <2>1. y \in Nat /\ x \in Nat
    OBVIOUS
  <2>2. y < x => <<y, x>> \in Less
    BY <2>1
  <2>3. QED  BY <1>2, <2>1, <2>2
<1>4. QED  BY <1>3 DEF Min

\* and one that is bounded has a greatest.
LEMMA MaxOfBounded ==
    ASSUME NEW N \in Nat, NEW S, S \subseteq 0..N, S # {}
    PROVE  Max(S) \in S /\ \A y \in S : Max(S) >= y
<1> DEFINE Below == {N - y : y \in S}
<1>1. Below \subseteq Nat /\ Below # {}
  <2>1. ASSUME NEW y \in S PROVE N - y \in Nat
    OBVIOUS
  <2>2. QED  BY <2>1
<1>2. Min(Below) \in Below /\ \A y \in Below : Min(Below) <= y
  BY <1>1, MinOfNaturals
<1>3. PICK x \in S : N - x = Min(Below)
  BY <1>2
<1>4. ASSUME NEW y \in S PROVE x >= y
  <2>1. N - x <= N - y
    BY <1>2, <1>3
  <2>2. x \in Int /\ y \in Int
    OBVIOUS
  <2>3. QED  BY <2>1, <2>2
<1>5. QED  BY <1>4 DEF Max

LEMMA FirstRow ==
    ASSUME NEW r \in Row
    PROVE  Min(Row) \in Row /\ Min(Row) = 1
<1>1. Row \subseteq Nat /\ Row # {} /\ 1 \in Row
  BY Constants DEF Row
<1>2. Min(Row) \in Row /\ \A y \in Row : Min(Row) <= y
  BY <1>1, MinOfNaturals
<1>3. QED  BY <1>1, <1>2 DEF Row

\* The days are in the order of the rows.
LEMMA DaysFollowTime ==
    ASSUME NEW q \in Row, NEW r \in Row, q <= r
    PROVE  DayOf(q) \in Nat /\ DayOf(r) \in Nat /\ DayOf(q) <= DayOf(r)
<1> DEFINE a == q - 1
           b == r - 1
<1>1. a \in Nat /\ b \in Nat /\ a <= b /\ DayLength \in Nat /\ DayLength > 0
  BY Constants DEF Row
<1> HIDE DEF a, b
<1>2. /\ a \div DayLength \in Nat /\ b \div DayLength \in Nat
      /\ a \div DayLength <= b \div DayLength
  BY <1>1
<1>3. QED  BY <1>2 DEF DayOf, a, b

\* The newest of the rows at the version of the parser.
LEMMA NewestAtVersion ==
    ASSUME TypeOK, AtVersion # {}
    PROVE  Max(AtVersion) \in AtVersion /\ \A m \in AtVersion : Max(AtVersion) >= m
<1>1. AtVersion \subseteq 0..MaxTime /\ MaxTime \in Nat
  BY Constants DEF AtVersion, Row
<1>2. QED  BY <1>1, MaxOfBounded

\* How often a batch counts a row.
LEMMA BatchCounts ==
    ASSUME NEW taken, taken \subseteq Row \X {1, 2}, NEW r
    PROVE  LET n == Cardinality({c \in taken : c[1] = r}) IN
           /\ n \in Nat
           /\ (\E c \in taken : c[1] = r) => n >= 1
           /\ (\A c \in taken : c[1] # r) => n = 0
           /\ (\E c \in taken : c[1] = r) /\ <<r, 2>> \notin taken => n = 1
<1> DEFINE S == {c \in taken : c[1] = r}
<1>1. S \subseteq {<<r, 1>>, <<r, 2>>}
  OBVIOUS
<1>2. IsFiniteSet({<<r, 1>>, <<r, 2>>})
  <2>1. IsFiniteSet({<<r, 1>>})
    BY FS_Singleton
  <2>2. IsFiniteSet({<<r, 1>>} \cup {<<r, 2>>})
    BY <2>1, FS_AddElement
  <2>3. {<<r, 1>>} \cup {<<r, 2>>} = {<<r, 1>>, <<r, 2>>}
    OBVIOUS
  <2>4. QED  BY <2>2, <2>3
<1>3. IsFiniteSet(S)
  BY <1>1, <1>2, FS_Subset
<1>4. Cardinality(S) \in Nat /\ (Cardinality(S) = 0 <=> S = {})
  BY <1>3, FS_CardinalityType, FS_EmptySet
<1>5. S # {} /\ <<r, 2>> \notin taken => Cardinality(S) = 1
  <2>1. S # {} /\ <<r, 2>> \notin taken => S = {<<r, 1>>}
    BY <1>1
  <2>2. Cardinality({<<r, 1>>}) = 1
    BY FS_Singleton
  <2>3. QED  BY <2>1, <2>2
<1>6. QED  BY <1>4, <1>5

\* What an insert adds to one count: nothing, or as often as the row is in the batch.
LEMMA FannedOutAdds ==
    ASSUME TypeOK, NEW taken \in Batches, NEW parse \in Parsings, NEW views,
           FannedOut(taken, parse, views), NEW r \in Row, NEW v \in View
    PROVE  /\ counted[v][r] \in Nat /\ counted'[v][r] \in Nat
           /\ counted'[v][r] >= counted[v][r]
           /\ ~Takes(v, parse[r]) \/ (\A c \in taken : c[1] # r) =>
                 counted'[v][r] = counted[v][r]
           /\ v \in views /\ Takes(v, parse[r]) /\ (\E c \in taken : c[1] = r) =>
                 /\ counted'[v][r] >= counted[v][r] + 1
                 /\ <<r, 2>> \notin taken => counted'[v][r] = counted[v][r] + 1
           /\ <<r, 2>> \notin taken => counted'[v][r] <= counted[v][r] + 1
<1> DEFINE n == Cardinality({c \in taken : c[1] = r})
           m == Cardinality({c \in taken : c[1] = r /\ Takes(v, parse[r])})
<1>1. taken \subseteq Row \X {1, 2}
  BY DEF Batches, TypeOK
<1>2. /\ n \in Nat
      /\ (\E c \in taken : c[1] = r) => n >= 1
      /\ (\A c \in taken : c[1] # r) => n = 0
      /\ (\E c \in taken : c[1] = r) /\ <<r, 2>> \notin taken => n = 1
  BY <1>1, BatchCounts
<1>3. Takes(v, parse[r]) => m = n
  <2>1. Takes(v, parse[r]) =>
           {c \in taken : c[1] = r /\ Takes(v, parse[r])} = {c \in taken : c[1] = r}
    OBVIOUS
  <2>2. QED  BY <2>1
<1>4. ~Takes(v, parse[r]) => m = 0
  <2>1. ~Takes(v, parse[r]) => {c \in taken : c[1] = r /\ Takes(v, parse[r])} = {}
    OBVIOUS
  <2>2. Cardinality({}) = 0
    BY FS_EmptySet
  <2>3. QED  BY <2>1, <2>2
<1>5. counted'[v][r] = counted[v][r] + (IF v \in views THEN m ELSE 0)
  BY DEF FannedOut
<1>6. counted[v][r] \in Nat
  BY DEF TypeOK
<1> HIDE DEF n, m
<1>7. QED  BY <1>2, <1>3, <1>4, <1>5, <1>6
-----------------------------------------------------------------------------
(* Types.                                                                    *)

LEMMA InitTypes == Init => TypeOK
<1> SUFFICES ASSUME Init PROVE TypeOK
  OBVIOUS
<1>1. version \in 1..MaxVersion /\ commands \in 0..MaxCommands /\ now \in 0..MaxTime
  BY ReprocessAssumption DEF Init
<1>2. parsed \in [Row -> 0..version] /\ counted \in [View -> [Row -> Nat]]
  BY DEF Init
<1>3. since \in DefaultSince - Overlap..MaxTime
  BY Constants DEF Init, DefaultSince
<1>4. {whole, sound, rebuilt} \subseteq BOOLEAN
  BY DEF Init
<1>5. last \in [Row -> Outcome \cup {"unread"}] /\ reads \in [View -> [Row -> Nat]]
  BY DEF Init
<1>6. QED  BY <1>1, <1>2, <1>3, <1>4, <1>5 DEF Init, TypeOK

\* A batch is a part of what is left of the partition.
LEMMA BatchTyped ==
    ASSUME TypeOK, NEW taken \in Batches
    PROVE  taken \subseteq stream /\ taken \subseteq Row \X {1, 2}
BY DEF Batches, TypeOK

\* What a batch does to the two layers, whether or not its insert succeeds.
LEMMA StoredTyped ==
    ASSUME TypeOK, NEW taken, NEW parse \in Parsings, Stored(taken, parse)
    PROVE  /\ parsed' \in [Row -> 0..version]
           /\ last' \in [Row -> Outcome \cup {"unread"}]
<1>1. \A r \in Row : parse[r] \in Outcome
  BY ParsingsAssumption
<1>2. parsed' \in [Row -> 0..version]
  BY DEF Stored, TypeOK
<1>3. last' \in [Row -> Outcome \cup {"unread"}]
  BY <1>1 DEF Stored, TypeOK
<1>4. QED  BY <1>2, <1>3

LEMMA FannedOutTyped ==
    ASSUME TypeOK, NEW taken \in Batches, NEW parse \in Parsings, NEW views,
           FannedOut(taken, parse, views)
    PROVE  counted' \in [View -> [Row -> Nat]]
<1>1. \A v \in View, r \in Row : counted'[v][r] \in Nat
  BY FannedOutAdds
<1>2. /\ counted' = [v \in View |-> counted'[v]]
      /\ \A v \in View : counted'[v] = [r \in Row |-> counted'[v][r]]
  BY DEF FannedOut
<1>3. \A v \in View : counted'[v] \in [Row -> Nat]
  BY <1>1, <1>2
<1>4. QED  BY <1>2, <1>3

LEMMA StorageSteps ==
    ASSUME TypeOK, Arrive \/ MergeRaw \/ ExpireRaw \/ ExpireParsed
    PROVE  TypeOK'
<1>1. CASE Arrive
  <2>1. now' \in 0..MaxTime /\ now' \in Row /\ now' = now + 1
    BY <1>1, Constants DEF Arrive, TypeOK, Row
  <2>2. raw' \subseteq {r \in Row : r <= now'} \X {1, 2}
    BY <1>1, <2>1 DEF Arrive, TypeOK, Row
  <2>3. twice' \subseteq Row
    BY <1>1, <2>1 DEF Arrive, TypeOK
  <2>4. UNCHANGED readings /\ listed \in 0..now'
    BY <1>1, <2>1 DEF Arrive, TypeOK, readings
  <2>5. QED  BY <1>1, <2>1, <2>2, <2>3, <2>4 DEF Arrive, TypeOK, locals, readings
<1>2. CASE MergeRaw
  BY <1>2 DEF MergeRaw, TypeOK, locals, history, runs, readings
<1>3. CASE ExpireRaw
  BY <1>3 DEF ExpireRaw, TypeOK, locals, history, runs, readings
<1>4. CASE ExpireParsed
  <2>1. parsed' \in [Row -> 0..version]
    BY <1>4 DEF ExpireParsed, TypeOK
  <2>2. QED  BY <1>4, <2>1 DEF ExpireParsed, TypeOK, locals, history, runs, readings
<1>5. QED  BY <1>1, <1>2, <1>3, <1>4

\* A watermark is a moment, or before the first one.
LEMMA SinceTyped ==
    ASSUME TypeOK, NEW i \in Invocations
    PROVE  (IF i.incremental THEN IncrementalSince ELSE i.from)
               \in DefaultSince - Overlap..MaxTime
<1>1. Overlap \in Nat /\ MaxTime \in Nat
  BY Constants
<1>2. i.from \in DefaultSince - Overlap..MaxTime
  BY <1>1, InvocationsAssumption DEF Invocation, Row, DefaultSince
<1>3. IncrementalSince \in DefaultSince - Overlap..MaxTime
  <2>1. CASE AtVersion = {}
    BY <1>1, <2>1 DEF IncrementalSince, DefaultSince
  <2>2. CASE AtVersion # {}
    BY <1>1, <2>2, NewestAtVersion DEF IncrementalSince, DefaultSince, AtVersion, Row
  <2>3. QED  BY <2>1, <2>2
<1>4. QED  BY <1>2, <1>3

LEMMA CommandSteps ==
    ASSUME TypeOK, LocalsInUse,
           NewParser \/ Begin \/ Truncate \/ ReadDates \/ OpenDay \/ Finish
    PROVE  TypeOK'
<1>1. CASE NewParser
  <2>1. version' \in 1..MaxVersion /\ version' = version + 1
    BY <1>1, Constants DEF NewParser, TypeOK
  <2>2. parsed' \in [Row -> 0..version']
    BY <1>1, <2>1 DEF NewParser, TypeOK, storage
  <2>3. QED  BY <1>1, <2>1, <2>2 DEF NewParser, TypeOK, storage, locals, history, runs, readings
<1>2. CASE Begin
  <2>1. PICK i \in Invocations :
           /\ since' = IF i.incremental THEN IncrementalSince ELSE i.from
           /\ phase' = IF i.rebuild THEN "rebuild" ELSE "dates"
           /\ whole' = (i.rebuild /\ since' <= Min(Row))
           /\ sound' = (sound /\ (i.rebuild \/ ~i.incremental => since' <= Min(Row)))
    BY <1>2 DEF Begin
  <2>2. since' \in DefaultSince - Overlap..MaxTime
    BY <2>1, SinceTyped
  <2>3. commands' \in 0..MaxCommands
    BY <1>2, Constants DEF Begin, TypeOK
  <2>4. i.rebuild \in BOOLEAN
    BY InvocationsAssumption DEF Invocation
  <2>5. whole' \in BOOLEAN
    BY <2>1, <2>4
  <2>6. sound' \in BOOLEAN
    BY <2>1 DEF TypeOK
  <2>7. phase' \in {"rebuild", "dates"}
    BY <2>1
  <2>8. reads' \in [View -> [Row -> Nat]]
    BY <1>2 DEF Begin, TypeOK
  <2>9. QED
    BY <1>2, <2>2, <2>3, <2>5, <2>6, <2>7, <2>8 DEF Begin, TypeOK, storage
<1>3. CASE Truncate
  <2>1. parsed' \in [Row -> 0..version]
    BY <1>3 DEF Truncate, Cleared, TypeOK
  <2>2. counted' \in [View -> [Row -> Nat]]
    BY <1>3 DEF Truncate, Cleared, TypeOK
  <2>3. truncated' \in 0..3 /\ phase' \in {"dates", "rebuild"}
    BY <1>3 DEF Truncate, TypeOK
  <2>4. last' \in [Row -> Outcome \cup {"unread"}] /\ reads' \in [View -> [Row -> Nat]]
    BY <1>3 DEF Truncate, TypeOK
  <2>5. QED  BY <1>3, <2>1, <2>2, <2>3, <2>4 DEF Truncate, TypeOK, runs
<1>4. CASE ReadDates
  <2>1. days' \subseteq {DayOf(r) : r \in Row}
    BY <1>4 DEF ReadDates, TypeOK
  <2>2. QED  BY <1>4, <2>1 DEF ReadDates, TypeOK, storage, runs
<1>5. CASE OpenDay
  <2>1. days' \subseteq {DayOf(r) : r \in Row}
    BY <1>5 DEF OpenDay, TypeOK
  <2>2. stream' \subseteq Row \X {1, 2}
    BY <1>5 DEF OpenDay, TypeOK
  <2>3. phase' \in {"days", "stream"} /\ (phase' = "stream" => stream' # {})
    BY <1>5 DEF OpenDay
  <2>4. QED  BY <1>5, <2>1, <2>2, <2>3 DEF OpenDay, TypeOK, storage, history, runs, readings
<1>6. CASE Finish
  <2>1. since' \in DefaultSince - Overlap..MaxTime
    BY <1>6, Constants DEF Finish, DefaultSince
  <2>2. {whole', sound', rebuilt'} \subseteq BOOLEAN
    BY <1>6 DEF Finish, TypeOK
  <2>3. QED  BY <1>6, <2>1, <2>2 DEF Finish, TypeOK, storage, readings
<1>7. QED  BY <1>1, <1>2, <1>3, <1>4, <1>5, <1>6

LEMMA InsertSteps ==
    ASSUME TypeOK, FlushBatch \/ Die \/ FlushFails
    PROVE  TypeOK'
<1>1. CASE FlushBatch
  <2>1. PICK taken \in Batches, parse \in Parsings :
           /\ Stored(taken, parse) /\ FannedOut(taken, parse, View)
           /\ stream' = stream \ taken
    BY <1>1 DEF FlushBatch
  <2>2. /\ parsed' \in [Row -> 0..version] /\ counted' \in [View -> [Row -> Nat]]
        /\ last' \in [Row -> Outcome \cup {"unread"}]
    BY <2>1, StoredTyped, FannedOutTyped
  <2>3. /\ stream' \subseteq Row \X {1, 2}
        /\ phase' \in {"days", "stream"} /\ (phase' = "stream" => stream' # {})
    BY <1>1, <2>1 DEF FlushBatch, TypeOK
  <2>4. QED  BY <1>1, <2>2, <2>3 DEF FlushBatch, TypeOK, runs
<1>2. ASSUME Dead, parsed' \in [Row -> 0..version], counted' \in [View -> [Row -> Nat]],
             last' \in [Row -> Outcome \cup {"unread"}]
      PROVE  TypeOK'
  <2>1. since' \in DefaultSince - Overlap..MaxTime
    BY <1>2, Constants DEF Dead, DefaultSince
  <2>2. {whole', sound', rebuilt'} \subseteq BOOLEAN
    BY <1>2 DEF Dead, TypeOK
  <2>3. QED  BY <1>2, <2>1, <2>2 DEF Dead, TypeOK
<1>3. CASE Die
  BY <1>2, <1>3 DEF Die, TypeOK
<1>4. CASE FlushFails
  <2>1. PICK taken \in Batches, parse \in Parsings, views \in SUBSET View :
           /\ Stored(taken, parse) \/ UNCHANGED <<parsed, last>>
           /\ FannedOut(taken, parse, views)
    BY <1>4 DEF FlushFails
  <2>2. parsed' \in [Row -> 0..version] /\ last' \in [Row -> Outcome \cup {"unread"}]
    <3>1. CASE Stored(taken, parse)
      BY <3>1, StoredTyped
    <3>2. CASE UNCHANGED <<parsed, last>>
      BY <3>2 DEF TypeOK
    <3>3. QED  BY <2>1, <3>1, <3>2
  <2>3. counted' \in [View -> [Row -> Nat]]
    BY <2>1, FannedOutTyped
  <2>4. QED  BY <1>2, <1>4, <2>2, <2>3 DEF FlushFails
<1>5. QED  BY <1>1, <1>3, <1>4

LEMMA TypesNext ==
    ASSUME TypeOK, LocalsInUse, [Next]_vars
    PROVE  TypeOK'
<1>1. CASE Arrive \/ MergeRaw \/ ExpireRaw \/ ExpireParsed
  BY <1>1, StorageSteps
<1>2. CASE NewParser \/ Begin \/ Truncate \/ ReadDates \/ OpenDay \/ Finish
  BY <1>2, CommandSteps
<1>3. CASE FlushBatch \/ Die \/ FlushFails
  BY <1>3, InsertSteps
<1>4. CASE UNCHANGED vars
  BY <1>4 DEF TypeOK, vars, storage, locals, history, runs, readings
<1>5. QED  BY <1>1, <1>2, <1>3, <1>4 DEF Next
-----------------------------------------------------------------------------
(* Nothing is of the future, and the locals are where they are used.         *)

LEMMA InitLocals == Init => NothingOfTheFuture /\ LocalsInUse
BY Constants DEF Init, NothingOfTheFuture, LocalsInUse

\* The rows at the version of the parser have arrived.
LEMMA AtVersionArrived ==
    ASSUME TypeOK, NothingOfTheFuture
    PROVE  \A m \in AtVersion : m \in Row /\ m <= now
BY DEF TypeOK, NothingOfTheFuture, AtVersion

\* A run that starts from the watermark, or from the first row, starts from no
\* moment that is still to come.
LEMMA BeginSince ==
    ASSUME TypeOK, NothingOfTheFuture, NEW i \in Invocations,
           since' = IF i.incremental THEN IncrementalSince ELSE i.from,
           ~i.incremental => since' <= Min(Row)
    PROVE  since' <= now + 1
<1>1. now \in Nat /\ Overlap \in Nat
  BY Constants DEF TypeOK
<1>2. CASE i.incremental
  <2>1. CASE AtVersion = {}
    BY <1>1, <1>2, <2>1 DEF IncrementalSince, DefaultSince
  <2>2. CASE AtVersion # {}
    <3>1. Max(AtVersion) \in Row /\ Max(AtVersion) <= now
      BY <2>2, NewestAtVersion, AtVersionArrived
    <3>2. QED  BY <1>1, <1>2, <2>2, <3>1 DEF IncrementalSince, Row
  <2>3. QED  BY <2>1, <2>2
<1>3. CASE ~i.incremental
  <2>1. since' = i.from /\ (i.from = 0 \/ i.from \in Row)
    BY <1>3, InvocationsAssumption DEF Invocation, DefaultSince
  <2>2. CASE i.from = 0
    BY <1>1, <2>1, <2>2
  <2>3. CASE i.from \in Row
    BY <1>1, <1>3, <2>1, <2>3, FirstRow DEF Row
  <2>4. QED  BY <2>1, <2>2, <2>3
<1>4. QED  BY <1>2, <1>3

LEMMA FutureNext ==
    ASSUME TypeOK, NothingOfTheFuture, LocalsInUse, [Next]_vars
    PROVE  NothingOfTheFuture'
<1>0. now \in Nat /\ raw \subseteq {r \in Row : r <= now} \X {1, 2}
  BY DEF TypeOK
<1>1. CASE Arrive
  BY <1>0, <1>1 DEF Arrive, NothingOfTheFuture, locals, TypeOK, Row
<1>2. CASE MergeRaw \/ ExpireRaw
  BY <1>2 DEF MergeRaw, ExpireRaw, NothingOfTheFuture, locals, history, runs, readings
<1>3. CASE ExpireParsed
  BY <1>3 DEF ExpireParsed, NothingOfTheFuture, locals, history, runs, readings
<1>4. CASE NewParser
  BY <1>4 DEF NewParser, NothingOfTheFuture, storage, locals, history, runs, readings
<1>5. CASE Begin
  <2>1. PICK i \in Invocations :
           /\ since' = IF i.incremental THEN IncrementalSince ELSE i.from
           /\ sound' = (sound /\ (i.rebuild \/ ~i.incremental => since' <= Min(Row)))
    BY <1>5 DEF Begin
  <2>2. sound' => since' <= now + 1
    BY <2>1, BeginSince
  <2>3. QED  BY <1>5, <2>2 DEF Begin, NothingOfTheFuture, storage
<1>6. CASE Truncate
  <2>1. \A r \in Row : parsed'[r] # 0 => r <= now
    BY <1>6 DEF Truncate, Cleared, NothingOfTheFuture
  <2>2. QED  BY <1>6, <2>1 DEF Truncate, NothingOfTheFuture, history, runs, readings
<1>7. CASE ReadDates
  BY <1>0, <1>7 DEF ReadDates, NothingOfTheFuture, storage, history, runs, readings
<1>8. CASE OpenDay
  BY <1>0, <1>8 DEF OpenDay, NothingOfTheFuture, storage, history, runs, readings
<1>9. CASE FlushBatch
  <2>1. PICK taken \in Batches, parse \in Parsings :
           Stored(taken, parse) /\ stream' = stream \ taken
    BY <1>9 DEF FlushBatch
  <2>2. taken \subseteq stream
    BY BatchTyped
  <2>3. \A r \in Row : parsed'[r] # 0 => r <= now
    BY <2>1, <2>2 DEF Stored, NothingOfTheFuture
  <2>4. QED  BY <1>9, <2>1, <2>3 DEF FlushBatch, NothingOfTheFuture, history, runs, readings
<1>10. CASE Finish
  BY <1>0, <1>10 DEF Finish, NothingOfTheFuture, storage
<1>11. CASE Die
  BY <1>0, <1>11 DEF Die, Dead, NothingOfTheFuture
<1>12. CASE FlushFails
  <2>1. PICK taken \in Batches, parse \in Parsings :
           Stored(taken, parse) \/ UNCHANGED parsed
    BY <1>12 DEF FlushFails
  <2>2. taken \subseteq stream
    BY BatchTyped
  <2>3. \A r \in Row : parsed'[r] # 0 => r <= now
    BY <2>1, <2>2 DEF Stored, NothingOfTheFuture
  <2>4. QED  BY <1>0, <1>12, <2>3 DEF FlushFails, Dead, NothingOfTheFuture
<1>13. CASE UNCHANGED vars
  BY <1>13 DEF NothingOfTheFuture, vars, storage, locals, history, runs, readings
<1>14. QED
  BY <1>1, <1>2, <1>3, <1>4, <1>5, <1>6, <1>7, <1>8, <1>9, <1>10, <1>11, <1>12,
     <1>13 DEF Next

LEMMA LocalsNext ==
    ASSUME TypeOK, LocalsInUse, [Next]_vars
    PROVE  LocalsInUse'
<1>1. CASE Arrive \/ MergeRaw \/ ExpireRaw \/ ExpireParsed
  BY <1>1 DEF Arrive, MergeRaw, ExpireRaw, ExpireParsed, LocalsInUse, locals, history, runs, readings
<1>2. CASE NewParser
  BY <1>2 DEF NewParser, LocalsInUse, locals, history, runs, readings
<1>3. CASE Begin
  BY <1>3 DEF Begin, LocalsInUse
<1>4. CASE Truncate
  BY <1>4 DEF Truncate, LocalsInUse, TypeOK, history, runs, readings
<1>5. CASE ReadDates
  BY <1>5 DEF ReadDates, LocalsInUse, history, runs, readings
<1>6. CASE OpenDay
  BY <1>6 DEF OpenDay, LocalsInUse, history, runs, readings
<1>7. CASE FlushBatch
  BY <1>7 DEF FlushBatch, LocalsInUse, TypeOK, history, runs, readings
<1>8. CASE Finish
  BY <1>8 DEF Finish, LocalsInUse, TypeOK
<1>9. CASE Die \/ FlushFails
  BY <1>9 DEF Die, FlushFails, Dead, LocalsInUse
<1>10. CASE UNCHANGED vars
  BY <1>10 DEF LocalsInUse, vars, locals, history, runs, readings
<1>11. QED
  BY <1>1, <1>2, <1>3, <1>4, <1>5, <1>6, <1>7, <1>8, <1>9, <1>10 DEF Next
-----------------------------------------------------------------------------
(* No holes.                                                                 *)

LEMMA InitHoles == Init => HolesInv
BY DEF Init, HolesInv, WholeFromTheStart, CoveredBeforeSince, CoveredFromSince,
       CoveredWhenIdle

\* A row of the raw layer is a row and the number of its copy.
LEMMA RawRows ==
    ASSUME TypeOK, NEW c \in raw
    PROVE  c[1] \in Row /\ c[1] <= now /\ c[2] \in {1, 2} /\ c = <<c[1], c[2]>>
BY DEF TypeOK

\* A new row is newer than all that is parsed or to come, or of a day to come.
LEMMA ArriveHoles ==
    ASSUME TypeOK, NothingOfTheFuture, HolesInv, Arrive
    PROVE  HolesInv'
<1>1. /\ now' = now + 1 /\ now \in Nat /\ now' \in Row
      /\ \A c \in raw' : c \in raw \/ c[1] = now'
      /\ UNCHANGED <<parsed, counted, version, phase, locals, commands, whole, sound,
                     rebuilt, last>>
  BY Constants DEF Arrive, TypeOK, Row, readings
<1>2. UNCHANGED <<truncated, since, days, stream>>
  BY <1>1 DEF locals
<1>3. \A r \in Row : Covered(r) => Covered(r)'
  BY <1>1, Constants DEF Covered, Row
<1>4. \A r \in Row : ToCome(r) => ToCome(r)'
  BY <1>2 DEF ToCome
<1>5. AtVersion' = AtVersion
  BY <1>1 DEF AtVersion
<1>6. \A r \in Row : Beyond(r) => Beyond(r)'
  BY <1>2, <1>5 DEF Beyond
<1>7. PICK a \in Row : a = now'
  BY <1>1
<1>8. ToCome(a)' \/ Beyond(a)'
  <2>1. \A m \in AtVersion' : m < a
    BY <1>1, <1>5, <1>7, AtVersionArrived DEF Row
  <2>2. \A c \in stream' : c[1] < a
    BY <1>1, <1>2, <1>7 DEF NothingOfTheFuture, TypeOK, Row
  <2>3. \A d \in days' : d <= DayOf(a) /\ d \in Nat /\ DayOf(a) \in Nat
    <3> TAKE d \in days'
    <3>1. PICK r \in Row : r <= now /\ DayOf(r) = d
      BY <1>2 DEF NothingOfTheFuture
    <3>2. r <= a
      BY <1>1, <1>7, <3>1 DEF Row
    <3>3. QED  BY <1>1, <3>1, <3>2, DaysFollowTime
  <2>4. CASE DayOf(a) \in days'
    BY <2>4 DEF ToCome
  <2>5. CASE DayOf(a) \notin days'
    <3>1. \A d \in days' : d < DayOf(a)
      BY <2>3, <2>5
    <3>2. QED  BY <2>1, <2>2, <3>1 DEF Beyond
  <2>6. QED  BY <2>4, <2>5
<1>9. WholeFromTheStart'
  BY <1>1, <1>2 DEF HolesInv, WholeFromTheStart
<1>10. CoveredBeforeSince'
  <2> SUFFICES ASSUME sound', phase' # "idle", NEW c \in raw', c[1] < since'
               PROVE  Covered(c[1])'
    BY DEF CoveredBeforeSince
  <2>1. since <= now + 1 /\ sound /\ phase # "idle" /\ since' = since
    BY <1>1, <1>2 DEF NothingOfTheFuture
  <2>2. since \in Int
    BY Constants DEF TypeOK, DefaultSince
  <2>3. c[1] # now'
    BY <1>1, <2>1, <2>2
  <2>4. c \in raw /\ c[1] < since
    BY <1>1, <2>1, <2>3
  <2>5. Covered(c[1]) /\ c[1] \in Row
    BY <2>1, <2>4, RawRows DEF HolesInv, CoveredBeforeSince
  <2>6. QED  BY <1>3, <2>5
<1>11. CoveredFromSince'
  <2> SUFFICES ASSUME (sound \/ whole)', phase' \in {"days", "stream"},
                      NEW c \in raw', since' <= c[1]
               PROVE  Covered(c[1])' \/ ToCome(c[1])' \/ Beyond(c[1])'
    BY DEF CoveredFromSince
  <2>1. CASE c \in raw
    <3>1. Covered(c[1]) \/ ToCome(c[1]) \/ Beyond(c[1])
      BY <1>1, <1>2, <2>1 DEF HolesInv, CoveredFromSince
    <3>2. QED  BY <1>3, <1>4, <1>6, <2>1, <3>1, RawRows
  <2>2. CASE c[1] = now'
    BY <1>7, <1>8, <2>2
  <2>3. QED  BY <1>1, <2>1, <2>2
<1>12. CoveredWhenIdle'
  <2> SUFFICES ASSUME sound', phase' = "idle",
                      NEW c \in raw', NEW m \in AtVersion', c[1] <= m
               PROVE  Covered(c[1])'
    BY DEF CoveredWhenIdle
  <2>1. m \in AtVersion /\ m <= now /\ m \in Row
    BY <1>5, AtVersionArrived
  <2>2. c \in raw
    BY <1>1, <2>1 DEF Row
  <2>3. Covered(c[1]) /\ c[1] \in Row
    BY <1>1, <2>1, <2>2, RawRows DEF HolesInv, CoveredWhenIdle
  <2>4. QED  BY <1>3, <2>3
<1>13. QED  BY <1>9, <1>10, <1>11, <1>12 DEF HolesInv

\* Rows that are merged or expire leave fewer rows to be covered, and the parsed
\* rows that expire are too old to be asked for.
LEMMA FewerRows ==
    ASSUME HolesInv,
           raw' \subseteq raw, AtVersion' \subseteq AtVersion,
           UNCHANGED <<phase, locals, history>>,
           \A c \in raw : Covered(c[1]) => Covered(c[1])'
    PROVE  HolesInv'
<1>1. UNCHANGED <<since, days, stream, whole, sound>>
  BY DEF locals, history, runs, readings
<1>2. \A c \in raw : /\ ToCome(c[1]) => ToCome(c[1])'
                     /\ Beyond(c[1]) => Beyond(c[1])'
  BY <1>1 DEF ToCome, Beyond
<1>3. WholeFromTheStart'
  BY <1>1 DEF HolesInv, WholeFromTheStart
<1>4. CoveredBeforeSince'
  BY <1>1 DEF HolesInv, CoveredBeforeSince
<1>5. CoveredFromSince'
  BY <1>1, <1>2 DEF HolesInv, CoveredFromSince
<1>6. CoveredWhenIdle'
  BY <1>1 DEF HolesInv, CoveredWhenIdle
<1>7. QED  BY <1>3, <1>4, <1>5, <1>6 DEF HolesInv

LEMMA MergeHoles ==
    ASSUME TypeOK, HolesInv, MergeRaw \/ ExpireRaw \/ ExpireParsed \/ UNCHANGED vars
    PROVE  HolesInv'
<1>1. CASE MergeRaw \/ ExpireRaw \/ UNCHANGED vars
  <2>1. /\ raw' \subseteq raw
        /\ UNCHANGED <<now, parsed, counted, version, phase, locals, history>>
    BY <1>1 DEF MergeRaw, ExpireRaw, vars, storage
  <2>2. AtVersion' \subseteq AtVersion
    BY <2>1 DEF AtVersion
  <2>3. \A c \in raw : Covered(c[1]) => Covered(c[1])'
    BY <2>1 DEF Covered, history, readings
  <2>4. QED  BY <2>1, <2>2, <2>3, FewerRows
<1>2. CASE ExpireParsed
  <2>1. /\ UNCHANGED <<now, raw, counted, version, phase, locals, history>>
        /\ \A r \in Row : parsed'[r] = parsed[r]
                          \/ (r + ParsedLife <= now /\ parsed'[r] = 0)
    BY <1>2 DEF ExpireParsed, TypeOK
  <2>2. AtVersion' \subseteq AtVersion
    BY <2>1 DEF AtVersion, TypeOK
  <2>3. \A c \in raw : Covered(c[1]) => Covered(c[1])'
    BY <2>1, RawRows, Constants DEF Covered, TypeOK, Row, history, readings
  <2>4. QED  BY <2>1, <2>2, <2>3, FewerRows
<1>3. QED  BY <1>1, <1>2

\* Nothing is at the version of a new parser.
LEMMA NewParserHoles ==
    ASSUME TypeOK, LocalsInUse, HolesInv, NewParser
    PROVE  HolesInv'
<1>1. /\ phase' = "idle" /\ ~whole' /\ version' = version + 1
      /\ parsed' = parsed
  BY DEF NewParser, LocalsInUse, locals, history, runs, readings, storage
<1>2. AtVersion' = {}
  BY <1>1 DEF AtVersion, TypeOK
<1>3. QED
  BY <1>1, <1>2 DEF HolesInv, WholeFromTheStart, CoveredBeforeSince, CoveredFromSince,
                    CoveredWhenIdle

\* A run starts from the first row, or where the runs before it have covered what
\* is older than its watermark.
LEMMA BeginHoles ==
    ASSUME TypeOK, HolesInv, Begin
    PROVE  HolesInv'
<1>1. PICK i \in Invocations :
         /\ since' = IF i.incremental THEN IncrementalSince ELSE i.from
         /\ phase' = IF i.rebuild THEN "rebuild" ELSE "dates"
         /\ whole' = (i.rebuild /\ since' <= Min(Row))
         /\ sound' = (sound /\ (i.rebuild \/ ~i.incremental => since' <= Min(Row)))
  BY DEF Begin
<1>2. phase = "idle" /\ UNCHANGED <<now, raw, parsed, counted, version, last>>
  BY DEF Begin, storage
<1>3. WholeFromTheStart'
  <2>1. phase' = "rebuild" => i.rebuild
    BY <1>1
  <2>2. whole' \/ (sound' /\ phase' = "rebuild") => since' <= Min(Row)
    BY <1>1, <2>1
  <2>3. QED  BY <2>2 DEF WholeFromTheStart
<1>4. CoveredBeforeSince'
  <2> SUFFICES ASSUME sound', NEW c \in raw, c[1] < since'
               PROVE  Covered(c[1])
    BY <1>2 DEF CoveredBeforeSince, Covered
  <2>1. c[1] \in Row /\ Min(Row) = 1
    BY RawRows, FirstRow
  <2>2. ~(since' <= Min(Row))
    BY <1>1, <2>1, SinceTyped, Constants DEF Row, DefaultSince
  <2>3. i.incremental /\ since' = IncrementalSince /\ sound
    BY <1>1, <2>2
  <2>4. AtVersion # {}
    BY <2>1, <2>2, <2>3 DEF IncrementalSince, DefaultSince
  <2>5. Max(AtVersion) \in AtVersion /\ since' = Max(AtVersion) - Overlap
    BY <2>3, <2>4, NewestAtVersion DEF IncrementalSince
  <2>6. c[1] <= Max(AtVersion)
    BY <2>1, <2>5, Constants DEF AtVersion, Row
  <2>7. QED  BY <1>2, <2>3, <2>5, <2>6 DEF HolesInv, CoveredWhenIdle
<1>5. CoveredFromSince' /\ CoveredWhenIdle'
  BY <1>1 DEF CoveredFromSince, CoveredWhenIdle
<1>6. QED  BY <1>3, <1>4, <1>5 DEF HolesInv

\* No row is before the first, which a rebuild starts from.
LEMMA TruncateHoles ==
    ASSUME TypeOK, HolesInv, Truncate
    PROVE  HolesInv'
<1>1. /\ phase = "rebuild" /\ phase' \in {"dates", "rebuild"}
      /\ UNCHANGED <<raw, since, whole, sound>>
  BY DEF Truncate, history, runs, readings
<1>2. WholeFromTheStart'
  BY <1>1 DEF HolesInv, WholeFromTheStart
<1>3. CoveredBeforeSince'
  <2> SUFFICES ASSUME sound, NEW c \in raw, c[1] < since
               PROVE  FALSE
    BY <1>1 DEF CoveredBeforeSince
  <2>1. since <= Min(Row)
    BY <1>1 DEF HolesInv, WholeFromTheStart
  <2>2. c[1] \in Row /\ Min(Row) = 1 /\ since \in Int
    BY RawRows, FirstRow, Constants DEF TypeOK, DefaultSince
  <2>3. QED  BY <2>1, <2>2 DEF Row
<1>4. CoveredFromSince' /\ CoveredWhenIdle'
  BY <1>1 DEF CoveredFromSince, CoveredWhenIdle
<1>5. QED  BY <1>2, <1>3, <1>4 DEF HolesInv

\* Every row from the watermark on is of a day that is listed.
LEMMA ReadDatesHoles ==
    ASSUME TypeOK, HolesInv, ReadDates
    PROVE  HolesInv'
<1>1. /\ phase = "dates" /\ phase' = "days"
      /\ UNCHANGED <<now, raw, parsed, counted, version, since, whole, sound, last>>
      /\ days' = {DayOf(c[1]) : c \in {x \in raw : x[1] >= since}}
  BY DEF ReadDates, storage, history, runs, readings
<1>2. WholeFromTheStart' /\ CoveredBeforeSince' /\ CoveredWhenIdle'
  BY <1>1 DEF HolesInv, WholeFromTheStart, CoveredBeforeSince, CoveredWhenIdle, Covered
<1>3. CoveredFromSince'
  <2>1. since \in Int
    BY Constants DEF TypeOK, DefaultSince
  <2>2. \A c \in raw : since <= c[1] => DayOf(c[1]) \in days'
    BY <1>1, <2>1, RawRows DEF Row
  <2>3. QED  BY <1>1, <2>2 DEF CoveredFromSince, ToCome
<1>4. QED  BY <1>2, <1>3 DEF HolesInv

\* The rows of the first day go from the days to the stream.
LEMMA OpenDayHoles ==
    ASSUME TypeOK, LocalsInUse, HolesInv, OpenDay
    PROVE  HolesInv'
<1>1. /\ phase = "days" /\ phase' \in {"days", "stream"} /\ stream = {} /\ days # {}
      /\ UNCHANGED <<now, raw, parsed, counted, version, since, whole, sound, last>>
      /\ stream' = {c \in raw : DayOf(c[1]) = Min(days) /\ c[1] >= since}
      /\ days' = days \ {Min(days)}
  BY DEF OpenDay, LocalsInUse, storage, history, runs, readings
<1>2. Min(days) \in days
  <2>1. days \subseteq Nat
    BY DaysFollowTime DEF TypeOK, Row
  <2>2. QED  BY <1>1, <2>1, MinOfNaturals
<1>3. WholeFromTheStart' /\ CoveredBeforeSince' /\ CoveredWhenIdle'
  BY <1>1 DEF HolesInv, WholeFromTheStart, CoveredBeforeSince, CoveredWhenIdle, Covered
<1>4. CoveredFromSince'
  <2> SUFFICES ASSUME sound \/ whole, NEW c \in raw, since <= c[1]
               PROVE  Covered(c[1])' \/ ToCome(c[1])' \/ Beyond(c[1])'
    BY <1>1 DEF CoveredFromSince
  <2>1. c[1] \in Row /\ c[2] \in {1, 2} /\ c = <<c[1], c[2]>> /\ since \in Int
    BY RawRows, Constants DEF TypeOK, DefaultSince
  <2>2. CASE Covered(c[1])
    BY <1>1, <2>2 DEF Covered
  <2>3. CASE ToCome(c[1])
    <3>1. DayOf(c[1]) \in days
      BY <1>1, <2>3 DEF ToCome
    <3>2. DayOf(c[1]) \in days' \/ c \in stream'
      BY <1>1, <2>1, <3>1 DEF Row
    <3>3. QED  BY <2>1, <3>2 DEF ToCome
  <2>4. CASE Beyond(c[1])
    <3>1. \A m \in AtVersion' : m < c[1]
      BY <1>1, <2>4 DEF Beyond, AtVersion
    <3>2. \A d \in days' : d < DayOf(c[1])
      BY <1>1, <2>4 DEF Beyond
    <3>3. \A x \in stream' : x[1] < c[1]
      <4> TAKE x \in stream'
      <4>1. x[1] \in Row /\ DayOf(x[1]) < DayOf(c[1])
        BY <1>1, <1>2, <2>4, RawRows DEF Beyond
      <4>2. ~(c[1] <= x[1])
        BY <2>1, <4>1, DaysFollowTime
      <4>3. QED  BY <2>1, <4>1, <4>2 DEF Row
    <3>4. QED  BY <3>1, <3>2, <3>3 DEF Beyond
  <2>5. Covered(c[1]) \/ ToCome(c[1]) \/ Beyond(c[1])
    BY <1>1 DEF HolesInv, CoveredFromSince
  <2>6. QED  BY <2>2, <2>3, <2>4, <2>5
<1>5. QED  BY <1>3, <1>4 DEF HolesInv

\* What a flush of a batch does to one row of it.
LEMMA FlushCovers ==
    ASSUME TypeOK, NEW taken \in Batches, NEW parse \in Parsings,
           Stored(taken, parse), FannedOut(taken, parse, View),
           UNCHANGED <<now, version>>,
           NEW r \in Row
    PROVE  /\ (\E c \in taken : c[1] = r) => Covered(r)'
           /\ Covered(r) => Covered(r)'
<1>1. parse[r] \in Outcome /\ parse[r] # "unread"
  BY ParsingsAssumption DEF Outcome
<1>2. \A v \in View :
         /\ counted[v][r] \in Nat /\ counted'[v][r] \in Nat
         /\ counted'[v][r] >= counted[v][r]
         /\ Takes(v, parse[r]) /\ (\E c \in taken : c[1] = r) =>
               counted'[v][r] >= counted[v][r] + 1
  BY FannedOutAdds
<1>3. /\ parsed'[r] = IF \E c \in taken : c[1] = r THEN version ELSE parsed[r]
      /\ last'[r] = IF \E c \in taken : c[1] = r THEN parse[r] ELSE last[r]
  BY DEF Stored
<1>4. CASE \E c \in taken : c[1] = r
  <2>1. parsed'[r] = version /\ last'[r] = parse[r]
    BY <1>3, <1>4
  <2>2. \A v \in View : Takes(v, parse[r]) => counted'[v][r] >= 1
    BY <1>2, <1>4
  <2>3. QED  BY <1>1, <2>1, <2>2 DEF Covered, Takes
<1>5. CASE \A c \in taken : c[1] # r
  <2>1. parsed'[r] = parsed[r] /\ last'[r] = last[r]
    BY <1>3, <1>5
  <2>2. QED  BY <1>2, <1>5, <2>1 DEF Covered, Takes
<1>6. QED  BY <1>4, <1>5

\* The rows of a batch are covered, and none of them is past a row that the run
\* will not read.
LEMMA FlushHoles ==
    ASSUME TypeOK, HolesInv, FlushBatch
    PROVE  HolesInv'
<1>1. PICK taken \in Batches, parse \in Parsings :
         /\ Stored(taken, parse) /\ FannedOut(taken, parse, View)
         /\ stream' = stream \ taken
  BY DEF FlushBatch
<1>2. /\ phase = "stream" /\ phase' \in {"days", "stream"} /\ taken \subseteq stream
      /\ UNCHANGED <<now, raw, version, since, days, whole, sound>>
  BY BatchTyped DEF FlushBatch, history, runs, readings
<1>3. \A r \in Row : /\ (\E c \in taken : c[1] = r) => Covered(r)'
                     /\ Covered(r) => Covered(r)'
  BY <1>1, <1>2, FlushCovers
<1>4. WholeFromTheStart'
  BY <1>2 DEF HolesInv, WholeFromTheStart
<1>5. CoveredBeforeSince'
  BY <1>2, <1>3, RawRows DEF HolesInv, CoveredBeforeSince
<1>6. CoveredWhenIdle'
  BY <1>2 DEF CoveredWhenIdle
<1>7. CoveredFromSince'
  <2> SUFFICES ASSUME sound \/ whole, NEW c \in raw, since <= c[1]
               PROVE  Covered(c[1])' \/ ToCome(c[1])' \/ Beyond(c[1])'
    BY <1>2 DEF CoveredFromSince
  <2>1. c[1] \in Row
    BY RawRows
  <2>2. CASE Covered(c[1]) \/ \E x \in taken : x[1] = c[1]
    BY <1>3, <2>1, <2>2
  <2>3. CASE ToCome(c[1]) /\ ~\E x \in taken : x[1] = c[1]
    <3>1. CASE DayOf(c[1]) \in days
      BY <1>2, <3>1 DEF ToCome
    <3>2. CASE \E n \in {1, 2} : <<c[1], n>> \in stream
      <4>1. PICK n \in {1, 2} : <<c[1], n>> \in stream
        BY <3>2
      <4>2. <<c[1], n>> \in stream'
        BY <1>1, <2>3, <4>1
      <4>3. QED  BY <4>2 DEF ToCome
    <3>3. QED  BY <2>3, <3>1, <3>2 DEF ToCome
  <2>4. CASE Beyond(c[1])
    <3>1. \A m \in AtVersion' : m \in AtVersion \/ \E x \in taken : x[1] = m
      BY <1>1, <1>2 DEF AtVersion, Stored
    <3>2. \A m \in AtVersion' : m < c[1]
      BY <1>2, <2>4, <3>1 DEF Beyond
    <3>3. QED  BY <1>1, <1>2, <2>4, <3>2 DEF Beyond
  <2>5. Covered(c[1]) \/ ToCome(c[1]) \/ Beyond(c[1])
    BY <1>2 DEF HolesInv, CoveredFromSince
  <2>6. QED  BY <2>2, <2>3, <2>4, <2>5
<1>8. QED  BY <1>4, <1>5, <1>6, <1>7 DEF HolesInv

\* When nothing is to come, what is not covered is newer than all that is parsed.
LEMMA FinishHoles ==
    ASSUME TypeOK, LocalsInUse, HolesInv, Finish
    PROVE  HolesInv'
<1>1. /\ phase = "days" /\ days = {} /\ stream = {} /\ phase' = "idle"
      /\ sound' = (sound \/ whole) /\ whole' = FALSE
      /\ UNCHANGED <<now, raw, parsed, counted, version, last>>
  BY DEF Finish, LocalsInUse, storage, readings
<1>2. WholeFromTheStart' /\ CoveredBeforeSince' /\ CoveredFromSince'
  BY <1>1 DEF WholeFromTheStart, CoveredBeforeSince, CoveredFromSince
<1>3. CoveredWhenIdle'
  <2> SUFFICES ASSUME sound \/ whole, NEW c \in raw, NEW m \in AtVersion, c[1] <= m
               PROVE  Covered(c[1])
    BY <1>1 DEF CoveredWhenIdle, Covered, AtVersion
  <2>1. c[1] \in Row /\ Min(Row) = 1 /\ since \in Int /\ m \in Row
    BY RawRows, FirstRow, Constants DEF TypeOK, DefaultSince, AtVersion
  <2>2. CASE c[1] < since
    <3>1. sound
      BY <2>1, <2>2 DEF HolesInv, WholeFromTheStart, Row
    <3>2. QED  BY <1>1, <2>2, <3>1 DEF HolesInv, CoveredBeforeSince
  <2>3. CASE since <= c[1]
    <3>1. Covered(c[1]) \/ ToCome(c[1]) \/ Beyond(c[1])
      BY <1>1, <2>3 DEF HolesInv, CoveredFromSince
    <3>2. ~ToCome(c[1])
      BY <1>1 DEF ToCome
    <3>3. ~Beyond(c[1])
      BY <2>1 DEF Beyond, Row
    <3>4. QED  BY <3>1, <3>2, <3>3
  <2>4. QED  BY <2>1, <2>2, <2>3 DEF Row
<1>4. QED  BY <1>2, <1>3 DEF HolesInv

LEMMA HolesNext ==
    ASSUME TypeOK, NothingOfTheFuture, LocalsInUse, HolesInv, [Next]_vars
    PROVE  HolesInv'
<1>1. CASE Arrive
  BY <1>1, ArriveHoles
<1>2. CASE MergeRaw \/ ExpireRaw \/ ExpireParsed \/ UNCHANGED vars
  BY <1>2, MergeHoles
<1>3. CASE NewParser
  BY <1>3, NewParserHoles
<1>4. CASE Begin
  BY <1>4, BeginHoles
<1>5. CASE Truncate
  BY <1>5, TruncateHoles
<1>6. CASE ReadDates
  BY <1>6, ReadDatesHoles
<1>7. CASE OpenDay
  BY <1>7, OpenDayHoles
<1>8. CASE FlushBatch
  BY <1>8, FlushHoles
<1>9. CASE Finish
  BY <1>9, FinishHoles
<1>10. CASE Die \/ FlushFails
  <2>1. ~sound' /\ ~whole'
    BY <1>10 DEF Die, FlushFails, Dead
  <2>2. QED
    BY <2>1 DEF HolesInv, WholeFromTheStart, CoveredBeforeSince, CoveredFromSince,
                CoveredWhenIdle
<1>11. QED
  BY <1>1, <1>2, <1>3, <1>4, <1>5, <1>6, <1>7, <1>8, <1>9, <1>10 DEF Next
-----------------------------------------------------------------------------
(* A rebuild is exact.                                                       *)

LEMMA InitExact == Init => ExactInv
<1> SUFFICES ASSUME Init PROVE ExactInv
  OBVIOUS
<1>1. ClearedSoFar /\ ExactSoFar /\ ReadSoFar /\ RebuildIsExact
  BY DEF Init, ClearedSoFar, ExactSoFar, ReadSoFar, RebuildIsExact
<1>2. CopiesAreTwice
  BY DEF Init, CopiesAreTwice
<1>3. QED  BY <1>1, <1>2 DEF ExactInv

\* Arrivals, merges and expiries do not count and read nothing, and a row that
\* arrives is not of those that were listed.
LEMMA StorageExact ==
    ASSUME TypeOK, ExactInv,
           Arrive \/ MergeRaw \/ ExpireRaw \/ ExpireParsed \/ UNCHANGED vars
    PROVE  ExactInv'
<1>1. UNCHANGED <<counted, phase, truncated, days, stream, whole, rebuilt, last, listed>>
  BY DEF Arrive, MergeRaw, ExpireRaw, ExpireParsed, locals, history, runs, readings,
         vars, storage
<1>2. /\ twice \subseteq twice'
      /\ \A r \in Row \ twice' : <<r, 2>> \in raw' => <<r, 2>> \in raw
      /\ \A c \in raw' : c \in raw \/ (c[1] \in Nat /\ c[1] > listed)
  <2>1. CASE Arrive
    <3>1. \A c \in raw' : c \in raw \/ c[1] = now + 1
      BY <2>1 DEF Arrive
    <3>2. now + 1 \in Nat /\ now + 1 > listed
      BY Constants DEF TypeOK
    <3>3. QED  BY <2>1, <3>1, <3>2 DEF Arrive
  <2>2. CASE MergeRaw \/ ExpireRaw \/ ExpireParsed \/ UNCHANGED vars
    BY <2>2 DEF MergeRaw, ExpireRaw, ExpireParsed, history, runs, vars, storage
  <2>3. QED  BY <2>1, <2>2
<1>3. ClearedSoFar'
  BY <1>1 DEF ExactInv, ClearedSoFar
<1>4. CopiesAreTwice'
  BY <1>1, <1>2 DEF ExactInv, CopiesAreTwice
<1>5. \A r \in Row : ToCome(r) <=> ToCome(r)'
  BY <1>1 DEF ToCome
<1>6. ExactSoFar'
  BY <1>1, <1>2, <1>5 DEF ExactInv, ExactSoFar, Takes
<1>7. \A c \in raw' : c[1] <= listed => c \in raw /\ c[1] \in Row
  <2>1. listed \in Nat
    BY DEF TypeOK
  <2>2. \A c \in raw' : c \in raw => c[1] \in Row
    BY RawRows
  <2>3. QED  BY <1>2, <2>1, <2>2
<1>8. ReadSoFar'
  BY <1>1, <1>5, <1>7 DEF ExactInv, ReadSoFar
<1>9. RebuildIsExact'
  BY <1>1, <1>2, <1>7 DEF ExactInv, RebuildIsExact, Takes
<1>10. QED  BY <1>3, <1>4, <1>6, <1>8, <1>9 DEF ExactInv

LEMMA NewParserExact ==
    ASSUME ExactInv, NewParser
    PROVE  ExactInv'
<1>1. UNCHANGED <<raw, counted, phase, truncated, stream, whole, rebuilt, twice, last,
                  listed>>
  BY DEF NewParser, storage, locals, history, runs, readings
<1>2. phase = "idle"
  BY DEF NewParser
<1>3. ClearedSoFar' /\ ExactSoFar' /\ ReadSoFar' /\ CopiesAreTwice'
  BY <1>1, <1>2 DEF ExactInv, ClearedSoFar, ExactSoFar, ReadSoFar, CopiesAreTwice
<1>4. RebuildIsExact'
  BY <1>1 DEF ExactInv, RebuildIsExact, Takes
<1>5. QED  BY <1>3, <1>4 DEF ExactInv

LEMMA BeginExact ==
    ASSUME TypeOK, LocalsInUse, ExactInv, Begin
    PROVE  ExactInv'
<1>1. PICK i \in Invocations :
         /\ phase' = IF i.rebuild THEN "rebuild" ELSE "dates"
         /\ whole' = (i.rebuild /\ since' <= Min(Row))
  BY DEF Begin
<1>2. /\ truncated' = 0 /\ ~rebuilt' /\ UNCHANGED <<raw, stream, twice>>
  BY DEF Begin, LocalsInUse, storage
<1>3. (whole' => phase' = "rebuild") /\ phase' \in {"rebuild", "dates"}
  BY <1>1
<1>4. ClearedSoFar'
  BY <1>2, <1>3 DEF ClearedSoFar
<1>5. CopiesAreTwice' /\ ExactSoFar' /\ ReadSoFar' /\ RebuildIsExact'
  BY <1>2, <1>3 DEF ExactInv, CopiesAreTwice, ExactSoFar, ReadSoFar, RebuildIsExact
<1>6. QED  BY <1>4, <1>5 DEF ExactInv

\* After the third table is cleared there is nothing left to count.
LEMMA TruncateExact ==
    ASSUME TypeOK, LocalsInUse, ExactInv, Truncate
    PROVE  ExactInv'
<1>1. /\ phase = "rebuild" /\ truncated \in 0..2 /\ ~rebuilt
      /\ truncated' = (truncated + 1) % 3
      /\ phase' = (IF truncated' = 0 THEN "dates" ELSE "rebuild")
      /\ Cleared(DerivedTables[truncated + 1])
      /\ last' = (IF truncated = 0 THEN [r \in Row |-> "unread"] ELSE last)
      /\ UNCHANGED <<raw, stream, whole, rebuilt, twice>>
  BY DEF Truncate, LocalsInUse, TypeOK, runs
<1>2. CopiesAreTwice' /\ ExactSoFar' /\ ReadSoFar' /\ RebuildIsExact'
  BY <1>1 DEF ExactInv, CopiesAreTwice, ExactSoFar, ReadSoFar, RebuildIsExact
<1>3. counted \in [View -> [Row -> Nat]]
  BY DEF TypeOK
<1>4. /\ truncated >= 1 => \A r \in Row : last[r] = "unread"
      /\ truncated >= 2 => \A r \in Row : counted["artist"][r] = 0
  BY <1>1 DEF ExactInv, ClearedSoFar
<1>5. CASE truncated = 0
  <2>1. truncated' = 1 /\ phase' = "rebuild" /\ \A r \in Row : last'[r] = "unread"
    BY <1>1, <1>5
  <2>2. ClearedSoFar'
    BY <2>1 DEF ClearedSoFar
  <2>3. QED  BY <1>2, <2>2 DEF ExactInv
<1>6. CASE truncated = 1
  <2>1. /\ truncated' = 2 /\ phase' = "rebuild" /\ last' = last
        /\ \A r \in Row : counted'["artist"][r] = 0
    BY <1>1, <1>3, <1>6 DEF Cleared, DerivedTables, View
  <2>2. ClearedSoFar'
    BY <1>4, <1>6, <2>1 DEF ClearedSoFar
  <2>3. QED  BY <1>2, <2>2 DEF ExactInv
<1>7. CASE truncated = 2
  <2>1. /\ truncated' = 0 /\ phase' = "dates" /\ last' = last
        /\ counted'["track"] = [r \in Row |-> 0]
        /\ counted'["artist"] = counted["artist"]
    BY <1>1, <1>3, <1>7 DEF Cleared, DerivedTables, View
  <2>2. \A v \in View, r \in Row : counted'[v][r] = 0
    BY <1>4, <1>7, <2>1 DEF View
  <2>3. ClearedSoFar'
    BY <1>4, <1>7, <2>1, <2>2 DEF ClearedSoFar
  <2>4. QED  BY <1>2, <2>3 DEF ExactInv
<1>8. QED  BY <1>1, <1>5, <1>6, <1>7

\* Before the first batch of a rebuild nothing is counted and nothing read, and the
\* day of every row is listed.
LEMMA ReadDatesExact ==
    ASSUME TypeOK, ExactInv, LocalsInUse, WholeFromTheStart, ReadDates
    PROVE  ExactInv'
<1>1. /\ phase = "dates" /\ phase' = "days" /\ ~rebuilt
      /\ days' = {DayOf(c[1]) : c \in {x \in raw : x[1] >= since}}
      /\ UNCHANGED <<raw, counted, stream, whole, rebuilt, twice, last>>
  BY DEF ReadDates, LocalsInUse, storage, runs
<1>2. ClearedSoFar' /\ CopiesAreTwice' /\ RebuildIsExact'
  BY <1>1 DEF ExactInv, ClearedSoFar, CopiesAreTwice, RebuildIsExact
<1>3. whole => \A r \in Row : last[r] = "unread" /\ \A v \in View : counted[v][r] = 0
  BY <1>1 DEF ExactInv, ClearedSoFar
<1>4. ExactSoFar'
  BY <1>1, <1>3 DEF ExactSoFar, Takes
<1>5. ReadSoFar'
  <2> SUFFICES ASSUME whole, NEW c \in raw PROVE DayOf(c[1]) \in days'
    BY <1>1 DEF ReadSoFar, ToCome
  <2>1. since <= 1 /\ c[1] \in Row /\ since \in Int
    BY RawRows, FirstRow, Constants DEF WholeFromTheStart, TypeOK, DefaultSince
  <2>2. c[1] >= since
    BY <2>1 DEF Row
  <2>3. QED  BY <1>1, <2>2
<1>6. QED  BY <1>2, <1>4, <1>5 DEF ExactInv

\* The rows of the first day are to come as before, and no others.
LEMMA OpenDayExact ==
    ASSUME TypeOK, ExactInv, LocalsInUse, WholeFromTheStart, OpenDay
    PROVE  ExactInv'
<1>1. /\ phase = "days" /\ phase' \in {"days", "stream"} /\ ~rebuilt /\ days # {}
      /\ UNCHANGED <<raw, counted, whole, rebuilt, twice, last, listed>>
      /\ stream = {}
      /\ stream' = {c \in raw : DayOf(c[1]) = Min(days) /\ c[1] >= since}
      /\ days' = days \ {Min(days)}
  BY DEF OpenDay, LocalsInUse, storage, history, runs, readings
<1>2. Min(days) \in days
  <2>1. days \subseteq Nat
    BY DaysFollowTime DEF TypeOK, Row
  <2>2. QED  BY <1>1, <2>1, MinOfNaturals
<1>3. ClearedSoFar' /\ CopiesAreTwice' /\ RebuildIsExact'
  BY <1>1 DEF ExactInv, ClearedSoFar, CopiesAreTwice, RebuildIsExact
<1>4. \A r \in Row : ToCome(r)' => ToCome(r)
  BY <1>1, <1>2 DEF ToCome
<1>5. ExactSoFar'
  BY <1>1, <1>4 DEF ExactInv, ExactSoFar, Takes
<1>6. ReadSoFar'
  <2> SUFFICES ASSUME whole, NEW c \in raw, ToCome(c[1]) PROVE ToCome(c[1])'
    BY <1>1 DEF ExactInv, ReadSoFar
  <2>1. since <= 1 /\ c[1] \in Row /\ c[2] \in {1, 2} /\ c = <<c[1], c[2]>> /\ since \in Int
    BY RawRows, FirstRow, Constants DEF WholeFromTheStart, TypeOK, DefaultSince
  <2>2. DayOf(c[1]) \in days /\ c[1] >= since
    BY <1>1, <2>1 DEF ToCome, Row
  <2>3. DayOf(c[1]) \in days' \/ c \in stream'
    BY <1>1, <2>2
  <2>4. QED  BY <2>1, <2>3 DEF ToCome
<1>7. QED  BY <1>3, <1>5, <1>6 DEF ExactInv

\* A batch counts each of its rows once, when it has one copy, where it is taken,
\* and no more of them are to come.
LEMMA FlushExact ==
    ASSUME TypeOK, ExactInv, LocalsInUse, FlushBatch
    PROVE  ExactInv'
<1>1. PICK taken \in Batches, parse \in Parsings :
         /\ Stored(taken, parse) /\ FannedOut(taken, parse, View)
         /\ stream' = stream \ taken
  BY DEF FlushBatch
<1>2. /\ phase = "stream" /\ phase' \in {"days", "stream"} /\ ~rebuilt
      /\ taken \subseteq stream /\ taken \subseteq Row \X {1, 2}
      /\ UNCHANGED <<raw, days, whole, rebuilt, twice, listed>>
  BY BatchTyped DEF FlushBatch, LocalsInUse, runs
<1>3. \A r \in Row : parse[r] \in Outcome /\ parse[r] # "unread"
  BY ParsingsAssumption DEF Outcome
<1>4. \A r \in Row : last'[r] = IF \E c \in taken : c[1] = r THEN parse[r] ELSE last[r]
  BY <1>1 DEF Stored
<1>5. ClearedSoFar' /\ RebuildIsExact'
  BY <1>2 DEF ClearedSoFar, RebuildIsExact
<1>6. CopiesAreTwice'
  BY <1>1, <1>2 DEF ExactInv, CopiesAreTwice
<1>7. ExactSoFar'
  <2> SUFFICES ASSUME whole, NEW r \in Row \ twice
               PROVE  /\ ToCome(r)' => last'[r] = "unread"
                      /\ \A v \in View :
                            counted'[v][r] = IF Takes(v, last'[r]) THEN 1 ELSE 0
    BY <1>2 DEF ExactSoFar, Takes
  <2>1. /\ ToCome(r) => last[r] = "unread"
        /\ \A v \in View : counted[v][r] = IF Takes(v, last[r]) THEN 1 ELSE 0
    BY <1>2 DEF ExactInv, ExactSoFar
  <2>2. <<r, 2>> \notin stream /\ <<r, 2>> \notin taken
    BY <1>2 DEF ExactInv, CopiesAreTwice
  <2>3. CASE \E c \in taken : c[1] = r
    <3>1. <<r, 1>> \in taken
      BY <1>2, <2>2, <2>3
    <3>2. ToCome(r) /\ DayOf(r) \notin days
      BY <1>2, <3>1 DEF ToCome, LocalsInUse
    <3>3. ~ToCome(r)'
      BY <1>1, <1>2, <2>2, <3>1, <3>2 DEF ToCome
    <3>4. \A v \in View : counted[v][r] = 0
      BY <2>1, <3>2 DEF Takes
    <3>5. last'[r] = parse[r]
      BY <1>4, <2>3
    <3>6. \A v \in View : counted'[v][r] = IF Takes(v, parse[r]) THEN 1 ELSE 0
      <4> TAKE v \in View
      <4>1. /\ ~Takes(v, parse[r]) => counted'[v][r] = counted[v][r]
            /\ Takes(v, parse[r]) => counted'[v][r] = counted[v][r] + 1
        BY <1>1, <2>2, <2>3, FannedOutAdds
      <4>2. counted[v][r] = 0
        BY <3>4
      <4>3. QED  BY <4>1, <4>2
    <3>7. QED  BY <3>3, <3>5, <3>6 DEF Takes
  <2>4. CASE \A c \in taken : c[1] # r
    <3>1. \A v \in View : counted'[v][r] = counted[v][r]
      BY <1>1, <2>4, FannedOutAdds
    <3>2. last'[r] = last[r]
      BY <1>4, <2>4
    <3>3. ToCome(r)' => ToCome(r)
      BY <1>1, <1>2 DEF ToCome
    <3>4. QED  BY <2>1, <3>1, <3>2, <3>3 DEF Takes
  <2>5. QED  BY <2>3, <2>4
<1>8. ReadSoFar'
  <2> SUFFICES ASSUME whole, NEW c \in raw, c[1] <= listed, last'[c[1]] = "unread"
               PROVE  ToCome(c[1])'
    BY <1>2 DEF ReadSoFar
  <2>1. c[1] \in Row
    BY RawRows
  <2>2. (\A x \in taken : x[1] # c[1]) /\ last[c[1]] = "unread"
    BY <1>3, <1>4, <2>1
  <2>3. ToCome(c[1])
    BY <1>2, <2>2 DEF ExactInv, ReadSoFar
  <2>4. QED  BY <1>1, <1>2, <2>2, <2>3 DEF ToCome
<1>9. QED  BY <1>5, <1>6, <1>7, <1>8 DEF ExactInv

\* At the end nothing is to come.
LEMMA FinishExact ==
    ASSUME TypeOK, ExactInv, LocalsInUse, Finish
    PROVE  ExactInv'
<1>1. /\ phase = "days" /\ days = {} /\ stream = {} /\ phase' = "idle"
      /\ rebuilt' = whole /\ whole' = FALSE
      /\ UNCHANGED <<raw, counted, stream, twice, last, listed>>
  BY DEF Finish, LocalsInUse, storage, readings
<1>2. ClearedSoFar' /\ CopiesAreTwice' /\ ExactSoFar' /\ ReadSoFar'
  BY <1>1 DEF ExactInv, ClearedSoFar, CopiesAreTwice, ExactSoFar, ReadSoFar
<1>3. RebuildIsExact'
  BY <1>1 DEF ExactInv, ExactSoFar, ReadSoFar, ToCome, RebuildIsExact, Takes
<1>4. QED  BY <1>2, <1>3 DEF ExactInv

\* A run that dies leaves no claim behind.
LEMMA DeadExact ==
    ASSUME ExactInv, LocalsInUse, phase # "idle", Dead
    PROVE  ExactInv'
<1>1. /\ phase' = "idle" /\ ~whole' /\ ~rebuilt' /\ stream' = {}
      /\ UNCHANGED <<raw, twice>>
  BY DEF Dead, LocalsInUse
<1>2. ClearedSoFar' /\ CopiesAreTwice' /\ ExactSoFar' /\ ReadSoFar' /\ RebuildIsExact'
  BY <1>1 DEF ExactInv, ClearedSoFar, CopiesAreTwice, ExactSoFar, ReadSoFar,
              RebuildIsExact
<1>3. QED  BY <1>2 DEF ExactInv

LEMMA ExactNext ==
    ASSUME TypeOK, LocalsInUse, WholeFromTheStart, ExactInv, [Next]_vars
    PROVE  ExactInv'
<1>1. CASE Arrive \/ MergeRaw \/ ExpireRaw \/ ExpireParsed \/ UNCHANGED vars
  BY <1>1, StorageExact
<1>2. CASE NewParser
  BY <1>2, NewParserExact
<1>3. CASE Begin
  BY <1>3, BeginExact
<1>4. CASE Truncate
  BY <1>4, TruncateExact
<1>5. CASE ReadDates
  BY <1>5, ReadDatesExact
<1>6. CASE OpenDay
  BY <1>6, OpenDayExact
<1>7. CASE FlushBatch
  BY <1>7, FlushExact
<1>8. CASE Finish
  BY <1>8, FinishExact
<1>9. CASE Die \/ FlushFails
  BY <1>9, DeadExact DEF Die, FlushFails
<1>10. QED
  BY <1>1, <1>2, <1>3, <1>4, <1>5, <1>6, <1>7, <1>8, <1>9 DEF Next
-----------------------------------------------------------------------------
(* No run counts a row twice.                                                *)

LEMMA InitCounted == Init => CountedInv
BY DEF Init, CountedInv, StreamFromSince, CountedOncePerRun, OneRunToGo

\* What counts nothing and leaves the run where it is.
LEMMA NothingCounted ==
    ASSUME CountedInv, twice \subseteq twice',
           UNCHANGED <<counted, reads, phase, since, days, stream>>
    PROVE  CountedInv'
<1>1. StreamFromSince'
  BY DEF CountedInv, StreamFromSince
<1>2. CountedOncePerRun'
  BY DEF CountedInv, CountedOncePerRun
<1>3. \A r \in Row \ twice' : OneRunToGo(r)'
  BY DEF CountedInv, OneRunToGo, ToCome
<1>4. QED  BY <1>1, <1>2, <1>3 DEF CountedInv

LEMMA StorageCounted ==
    ASSUME CountedInv,
           Arrive \/ MergeRaw \/ ExpireRaw \/ ExpireParsed \/ NewParser \/ UNCHANGED vars
    PROVE  CountedInv'
<1>1. UNCHANGED <<counted, reads, phase, since, days, stream>>
  BY DEF Arrive, MergeRaw, ExpireRaw, ExpireParsed, NewParser, storage, locals, history,
         readings, vars
<1>2. twice \subseteq twice'
  <2>1. CASE Arrive
    BY <2>1 DEF Arrive
  <2>2. CASE MergeRaw \/ ExpireRaw \/ ExpireParsed \/ NewParser \/ UNCHANGED vars
    BY <2>2 DEF MergeRaw, ExpireRaw, ExpireParsed, NewParser, history, runs, vars
  <2>3. QED  BY <2>1, <2>2
<1>3. QED  BY <1>1, <1>2, NothingCounted

\* A run is told to read a row before it reads it.
LEMMA BeginCounted ==
    ASSUME TypeOK, LocalsInUse, CountedInv, Begin
    PROVE  CountedInv'
<1>1. /\ phase = "idle" /\ stream = {}
      /\ UNCHANGED <<counted, stream, twice>>
      /\ reads' = [v \in View |-> [r \in Row |->
                     IF r >= since' THEN reads[v][r] + 1 ELSE reads[v][r]]]
  BY DEF Begin, LocalsInUse, storage
<1>2. \A v \in View, r \in Row :
         /\ counted[v][r] \in Nat /\ reads[v][r] \in Nat
         /\ reads'[v][r] = IF r >= since' THEN reads[v][r] + 1 ELSE reads[v][r]
  BY <1>1 DEF TypeOK
<1>3. StreamFromSince'
  BY <1>1 DEF StreamFromSince
<1>4. CountedOncePerRun' /\ \A r \in Row \ twice' : OneRunToGo(r)'
  BY <1>1, <1>2 DEF CountedInv, CountedOncePerRun, OneRunToGo
<1>5. QED  BY <1>3, <1>4 DEF CountedInv

\* A view that was cleared has this run to count.
LEMMA TruncateCounted ==
    ASSUME TypeOK, LocalsInUse, CountedInv, Truncate
    PROVE  CountedInv'
<1>1. /\ phase = "rebuild" /\ stream' = {} /\ truncated \in 0..2
      /\ phase' \in {"rebuild", "dates"}
      /\ UNCHANGED <<since, twice>>
      /\ Cleared(DerivedTables[truncated + 1])
      /\ reads' = [v \in View |-> IF v = DerivedTables[truncated + 1]
                     THEN [r \in Row |-> IF r >= since THEN 1 ELSE 0] ELSE reads[v]]
  BY DEF Truncate, LocalsInUse, runs, TypeOK
<1>2. \A v \in View, r \in Row \ twice :
         /\ counted[v][r] \in Nat /\ reads[v][r] \in Nat
         /\ counted[v][r] <= reads[v][r]
         /\ r >= since => counted[v][r] < reads[v][r]
  BY <1>1 DEF CountedInv, CountedOncePerRun, OneRunToGo, TypeOK
<1>3. \A v \in View, r \in Row \ twice :
         /\ counted'[v][r] <= reads'[v][r]
         /\ r >= since => counted'[v][r] < reads'[v][r]
  <2> TAKE v \in View, r \in Row \ twice
  <2>1. CASE v = DerivedTables[truncated + 1]
    <3>1. counted'[v][r] = 0 /\ reads'[v][r] = IF r >= since THEN 1 ELSE 0
      BY <1>1, <2>1 DEF Cleared, TypeOK
    <3>2. QED  BY <3>1
  <2>2. CASE v # DerivedTables[truncated + 1]
    <3>1. counted'[v][r] = counted[v][r] /\ reads'[v][r] = reads[v][r]
      BY <1>1, <2>2 DEF Cleared, TypeOK
    <3>2. QED  BY <1>2, <3>1
  <2>3. QED  BY <2>1, <2>2
<1>4. StreamFromSince'
  BY <1>1 DEF StreamFromSince
<1>5. CountedOncePerRun' /\ \A r \in Row \ twice' : OneRunToGo(r)'
  BY <1>1, <1>3 DEF CountedOncePerRun, OneRunToGo
<1>6. QED  BY <1>4, <1>5 DEF CountedInv

\* Listing the partitions and opening one leaves no more to come from the moment on
\* that the run was told to start from.
LEMMA ListCounted ==
    ASSUME TypeOK, LocalsInUse, CountedInv, ReadDates \/ OpenDay
    PROVE  CountedInv'
<1>1. /\ phase \in {"dates", "days"} /\ phase' \in {"days", "stream"} /\ stream = {}
      /\ UNCHANGED <<counted, reads, since, twice>>
  BY DEF ReadDates, OpenDay, LocalsInUse, storage, history, runs, readings
<1>2. StreamFromSince'
  BY <1>1 DEF ReadDates, OpenDay, StreamFromSince
<1>3. CountedOncePerRun'
  BY <1>1 DEF CountedInv, CountedOncePerRun
<1>4. \A r \in Row : ToCome(r)' => phase = "dates" \/ ToCome(r)
  <2>1. CASE ReadDates
    BY <2>1 DEF ReadDates
  <2>2. CASE OpenDay
    <3>1. days # {} /\ days \subseteq Nat
      BY <2>2, DaysFollowTime DEF OpenDay, TypeOK, Row
    <3>2. Min(days) \in days
      BY <3>1, MinOfNaturals
    <3>3. QED  BY <2>2, <3>2 DEF OpenDay, ToCome
  <2>3. QED  BY <2>1, <2>2
<1>5. \A r \in Row \ twice' : OneRunToGo(r)'
  BY <1>1, <1>4 DEF CountedInv, OneRunToGo
<1>6. QED  BY <1>2, <1>3, <1>5 DEF CountedInv

\* An insert counts each row of its batch at most once, done or half done.
LEMMA BatchCounted ==
    ASSUME TypeOK, CopiesAreTwice, CountedInv, phase = "stream",
           NEW taken \in Batches, NEW parse \in Parsings, NEW views,
           FannedOut(taken, parse, views),
           NEW r \in Row \ twice, NEW v \in View
    PROVE  /\ counted'[v][r] <= reads[v][r]
           /\ (\A c \in taken : c[1] # r) => counted'[v][r] = counted[v][r]
<1>1. taken \subseteq stream /\ taken \subseteq Row \X {1, 2}
  BY BatchTyped
<1>2. <<r, 2>> \notin taken
  BY <1>1 DEF CopiesAreTwice
<1>3. /\ counted[v][r] \in Nat /\ counted'[v][r] \in Nat /\ reads[v][r] \in Nat
      /\ counted'[v][r] <= counted[v][r] + 1
      /\ (\A c \in taken : c[1] # r) => counted'[v][r] = counted[v][r]
  <2>1. reads[v][r] \in Nat
    BY DEF TypeOK
  <2>2. QED  BY <1>2, <2>1, FannedOutAdds
<1>4. counted[v][r] <= reads[v][r]
  BY DEF CountedInv, CountedOncePerRun
<1>5. CASE \E c \in taken : c[1] = r
  <2>1. <<r, 1>> \in stream
    BY <1>1, <1>2, <1>5
  <2>2. ToCome(r) /\ r >= since
    BY <2>1 DEF ToCome, CountedInv, StreamFromSince
  <2>3. counted[v][r] < reads[v][r]
    BY <2>2 DEF CountedInv, OneRunToGo
  <2>4. QED  BY <1>3, <1>5, <2>3
<1>6. CASE \A c \in taken : c[1] # r
  BY <1>3, <1>4, <1>6
<1>7. QED  BY <1>5, <1>6

LEMMA FlushCounted ==
    ASSUME TypeOK, LocalsInUse, CopiesAreTwice, CountedInv, FlushBatch
    PROVE  CountedInv'
<1>1. PICK taken \in Batches, parse \in Parsings :
         FannedOut(taken, parse, View) /\ stream' = stream \ taken
  BY DEF FlushBatch
<1>2. /\ phase = "stream" /\ phase' \in {"days", "stream"}
      /\ taken \subseteq stream /\ taken \subseteq Row \X {1, 2}
      /\ UNCHANGED <<since, days, twice, reads>>
  BY BatchTyped DEF FlushBatch, runs
<1>3. \A r \in Row \ twice, v \in View :
         /\ counted'[v][r] <= reads[v][r]
         /\ (\A c \in taken : c[1] # r) => counted'[v][r] = counted[v][r]
  BY <1>1, <1>2, BatchCounted
<1>4. StreamFromSince'
  BY <1>1, <1>2 DEF CountedInv, StreamFromSince
<1>5. CountedOncePerRun'
  BY <1>2, <1>3 DEF CountedOncePerRun
<1>6. \A r \in Row \ twice' : OneRunToGo(r)'
  <2> SUFFICES ASSUME NEW r \in Row \ twice, r >= since, ToCome(r)', NEW v \in View
               PROVE  counted'[v][r] < reads[v][r]
    BY <1>2 DEF OneRunToGo
  <2>1. ToCome(r)
    BY <1>1, <1>2 DEF ToCome
  <2>2. counted[v][r] < reads[v][r]
    BY <1>2, <2>1 DEF CountedInv, OneRunToGo
  <2>3. \A c \in taken : c[1] # r
    <3> SUFFICES ASSUME NEW c \in taken, c[1] = r PROVE FALSE
      OBVIOUS
    <3>1. <<r, 2>> \notin stream
      BY DEF CopiesAreTwice
    <3>2. <<r, 1>> \in taken /\ DayOf(r) \notin days
      BY <1>2, <3>1 DEF LocalsInUse
    <3>3. QED  BY <1>1, <1>2, <3>1, <3>2 DEF ToCome
  <2>4. QED  BY <1>3, <2>2, <2>3
<1>7. QED  BY <1>4, <1>5, <1>6 DEF CountedInv

LEMMA EndCounted ==
    ASSUME TypeOK, LocalsInUse, CopiesAreTwice, CountedInv, Finish \/ Die \/ FlushFails
    PROVE  CountedInv'
<1>1. phase' = "idle" /\ stream' = {} /\ UNCHANGED <<reads, twice>>
  BY DEF Finish, Die, FlushFails, Dead, LocalsInUse, readings
<1>2. CountedOncePerRun'
  <2>1. CASE Finish \/ Die
    BY <1>1, <2>1 DEF Finish, Die, storage, CountedInv, CountedOncePerRun
  <2>2. CASE FlushFails
    <3>1. PICK taken \in Batches, parse \in Parsings, views \in SUBSET View :
             FannedOut(taken, parse, views)
      BY <2>2 DEF FlushFails
    <3>2. \A r \in Row \ twice, v \in View : counted'[v][r] <= reads[v][r]
      BY <2>2, <3>1, BatchCounted DEF FlushFails
    <3>3. QED  BY <1>1, <3>2 DEF CountedOncePerRun
  <2>3. QED  BY <2>1, <2>2
<1>3. QED  BY <1>1, <1>2 DEF CountedInv, StreamFromSince, OneRunToGo

LEMMA CountedNext ==
    ASSUME TypeOK, LocalsInUse, CopiesAreTwice, CountedInv, [Next]_vars
    PROVE  CountedInv'
<1>1. CASE Arrive \/ MergeRaw \/ ExpireRaw \/ ExpireParsed \/ NewParser \/ UNCHANGED vars
  BY <1>1, StorageCounted
<1>2. CASE Begin
  BY <1>2, BeginCounted
<1>3. CASE Truncate
  BY <1>3, TruncateCounted
<1>4. CASE ReadDates \/ OpenDay
  BY <1>4, ListCounted
<1>5. CASE FlushBatch
  BY <1>5, FlushCounted
<1>6. CASE Finish \/ Die \/ FlushFails
  BY <1>6, EndCounted
<1>7. QED  BY <1>1, <1>2, <1>3, <1>4, <1>5, <1>6 DEF Next
-----------------------------------------------------------------------------
\* The inductive invariant of the three layers and the command that fills them.
THEOREM InvariantHolds == Spec => []IInv
<1>1. Init => IInv
  BY InitTypes, InitLocals, InitHoles, InitExact, InitCounted DEF IInv
<1>2. IInv /\ [Next]_vars => IInv'
  <2> SUFFICES ASSUME IInv, [Next]_vars PROVE IInv'
    OBVIOUS
  <2>1. TypeOK'
    BY TypesNext DEF IInv
  <2>2. NothingOfTheFuture'
    BY FutureNext DEF IInv
  <2>3. LocalsInUse'
    BY LocalsNext DEF IInv
  <2>4. HolesInv'
    BY HolesNext DEF IInv
  <2>5. ExactInv'
    BY ExactNext DEF IInv, HolesInv
  <2>6. CountedInv'
    BY CountedNext DEF IInv, ExactInv
  <2>7. QED  BY <2>1, <2>2, <2>3, <2>4, <2>5, <2>6 DEF IInv
<1>3. QED  BY <1>1, <1>2, PTL DEF Spec

\* Types: whatever dies, fails, expires or is deployed, the layers hold rows that
\* have arrived, parsed at a version that was deployed.
THEOREM TypeCorrect == Spec => []TypeOK
<1>1. IInv => TypeOK
  BY DEF IInv
<1>2. QED  BY <1>1, InvariantHolds, PTL

\* resolve_incremental_since and the overlap: between two runs every raw row up to
\* the newest parsed one has been read, is parsed or too old to keep, and is counted
\* by the views that take it, unless a run died or was told to start late.
THEOREM NoRowIsPassedOver == Spec => []NoHoles
<1>1. IInv => NoHoles
  <2> SUFFICES ASSUME IInv, sound, phase = "idle", AtVersion # {},
                      NEW c \in raw, c[1] <= Max(AtVersion)
               PROVE  Covered(c[1])
    BY DEF NoHoles, Covered
  <2>1. Max(AtVersion) \in AtVersion
    BY NewestAtVersion DEF IInv
  <2>2. QED  BY <2>1 DEF IInv, HolesInv, CoveredWhenIdle
<1>2. QED  BY <1>1, InvariantHolds, PTL

\* rebuild_derived_tables and the run that follows: after a rebuild that ended, a row
\* that was stored once is counted once by each view that takes what it was parsed to
\* and by no other, and all that the raw layer held when the rebuild listed it, and
\* still holds, was read.
THEOREM RebuildsAreExact == Spec => []RebuildIsExact
<1>1. IInv => RebuildIsExact
  BY DEF IInv, ExactInv
<1>2. QED  BY <1>1, InvariantHolds, PTL

\* reprocess(): no run, whether it ends or dies anywhere, counts a row twice, nor one
\* from before its watermark.
THEOREM RunsCountOnce == Spec => []CountedOncePerRun
<1>1. IInv => CountedOncePerRun
  BY DEF IInv, CountedInv
<1>2. QED  BY <1>1, InvariantHolds, PTL
-----------------------------------------------------------------------------
(* What a parsed row says.                                                   *)

\* While a batch is looked up, the table lies between its two histories; between
\* batches nothing is known.
CatalogueBetween == IF batch # {} THEN throughout \subseteq catalogue /\ catalogue \subseteq ever
                    ELSE known = {}

\* build_batch_catalogue: of the candidates of a query, those that the table has held
\* all the while are found or still to be looked up.
NoneForgotten ==
    \A q \in batch : CandidateArtistKeys(q) \cap throughout \subseteq known \cup missing

\* load_catalogue: what is still to be inserted are the last names of the dump.
LastNames(names, dump) == names \in Seq(Range(dump)) /\ IsSuffix(names, dump)

RemainingAreNames == remaining # <<>> => \E dump \in Dumps : LastNames(remaining, dump)

IdentificationInv == /\ IdentificationTypeOK /\ RowsMatchTheTable
                     /\ CatalogueBetween /\ NoneForgotten /\ RemainingAreNames

\* The prefixes that are tried have lengths from one to the number of tokens.
LEMMA LengthsOfPrefixes ==
    ASSUME NEW q \in Queries
    PROVE  \E n \in Nat : PrefixLengths(q) = 1..n
<1>1. q \in Seq(Range(q))
  BY IdentificationAssumption
<1>2. Len(Tokens(q)) \in Nat
  BY <1>1, SMT DEF Tokens
<1>3. MaxPrefix \in Nat
  BY IdentificationAssumption
<1> DEFINE bounds == {Len(Tokens(q)), MaxPrefix}
<1>4. Min(bounds) \in Nat
  <2>1. bounds \subseteq Nat /\ bounds # {}
    BY <1>2, <1>3
  <2> HIDE DEF bounds
  <2>2. QED  BY <2>1, MinOfNaturals
<1>5. QED  BY <1>4 DEF PrefixLengths

\* resolve tries the longest prefix first: what it finds is the longest match.
LEMMA LongestMatch ==
    ASSUME NEW q \in Queries, NEW keys, Matches(q, keys) # {}
    PROVE  /\ Max(Matches(q, keys)) \in Matches(q, keys)
           /\ \A n \in Matches(q, keys) : n <= Max(Matches(q, keys))
<1>1. PICK n \in Nat : PrefixLengths(q) = 1..n
  BY LengthsOfPrefixes
<1>2. Matches(q, keys) \subseteq 0..n
  BY <1>1 DEF Matches
<1> DEFINE found == Matches(q, keys)
<1> HIDE DEF found
<1>3. found \subseteq 0..n /\ found # {}
  BY <1>2 DEF found
<1>4. Max(found) \in found /\ \A m \in found : Max(found) >= m
  BY <1>3, MaxOfBounded
<1>5. \A m \in found : m <= Max(found)
  BY <1>3, <1>4
<1>6. QED  BY <1>4, <1>5 DEF found

\* A larger catalogue has all the matches of a smaller one.
LEMMA MatchesGrow ==
    ASSUME NEW q, NEW S, NEW T, S \subseteq T
    PROVE  Matches(q, S) \subseteq Matches(q, T)
BY DEF Matches

\* "The same keys resolve_with_catalogue tests": only the candidates of a query
\* can be matched.
LEMMA OnlyCandidatesMatch ==
    ASSUME NEW q, NEW S, NEW T, CandidateArtistKeys(q) \cap S \subseteq T
    PROVE  Matches(q, S) \subseteq Matches(q, T)
<1> SUFFICES ASSUME NEW n \in Matches(q, S) PROVE n \in Matches(q, T)
  OBVIOUS
<1> DEFINE k == Key(Prefix(Tokens(q), n))
<1>1. n \in PrefixLengths(q) /\ Trusted(q, n) /\ k \in S
  BY DEF Matches
<1>2. k # <<>>
  BY <1>1 DEF Trusted
<1>3. k \in CandidateArtistKeys(q)
  BY <1>1, <1>2 DEF CandidateArtistKeys
<1>4. QED  BY <1>1, <1>3 DEF Matches

\* "No catalogue in memory": a query is resolved against the candidates of its whole
\* batch that are in the table as it would be against the table itself.
THEOREM CandidatesSuffice ==
    ASSUME NEW queries, NEW q \in queries, NEW table
    PROVE  LET asked == UNION {CandidateArtistKeys(p) : p \in queries}
           IN Resolve(q, asked \cap table) = Resolve(q, table)
<1> DEFINE asked == UNION {CandidateArtistKeys(p) : p \in queries}
<1>1. CandidateArtistKeys(q) \cap table \subseteq asked \cap table
  OBVIOUS
<1>2. Matches(q, table) \subseteq Matches(q, asked \cap table)
  BY <1>1, OnlyCandidatesMatch
<1>3. Matches(q, asked \cap table) \subseteq Matches(q, table)
  BY MatchesGrow
<1> HIDE DEF asked
<1>4. Matches(q, asked \cap table) = Matches(q, table)
  BY <1>2, <1>3
<1>5. QED  BY <1>4 DEF Resolve, asked
-----------------------------------------------------------------------------
(* The batches.                                                              *)

\* What a batch inserts follows from the keys that it found.
LEMMA ResolvedRow ==
    ASSUME NEW q \in Queries, NEW sure, NEW found, NEW seen,
           CandidateArtistKeys(q) \cap sure \subseteq found, found \subseteq seen
    PROVE  /\ \/ Resolve(q, found) = ParseSearchQuery(q)
              \/ \E n \in PrefixLengths(q) : Resolve(q, found) = ResolvedAt(q, n)
           /\ \/ \E n \in Matches(q, seen) : /\ Resolve(q, found) = ResolvedAt(q, n)
                                             /\ \A m \in Matches(q, sure) : m <= n
              \/ Matches(q, sure) = {} /\ Resolve(q, found) = ParseSearchQuery(q)
<1>1. Matches(q, sure) \subseteq Matches(q, found)
  BY OnlyCandidatesMatch
<1>2. Matches(q, found) \subseteq Matches(q, seen)
  BY MatchesGrow
<1>3. CASE Matches(q, found) = {}
  BY <1>1, <1>3 DEF Resolve
<1>4. CASE Matches(q, found) # {}
  <2> DEFINE n == Max(Matches(q, found))
  <2>1. n \in Matches(q, found) /\ \A m \in Matches(q, found) : m <= n
    BY <1>4, LongestMatch
  <2>2. Resolve(q, found) = ResolvedAt(q, n)
    BY <1>4 DEF Resolve
  <2>3. n \in PrefixLengths(q)
    BY <2>1 DEF Matches
  <2> HIDE DEF n
  <2>4. QED  BY <1>1, <1>2, <2>1, <2>2, <2>3
<1>5. QED  BY <1>3, <1>4

LEMMA BatchOfQueries ==
    ASSUME IdentificationInv
    PROVE  batch \subseteq Queries
BY DEF IdentificationInv, IdentificationTypeOK, Queries

\* _flush_batch: every row is what the looked up keys say of its query.
LEMMA FlushResolves ==
    ASSUME IdentificationInv, FlushQueries
    PROVE  IdentificationInv'
<1>1. /\ missing = {} /\ missing' = {} /\ batch' = {} /\ known' = {}
      /\ rows' = {[query |-> q, parsed |-> Resolve(q, known)] : q \in batch}
      /\ UNCHANGED <<catalogue, loading, remaining, throughout, ever>>
  BY DEF FlushQueries, loader, window
<1>2. ASSUME NEW row \in rows'
      PROVE  /\ row.query \in Queries
             /\ \/ row.parsed = ParseSearchQuery(row.query)
                \/ \E n \in PrefixLengths(row.query) : row.parsed = ResolvedAt(row.query, n)
             /\ \/ \E n \in Matches(row.query, ever) : /\ AgreesWith(row, n)
                                                       /\ \A m \in Matches(row.query, throughout) : m <= n
                \/ Matches(row.query, throughout) = {} /\ row.parsed = ParseSearchQuery(row.query)
  <2>1. PICK q \in batch : row = [query |-> q, parsed |-> Resolve(q, known)]
    BY <1>1
  <2>2. row.query = q /\ row.parsed = Resolve(q, known)
    BY <2>1
  <2>3. q \in Queries
    BY BatchOfQueries
  <2>4. CandidateArtistKeys(q) \cap throughout \subseteq known
    BY <1>1 DEF IdentificationInv, NoneForgotten
  <2>5. known \subseteq ever
    BY DEF IdentificationInv, IdentificationTypeOK
  <2>6. QED  BY <2>2, <2>3, <2>4, <2>5, ResolvedRow DEF AgreesWith
<1>3. RowsMatchTheTable'
  BY <1>1, <1>2 DEF RowsMatchTheTable, AgreesWith
<1>4. IdentificationTypeOK'
  BY <1>1, <1>2 DEF IdentificationInv, IdentificationTypeOK
<1>5. (CatalogueBetween /\ NoneForgotten /\ RemainingAreNames)'
  BY <1>1 DEF IdentificationInv, CatalogueBetween, NoneForgotten, RemainingAreNames
<1>6. QED  BY <1>3, <1>4, <1>5 DEF IdentificationInv

\* build_batch_catalogue, before its first lookup: all candidates are still missing.
LEMMA BeginKeeps ==
    ASSUME IdentificationInv, BeginBatch
    PROVE  IdentificationInv'
<1>1. PICK queries \in QueryBatches, useCatalogue \in BOOLEAN :
          /\ batch' = queries
          /\ missing' = IF useCatalogue
                        THEN UNION {CandidateArtistKeys(q) : q \in queries} ELSE {}
          /\ throughout' = IF useCatalogue THEN catalogue ELSE {}
          /\ ever' = catalogue
  BY DEF BeginBatch
<1>2. known' = {} /\ rows' = {} /\ UNCHANGED <<catalogue, loading, remaining>>
  BY DEF BeginBatch, loader
<1>3. IdentificationTypeOK'
  BY <1>1, <1>2 DEF IdentificationInv, IdentificationTypeOK
<1>4. CatalogueBetween' /\ RemainingAreNames'
  BY <1>1, <1>2 DEF IdentificationInv, CatalogueBetween, RemainingAreNames
<1>5. NoneForgotten'
  BY <1>1, <1>2 DEF NoneForgotten
<1>6. RowsMatchTheTable'
  BY <1>2 DEF RowsMatchTheTable
<1>7. QED  BY <1>3, <1>4, <1>5, <1>6 DEF IdentificationInv

\* A chunk of keys is looked up: a key that has been in the table all the while is found.
LEMMA LookUpKeeps ==
    ASSUME IdentificationInv, LookUp
    PROVE  IdentificationInv'
<1>1. PICK keys \in SUBSET missing : /\ known' = known \cup (keys \cap catalogue)
                                     /\ missing' = missing \ keys
  BY DEF LookUp, kSubset
<1>2. UNCHANGED <<batch, rows, catalogue, loading, remaining, throughout, ever>>
  BY DEF LookUp, loader, window
<1>3. batch # {}
  BY DEF LookUp, IdentificationInv, IdentificationTypeOK
<1>4. throughout \subseteq catalogue /\ catalogue \subseteq ever
  BY <1>3 DEF IdentificationInv, CatalogueBetween
<1>5. known' \subseteq ever /\ missing' \subseteq missing
  BY <1>1, <1>4 DEF IdentificationInv, IdentificationTypeOK
<1>6. IdentificationTypeOK'
  BY <1>2, <1>5 DEF IdentificationInv, IdentificationTypeOK
<1>7. CatalogueBetween' /\ RemainingAreNames'
  BY <1>2, <1>3, <1>4 DEF IdentificationInv, CatalogueBetween, RemainingAreNames
<1>8. NoneForgotten'
  <2> SUFFICES ASSUME NEW q \in batch, NEW k \in CandidateArtistKeys(q) \cap throughout
               PROVE  k \in known' \cup missing'
    BY <1>2 DEF NoneForgotten
  <2>1. k \in known \cup missing /\ k \in catalogue
    BY <1>4 DEF IdentificationInv, NoneForgotten
  <2>2. QED  BY <1>1, <2>1
<1>9. RowsMatchTheTable'
  BY <1>2 DEF IdentificationInv, RowsMatchTheTable
<1>10. QED  BY <1>6, <1>7, <1>8, <1>9 DEF IdentificationInv
-----------------------------------------------------------------------------
(* The loads.                                                                *)

\* A sequence is a suffix of itself.
LEMMA SuffixOfEvery ==
    ASSUME NEW T, NEW s \in Seq(T)
    PROVE  IsSuffix(<<>>, <<>>) /\ IsSuffix(s, s)
<1>1. ASSUME NEW t, Len(t) \in Nat PROVE IsSuffix(t, t)
  <2>1. Len(Reverse(t)) = Len(t)
    BY <1>1 DEF Reverse
  <2>2. QED  BY <1>1, <2>1 DEF IsSuffix, IsPrefix
<1>2. Len(s) \in Nat /\ Len(<<>>) \in Nat
  BY LenProperties
<1>3. QED  BY <1>1, <1>2

\* A suffix holds the last elements.
LEMMA SuffixMeans ==
    ASSUME NEW T, NEW s \in Seq(T), NEW U, NEW t \in Seq(U)
    PROVE  IsSuffix(s, t) <=> /\ Len(s) <= Len(t)
                              /\ \A i \in 1..Len(s) : s[i] = t[Len(t) - Len(s) + i]
<1> DEFINE r == Reverse(s)
           u == Reverse(t)
           m == Len(s)
           n == Len(t)
<1>1. m \in Nat /\ n \in Nat
  BY LenProperties
<1>2. r = [i \in 1..m |-> s[(m - i) + 1]] /\ u = [i \in 1..n |-> t[(n - i) + 1]]
  BY DEF Reverse
<1>3. Len(r) = m /\ Len(u) = n
  BY <1>1, <1>2
<1>4. IsSuffix(s, t) <=> m <= n /\ SubSeq(r, 1, m) = SubSeq(u, 1, m)
  BY <1>3 DEF IsSuffix, IsPrefix
<1> HIDE DEF r, u, m, n
<1>5. SubSeq(r, 1, m) = [i \in 1..m |-> r[i]] /\ SubSeq(u, 1, m) = [i \in 1..m |-> u[i]]
  BY <1>1
<1>6. ASSUME m <= n
      PROVE  SubSeq(r, 1, m) = SubSeq(u, 1, m) <=> \A i \in 1..m : s[i] = t[n - m + i]
  <2>1. SubSeq(r, 1, m) = SubSeq(u, 1, m) <=> \A i \in 1..m : r[i] = u[i]
    BY <1>5
  <2>2. \A i \in 1..m : r[i] = s[(m - i) + 1] /\ u[i] = t[(n - i) + 1]
    BY <1>1, <1>2, <1>6
  <2>3. ASSUME \A i \in 1..m : r[i] = u[i], NEW i \in 1..m PROVE s[i] = t[n - m + i]
    <3>1. (m - i) + 1 \in 1..m /\ (m - ((m - i) + 1)) + 1 = i /\ (n - ((m - i) + 1)) + 1 = n - m + i
      BY <1>1
    <3>2. QED  BY <2>2, <2>3, <3>1
  <2>4. ASSUME \A i \in 1..m : s[i] = t[n - m + i], NEW i \in 1..m PROVE r[i] = u[i]
    <3>1. (m - i) + 1 \in 1..m /\ n - m + ((m - i) + 1) = (n - i) + 1
      BY <1>1
    <3>2. QED  BY <2>2, <2>4, <3>1
  <2>5. QED  BY <2>1, <2>3, <2>4
<1>7. QED  BY <1>4, <1>6 DEF m, n

\* All names of a dump are to be inserted, and after some have been, its last ones.
LEMMA AllNames ==
    ASSUME NEW dump \in Dumps
    PROVE  LastNames(dump, dump) /\ IsSuffix(<<>>, <<>>)
<1>1. dump \in Seq(Range(dump))
  BY IdentificationAssumption
<1>2. QED  BY <1>1, SuffixOfEvery DEF LastNames

LEMMA FewerNames ==
    ASSUME NEW dump \in Dumps, NEW names, LastNames(names, dump),
           NEW size \in 1..Len(names)
    PROVE  LastNames(SubSeq(names, size + 1, Len(names)), dump)
<1> DEFINE T == Range(dump)
           rest == SubSeq(names, size + 1, Len(names))
           m == Len(names)
           n == Len(dump)
<1>1. dump \in Seq(T) /\ names \in Seq(T)
  BY IdentificationAssumption DEF LastNames
<1>2. m \in Nat /\ n \in Nat /\ size \in Nat /\ size <= m
  BY <1>1, LenProperties
<1>3. m <= n /\ \A i \in 1..m : names[i] = dump[n - m + i]
  BY <1>1, SuffixMeans DEF LastNames
<1> HIDE DEF T
<1>4. /\ rest \in Seq(T) /\ Len(rest) = m - size
      /\ \A i \in 1..(m - size) : rest[i] = names[size + i]
  BY <1>1, <1>2
<1> HIDE DEF rest, m, n
<1>5. ASSUME NEW i \in 1..Len(rest) PROVE rest[i] = dump[n - Len(rest) + i]
  <2>1. size + i \in 1..m /\ n - m + (size + i) = n - (m - size) + i
    BY <1>2, <1>4
  <2>2. QED  BY <1>3, <1>4, <2>1
<1>6. Len(rest) <= n
  BY <1>2, <1>3, <1>4
<1>7. IsSuffix(rest, dump)
  BY <1>1, <1>4, <1>5, <1>6, SuffixMeans DEF n
<1>8. QED  BY <1>4, <1>7 DEF LastNames, rest, m, T

\* A step of the loader while a batch is looked up: the table still lies between the
\* two histories, and what was found or is missing stays so.
LEMMA HeldKeeps ==
    ASSUME IdentificationInv, NEW keys \in SUBSET (AllKeys \ UselessKeys), Held(keys)
    PROVE  /\ (CatalogueBetween /\ NoneForgotten /\ RowsMatchTheTable)'
           /\ catalogue' \subseteq AllKeys \ UselessKeys
           /\ UNCHANGED <<batch, missing, known>> /\ rows' = {}
           /\ known \subseteq ever'
           /\ throughout' \subseteq ever' /\ ever' \subseteq AllKeys
<1>1. /\ catalogue' = keys /\ rows' = {} /\ UNCHANGED <<batch, missing, known>>
      /\ throughout' = IF batch = {} THEN {} ELSE throughout \cap keys
      /\ ever' = IF batch = {} THEN {} ELSE ever \cup keys
  BY DEF Held, lookup
<1>2. /\ known \subseteq ever /\ ever \subseteq AllKeys
      /\ IF batch # {} THEN throughout \subseteq catalogue /\ catalogue \subseteq ever
         ELSE known = {}
  BY DEF IdentificationInv, IdentificationTypeOK, CatalogueBetween
<1>3. CatalogueBetween'
  BY <1>1, <1>2 DEF CatalogueBetween
<1>4. NoneForgotten'
  <2>1. throughout' \subseteq throughout \/ throughout' = {}
    BY <1>1
  <2>2. QED  BY <1>1, <2>1 DEF IdentificationInv, NoneForgotten
<1>5. RowsMatchTheTable'
  BY <1>1 DEF RowsMatchTheTable
<1>6. known \subseteq ever' /\ throughout' \subseteq ever' /\ ever' \subseteq AllKeys
  <2>1. CASE batch = {}
    BY <1>1, <1>2, <2>1
  <2>2. CASE batch # {}
    BY <1>1, <1>2, <2>2
  <2>3. QED  BY <2>1, <2>2
<1>7. QED  BY <1>1, <1>3, <1>4, <1>5, <1>6

\* What a step of the loader has to keep besides.
LEMMA LoaderKeeps ==
    ASSUME IdentificationInv, NEW keys \in SUBSET (AllKeys \ UselessKeys), Held(keys),
           loading' \in BOOLEAN, ~loading' => remaining' = <<>>,
           \/ remaining' = <<>>
           \/ \E dump \in Dumps : LastNames(remaining', dump)
    PROVE  IdentificationInv'
<1>1. \E dump \in Dumps \cup {<<>>} : IsSuffix(remaining', dump)
  <2>1. IsSuffix(<<>>, <<>>)
    BY SuffixOfEvery, EmptySeq
  <2>2. QED  BY <2>1 DEF LastNames
<1>2. /\ batch \in QueryBatches \cup {{}}
      /\ missing \subseteq UNION {CandidateArtistKeys(q) : q \in batch}
  BY DEF IdentificationInv, IdentificationTypeOK
<1>3. IdentificationTypeOK'
  BY <1>1, <1>2, HeldKeeps DEF IdentificationTypeOK
<1>4. RemainingAreNames'
  BY DEF RemainingAreNames
<1>5. QED  BY <1>3, <1>4, HeldKeeps DEF IdentificationInv

LEMMA BeginLoadKeeps ==
    ASSUME IdentificationInv, BeginLoad
    PROVE  IdentificationInv'
<1>1. loading' = TRUE /\ remaining' \in Dumps /\ Held({})
  BY DEF BeginLoad
<1>2. LastNames(remaining', remaining')
  BY <1>1, AllNames
<1>3. QED  BY <1>1, <1>2, LoaderKeeps

LEMMA EndLoadKeeps ==
    ASSUME IdentificationInv, EndLoad
    PROVE  IdentificationInv'
<1>1. loading' = FALSE /\ remaining' = <<>> /\ Held(catalogue)
  BY DEF EndLoad
<1>2. catalogue \in SUBSET (AllKeys \ UselessKeys)
  BY DEF IdentificationInv, IdentificationTypeOK
<1>3. QED  BY <1>1, <1>2, LoaderKeeps

\* A batch is not empty while names remain, and goes no further than they do.
LEMMA BatchIsOfTheRest ==
    ASSUME NEW dump \in Dumps, LastNames(remaining, dump), remaining # <<>>
    PROVE  BatchSize \in 1..Len(remaining)
<1>1. Len(remaining) \in Nat /\ Len(remaining) # 0
  BY LenProperties, EmptySeq DEF LastNames
<1> DEFINE sizes == {n \in 1..Len(remaining) : Full(n)} \cup {Len(remaining)}
<1>2. sizes \subseteq 1..Len(remaining) /\ sizes \subseteq Nat /\ sizes # {}
  <2> HIDE DEF Full
  <2>1. QED  BY <1>1
<1>3. Min(sizes) \in sizes
  <2> HIDE DEF sizes
  <2>1. QED  BY <1>2, MinOfNaturals
<1>4. QED  BY <1>2, <1>3 DEF BatchSize

\* The keys of a batch are useful ones of the dump's names.
LEMMA BatchIsOfTheDump ==
    ASSUME NEW dump \in Dumps, LastNames(remaining, dump), remaining # <<>>
    PROVE  BatchKeys \subseteq AllKeys \ UselessKeys
<1>1. remaining \in Seq(Range(dump))
  BY DEF LastNames
<1>2. ASSUME NEW i \in 1..BatchSize PROVE Key(remaining[i]) \in AllKeys
  <2>1. i \in 1..Len(remaining)
    <3>1. Len(remaining) \in Nat /\ BatchSize \in 1..Len(remaining)
      BY <1>1, LenProperties, BatchIsOfTheRest
    <3>2. QED  BY <3>1
  <2>2. remaining[i] \in Range(dump)
    BY <1>1, <2>1, ElementOfSeq
  <2>3. QED  BY <2>2 DEF AllKeys
<1>3. QED  BY <1>2 DEF BatchKeys, Useful

LEMMA InsertNamesKeeps ==
    ASSUME IdentificationInv, InsertNames
    PROVE  IdentificationInv'
<1>1. /\ loading /\ remaining # <<>> /\ loading' = loading
      /\ Held(catalogue \cup BatchKeys)
      /\ remaining' = SubSeq(remaining, BatchSize + 1, Len(remaining))
  BY DEF InsertNames
<1>2. PICK dump \in Dumps : LastNames(remaining, dump)
  BY <1>1 DEF IdentificationInv, RemainingAreNames
<1>3. LastNames(SubSeq(remaining, BatchSize + 1, Len(remaining)), dump)
  BY <1>1, <1>2, BatchIsOfTheRest, FewerNames
<1>4. catalogue \cup BatchKeys \in SUBSET (AllKeys \ UselessKeys)
  BY <1>1, <1>2, BatchIsOfTheDump DEF IdentificationInv, IdentificationTypeOK
<1>5. QED  BY <1>1, <1>3, <1>4, LoaderKeeps

\* What a failed insert stored is a part of its batch.
LEMMA InsertFailsKeeps ==
    ASSUME IdentificationInv, InsertFails
    PROVE  IdentificationInv'
<1>1. /\ remaining # <<>> /\ loading' = FALSE /\ remaining' = <<>>
      /\ \E stored \in SUBSET BatchKeys : Held(catalogue \cup stored)
  BY DEF InsertFails
<1>2. PICK stored \in SUBSET BatchKeys : Held(catalogue \cup stored)
  BY <1>1
<1>3. loading
  BY DEF InsertFails
<1>4. PICK dump \in Dumps : LastNames(remaining, dump)
  BY <1>1, <1>3 DEF IdentificationInv, RemainingAreNames
<1>5. catalogue \cup stored \in SUBSET (AllKeys \ UselessKeys)
  BY <1>1, <1>4, BatchIsOfTheDump DEF IdentificationInv, IdentificationTypeOK
<1>6. QED  BY <1>1, <1>2, <1>5, LoaderKeeps
-----------------------------------------------------------------------------
(* The invariant.                                                            *)

\* Every step of the command and of the loader keeps the invariant.
LEMMA IdentificationStep ==
    ASSUME IdentificationInv, [IdentificationNext]_identification_vars
    PROVE  IdentificationInv'
<1>1. CASE UNCHANGED identification_vars
  <2>1. UNCHANGED <<catalogue, loading, remaining, batch, missing, known, rows,
                    throughout, ever>>
    BY <1>1 DEF identification_vars, loader, lookup, window
  <2>2. IdentificationTypeOK' /\ RowsMatchTheTable'
    BY <2>1 DEF IdentificationInv, IdentificationTypeOK, RowsMatchTheTable
  <2>3. (CatalogueBetween /\ NoneForgotten /\ RemainingAreNames)'
    BY <2>1 DEF IdentificationInv, CatalogueBetween, NoneForgotten, RemainingAreNames
  <2>4. QED  BY <2>2, <2>3 DEF IdentificationInv
<1>2. QED
  BY <1>1, BeginLoadKeeps, InsertNamesKeeps, InsertFailsKeeps, EndLoadKeeps, BeginKeeps,
     LookUpKeeps, FlushResolves DEF IdentificationNext

\* While batches are resolved and the catalogue is replaced under them, the types, the
\* bounds of what is known of a batch and the meaning of its rows hold.
THEOREM IdentificationInvariantHolds == IdentificationSpec => []IdentificationInv
<1>1. IdentificationInit => IdentificationInv
  <2> SUFFICES ASSUME IdentificationInit PROVE IdentificationInv
    OBVIOUS
  <2>1. IsSuffix(<<>>, <<>>)
    BY SuffixOfEvery, EmptySeq
  <2>2. IdentificationTypeOK
    BY <2>1 DEF IdentificationInit, IdentificationTypeOK
  <2>3. QED
    BY <2>2 DEF IdentificationInit, IdentificationInv, CatalogueBetween, NoneForgotten,
                RemainingAreNames, RowsMatchTheTable
<1>2. IdentificationInv /\ [IdentificationNext]_identification_vars => IdentificationInv'
  BY IdentificationStep
<1>3. QED  BY <1>1, <1>2, PTL DEF IdentificationSpec

\* The types of the lookup, of the loader and of the inserted rows.
THEOREM IdentificationTypeCorrect == IdentificationSpec => []IdentificationTypeOK
BY IdentificationInvariantHolds, PTL DEF IdentificationInv

\* resolve_with_catalogue on the keys that build_batch_catalogue looked up, whatever
\* the catalogue, the dumps, the chunks and the interleaving of the two commands: a
\* row names the longest artist that the table held all the while or a longer one that
\* it held at some time, and is left to the separators only if there was none.
THEOREM RowsAreOfTheTable == IdentificationSpec => []RowsMatchTheTable
BY IdentificationInvariantHolds, PTL DEF IdentificationInv
=============================================================================
