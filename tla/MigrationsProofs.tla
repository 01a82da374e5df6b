--------------------------- MODULE MigrationsProofs ---------------------------
(***************************************************************************)
(* For any number of runners, releases and failures: the record is without *)
(* a gap, and the schema is what the record says.  The record does not     *)
(* depend on what the statements do.  The schema does: what a runner has   *)
(* executed of a file keeps it between the schemas before and after that   *)
(* file, and a second attempt at the file begins anywhere between them.    *)
(***************************************************************************)
EXTENDS Migrations, WellFoundedInduction, TLAPS

\* What a runner believes and where it is: it believes only what is recorded, and
\* everything before the migration that it is at is recorded.
RunnersFollowTheRecord ==
    \A r \in Runners : /\ at[r] <= directory[r] + 1
                       /\ applied[r] \subseteq 1..directory[r]
                       /\ \A m \in 1..at[r] - 1 : m \in recorded

\* The variables of the runners are functions of them, and the record names
\* migrations that have been deployed.
Typed == /\ deployed \in Nat
         /\ recorded \subseteq 1..deployed
         /\ directory \in [Runners -> 0..deployed]
         /\ applied \in [Runners -> SUBSET recorded]
         /\ at \in [Runners -> Nat]

\* RecordedInOrder is not inductive alone: a runner records the migration that it
\* is at, so one must know that what lies before it is recorded.
IInv == Typed /\ RunnersFollowTheRecord /\ RecordedInOrder
-----------------------------------------------------------------------------
(* The smallest number of a set.                                             *)

\* A set of natural numbers that is not empty has a smallest element.
LEMMA MinOfNaturals ==
    ASSUME NEW S, S \subseteq Nat, S # {}
    PROVE  Min(S) \in S /\ \A y \in S : Min(S) <= y
<1> DEFINE Less == {p \in Nat \X Nat : p[1] < p[2]}
<1>1. IsWellFoundedOn(Less, Nat)
  BY NatLessThanWellFounded DEF OpToRel
<1>2. PICK x \in S : \A y \in S : <<y, x>> \notin Less
  BY <1>1, WFMin
<1>3. ASSUME NEW y \in S PROVE x <= y
  <2>1. y \in Nat /\ x \in Nat
    OBVIOUS
  <2>2. y < x => <<y, x>> \in Less
    BY <2>1
  <2>3. QED  BY <1>2, <2>1, <2>2
<1>4. QED  BY <1>3 DEF Min

\* The loop goes on behind m, not beyond the end of the directory, and passes over
\* nothing but what it knows to be applied.
LEMMA NextToApplyProperties ==
    ASSUME NEW m \in Nat, NEW newest \in Nat, NEW known,
           m <= newest, known \subseteq 1..newest
    PROVE  /\ NextToApply(m, newest, known) \in m + 1..newest + 1
           /\ NextToApply(m, newest, known) \notin known
           /\ \A n \in m + 1..NextToApply(m, newest, known) - 1 : n \in known
<1> DEFINE S == {n \in m + 1..newest + 1 : n \notin known}
<1>1. newest + 1 \in S
  OBVIOUS
<1>2. S \subseteq Nat /\ S # {}
  BY <1>1
<1>3. Min(S) \in S /\ \A y \in S : Min(S) <= y
  BY <1>2, MinOfNaturals
<1>4. NextToApply(m, newest, known) = Min(S)
  BY DEF NextToApply
<1> DEFINE x == Min(S)
<1> HIDE DEF x
<1>5. x \in m + 1..newest + 1 /\ x \notin known
  BY <1>3 DEF x
<1>6. ASSUME NEW n \in m + 1..x - 1 PROVE n \in known
  <2>1. n \in m + 1..newest + 1 /\ ~(x <= n)
    BY <1>5
  <2>2. n \notin S
    BY <1>3, <2>1 DEF x
  <2>3. QED  BY <2>1, <2>2
<1>7. QED  BY <1>4, <1>5, <1>6 DEF x
-----------------------------------------------------------------------------
(* The files.                                                                *)

\* What a statement makes true, unless it is a drop, and what a file does.
Given(st) == {<<st.object, f>> : f \in st.facts}
Position(m) == 1..Len(Migration[m])
FactsOf(m) == UNION {Given(Migration[m][j]) : j \in Position(m)}
Drops(m, object) ==
    \E j \in Position(m) : Migration[m][j].op = "drop" /\ Migration[m][j].object = object

\* Everything that the first n files make true, and what of it the next file does
\* not drop.
Complete(n) == UNION {FactsOf(m) : m \in 1..n}
Lasting(n) == {x \in Complete(n) : n < Total => ~Drops(n + 1, x[1])}

LEMMA Totals == Total = 7 /\ \A m \in 1..Total : Len(Migration[m]) \in Nat
BY DEF Total, Migration, SearchQueryEvents, ParsedSearchQueries, ChartAggregates,
       ImportedSource, KeyEpoch, ShortenRetention, MusicbrainzArtists

LEMMA Files ==
    /\ Migration[1] = SearchQueryEvents /\ Migration[2] = ParsedSearchQueries
    /\ Migration[3] = ChartAggregates /\ Migration[4] = ImportedSource
    /\ Migration[5] = KeyEpoch /\ Migration[6] = ShortenRetention
    /\ Migration[7] = MusicbrainzArtists
BY DEF Migration

LEMMA KeyEpochStatements ==
    /\ Len(KeyEpoch) = 9
    /\ KeyEpoch[1].op = "alter" /\ KeyEpoch[1].object = "parsed"
    /\ \A j \in 2..5 :
          /\ KeyEpoch[j].op = "drop" /\ KeyEpoch[j].facts = {}
          /\ KeyEpoch[j].object \in {"artist_view", "track_view", "artist", "track"}
    /\ \A j \in 6..9 : KeyEpoch[j].op = "create" /\ "exists" \in KeyEpoch[j].facts
    /\ KeyEpoch[6].object = "artist" /\ KeyEpoch[7].object = "artist_view"
    /\ KeyEpoch[8].object = "track" /\ KeyEpoch[9].object = "track_view"
BY DEF KeyEpoch, Alter, DropIfExists, Create, Statement

\* Only migration 0005 drops, and in it every drop comes before every create.
LEMMA StatementFacts ==
    ASSUME NEW m \in 1..Total, NEW j \in Position(m)
    PROVE  LET st == Migration[m][j] IN
           /\ st.op = "create_if_missing" => st.facts = {"exists"}
           /\ st.op = "drop" =>
                 /\ m = KeyEpochIdentifier /\ st.facts = {}
                 /\ \A i \in 1..j : Migration[m][i].object = st.object =>
                                        Migration[m][i].op = "drop"
<1>1. CASE m = 1
  BY <1>1, Files DEF Position, SearchQueryEvents, CreateIfMissing, Statement
<1>2. CASE m = 2
  BY <1>2, Files DEF Position, ParsedSearchQueries, CreateIfMissing, Statement
<1>3. CASE m = 3
  BY <1>3, Files DEF Position, ChartAggregates, CreateIfMissing, Statement
<1>4. CASE m = 4
  BY <1>4, Files DEF Position, ImportedSource, Alter, Statement
<1>5. CASE m = 5
  <2>1. Migration[m] = KeyEpoch /\ j \in 1..9
    BY <1>5, Files, KeyEpochStatements DEF Position
  <2>2. CASE j = 1
    BY <2>1, <2>2, KeyEpochStatements
  <2>3. CASE j \in 2..5
    <3>1. ASSUME NEW i \in 1..j, KeyEpoch[i].object = KeyEpoch[j].object
          PROVE  KeyEpoch[i].op = "drop"
      <4>1. i \in 2..5
        BY <2>3, <3>1, KeyEpochStatements
      <4>2. QED  BY <4>1, KeyEpochStatements
    <3>2. QED  BY <1>5, <2>1, <2>3, <3>1, KeyEpochStatements DEF KeyEpochIdentifier
  <2>4. CASE j \in 6..9
    BY <2>1, <2>4, KeyEpochStatements
  <2>5. QED  BY <2>1, <2>2, <2>3, <2>4
<1>6. CASE m = 6
  BY <1>6, Files DEF Position, ShortenRetention, Alter, Statement
<1>7. CASE m = 7
  BY <1>7, Files DEF Position, MusicbrainzArtists, CreateIfMissing, Statement
<1>8. m \in 1..7
  BY Totals
<1>9. QED  BY <1>1, <1>2, <1>3, <1>4, <1>5, <1>6, <1>7, <1>8

\* What migration 0005 drops it creates again, with everything that was true of it.
LEMMA DroppedIsRenewed ==
    ASSUME NEW m \in 1..Total, NEW x \in Complete(m - 1), Drops(m, x[1])
    PROVE  x \in FactsOf(m)
<1>1. m = 5
  BY StatementFacts DEF Drops, KeyEpochIdentifier
<1>2. PICK i \in 1..4 : x \in FactsOf(i)
  BY <1>1 DEF Complete
<1>3. PICK j \in Position(i) : x \in Given(Migration[i][j])
  BY <1>2 DEF FactsOf
<1>4. x[1] \in {"artist_view", "track_view", "artist", "track"}
  <2>1. PICK k \in 1..9 : KeyEpoch[k].op = "drop" /\ KeyEpoch[k].object = x[1]
    BY <1>1, Files, KeyEpochStatements DEF Drops, Position
  <2>2. k \in 2..5
    BY <2>1, KeyEpochStatements
  <2>3. QED  BY <2>1, <2>2, KeyEpochStatements
<1>5. i = 3
  <2>1. i = 1 => x[1] = "raw"
    BY <1>3, Files DEF Given, Position, SearchQueryEvents, CreateIfMissing, Statement
  <2>2. i = 2 => x[1] = "parsed"
    BY <1>3, Files DEF Given, Position, ParsedSearchQueries, CreateIfMissing, Statement
  <2>3. i = 4 => x[1] = "raw"
    BY <1>3, Files DEF Given, Position, ImportedSource, Alter, Statement
  <2>4. QED  BY <1>4, <2>1, <2>2, <2>3
<1>6. x = <<x[1], "exists">>
  BY <1>3, <1>5, Files DEF Given, Position, ChartAggregates, CreateIfMissing, Statement
<1>7. \E k \in Position(5) : Migration[5][k].object = x[1] /\ "exists" \in Migration[5][k].facts
  <2>1. \E k \in 6..9 : KeyEpoch[k].object = x[1] /\ "exists" \in KeyEpoch[k].facts
    BY <1>4, KeyEpochStatements
  <2>2. QED  BY <2>1, Files, KeyEpochStatements DEF Position
<1>8. QED  BY <1>1, <1>6, <1>7 DEF FactsOf, Given
-----------------------------------------------------------------------------
(* The execution of a file.                                                  *)

\* The statements up to the k-th, unless they are drops, have had their effect.
Progress(m, k, S) ==
    \A j \in 1..k : Migration[m][j].op # "drop" => Given(Migration[m][j]) \subseteq S

\* A schema on the way from one migration to the next.
Between(m, S) == Lasting(m - 1) \subseteq S /\ S \subseteq Complete(m)

\* Later migrations add to what is true, in the end.
LEMMA CompleteGrows ==
    ASSUME NEW m \in 1..Total
    PROVE  Complete(m) = Complete(m - 1) \cup FactsOf(m)
<1>1. 1..m = (1..m - 1) \cup {m}
  <2>1. m \in Nat /\ m >= 1
    BY Totals
  <2>2. QED  BY <2>1
<1>2. QED  BY <1>1 DEF Complete

\* A statement executed leaves the schema on its way, and has its effect.
LEMMA EffectKeeps ==
    ASSUME NEW m \in 1..Total, NEW k \in 0..Len(Migration[m]) - 1, NEW S,
           Between(m, S), Progress(m, k, S)
    PROVE  /\ Between(m, Effect(S, Migration[m][k + 1]))
           /\ Progress(m, k + 1, Effect(S, Migration[m][k + 1]))
<1> DEFINE st == Migration[m][k + 1]
<1>1. Len(Migration[m]) \in Nat /\ k + 1 \in Position(m)
  <2>1. Len(Migration[m]) \in Nat
    BY Totals
  <2>2. k + 1 \in 1..Len(Migration[m])
    BY <2>1
  <2>3. QED  BY <2>1, <2>2 DEF Position
<1>2. Given(st) \subseteq Complete(m)
  <2>1. Given(st) \subseteq FactsOf(m)
    BY <1>1 DEF FactsOf
  <2>2. QED  BY <2>1, CompleteGrows
<1>3. /\ st.op = "create_if_missing" => st.facts = {"exists"}
      /\ st.op = "drop" => \A i \in 1..k + 1 : Migration[m][i].object = st.object =>
                                                   Migration[m][i].op = "drop"
  BY <1>1, StatementFacts
<1>4. CASE st.op = "create_if_missing" /\ Exists(st.object, S)
  <2>1. Effect(S, st) = S
    BY <1>4 DEF Effect
  <2>2. Given(st) \subseteq S
    BY <1>3, <1>4 DEF Given, Exists
  <2>3. QED  BY <2>1, <2>2 DEF Progress
<1>5. CASE st.op = "drop"
  <2>1. Effect(S, st) = {x \in S : x[1] # st.object}
    BY <1>5 DEF Effect
  <2>2. \A x \in Lasting(m - 1) : x[1] # st.object
    <3>1. Drops(m, st.object)
      BY <1>1, <1>5 DEF Drops
    <3>2. m - 1 < Total /\ (m - 1) + 1 = m
      BY Totals
    <3>3. QED  BY <3>1, <3>2 DEF Lasting
  <2>3. Between(m, Effect(S, st))
    BY <2>1, <2>2 DEF Between
  <2>4. ASSUME NEW j \in 1..k + 1, Migration[m][j].op # "drop"
        PROVE  Given(Migration[m][j]) \subseteq Effect(S, st)
    <3>1. j \in 1..k
      BY <1>5, <2>4
    <3>2. Given(Migration[m][j]) \subseteq S
      BY <2>4, <3>1 DEF Progress
    <3>3. Migration[m][j].object # st.object
      BY <1>3, <1>5, <2>4
    <3>4. QED  BY <2>1, <3>2, <3>3 DEF Given
  <2>5. QED  BY <2>3, <2>4 DEF Progress
<1>6. CASE ~(st.op = "create_if_missing" /\ Exists(st.object, S)) /\ st.op # "drop"
  <2>1. Effect(S, st) = S \cup Given(st)
    BY <1>6 DEF Effect, Given
  <2> HIDE DEF st
  <2>2. Between(m, Effect(S, st))
    BY <1>2, <2>1 DEF Between
  <2>3. \A j \in 1..k + 1 : j \in 1..k \/ Migration[m][j] = st
    BY DEF st
  <2>4. Progress(m, k + 1, Effect(S, st))
    BY <2>1, <2>3 DEF Progress
  <2>5. QED  BY <2>2, <2>4 DEF st
<1>7. QED  BY <1>4, <1>5, <1>6

\* A file executed to its end makes true what it should, from wherever on the way
\* it was begun.
LEMMA EndOfFile ==
    ASSUME NEW m \in 1..Total, NEW S, Between(m, S), Progress(m, Len(Migration[m]), S)
    PROVE  S = Complete(m)
<1>1. FactsOf(m) \subseteq S
  <2> SUFFICES ASSUME NEW j \in Position(m), NEW x \in Given(Migration[m][j])
               PROVE  x \in S
    BY DEF FactsOf
  <2>1. Migration[m][j].op # "drop"
    BY StatementFacts DEF Given
  <2>2. QED  BY <2>1 DEF Progress, Position
<1>2. ASSUME NEW x \in Complete(m - 1) PROVE x \in S
  <2>1. CASE Drops(m, x[1])
    BY <1>1, <2>1, DroppedIsRenewed
  <2>2. CASE ~Drops(m, x[1])
    <3>1. x \in Lasting(m - 1)
      BY <2>2, Totals DEF Lasting
    <3>2. QED  BY <3>1 DEF Between
  <2>3. QED  BY <2>1, <2>2
<1>3. QED  BY <1>1, <1>2, CompleteGrows DEF Between

\* A schema that is complete is on the way to the next migration.
LEMMA NextFile ==
    ASSUME NEW m \in 1..Total
    PROVE  Between(m, Complete(m - 1)) /\ \A S : Progress(m, 0, S)
BY CompleteGrows DEF Between, Lasting, Progress
-----------------------------------------------------------------------------
(* The schema of an empty database.                                          *)

\* The schemas after each of the first n statements of a file.
Execution(g, S, file, n) ==
    g = [k \in 0..n |-> IF k = 0 THEN S ELSE Effect(g[k - 1], file[k])]

\* A file can be executed, however many statements it has.
LEMMA ExecutionExists ==
    ASSUME NEW S, NEW file, NEW N \in Nat
    PROVE  \E g : Execution(g, S, file, N)
<1> DEFINE P(n) == \E g : Execution(g, S, file, n)
           Bad == {n \in Nat : ~P(n)}
<1>1. P(0)
  <2> DEFINE g == [k \in 0..0 |-> S]
  <2>1. g = [k \in 0..0 |-> IF k = 0 THEN S ELSE Effect(g[k - 1], file[k])]
    OBVIOUS
  <2>2. QED  BY <2>1 DEF Execution
<1>2. ASSUME NEW n \in Nat, P(n) PROVE P(n + 1)
  <2>1. PICK g : g = [k \in 0..n |-> IF k = 0 THEN S ELSE Effect(g[k - 1], file[k])]
    BY <1>2 DEF Execution
  <2> DEFINE h == [k \in 0..n + 1 |-> IF k = n + 1 THEN Effect(g[n], file[k]) ELSE g[k]]
  <2>2. ASSUME NEW k \in 0..n + 1
        PROVE  h[k] = IF k = 0 THEN S ELSE Effect(h[k - 1], file[k])
    <3>1. CASE k = n + 1
      BY <3>1
    <3>2. CASE k \in 0..n
      <4>1. h[k] = g[k] /\ (k # 0 => h[k - 1] = g[k - 1])
        BY <3>2
      <4>2. g[k] = IF k = 0 THEN S ELSE Effect(g[k - 1], file[k])
        BY <2>1, <3>2
      <4>3. QED  BY <4>1, <4>2
    <3>3. QED  BY <3>1, <3>2
  <2> HIDE DEF h
  <2>3. h = [k \in 0..n + 1 |-> h[k]]
    BY DEF h
  <2>4. h = [k \in 0..n + 1 |-> IF k = 0 THEN S ELSE Effect(h[k - 1], file[k])]
    BY <2>2, <2>3
  <2>5. QED  BY <2>4 DEF Execution
<1>3. ASSUME Bad # {} PROVE FALSE
  <2> HIDE DEF P
  <2>1. Min(Bad) \in Bad /\ \A y \in Bad : Min(Bad) <= y
    BY <1>3, MinOfNaturals
  <2>2. PICK n \in Bad : n # 0 /\ \A y \in Bad : n <= y
    BY <1>1, <2>1
  <2>3. n - 1 \in Nat /\ n - 1 \notin Bad
    BY <2>2
  <2>4. P(n - 1 + 1)
    BY <1>2, <2>3
  <2>5. QED  BY <2>2, <2>4
<1>4. QED  BY <1>3

\* A file executed to its end, beginning with what the files before it make true.
LEMMA CompletedFile ==
    ASSUME NEW m \in 1..Total
    PROVE  Completed(Complete(m - 1), Migration[m]) = Complete(m)
<1> DEFINE S == Complete(m - 1)
           file == Migration[m]
           N == Len(file)
           after == CHOOSE g : g = [k \in 0..N |-> IF k = 0 THEN S
                                                   ELSE Effect(g[k - 1], file[k])]
           Stuck == {k \in 0..N : ~(Between(m, after[k]) /\ Progress(m, k, after[k]))}
<1>1. N \in Nat
  BY Totals
<1>2. Completed(S, file) = after[N]
  BY DEF Completed
<1>3. after = [k \in 0..N |-> IF k = 0 THEN S ELSE Effect(after[k - 1], file[k])]
  <2> HIDE DEF S, file, N
  <2>1. \E g : Execution(g, S, file, N)
    BY <1>1, ExecutionExists
  <2>2. QED  BY <2>1 DEF Execution
<1> HIDE DEF after
<1>4. ASSUME Stuck # {} PROVE FALSE
  <2>1. Stuck \subseteq Nat
    BY <1>1
  <2>2. Min(Stuck) \in Stuck /\ \A y \in Stuck : Min(Stuck) <= y
    BY <1>4, <2>1, MinOfNaturals
  <2>3. PICK k \in Stuck : \A y \in Stuck : k <= y
    BY <2>2
  <2>4. k # 0
    <3>1. after[0] = S
      BY <1>1, <1>3
    <3>2. QED  BY <2>3, <3>1, NextFile
  <2>5. k \in 1..N /\ k - 1 \in 0..N - 1 /\ (k - 1) + 1 = k
    BY <1>1, <2>4
  <2>6. Between(m, after[k - 1]) /\ Progress(m, k - 1, after[k - 1])
    BY <1>1, <2>3, <2>5
  <2>7. after[k] = Effect(after[k - 1], file[(k - 1) + 1])
    <3>1. k \in 0..N /\ k # 0
      BY <1>1, <2>5
    <3>2. after[k] = Effect(after[k - 1], file[k])
      <4> HIDE DEF S, file, N
      <4>1. QED  BY <1>3, <3>1
    <3>3. QED  BY <2>5, <3>2
  <2>8. Between(m, after[k]) /\ Progress(m, k, after[k])
    BY <2>5, <2>6, <2>7, EffectKeeps
  <2>9. QED  BY <2>8
<1>5. Between(m, after[N]) /\ Progress(m, N, after[N])
  BY <1>1, <1>4
<1>6. QED  BY <1>2, <1>5, EndOfFile

\* A fresh database has what all the files make true.
LEMMA FreshIsComplete == \A n \in 0..Total : Fresh[n] = Complete(n)
<1> DEFINE C == [n \in 0..Total |-> Complete(n)]
           Stuck == {n \in 0..Total : Fresh[n] # Complete(n)}
<1>1. Complete(0) = {}
  BY DEF Complete
<1>2. C = [n \in 0..Total |-> IF n = 0 THEN {} ELSE Completed(C[n - 1], Migration[n])]
  <2>1. ASSUME NEW n \in 0..Total, n # 0
        PROVE  Complete(n) = Completed(C[n - 1], Migration[n])
    <3>1. n \in 1..Total /\ n - 1 \in 0..Total
      BY <2>1, Totals
    <3>2. C[n - 1] = Complete(n - 1)
      BY <3>1
    <3>3. QED  BY <3>1, <3>2, CompletedFile
  <2>2. ASSUME NEW n \in 0..Total
        PROVE  Complete(n) = IF n = 0 THEN {} ELSE Completed(C[n - 1], Migration[n])
    BY <1>1, <2>1
  <2>3. QED  BY <2>2
<1> HIDE DEF C
<1>3. Fresh = [n \in 0..Total |-> IF n = 0 THEN {} ELSE Completed(Fresh[n - 1], Migration[n])]
  BY <1>2 DEF Fresh
<1>4. ASSUME Stuck # {} PROVE FALSE
  <2>1. Stuck \subseteq Nat
    <3>1. Total \in Nat
      BY Totals
    <3>2. QED  BY <3>1
  <2>2. Min(Stuck) \in Stuck /\ \A y \in Stuck : Min(Stuck) <= y
    BY <1>4, <2>1, MinOfNaturals
  <2>3. PICK n \in Stuck : \A y \in Stuck : n <= y
    BY <2>2
  <2>4. n # 0
    <3>1. Fresh[0] = {}
      BY <1>3, Totals
    <3>2. QED  BY <1>1, <2>3, <3>1
  <2>5. n \in 1..Total /\ n - 1 \in 0..Total
    BY <2>4, Totals
  <2>6. Fresh[n - 1] = Complete(n - 1)
    BY <2>3, <2>5
  <2>7. Fresh[n] = Completed(Fresh[n - 1], Migration[n])
    BY <1>3, <2>5
  <2>8. Fresh[n] = Complete(n)
    BY <2>5, <2>6, <2>7, CompletedFile
  <2>9. QED  BY <2>8
<1>5. QED  BY <1>4
-----------------------------------------------------------------------------
(* The steps of a runner.                                                    *)

\* Recording the migration that a runner is at leaves the record without a gap.
LEMMA RecordKeepsOrder ==
    ASSUME IInv, NEW r \in Runners, Applying(r), recorded' = recorded \cup {at[r]}
    PROVE  /\ recorded' \subseteq 1..deployed
           /\ \A m \in 1..at[r] : m \in recorded'
           /\ RecordedInOrder'
<1>1. /\ at[r] \in Nat /\ directory[r] \in 0..deployed /\ deployed \in Nat
      /\ at[r] \in 1..directory[r]
      /\ recorded \subseteq 1..deployed
  BY DEF IInv, Typed, Applying
<1>2. \A m \in 1..at[r] - 1 : m \in recorded
  BY DEF IInv, RunnersFollowTheRecord
<1>3. recorded' \subseteq 1..deployed
  <2>1. at[r] \in 1..deployed
    BY <1>1
  <2>2. QED  BY <1>1, <2>1
<1>4. \A m \in 1..at[r] : m \in recorded'
  BY <1>1, <1>2
<1>5. ASSUME NEW m \in recorded' PROVE 1..m \subseteq recorded'
  <2>1. CASE m \in recorded
    BY <2>1 DEF IInv, RecordedInOrder
  <2>2. CASE m = at[r]
    BY <1>4, <2>2
  <2>3. QED  BY <2>1, <2>2
<1>6. QED  BY <1>3, <1>4, <1>5 DEF RecordedInOrder

\* A run that ends leaves the invariant to the others; the record may have grown.
LEMMA EndedKeeps ==
    ASSUME IInv, NEW r \in Runners, Ended(r), UNCHANGED deployed,
           recorded \subseteq recorded', recorded' \subseteq 1..deployed, RecordedInOrder'
    PROVE  IInv'
<1>1. /\ directory' = [directory EXCEPT ![r] = 0]
      /\ applied' = [applied EXCEPT ![r] = {}]
      /\ at' = [at EXCEPT ![r] = 0]
  BY DEF Ended
<1>2. Typed'
  <2>1. deployed' = deployed /\ deployed \in Nat
    BY DEF IInv, Typed
  <2>2. directory' \in [Runners -> 0..deployed']
    BY <1>1, <2>1 DEF IInv, Typed
  <2>3. applied' \in [Runners -> SUBSET recorded']
    BY <1>1 DEF IInv, Typed
  <2>4. at' \in [Runners -> Nat]
    BY <1>1 DEF IInv, Typed
  <2>5. QED  BY <2>1, <2>2, <2>3, <2>4 DEF Typed
<1>3. RunnersFollowTheRecord'
  <2> SUFFICES ASSUME NEW q \in Runners
               PROVE  /\ at'[q] <= directory'[q] + 1
                      /\ applied'[q] \subseteq 1..directory'[q]
                      /\ \A m \in 1..at'[q] - 1 : m \in recorded'
    BY DEF RunnersFollowTheRecord
  <2>1. CASE q = r
    <3>1. at'[q] = 0 /\ directory'[q] = 0 /\ applied'[q] = {}
      BY <1>1, <2>1 DEF IInv, Typed
    <3>2. QED  BY <3>1
  <2>2. CASE q # r
    <3>1. at'[q] = at[q] /\ directory'[q] = directory[q] /\ applied'[q] = applied[q]
      BY <1>1, <2>2 DEF IInv, Typed
    <3>2. QED  BY <3>1 DEF IInv, RunnersFollowTheRecord
  <2>3. QED  BY <2>1, <2>2
<1>4. QED  BY <1>2, <1>3 DEF IInv

\* apply_migrations begins where the record that it has read ends.
LEMMA StartKeeps == ASSUME IInv, NEW r \in Runners, Start(r) PROVE IInv'
<1> DEFINE next == NextToApply(0, deployed, recorded)
<1>1. /\ deployed \in Nat /\ recorded \subseteq 1..deployed
      /\ directory \in [Runners -> 0..deployed]
      /\ applied \in [Runners -> SUBSET recorded] /\ at \in [Runners -> Nat]
  BY DEF IInv, Typed
<1>2. /\ directory' = [directory EXCEPT ![r] = deployed]
      /\ applied' = [applied EXCEPT ![r] = recorded]
      /\ at' = [at EXCEPT ![r] = NextToApply(0, deployed, applied'[r])]
      /\ deployed' = deployed /\ recorded' = recorded
  BY Zenon DEF Start, ReadAppliedIdentifiers
<1>3. applied'[r] = recorded
  BY <1>1, <1>2
<1>4. /\ next \in 0 + 1..deployed + 1
      /\ \A n \in 0 + 1..next - 1 : n \in recorded
  <2>1. 0 \in Nat /\ 0 <= deployed
    BY <1>1
  <2>2. QED  BY <1>1, <2>1, NextToApplyProperties
<1>5. at' = [at EXCEPT ![r] = next]
  BY <1>2, <1>3
<1> HIDE DEF next
<1>6. Typed'
  <2>1. next \in Nat
    BY <1>1, <1>4
  <2>2. directory' \in [Runners -> 0..deployed]
    BY <1>1, <1>2
  <2>3. applied' \in [Runners -> SUBSET recorded]
    BY <1>1, <1>2
  <2>4. at' \in [Runners -> Nat]
    BY <1>1, <1>5, <2>1
  <2>5. QED  BY <1>1, <1>2, <2>2, <2>3, <2>4 DEF Typed
<1>7. RunnersFollowTheRecord'
  <2> SUFFICES ASSUME NEW q \in Runners
               PROVE  /\ at'[q] <= directory'[q] + 1
                      /\ applied'[q] \subseteq 1..directory'[q]
                      /\ \A m \in 1..at'[q] - 1 : m \in recorded'
    BY DEF RunnersFollowTheRecord
  <2>1. CASE q = r
    <3>1. at'[q] = next /\ directory'[q] = deployed /\ applied'[q] = recorded
      BY <1>1, <1>2, <1>5, <2>1
    <3>2. next <= deployed + 1 /\ \A m \in 1..next - 1 : m \in recorded
      BY <1>1, <1>4
    <3>3. QED  BY <1>1, <1>2, <3>1, <3>2
  <2>2. CASE q # r
    <3>1. at'[q] = at[q] /\ directory'[q] = directory[q] /\ applied'[q] = applied[q]
      BY <1>1, <1>2, <1>5, <2>2
    <3>2. QED  BY <1>2, <3>1 DEF IInv, RunnersFollowTheRecord
  <2>3. QED  BY <2>1, <2>2
<1>8. RecordedInOrder'
  BY <1>2 DEF IInv, RecordedInOrder
<1>9. QED  BY <1>6, <1>7, <1>8 DEF IInv

\* After a record the runner passes over what it knows to be recorded.
LEMMA RecordKeeps == ASSUME IInv, NEW r \in Runners, Record(r) PROVE IInv'
<1> DEFINE next == NextToApply(at[r], directory[r], applied[r])
<1>1. /\ deployed \in Nat /\ recorded \subseteq 1..deployed
      /\ directory \in [Runners -> 0..deployed]
      /\ applied \in [Runners -> SUBSET recorded] /\ at \in [Runners -> Nat]
  BY DEF IInv, Typed
<1>2. /\ Applying(r) /\ recorded' = recorded \cup {at[r]}
      /\ at' = [at EXCEPT ![r] = NextToApply(@, directory[r], applied[r])]
      /\ deployed' = deployed /\ directory' = directory /\ applied' = applied
  BY Zenon DEF Record, GoToNext
<1>3. /\ recorded' \subseteq 1..deployed
      /\ \A m \in 1..at[r] : m \in recorded'
      /\ RecordedInOrder'
  BY <1>2, RecordKeepsOrder
<1>4. at[r] \in Nat /\ directory[r] \in Nat /\ at[r] <= directory[r]
  BY <1>1, <1>2 DEF Applying
<1>5. applied[r] \subseteq 1..directory[r] /\ applied[r] \subseteq recorded
  BY <1>1 DEF IInv, RunnersFollowTheRecord
<1>6. /\ next \in at[r] + 1..directory[r] + 1
      /\ \A n \in at[r] + 1..next - 1 : n \in applied[r]
  BY <1>4, <1>5, NextToApplyProperties
<1>7. at' = [at EXCEPT ![r] = next]
  BY <1>1, <1>2
<1> HIDE DEF next
<1>8. Typed'
  <2>1. next \in Nat
    BY <1>4, <1>6
  <2>2. applied' \in [Runners -> SUBSET recorded']
    BY <1>1, <1>2
  <2>3. at' \in [Runners -> Nat]
    BY <1>1, <1>7, <2>1
  <2>4. QED  BY <1>1, <1>2, <1>3, <2>2, <2>3 DEF Typed
<1>9. RunnersFollowTheRecord'
  <2> SUFFICES ASSUME NEW q \in Runners
               PROVE  /\ at'[q] <= directory[q] + 1
                      /\ applied[q] \subseteq 1..directory[q]
                      /\ \A m \in 1..at'[q] - 1 : m \in recorded'
    BY <1>2 DEF RunnersFollowTheRecord
  <2>1. CASE q = r
    <3>1. at'[q] = next
      BY <1>1, <1>7, <2>1
    <3>2. ASSUME NEW m \in 1..next - 1 PROVE m \in recorded'
      <4>1. CASE m <= at[r]
        BY <1>3, <1>4, <4>1
      <4>2. CASE m > at[r]
        <5>1. m \in at[r] + 1..next - 1
          BY <1>4, <1>6, <4>2
        <5>2. QED  BY <1>2, <1>5, <1>6, <5>1
      <4>3. QED  BY <1>4, <1>6, <4>1, <4>2
    <3>3. next <= directory[q] + 1
      BY <1>4, <1>6, <2>1
    <3>4. QED  BY <1>5, <2>1, <3>1, <3>2, <3>3
  <2>2. CASE q # r
    <3>1. at'[q] = at[q]
      BY <1>1, <1>7, <2>2
    <3>2. QED  BY <1>2, <3>1 DEF IInv, RunnersFollowTheRecord
  <2>3. QED  BY <2>1, <2>2
<1>10. QED  BY <1>3, <1>8, <1>9 DEF IInv

\* The end of a run, in order, by a refused statement or by a death, keeps the
\* invariant, also when the record was written and the answer was lost.
LEMMA EndKeeps ==
    ASSUME IInv, NEW r \in Runners, Refuse(r) \/ Finish(r) \/ Die(r)
    PROVE  IInv'
<1>1. Ended(r) /\ deployed' = deployed
  BY Zenon DEF Refuse, Finish, Die
<1>2. \/ recorded' = recorded
      \/ Applying(r) /\ recorded' = recorded \cup {at[r]}
  BY Zenon DEF Refuse, Finish, Die
<1>3. CASE recorded' = recorded
  <2>1. recorded' \subseteq 1..deployed /\ RecordedInOrder'
    BY <1>3 DEF IInv, Typed, RecordedInOrder
  <2>2. QED  BY <1>1, <1>3, <2>1, EndedKeeps
<1>4. CASE Applying(r) /\ recorded' = recorded \cup {at[r]}
  <2>1. recorded' \subseteq 1..deployed /\ RecordedInOrder'
    BY <1>4, RecordKeepsOrder
  <2>2. QED  BY <1>1, <1>4, <2>1, EndedKeeps
<1>5. QED  BY <1>2, <1>3, <1>4

\* A new release has more migrations, and nothing else changes.
LEMMA DeployKeeps == ASSUME IInv, Deploy PROVE IInv'
<1>1. PICK n \in Releases : n > deployed /\ deployed' = n
  BY Zenon DEF Deploy
<1>2. n \in Nat /\ deployed \in Nat
  BY <1>1, MigrationsAssumption DEF IInv, Typed
<1>3. /\ recorded' = recorded /\ directory' = directory
      /\ applied' = applied /\ at' = at
  BY Zenon DEF Deploy, runner
<1>4. Typed'
  <2>1. recorded \subseteq 1..n
    BY <1>1, <1>2 DEF IInv, Typed
  <2>2. 0..deployed \subseteq 0..n
    BY <1>1, <1>2
  <2>3. directory \in [Runners -> 0..n]
    BY <2>2 DEF IInv, Typed
  <2>4. QED  BY <1>1, <1>2, <1>3, <2>1, <2>3 DEF IInv, Typed
<1>5. RunnersFollowTheRecord' /\ RecordedInOrder'
  BY <1>3 DEF IInv, RunnersFollowTheRecord, RecordedInOrder
<1>6. QED  BY <1>4, <1>5 DEF IInv

\* What changes neither the record nor a runner's place keeps the invariant:
\* counting, a statement, and a step that leaves everything as it is.
LEMMA RestKeeps ==
    ASSUME IInv, Count \/ (\E r \in Runners : Execute(r)) \/ UNCHANGED vars
    PROVE  IInv'
<1>1. /\ deployed' = deployed /\ recorded' = recorded /\ directory' = directory
      /\ applied' = applied /\ at' = at
  BY Zenon DEF Count, Execute, vars, runner
<1>2. QED  BY <1>1 DEF IInv, Typed, RunnersFollowTheRecord, RecordedInOrder
-----------------------------------------------------------------------------
\* Nothing is recorded and nobody runs in an empty database.
LEMMA InitHolds == Init => IInv
<1> SUFFICES ASSUME Init PROVE IInv
  OBVIOUS
<1>1. /\ deployed \in Releases /\ recorded = {}
      /\ directory = [r \in Runners |-> 0]
      /\ applied = [r \in Runners |-> {}]
      /\ at = [r \in Runners |-> 0]
  BY Zenon DEF Init
<1>2. deployed \in Nat
  BY <1>1, MigrationsAssumption
<1>3. Typed
  BY <1>1, <1>2 DEF Typed
<1>4. RunnersFollowTheRecord /\ RecordedInOrder
  BY <1>1 DEF RunnersFollowTheRecord, RecordedInOrder
<1>5. QED  BY <1>3, <1>4 DEF IInv

\* The inductive invariant, with one step per action.
THEOREM InvariantHolds == Spec => []IInv
<1>1. ASSUME IInv, [Next]_vars PROVE IInv'
  <2>1. CASE Deploy
    BY <1>1, <2>1, DeployKeeps
  <2>2. ASSUME NEW r \in Runners, Start(r) PROVE IInv'
    BY <1>1, <2>2, StartKeeps
  <2>3. ASSUME NEW r \in Runners, Record(r) PROVE IInv'
    BY <1>1, <2>3, RecordKeeps
  <2>4. ASSUME NEW r \in Runners, Refuse(r) \/ Finish(r) \/ Die(r) PROVE IInv'
    BY <1>1, <2>4, EndKeeps
  <2>5. CASE Count \/ (\E r \in Runners : Execute(r)) \/ UNCHANGED vars
    BY <1>1, <2>5, RestKeeps
  <2>6. QED  BY <1>1, <2>1, <2>2, <2>3, <2>4, <2>5, Zenon DEF Next, GoOn
<1>2. QED  BY <1>1, InitHolds, PTL DEF Spec

\* Migrations are recorded in the order of their files and without a gap, however
\* many runs overlap, die or are refused, and whichever releases they come from.
THEOREM OrderOfTheRecord == Spec => []RecordedInOrder
<1>1. IInv => RecordedInOrder
  BY DEF IInv
<1>2. QED  BY <1>1, InvariantHolds, PTL
-----------------------------------------------------------------------------
(* The schema follows the record.                                            *)

\* The variables that the order of the record does not rest on.
RestTyped ==
    /\ deployed \in Releases
    /\ schema \subseteq Complete(Total)
    /\ holds \subseteq {o \in {"artist", "track"} : Exists(o, schema)}
    /\ done \in [Runners -> Nat]
    /\ \A r \in Runners : IF Applying(r) THEN done[r] \in 0..Len(Migration[at[r]])
                                         ELSE done[r] = 0
    /\ overlapped \in BOOLEAN
    /\ failures \in 0..MaxFailures

OneAtATime ==
    ~overlapped => \A q, r \in Runners : Running(q) /\ Running(r) => q = r

\* What a runner applies is not recorded, and what it executed has had its effect.
AppliedSoFar ==
    ~overlapped =>
        \A r \in Runners : Applying(r) => /\ at[r] \notin recorded
                                          /\ Progress(at[r], done[r], schema)

\* The schema is that of the record, or on the way to the next migration, which a
\* run may have begun and not ended.
SchemaOfRecord ==
    ~overlapped =>
        \A n \in 0..deployed : recorded = 1..n =>
            IF n = deployed THEN schema = Complete(n) ELSE Between(n + 1, schema)

SchemaInv == RestTyped /\ OneAtATime /\ AppliedSoFar /\ SchemaOfRecord

\* Two beginnings of the numbers are equal when their ends are.
LEMMA EndsAgree ==
    ASSUME NEW m \in Nat, NEW n \in Nat, 1..m = 1..n
    PROVE  m = n
<1>1. m >= 1 => m \in 1..n
  BY m >= 1 => m \in 1..m
<1>2. n >= 1 => n \in 1..m
  BY n >= 1 => n \in 1..n
<1>3. QED  BY <1>1, <1>2

\* A runner that applies a migration is at one that is deployed, and everything
\* before it, and nothing else, is recorded.
LEMMA ApplyingProperties ==
    ASSUME IInv, SchemaInv, NEW r \in Runners, Applying(r)
    PROVE  /\ at[r] \in 1..deployed /\ at[r] \in 1..Total /\ deployed \in 1..Total
           /\ directory[r] \in 0..deployed
           /\ at[r] \notin recorded => recorded = 1..at[r] - 1
<1>1. /\ at[r] \in 1..directory[r] /\ directory[r] \in 0..deployed
      /\ deployed \in 1..Total /\ Total \in Nat /\ recorded \subseteq 1..deployed
  BY Totals, MigrationsAssumption DEF IInv, Typed, SchemaInv, RestTyped, Applying
<1>2. at[r] \in 1..deployed /\ at[r] \in 1..Total
  BY <1>1
<1>3. ASSUME at[r] \notin recorded PROVE recorded = 1..at[r] - 1
  <2>1. \A m \in 1..at[r] - 1 : m \in recorded
    BY DEF IInv, RunnersFollowTheRecord
  <2>2. ASSUME NEW m \in recorded PROVE m \in 1..at[r] - 1
    <3>1. m \in 1..deployed /\ 1..m \subseteq recorded
      BY <1>1 DEF IInv, RecordedInOrder
    <3>2. at[r] \notin 1..m
      BY <1>3, <3>1
    <3>3. QED  BY <1>1, <1>2, <3>1, <3>2
  <2>3. QED  BY <2>1, <2>2
<1>4. QED  BY <1>1, <1>2, <1>3

\* A runner that applies a migration alone finds the schema on the way to it.
LEMMA OnTheWay ==
    ASSUME IInv, SchemaInv, ~overlapped, NEW r \in Runners, Applying(r)
    PROVE  /\ recorded = 1..at[r] - 1
           /\ Between(at[r], schema) /\ Progress(at[r], done[r], schema)
<1>1. recorded = 1..at[r] - 1 /\ at[r] \in 1..deployed
  BY ApplyingProperties DEF SchemaInv, AppliedSoFar
<1>2. deployed \in Nat /\ at[r] \in Nat
  BY DEF IInv, Typed
<1> DEFINE n == at[r] - 1
<1>3. n \in 0..deployed /\ n # deployed /\ n + 1 = at[r]
  BY <1>1, <1>2
<1>4. Between(n + 1, schema)
  BY <1>1, <1>3 DEF SchemaInv, SchemaOfRecord
<1>5. QED  BY <1>1, <1>3, <1>4 DEF SchemaInv, AppliedSoFar

\* What a statement does to the schema and to the tables with counts in them.
LEMMA ExecutedSchema ==
    ASSUME IInv, SchemaInv, NEW r \in Runners, Unfinished(r), Executed(NextStatement(r))
    PROVE  /\ schema' \subseteq Complete(Total)
           /\ holds' \subseteq {o \in {"artist", "track"} : Exists(o, schema')}
           /\ ~overlapped => /\ Between(at[r], schema')
                             /\ Progress(at[r], done[r] + 1, schema')
<1> DEFINE st == Migration[at[r]][done[r] + 1]
<1>1. /\ schema' = Effect(schema, st)
      /\ holds' = {o \in holds : Exists(o, schema')}
  BY DEF Executed, NextStatement
<1>2. /\ at[r] \in 1..Total /\ Len(Migration[at[r]]) \in Nat
      /\ done[r] \in 0..Len(Migration[at[r]]) - 1
  <2>1. Applying(r) /\ done[r] < Len(Migration[at[r]])
    BY DEF Unfinished
  <2>2. at[r] \in 1..Total
    BY <2>1, ApplyingProperties
  <2>3. Len(Migration[at[r]]) \in Nat
    BY <2>2, Totals
  <2>4. done[r] \in 0..Len(Migration[at[r]])
    BY <2>1 DEF SchemaInv, RestTyped
  <2>5. QED  BY <2>1, <2>2, <2>3, <2>4
<1>3. Given(st) \subseteq Complete(Total)
  <2>1. done[r] + 1 \in Position(at[r])
    BY <1>2 DEF Position
  <2>2. Given(st) \subseteq FactsOf(at[r])
    BY <2>1 DEF FactsOf
  <2>3. QED  BY <1>2, <2>2 DEF Complete
<1>4. schema' \subseteq schema \cup Given(st)
  BY <1>1 DEF Effect, Given
<1>5. schema' \subseteq Complete(Total)
  BY <1>3, <1>4 DEF SchemaInv, RestTyped
<1>6. holds' \subseteq {o \in {"artist", "track"} : Exists(o, schema')}
  BY <1>1 DEF SchemaInv, RestTyped
<1>7. ASSUME ~overlapped
      PROVE  Between(at[r], schema') /\ Progress(at[r], done[r] + 1, schema')
  <2>1. Between(at[r], schema) /\ Progress(at[r], done[r], schema)
    BY <1>7, OnTheWay DEF Unfinished
  <2>2. QED  BY <1>1, <1>2, <2>1, EffectKeeps
<1>8. QED  BY <1>5, <1>6, <1>7

\* A migration that is not recorded yet may be begun, and given up, any number of
\* times.
LEMMA StillOnTheWay ==
    ASSUME IInv, SchemaInv, NEW r \in Runners, Applying(r),
           UNCHANGED <<deployed, recorded>>, overlapped' = overlapped,
           ~overlapped => Between(at[r], schema')
    PROVE  SchemaOfRecord'
<1> SUFFICES ASSUME ~overlapped, NEW n \in 0..deployed, recorded = 1..n
             PROVE  n # deployed /\ Between(n + 1, schema')
  BY DEF SchemaOfRecord
<1>1. recorded = 1..at[r] - 1 /\ at[r] \in 1..deployed /\ deployed \in Nat /\ at[r] \in Nat
  BY OnTheWay, ApplyingProperties DEF IInv, Typed
<1>2. n = at[r] - 1
  BY <1>1, EndsAgree
<1>3. QED  BY <1>1, <1>2

\* A migration whose statements are all executed is complete, and is recorded.
LEMMA RecordedSchema ==
    ASSUME IInv, SchemaInv, NEW r \in Runners, Applying(r), ~Unfinished(r),
           recorded' = recorded \cup {at[r]},
           UNCHANGED <<deployed, schema>>, overlapped' = overlapped
    PROVE  SchemaOfRecord' /\ (~overlapped => recorded' = 1..at[r])
<1> DEFINE m == at[r]
<1>1. /\ m \in 1..deployed /\ m \in 1..Total /\ deployed \in 1..Total
      /\ Len(Migration[m]) \in Nat
  BY ApplyingProperties, Totals
<1>2. done[r] = Len(Migration[m])
  BY <1>1 DEF Unfinished, SchemaInv, RestTyped
<1>3. ASSUME ~overlapped PROVE recorded' = 1..m /\ schema = Complete(m)
  <2>1. recorded = 1..m - 1 /\ Between(m, schema) /\ Progress(m, done[r], schema)
    BY <1>3, OnTheWay
  <2>2. schema = Complete(m)
    BY <1>1, <1>2, <2>1, EndOfFile
  <2>3. QED  BY <1>1, <2>1, <2>2
<1> HIDE DEF m
<1>4. SchemaOfRecord'
  <2> SUFFICES ASSUME ~overlapped, NEW n \in 0..deployed, recorded' = 1..n
               PROVE  IF n = deployed THEN schema = Complete(n) ELSE Between(n + 1, schema)
    BY DEF SchemaOfRecord
  <2>1. n = m /\ schema = Complete(n)
    <3>1. 1..n = 1..m /\ schema = Complete(m)
      BY <1>3
    <3>2. n \in Nat /\ m \in Nat
      BY <1>1, Totals
    <3>3. n = m
      BY <3>1, <3>2, EndsAgree
    <3>4. QED  BY <3>1, <3>3
  <2>2. CASE n # deployed
    <3>1. n + 1 \in 1..Total /\ (n + 1) - 1 = n
      BY <1>1, <2>2, Totals
    <3>2. QED  BY <2>1, <2>2, <3>1, NextFile
  <2>3. QED  BY <2>1, <2>2
<1>5. QED  BY <1>3, <1>4 DEF m
-----------------------------------------------------------------------------
(* The steps, again.                                                         *)

LEMMA InitSchema == Init => SchemaInv
<1> SUFFICES ASSUME Init PROVE SchemaInv
  OBVIOUS
<1>1. /\ deployed \in Releases /\ schema = {} /\ holds = {} /\ recorded = {}
      /\ directory = [r \in Runners |-> 0] /\ at = [r \in Runners |-> 0]
      /\ done = [r \in Runners |-> 0] /\ overlapped = FALSE /\ failures = 0
  BY DEF Init
<1>2. \A r \in Runners : ~Applying(r) /\ ~Running(r) /\ done[r] = 0
  BY <1>1 DEF Applying, Running
<1>3. RestTyped
  <2>1. failures \in 0..MaxFailures
    BY <1>1, MigrationsAssumption
  <2>2. done \in [Runners -> Nat]
    BY <1>1
  <2>3. \A r \in Runners : IF Applying(r) THEN done[r] \in 0..Len(Migration[at[r]])
                                           ELSE done[r] = 0
    BY <1>2
  <2>4. overlapped \in BOOLEAN /\ schema \subseteq Complete(Total)
        /\ holds \subseteq {o \in {"artist", "track"} : Exists(o, schema)}
    BY <1>1
  <2>5. QED  BY <1>1, <2>1, <2>2, <2>3, <2>4 DEF RestTyped
<1>4. SchemaOfRecord
  <2> SUFFICES ASSUME NEW n \in 0..deployed, recorded = 1..n
               PROVE  n # deployed /\ Between(n + 1, schema)
    BY DEF SchemaOfRecord
  <2>1. deployed \in 1..Total /\ Total \in Nat
    BY <1>1, Totals, MigrationsAssumption
  <2>2. n = 0
    <3>1. 1..n = 1..0
      BY <1>1
    <3>2. QED  BY <2>1, <3>1, EndsAgree
  <2>3. Complete(1 - 1) = schema
    BY <1>1 DEF Complete
  <2>4. Between(1, schema)
    BY <2>1, <2>3, NextFile
  <2>5. QED  BY <2>1, <2>2, <2>4
<1>5. QED  BY <1>2, <1>3, <1>4 DEF SchemaInv, OneAtATime, AppliedSoFar

\* A step that leaves the runners, the record and the schema as they are.
LEMMA StillSchema ==
    ASSUME IInv, SchemaInv, Count \/ Deploy \/ UNCHANGED vars
    PROVE  SchemaInv'
<1>1. /\ UNCHANGED <<schema, recorded, directory, applied, at, done, overlapped, failures>>
      /\ deployed' \in Releases /\ deployed' \in Nat /\ deployed <= deployed'
  <2>1. deployed \in Nat /\ deployed \in Releases /\ Releases \subseteq Nat
    BY MigrationsAssumption, Totals DEF IInv, Typed, SchemaInv, RestTyped
  <2>2. QED  BY <2>1 DEF Count, Deploy, vars, runner
<1>2. \A r \in Runners : (Applying(r)' <=> Applying(r)) /\ (Running(r)' <=> Running(r))
  BY <1>1 DEF Applying, Running
<1>3. holds' \subseteq {o \in {"artist", "track"} : Exists(o, schema)}
  <2>1. CASE Count
    <3>1. Target.artist_view = "artist" /\ Target.track_view = "track"
          /\ \A v \in View : Target[v] \in {"artist", "track"}
      BY DEF View, Target
    <3>2. holds' = holds \cup {Target[v] : v \in {x \in View : Exists(x, schema)}}
          /\ \A v \in View : Exists(v, schema) => Exists(Target[v], schema)
      BY <2>1 DEF Count
    <3>3. holds \subseteq {o \in {"artist", "track"} : Exists(o, schema)}
      BY DEF SchemaInv, RestTyped
    <3>4. ASSUME NEW o \in holds' PROVE o \in {"artist", "track"} /\ Exists(o, schema)
      <4>1. o \in holds \/ \E v \in View : Exists(v, schema) /\ o = Target[v]
        BY <3>2, <3>4
      <4>2. QED  BY <3>1, <3>2, <3>3, <4>1
    <3>5. QED  BY <3>4
  <2>2. CASE Deploy \/ UNCHANGED vars
    BY <2>2 DEF Deploy, vars, SchemaInv, RestTyped
  <2>3. QED  BY <2>1, <2>2
<1>4. RestTyped'
  <2>1. \A r \in Runners : IF Applying(r)' THEN done'[r] \in 0..Len(Migration[at'[r]])
                                           ELSE done'[r] = 0
    BY <1>1, <1>2 DEF SchemaInv, RestTyped
  <2>2. QED  BY <1>1, <1>3, <2>1 DEF SchemaInv, RestTyped, Exists
<1>5. OneAtATime' /\ AppliedSoFar'
  BY <1>1, <1>2 DEF SchemaInv, OneAtATime, AppliedSoFar
<1>6. SchemaOfRecord'
  <2> SUFFICES ASSUME ~overlapped, NEW n \in 0..deployed', recorded = 1..n
               PROVE  IF n = deployed' THEN schema = Complete(n) ELSE Between(n + 1, schema)
    BY <1>1 DEF SchemaOfRecord
  <2>1. deployed \in Nat /\ n \in Nat /\ recorded \subseteq 1..deployed
    BY <1>1 DEF IInv, Typed
  <2>2. n \in 0..deployed
    <3>1. n = 0 \/ n \in 1..n
      BY <2>1
    <3>2. QED  BY <2>1, <3>1
  <2>3. IF n = deployed THEN schema = Complete(n) ELSE Between(n + 1, schema)
    BY <2>2 DEF SchemaInv, SchemaOfRecord
  <2>4. CASE n = deployed' \/ n # deployed
    <3>1. n = deployed' => n = deployed
      BY <1>1, <2>1, <2>2
    <3>2. QED  BY <2>3, <2>4, <3>1
  <2>5. CASE n # deployed' /\ n = deployed
    <3>1. n + 1 \in 1..Total /\ (n + 1) - 1 = n
      BY <1>1, <2>1, <2>5, MigrationsAssumption, Totals
    <3>2. QED  BY <2>3, <2>5, <3>1, NextFile
  <2>6. QED  BY <2>4, <2>5
<1>7. QED  BY <1>4, <1>5, <1>6 DEF SchemaInv

\* A run begins at a migration that is not recorded.
LEMMA StartSchema ==
    ASSUME IInv, SchemaInv, NEW r \in Runners, Start(r)
    PROVE  SchemaInv'
<1> DEFINE next == NextToApply(0, deployed, recorded)
<1>1. /\ deployed \in Nat /\ recorded \subseteq 1..deployed
      /\ directory \in [Runners -> 0..deployed]
      /\ applied \in [Runners -> SUBSET recorded] /\ at \in [Runners -> Nat]
      /\ deployed \in 1..Total /\ Total \in Nat
  BY Totals, MigrationsAssumption DEF IInv, Typed, SchemaInv, RestTyped
<1>2. /\ ~Running(r)
      /\ directory' = [directory EXCEPT ![r] = deployed]
      /\ applied' = [applied EXCEPT ![r] = recorded]
      /\ at' = [at EXCEPT ![r] = NextToApply(0, deployed, applied'[r])]
      /\ UNCHANGED <<deployed, schema, holds, recorded, done, failures>>
  BY Zenon DEF Start, ReadAppliedIdentifiers
<1>3. /\ overlapped' \in BOOLEAN
      /\ ~overlapped' => ~overlapped /\ \A q \in Runners : ~Running(q)
  BY DEF Start, SchemaInv, RestTyped
<1>4. next \in 1..deployed + 1 /\ next \notin recorded
  <2>1. 0 \in Nat /\ 0 <= deployed /\ 0 + 1 = 1
    BY <1>1
  <2>2. QED  BY <1>1, <2>1, NextToApplyProperties
<1>5. at' = [at EXCEPT ![r] = next]
  BY <1>1, <1>2
<1> HIDE DEF next
<1>6. at'[r] = next /\ directory'[r] = deployed
  BY <1>1, <1>2, <1>5
<1>7. \A q \in Runners : q # r => /\ at'[q] = at[q]
                                  /\ (Applying(q)' <=> Applying(q))
                                  /\ (Running(q)' <=> Running(q))
  BY <1>1, <1>2, <1>5 DEF Applying, Running
<1>8. done[r] = 0
  <2>1. ~Applying(r)
    BY <1>1, <1>2 DEF Running, Applying
  <2>2. QED  BY <2>1 DEF SchemaInv, RestTyped
<1>9. RestTyped'
  <2>1. ASSUME NEW q \in Runners
        PROVE  IF Applying(q)' THEN done'[q] \in 0..Len(Migration[at'[q]]) ELSE done'[q] = 0
    <3>1. CASE q = r
      <4>1. Applying(r)' => Len(Migration[at'[r]]) \in Nat
        <5>1. Applying(r)' => at'[r] \in 1..Total
          BY <1>1, <1>6 DEF Applying
        <5>2. QED  BY <5>1, Totals
      <4>2. QED  BY <1>2, <1>8, <3>1, <4>1
    <3>2. CASE q # r
      BY <1>2, <1>7, <3>2 DEF SchemaInv, RestTyped
    <3>3. QED  BY <3>1, <3>2
  <2>2. QED  BY <1>2, <1>3, <2>1 DEF SchemaInv, RestTyped, Exists
<1>10. OneAtATime'
  BY <1>3, <1>7 DEF OneAtATime
<1>11. AppliedSoFar'
  <2> SUFFICES ASSUME ~overlapped', NEW q \in Runners, Applying(q)'
               PROVE  at'[q] \notin recorded /\ Progress(at'[q], done[q], schema)
    BY <1>2 DEF AppliedSoFar
  <2>1. q = r
    <3>1. ~Running(q) => ~Applying(q)
      BY <1>1 DEF Running, Applying
    <3>2. QED  BY <1>3, <1>7, <3>1
  <2>2. Progress(at'[q], 0, schema)
    BY DEF Progress
  <2>3. QED  BY <1>4, <1>6, <1>8, <2>1, <2>2
<1>12. SchemaOfRecord'
  BY <1>2, <1>3 DEF SchemaInv, SchemaOfRecord
<1>13. QED  BY <1>9, <1>10, <1>11, <1>12 DEF SchemaInv

\* A runner that goes on to the next statement or migration, or ends, while the
\* others stay where they are.
LEMMA OthersStay ==
    ASSUME IInv, SchemaInv, NEW r \in Runners,
           NEW newAt, at' = [at EXCEPT ![r] = newAt], newAt # 0 => Running(r),
           UNCHANGED overlapped,
           \A q \in Runners : q # r => directory'[q] = directory[q]
    PROVE  /\ \A q \in Runners : q # r => at'[q] = at[q] /\ (Applying(q)' <=> Applying(q))
           /\ at'[r] = newAt
           /\ OneAtATime'
           /\ ~overlapped /\ Running(r) => \A q \in Runners : Applying(q)' => q = r
<1>1. at \in [Runners -> Nat]
  BY DEF IInv, Typed
<1>2. at'[r] = newAt /\ \A q \in Runners : q # r => at'[q] = at[q]
  BY <1>1
<1>3. \A q \in Runners : q # r => (Applying(q)' <=> Applying(q)) /\ (Running(q)' <=> Running(q))
  BY <1>2 DEF Applying, Running
<1>4. Running(r)' => Running(r)
  BY <1>2 DEF Running
<1>5. OneAtATime'
  BY <1>3, <1>4 DEF SchemaInv, OneAtATime
<1>6. ASSUME ~overlapped, Running(r), NEW q \in Runners, Applying(q)' PROVE q = r
  <2>1. q # r => Running(q)
    BY <1>1, <1>3, <1>6 DEF Applying, Running
  <2>2. QED  BY <1>6, <2>1 DEF SchemaInv, OneAtATime
<1>7. QED  BY <1>2, <1>3, <1>5, <1>6

LEMMA ExecuteSchema ==
    ASSUME IInv, SchemaInv, NEW r \in Runners, Execute(r)
    PROVE  SchemaInv'
<1>1. /\ Unfinished(r) /\ Applying(r) /\ Executed(NextStatement(r))
      /\ done' = [done EXCEPT ![r] = @ + 1]
      /\ UNCHANGED <<deployed, recorded, directory, applied, at, overlapped, failures>>
  BY DEF Execute, Unfinished
<1>2. /\ schema' \subseteq Complete(Total)
      /\ holds' \subseteq {o \in {"artist", "track"} : Exists(o, schema')}
      /\ ~overlapped => Between(at[r], schema') /\ Progress(at[r], done[r] + 1, schema')
  BY <1>1, ExecutedSchema
<1>3. /\ done \in [Runners -> Nat] /\ Len(Migration[at[r]]) \in Nat
      /\ done[r] \in 0..Len(Migration[at[r]]) - 1
  <2>1. done \in [Runners -> Nat] /\ done[r] \in 0..Len(Migration[at[r]])
    BY <1>1 DEF SchemaInv, RestTyped
  <2>2. Len(Migration[at[r]]) \in Nat
    BY <1>1, ApplyingProperties, Totals
  <2>3. done[r] < Len(Migration[at[r]])
    BY <1>1 DEF Unfinished
  <2>4. QED  BY <2>1, <2>2, <2>3
<1>4. done' \in [Runners -> Nat] /\ done'[r] = done[r] + 1
  BY <1>1, <1>3
<1>5. \A q \in Runners : (Applying(q)' <=> Applying(q)) /\ (Running(q)' <=> Running(q))
                         /\ (q # r => done'[q] = done[q])
  BY <1>1, <1>3 DEF Applying, Running
<1>6. RestTyped'
  <2>1. ASSUME NEW q \in Runners
        PROVE  IF Applying(q)' THEN done'[q] \in 0..Len(Migration[at'[q]]) ELSE done'[q] = 0
    <3>1. CASE q = r
      BY <1>1, <1>3, <1>4, <1>5, <3>1
    <3>2. CASE q # r
      BY <1>1, <1>5, <3>2 DEF SchemaInv, RestTyped
    <3>3. QED  BY <3>1, <3>2
  <2>2. QED  BY <1>1, <1>2, <1>4, <2>1 DEF SchemaInv, RestTyped
<1>7. OneAtATime'
  BY <1>1, <1>5 DEF SchemaInv, OneAtATime
<1>8. AppliedSoFar'
  <2> SUFFICES ASSUME ~overlapped, NEW q \in Runners, Applying(q)
               PROVE  at[q] \notin recorded /\ Progress(at[q], done'[q], schema')
    BY <1>1, <1>5 DEF AppliedSoFar
  <2>1. at[q] \notin recorded
    BY DEF SchemaInv, AppliedSoFar
  <2>2. q = r
    <3>1. at[q] \in Nat /\ at[r] \in Nat /\ at[q] # 0 /\ at[r] # 0
      BY <1>1 DEF IInv, Typed, Applying
    <3>2. QED  BY <3>1 DEF SchemaInv, OneAtATime, Running
  <2>3. QED  BY <1>2, <1>4, <2>1, <2>2
<1>9. SchemaOfRecord'
  BY <1>1, <1>2, StillOnTheWay
<1>10. QED  BY <1>6, <1>7, <1>8, <1>9 DEF SchemaInv

\* After the record of a migration the loop goes on to one that is not recorded.
LEMMA RecordSchema ==
    ASSUME IInv, SchemaInv, NEW r \in Runners, Record(r)
    PROVE  SchemaInv'
<1> DEFINE next == NextToApply(at[r], directory[r], applied[r])
<1>1. /\ Applying(r) /\ ~Unfinished(r) /\ recorded' = recorded \cup {at[r]}
      /\ at' = [at EXCEPT ![r] = NextToApply(@, directory[r], applied[r])]
      /\ done' = [done EXCEPT ![r] = 0]
      /\ UNCHANGED <<deployed, schema, holds, directory, applied, overlapped, failures>>
  BY Zenon DEF Record, GoToNext
<1>2. /\ at[r] \in 1..deployed /\ at[r] \in 1..Total /\ deployed \in 1..Total /\ Total \in Nat
      /\ directory[r] \in 0..deployed /\ at[r] <= directory[r]
      /\ at \in [Runners -> Nat]
  <2>1. at[r] \in 1..deployed /\ at[r] \in 1..Total /\ deployed \in 1..Total
        /\ directory[r] \in 0..deployed
    BY <1>1, ApplyingProperties
  <2>2. at \in [Runners -> Nat]
    BY DEF IInv, Typed
  <2>3. Total \in Nat
    BY Totals
  <2>4. at[r] <= directory[r]
    BY <1>1, <2>1 DEF Applying
  <2>5. QED  BY <2>1, <2>2, <2>3, <2>4
<1>3. SchemaOfRecord' /\ (~overlapped => recorded' = 1..at[r])
  BY <1>1, RecordedSchema
<1>4. next \in at[r] + 1..directory[r] + 1
  <2>1. applied[r] \subseteq 1..directory[r] /\ at[r] \in Nat /\ directory[r] \in Nat
    BY <1>2 DEF IInv, RunnersFollowTheRecord
  <2>2. QED  BY <1>2, <2>1, NextToApplyProperties
<1>5. at' = [at EXCEPT ![r] = next]
  BY <1>1, <1>2
<1> HIDE DEF next
<1>6. Running(r)
  BY <1>2 DEF Running
<1>7. /\ \A q \in Runners : q # r => at'[q] = at[q] /\ (Applying(q)' <=> Applying(q))
      /\ at'[r] = next
      /\ OneAtATime'
      /\ ~overlapped => \A q \in Runners : Applying(q)' => q = r
  BY <1>1, <1>5, <1>6, OthersStay
<1>8. done' \in [Runners -> Nat] /\ done'[r] = 0 /\ \A q \in Runners : q # r => done'[q] = done[q]
  BY <1>1 DEF SchemaInv, RestTyped
<1>9. RestTyped'
  <2>1. ASSUME NEW q \in Runners
        PROVE  IF Applying(q)' THEN done'[q] \in 0..Len(Migration[at'[q]]) ELSE done'[q] = 0
    <3>1. CASE q = r
      <4>1. Applying(r)' => at'[r] \in 1..Total
        BY <1>1, <1>2, <1>4, <1>7 DEF Applying
      <4>2. QED  BY <1>8, <3>1, <4>1, Totals
    <3>2. CASE q # r
      BY <1>7, <1>8, <3>2 DEF SchemaInv, RestTyped
    <3>3. QED  BY <3>1, <3>2
  <2>2. QED  BY <1>1, <1>8, <2>1 DEF SchemaInv, RestTyped, Exists
<1>10. AppliedSoFar'
  <2> SUFFICES ASSUME ~overlapped, NEW q \in Runners, Applying(q)'
               PROVE  at'[q] \notin recorded' /\ Progress(at'[q], done'[q], schema)
    BY <1>1 DEF AppliedSoFar
  <2>1. q = r
    BY <1>7
  <2>2. next \notin recorded'
    BY <1>2, <1>3, <1>4
  <2>3. Progress(at'[q], 0, schema)
    BY DEF Progress
  <2>4. QED  BY <1>7, <1>8, <2>1, <2>2, <2>3
<1>11. QED  BY <1>3, <1>7, <1>9, <1>10 DEF SchemaInv

\* A run ends, and leaves a schema that the next one can go on from.
LEMMA EndSchema ==
    ASSUME IInv, SchemaInv, NEW r \in Runners, Running(r), Ended(r),
           UNCHANGED <<deployed, overlapped>>, failures' \in 0..MaxFailures,
           \/ UNCHANGED <<schema, holds, recorded>>
           \/ Unfinished(r) /\ Executed(NextStatement(r)) /\ UNCHANGED recorded
           \/ /\ Applying(r) /\ ~Unfinished(r)
              /\ recorded' = recorded \cup {at[r]} /\ UNCHANGED <<schema, holds>>
    PROVE  SchemaInv'
<1>1. /\ directory' = [directory EXCEPT ![r] = 0]
      /\ at' = [at EXCEPT ![r] = 0]
      /\ done' = [done EXCEPT ![r] = 0]
  BY DEF Ended
<1>2. \A q \in Runners : q # r => directory'[q] = directory[q]
  BY <1>1 DEF IInv, Typed
<1>3. /\ \A q \in Runners : q # r => at'[q] = at[q] /\ (Applying(q)' <=> Applying(q))
      /\ at'[r] = 0
      /\ OneAtATime'
      /\ ~overlapped => \A q \in Runners : Applying(q)' => q = r
  <2>1. (0 # 0 => Running(r)) /\ UNCHANGED overlapped /\ Running(r)
    OBVIOUS
  <2>2. /\ \A q \in Runners : q # r => at'[q] = at[q] /\ (Applying(q)' <=> Applying(q))
        /\ at'[r] = 0
        /\ OneAtATime'
        /\ ~overlapped /\ Running(r) => \A q \in Runners : Applying(q)' => q = r
    BY <1>1, <1>2, <2>1, OthersStay, Zenon
  <2>3. QED  BY <2>1, <2>2
<1>4. ~Applying(r)'
  BY <1>1, <1>3 DEF Applying
<1>5. done' \in [Runners -> Nat] /\ done'[r] = 0 /\ \A q \in Runners : q # r => done'[q] = done[q]
  BY <1>1 DEF SchemaInv, RestTyped
<1>6. AppliedSoFar'
  BY <1>3, <1>4 DEF AppliedSoFar
<1>7. /\ schema' \subseteq Complete(Total)
      /\ holds' \subseteq {o \in {"artist", "track"} : Exists(o, schema')}
      /\ SchemaOfRecord'
  <2>1. CASE UNCHANGED <<schema, holds, recorded>>
    BY <2>1 DEF SchemaInv, RestTyped, SchemaOfRecord, Exists
  <2>2. CASE Unfinished(r) /\ Executed(NextStatement(r)) /\ UNCHANGED recorded
    BY <2>2, ExecutedSchema, StillOnTheWay DEF Unfinished
  <2>3. CASE /\ Applying(r) /\ ~Unfinished(r)
             /\ recorded' = recorded \cup {at[r]} /\ UNCHANGED <<schema, holds>>
    <3>1. SchemaOfRecord'
      BY <2>3, RecordedSchema
    <3>2. QED  BY <2>3, <3>1 DEF SchemaInv, RestTyped, Exists
  <2>4. QED  BY <2>1, <2>2, <2>3
<1>8. RestTyped'
  <2>1. ASSUME NEW q \in Runners
        PROVE  IF Applying(q)' THEN done'[q] \in 0..Len(Migration[at'[q]]) ELSE done'[q] = 0
    <3>1. CASE q = r
      BY <1>4, <1>5, <3>1
    <3>2. CASE q # r
      BY <1>3, <1>5, <3>2 DEF SchemaInv, RestTyped
    <3>3. QED  BY <3>1, <3>2
  <2>2. QED  BY <1>5, <1>7, <2>1 DEF SchemaInv, RestTyped
<1>9. QED  BY <1>3, <1>6, <1>7, <1>8 DEF SchemaInv
-----------------------------------------------------------------------------
\* The schema and the record, with one step per action.
THEOREM SchemaInvariantHolds == Spec => [](IInv /\ SchemaInv)
<1>1. ASSUME IInv, SchemaInv, [Next]_vars PROVE SchemaInv'
  <2>1. CASE Count \/ Deploy \/ UNCHANGED vars
    BY <1>1, <2>1, StillSchema
  <2>2. ASSUME NEW r \in Runners, Start(r) PROVE SchemaInv'
    BY <1>1, <2>2, StartSchema
  <2>3. ASSUME NEW r \in Runners, Execute(r) PROVE SchemaInv'
    BY <1>1, <2>3, ExecuteSchema
  <2>4. ASSUME NEW r \in Runners, Record(r) PROVE SchemaInv'
    BY <1>1, <2>4, RecordSchema
  <2>5. ASSUME NEW r \in Runners, Refuse(r) \/ Finish(r) PROVE SchemaInv'
    <3>1. Running(r) /\ Ended(r)
          /\ UNCHANGED <<deployed, schema, holds, recorded, overlapped, failures>>
      BY <1>1, <2>5 DEF Refuse, Finish, Unfinished, Applying, Running
    <3>2. failures' \in 0..MaxFailures
      BY <1>1, <3>1 DEF SchemaInv, RestTyped
    <3>3. QED  BY <1>1, <3>1, <3>2, EndSchema
  <2>6. ASSUME NEW r \in Runners, Die(r) PROVE SchemaInv'
    <3>1. failures' \in 0..MaxFailures
      BY <1>1, <2>6, MigrationsAssumption DEF Die, SchemaInv, RestTyped
    <3>2. QED  BY <1>1, <2>6, <3>1, EndSchema DEF Die
  <2>7. QED  BY <1>1, <2>1, <2>2, <2>3, <2>4, <2>5, <2>6, Zenon DEF Next, GoOn
<1>2. IInv /\ SchemaInv /\ [Next]_vars => SchemaInv'
  BY <1>1
<1>3. Init => SchemaInv
  BY InitSchema
<1>4. QED  BY <1>2, <1>3, InvariantHolds, PTL DEF Spec

\* Types: a run is within its directory and within the statements of the file that
\* it executes, and tables with counts in them exist.
THEOREM TypeCorrect == Spec => []TypeOK
<1>1. IInv /\ SchemaInv => TypeOK
  <2> SUFFICES ASSUME IInv, SchemaInv PROVE TypeOK
    OBVIOUS
  <2>1. /\ deployed \in 1..Total /\ Total \in Nat /\ Fresh[Total] = Complete(Total)
        /\ directory \in [Runners -> 0..deployed] /\ at \in [Runners -> Nat]
    <3>1. deployed \in 1..Total /\ Total \in Nat
      BY Totals, MigrationsAssumption DEF SchemaInv, RestTyped
    <3>2. Fresh[Total] = Complete(Total)
      BY <3>1, FreshIsComplete
    <3>3. QED  BY <3>1, <3>2 DEF IInv, Typed
  <2>2. \A r \in Runners : at[r] <= directory[r] + 1
    BY DEF IInv, RunnersFollowTheRecord
  <2>3. at \in [Runners -> 0..Total + 1]
    BY <2>1, <2>2
  <2>4. \A r \in Runners : IF at[r] \in 1..directory[r]
                           THEN done[r] \in 0..Len(Migration[at[r]]) ELSE done[r] = 0
    BY DEF SchemaInv, RestTyped, Applying
  <2>5. /\ deployed \in Releases /\ overlapped \in BOOLEAN /\ failures \in 0..MaxFailures
        /\ holds \subseteq {o \in {"artist", "track"} : Exists(o, schema)}
        /\ schema \subseteq Fresh[Total]
    BY <2>1 DEF SchemaInv, RestTyped
  <2>6. recorded \subseteq 1..deployed /\ applied \in [Runners -> SUBSET recorded]
    BY DEF IInv, Typed
  <2>7. QED  BY <2>1, <2>2, <2>3, <2>4, <2>5, <2>6 DEF TypeOK
<1>2. QED  BY <1>1, SchemaInvariantHolds, PTL

\* "so a fresh database reaches the same schema as a long-running one": when
\* everything deployed is recorded the schema is that of a fresh database, whatever
\* was refused, interrupted and begun again, unless two runs overlapped.
THEOREM SchemaOfAFreshDatabase == Spec => []SameSchemaAsFresh
<1>1. IInv /\ SchemaInv => SameSchemaAsFresh
  <2> SUFFICES ASSUME IInv, SchemaInv, recorded = 1..deployed, ~overlapped
               PROVE  schema = Fresh[deployed]
    BY DEF SameSchemaAsFresh
  <2>1. deployed \in 0..deployed /\ deployed \in 0..Total
    BY Totals, MigrationsAssumption DEF SchemaInv, RestTyped
  <2>2. schema = Complete(deployed)
    BY <2>1 DEF SchemaInv, SchemaOfRecord
  <2>3. QED  BY <2>1, <2>2, FreshIsComplete
<1>2. QED  BY <1>1, SchemaInvariantHolds, PTL

\* read_applied_identifiers: a run that finds everything recorded executes nothing,
\* and once migration 0005 is recorded no run drops the counts that have come since.
THEOREM RecordedIsNotRepeated == Spec => CountsOutliveMigrations
<1> DEFINE A == ~overlapped' => /\ recorded = 1..deployed => schema' = schema
                                /\ KeyEpochIdentifier \in recorded => holds \subseteq holds'
<1>1. ASSUME IInv, SchemaInv, [Next]_vars PROVE A
  <2>1. ASSUME NEW r \in Runners, Unfinished(r), Executed(NextStatement(r)), ~overlapped
        PROVE  /\ recorded # 1..deployed
               /\ KeyEpochIdentifier \in recorded => holds \subseteq holds'
    <3> DEFINE m == at[r]
               st == Migration[m][done[r] + 1]
    <3>1. /\ recorded = 1..m - 1 /\ m \in 1..deployed /\ m \in 1..Total
          /\ deployed \in 1..Total /\ Total \in Nat /\ Len(Migration[m]) \in Nat
      BY <1>1, <2>1, OnTheWay, ApplyingProperties, Totals DEF Unfinished
    <3>2. done[r] + 1 \in Position(m)
      BY <1>1, <2>1, <3>1 DEF Unfinished, Position, SchemaInv, RestTyped
    <3>3. m \notin recorded
      BY <3>1
    <3>4. ASSUME KeyEpochIdentifier \in recorded PROVE holds \subseteq holds'
      <4>1. m # KeyEpochIdentifier
        BY <3>3, <3>4
      <4>2. st.op # "drop"
        BY <3>1, <3>2, <4>1, StatementFacts
      <4>3. schema \subseteq Effect(schema, st)
        BY <4>2 DEF Effect
      <4>4. schema' = Effect(schema, st) /\ holds' = {o \in holds : Exists(o, schema')}
        BY <2>1 DEF Executed, NextStatement
      <4>5. \A o \in holds : Exists(o, schema)
        BY <1>1 DEF SchemaInv, RestTyped
      <4>6. QED  BY <4>3, <4>4, <4>5 DEF Exists
    <3>5. QED  BY <3>1, <3>3, <3>4
  <2>2. CASE Deploy \/ Count \/ UNCHANGED vars
    BY <2>2 DEF Deploy, Count, vars
  <2>3. ASSUME NEW r \in Runners, Start(r) \/ Refuse(r) \/ Record(r) \/ Finish(r) PROVE A
    BY <2>3 DEF Start, Refuse, Record, Finish
  <2>4. ASSUME NEW r \in Runners, Execute(r) PROVE A
    BY <2>1, <2>4 DEF Execute
  <2>5. ASSUME NEW r \in Runners, Die(r) PROVE A
    BY <2>1, <2>5 DEF Die
  <2>6. QED  BY <1>1, <2>2, <2>3, <2>4, <2>5, Zenon DEF Next, GoOn
<1>2. IInv /\ SchemaInv /\ [Next]_vars => [A]_vars
  BY <1>1
<1>3. QED  BY <1>2, SchemaInvariantHolds, PTL DEF Spec, CountsOutliveMigrations
=============================================================================
