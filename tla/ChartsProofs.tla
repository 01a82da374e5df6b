----------------------------- MODULE ChartsProofs -----------------------------
(***************************************************************************)
(* Theorems of Charts, for every calendar that CalendarAssumption allows,  *)
(* every set of people and songs and every bound: the windows tile it,     *)
(* numbers of listeners are numbers of people, and a movement is told      *)
(* against the chart that the previous window ended with.                  *)
(*                                                                         *)
(* The properties are about what is read from one state, so the invariant  *)
(* is no more than the types and that finitely many searches are counted:  *)
(* the work is in the windows and in the queries.                          *)
(***************************************************************************)
EXTENDS Charts, FiniteSetTheorems, WellFoundedInduction, TLAPS

-----------------------------------------------------------------------------
(* The calendar.                                                             *)

\* A set of natural numbers that is not empty has a smallest element.
LEMMA SmallestExists ==
    ASSUME NEW S, S \subseteq Nat, S # {}
    PROVE  \E x \in S : \A y \in S : x <= y
<1> DEFINE Less == {p \in Nat \X Nat : p[1] < p[2]}
<1>1. IsWellFoundedOn(Less, Nat)
  BY NatLessThanWellFounded DEF OpToRel
<1>2. PICK x \in S : \A y \in S : <<y, x>> \notin Less
  BY <1>1, WFMin
<1>3. ASSUME NEW y \in S PROVE x <= y
  <2>1. y \in Nat /\ x \in Nat
    OBVIOUS
  <2>2. y < x => <<y, x>> \in Less
    BY <2>1
  <2>3. QED  BY <1>2, <2>1, <2>2
<1>4. QED  BY <1>3

LEMMA MinOfNaturals ==
    ASSUME NEW S, S \subseteq Nat, S # {}
    PROVE  Min(S) \in S /\ \A y \in S : Min(S) <= y
BY SmallestExists DEF Min

\* A set of integers with an upper bound that is not empty has a largest element.
LEMMA MaxOfBounded ==
    ASSUME NEW S, S \subseteq Int, S # {}, NEW b \in Int, \A x \in S : x <= b
    PROVE  Max(S) \in S /\ \A y \in S : Max(S) >= y
<1> DEFINE Below == {b - x : x \in S}
<1>1. Below \subseteq Nat /\ Below # {}
  <2>1. \A x \in S : b - x \in Nat
    OBVIOUS
  <2>2. QED  BY <2>1
<1>2. PICK n \in Below : \A k \in Below : n <= k
  BY <1>1, SmallestExists
<1>3. PICK x \in S : n = b - x
  OBVIOUS
<1>4. ASSUME NEW y \in S PROVE x >= y
  <2>1. b - y \in Below /\ x \in Int /\ y \in Int
    OBVIOUS
  <2>2. n <= b - y
    BY <1>2, <2>1
  <2>3. QED  BY <1>3, <2>1, <2>2
<1>5. QED  BY <1>4 DEF Max

LEMMA MaxOfSingleton == ASSUME NEW n \in Int PROVE Max({n}) = n
BY MaxOfBounded

\* The last month that has begun.
LEMMA LastMonth ==
    ASSUME NEW d \in Int, \E m \in MonthStarts : m <= d
    PROVE  /\ FirstOfMonth(d) \in MonthStarts /\ FirstOfMonth(d) \in Int
           /\ FirstOfMonth(d) <= d
           /\ \A m \in MonthStarts : m <= d => m <= FirstOfMonth(d)
<1> DEFINE S == {m \in MonthStarts : m <= d}
<1>1. S \subseteq Int /\ S # {} /\ \A m \in S : m <= d
  BY CalendarAssumption
<1>2. Max(S) \in S /\ \A m \in S : Max(S) >= m
  BY <1>1, MaxOfBounded
<1>3. \A m \in S : m \in Int
  BY <1>1
<1>4. FirstOfMonth(d) = Max(S)
  BY DEF FirstOfMonth
<1> HIDE DEF S
<1>5. FirstOfMonth(d) \in S /\ \A m \in S : m <= FirstOfMonth(d)
  BY <1>2, <1>3, <1>4
<1>6. QED  BY <1>1, <1>5 DEF S

\* The month of a day that a chart is asked for, and the one before.
LEMMA Months ==
    ASSUME NEW d \in Calendar
    PROVE  LET start == FirstOfMonth(d)
               end == FirstOfMonth(start + 32)
               before == FirstOfMonth(start - 1)
           IN /\ start \in Int /\ end \in Int /\ before \in Int
              /\ start <= d /\ d < end /\ before < start
              /\ \A k \in start..end - 1 : FirstOfMonth(k) = start
              /\ FirstOfMonth(before + 32) = start
<1> DEFINE start == FirstOfMonth(d)
           before == FirstOfMonth(start - 1)
<1>1. d \in Int /\ \A m \in MonthStarts : m \in Int
  BY ChartsAssumption, CalendarAssumption
<1>2. PICK early \in MonthStarts : early <= d - 31
  BY CalendarAssumption
<1>3. early \in Int /\ early <= d
  BY <1>1, <1>2
<1>4. /\ start \in MonthStarts /\ start \in Int /\ start <= d
      /\ \A m \in MonthStarts : m <= d => m <= start
  BY <1>1, <1>3, LastMonth
<1> HIDE DEF start
<1>5. ASSUME NEW m \in MonthStarts, m <= d + 31
      PROVE  \E n \in 28..31 : /\ m + n \in MonthStarts
                               /\ \A k \in 1..n - 1 : m + k \notin MonthStarts
  BY <1>5, CalendarAssumption
<1>6. start <= d + 31
  BY <1>1, <1>4
<1>7. PICK n \in 28..31 : /\ start + n \in MonthStarts
                          /\ \A k \in 1..n - 1 : start + k \notin MonthStarts
  BY <1>4, <1>5, <1>6
<1> DEFINE end == start + n
<1>8. d < end
  <2>1. ~(start + n <= d)
    BY <1>1, <1>4, <1>7
  <2>2. QED  BY <1>1, <1>4, <2>1
<1>9. start - 1 \in Int /\ early <= start - 1
  BY <1>1, <1>2, <1>3, <1>4, <1>8
<1>10. /\ before \in MonthStarts /\ before \in Int /\ before <= start - 1
       /\ \A m \in MonthStarts : m <= start - 1 => m <= before
  BY <1>9, LastMonth
<1> HIDE DEF before
\* Between a month that begins at m and the next, m is the last that has begun.
<1>11. ASSUME NEW m \in MonthStarts, NEW j \in 28..31,
              \A k \in 1..j - 1 : m + k \notin MonthStarts, NEW k \in m..m + j - 1
       PROVE  FirstOfMonth(k) = m
  <2>1. m \in Int /\ k \in Int /\ m <= k
    BY <1>1
  <2>2. /\ FirstOfMonth(k) \in MonthStarts /\ FirstOfMonth(k) \in Int
        /\ FirstOfMonth(k) <= k /\ m <= FirstOfMonth(k)
    BY <2>1, LastMonth
  <2>3. CASE FirstOfMonth(k) # m
    <3>1. FirstOfMonth(k) - m \in 1..j - 1 /\ m + (FirstOfMonth(k) - m) = FirstOfMonth(k)
      BY <2>1, <2>2, <2>3
    <3>2. QED  BY <1>11, <2>2, <3>1
  <2>4. QED  BY <2>3
<1>12. \A k \in start..end - 1 : FirstOfMonth(k) = start
  BY <1>4, <1>7, <1>11
<1>13. FirstOfMonth(start + 32) = end
  <2>1. end \in Int /\ end <= d + 31
    BY <1>1, <1>4, <1>7
  <2>2. PICK j \in 28..31 : /\ end + j \in MonthStarts
                            /\ \A k \in 1..j - 1 : end + k \notin MonthStarts
    BY <1>5, <1>7, <2>1
  <2>3. start + 32 \in end..end + j - 1
    BY <1>4, <1>7, <2>2
  <2>4. QED  BY <1>7, <1>11, <2>2, <2>3
<1>14. FirstOfMonth(before + 32) = start
  <2>1. before <= d + 31
    BY <1>1, <1>4, <1>10
  <2>2. PICK j \in 28..31 : /\ before + j \in MonthStarts
                            /\ \A k \in 1..j - 1 : before + k \notin MonthStarts
    BY <1>5, <1>10, <2>1
  <2>3. before + j = start
    <3>1. before + j \in Int /\ before < before + j
      BY <1>10, <2>2
    <3>2. ~(before + j <= start - 1)
      BY <1>4, <1>10, <2>2, <3>1
    <3>3. ~(start < before + j)
      <4>1. start < before + j => start - before \in 1..j - 1 /\ before + (start - before) = start
        BY <1>4, <1>10, <2>2
      <4>2. QED  BY <1>4, <2>2, <4>1
    <3>4. QED  BY <1>4, <3>1, <3>2, <3>3
  <2>4. before + 32 \in start..end - 1
    BY <1>4, <1>7, <1>10, <2>2, <2>3
  <2>5. QED  BY <1>12, <2>4
<1>15. QED
  BY <1>4, <1>8, <1>10, <1>12, <1>13, <1>14, <1>7 DEF start, before
-----------------------------------------------------------------------------
(* The windows.                                                              *)

\* A day lies in its window, which all days of the window share, and the window
\* before ends where this one begins.
Tiled(period, d) ==
    LET w == ResolvePeriod(period, d)
        v == ResolvePeriod(period, w.current_start - 1)
    IN /\ w.current_start \in Int /\ w.current_end \in Int /\ w.previous_start \in Int
       /\ w.current_start <= d /\ d < w.current_end /\ w.previous_start < w.current_start
       /\ \A k \in w.current_start..w.current_end - 1 : ResolvePeriod(period, k) = w
       /\ v.current_start = w.previous_start /\ v.current_end = w.current_start

LEMMA MonthsTile == ASSUME NEW d \in Calendar PROVE Tiled("month", d)
<1> DEFINE start == FirstOfMonth(d)
           end == FirstOfMonth(start + 32)
           before == FirstOfMonth(start - 1)
<1>1. /\ start \in Int /\ end \in Int /\ before \in Int
      /\ start <= d /\ d < end /\ before < start
      /\ \A k \in start..end - 1 : FirstOfMonth(k) = start
      /\ FirstOfMonth(before + 32) = start
  BY Months
<1>2. ResolvePeriod("month", d) = [current_start |-> start, current_end |-> end,
                                   previous_start |-> before]
  BY DEF ResolvePeriod
<1>3. ASSUME NEW k \in start..end - 1 PROVE ResolvePeriod("month", k) = ResolvePeriod("month", d)
  <2>1. FirstOfMonth(k) = FirstOfMonth(d)
    BY <1>1
  <2>2. QED  BY <2>1 DEF ResolvePeriod
<1>4. /\ ResolvePeriod("month", start - 1).current_start = before
      /\ ResolvePeriod("month", start - 1).current_end = FirstOfMonth(before + 32)
  BY DEF ResolvePeriod
<1> HIDE DEF start, end, before
<1>5. QED  BY <1>1, <1>2, <1>3, <1>4 DEF Tiled

LEMMA WeeksTile == ASSUME NEW d \in Calendar PROVE Tiled("week", d)
<1> DEFINE start == d - (d % 7)
<1>1. d \in Int
  BY ChartsAssumption
<1>2. \A k \in Int : k % 7 \in 0..6
  OBVIOUS
<1>3. start \in Int /\ start <= d /\ d < start + 7
  BY <1>1, <1>2
<1>4. \A k \in start..start + 6 : k - (k % 7) = start
  BY <1>1
<1>5. (start - 1) - ((start - 1) % 7) = start - 7
  BY <1>1
<1>6. \A k : ResolvePeriod("week", k) =
                [current_start |-> k - (k % 7), current_end |-> (k - (k % 7)) + 7,
                 previous_start |-> (k - (k % 7)) - 7]
  BY DEF ResolvePeriod, DaysIn
<1> HIDE DEF start
<1>7. ResolvePeriod("week", d) = [current_start |-> start, current_end |-> start + 7,
                                  previous_start |-> start - 7]
  BY <1>6 DEF start
<1>8. \A k \in start..(start + 7) - 1 : ResolvePeriod("week", k) = ResolvePeriod("week", d)
  <2>1. (start + 7) - 1 = start + 6
    BY <1>3
  <2>2. QED  BY <1>4, <1>6, <1>7, <2>1
<1>9. ResolvePeriod("week", start - 1) =
         [current_start |-> start - 7, current_end |-> (start - 7) + 7,
          previous_start |-> (start - 7) - 7]
  BY <1>5, <1>6
<1>10. start - 7 \in Int /\ start + 7 \in Int /\ start - 7 < start /\ (start - 7) + 7 = start
  BY <1>3
<1>11. QED  BY <1>3, <1>7, <1>8, <1>9, <1>10 DEF Tiled

LEMMA DaysTile == ASSUME NEW d \in Calendar PROVE Tiled("day", d)
<1>1. d \in Int
  BY ChartsAssumption
<1>2. \A k : ResolvePeriod("day", k) = [current_start |-> k, current_end |-> k + 1,
                                        previous_start |-> k - 1]
  BY DEF ResolvePeriod, DaysIn
<1>3. ResolvePeriod("day", d) = [current_start |-> d, current_end |-> d + 1,
                                 previous_start |-> d - 1]
  BY <1>2
<1>4. ResolvePeriod("day", d - 1) = [current_start |-> d - 1, current_end |-> (d - 1) + 1,
                                     previous_start |-> (d - 1) - 1]
  BY <1>2
<1>5. \A k \in d..(d + 1) - 1 : k = d
  BY <1>1
<1>6. (d - 1) + 1 = d /\ d + 1 \in Int /\ d - 1 \in Int /\ d < d + 1 /\ d - 1 < d
  BY <1>1
<1>7. QED  BY <1>1, <1>3, <1>4, <1>5, <1>6 DEF Tiled

LEMMA AllTile == ASSUME NEW period \in Period, NEW d \in Calendar PROVE Tiled(period, d)
BY MonthsTile, WeeksTile, DaysTile DEF Period

\* For days of the calendar, being in a window and having it are the same.
LEMMA SameWindow ==
    ASSUME NEW period \in Period, NEW d \in Calendar, NEW k \in Calendar
    PROVE  LET w == ResolvePeriod(period, d)
           IN (w.current_start <= k /\ k < w.current_end) <=> ResolvePeriod(period, k) = w
<1> DEFINE w == ResolvePeriod(period, d)
<1>1. Tiled(period, d) /\ Tiled(period, k)
  BY AllTile
<1>2. k \in Int
  BY ChartsAssumption
<1>3. /\ w.current_start \in Int /\ w.current_end \in Int
      /\ \A j \in w.current_start..w.current_end - 1 : ResolvePeriod(period, j) = w
  BY <1>1 DEF Tiled
<1>4. ResolvePeriod(period, k) = w => w.current_start <= k /\ k < w.current_end
  BY <1>1 DEF Tiled
<1> HIDE DEF w
<1>5. w.current_start <= k /\ k < w.current_end => k \in w.current_start..w.current_end - 1
  BY <1>2, <1>3
<1>6. QED  BY <1>3, <1>4, <1>5 DEF w
-----------------------------------------------------------------------------
(* What is counted.                                                          *)

\* The types, and that finitely many searches are counted.
IInv == TypeOK /\ IsFiniteSet(BagToSet(counted))

\* One more search of a day that has begun.
LEMMA CountKeepsTypes ==
    ASSUME IInv, NEW s \in Search, s.day <= today, Count(s)
    PROVE  IInv'
<1>1. /\ today' = today /\ counted' = counted (+) SetToBag({s})
      /\ today \in Calendar
  BY DEF Count, IInv, TypeOK
<1>2. DOMAIN counted' = (DOMAIN counted) \cup {s}
  BY <1>1 DEF (+), SetToBag
<1>3. \A x \in DOMAIN counted : counted[x] \in Nat /\ counted[x] > 0
  BY DEF IInv, TypeOK, IsABag
<1>4. counted' = [x \in (DOMAIN counted) \cup {s} |->
                    (IF x \in DOMAIN counted THEN counted[x] ELSE 0)
                    + (IF x \in {s} THEN 1 ELSE 0)]
  BY <1>1 DEF (+), SetToBag
<1>5. \A x \in (DOMAIN counted) \cup {s} : counted'[x] \in {n \in Nat : n > 0}
  <2> SUFFICES ASSUME NEW x \in (DOMAIN counted) \cup {s}
               PROVE  counted'[x] \in Nat /\ counted'[x] > 0
    OBVIOUS
  <2>1. counted'[x] = (IF x \in DOMAIN counted THEN counted[x] ELSE 0)
                      + (IF x \in {s} THEN 1 ELSE 0)
    BY <1>4
  <2>2. QED  BY <1>3, <2>1
<1>6. IsABag(counted')
  BY <1>2, <1>4, <1>5 DEF IsABag
<1>7. IsFiniteSet(DOMAIN counted')
  BY <1>2, FS_AddElement DEF IInv, BagToSet
<1>8. /\ DOMAIN counted' \subseteq Search /\ \A x \in DOMAIN counted' : x.day <= today
  BY <1>2 DEF IInv, TypeOK, BagToSet
<1>9. QED  BY <1>1, <1>6, <1>7, <1>8 DEF IInv, TypeOK, BagToSet

LEMMA InitTypes == Init => IInv
<1> SUFFICES ASSUME Init PROVE IInv
  OBVIOUS
<1>1. today \in Calendar
  BY MinOfNaturals, ChartsAssumption DEF Init
<1>2. counted = EmptyBag
  BY DEF Init
<1>3. counted = [x \in {} |-> 1]
  BY <1>2 DEF EmptyBag, SetToBag
<1>4. DOMAIN counted = {}
  BY <1>3
<1>5. IsABag(counted)
  BY <1>3 DEF IsABag
<1>6. QED  BY <1>1, <1>4, <1>5, FS_EmptySet DEF IInv, TypeOK, BagToSet

LEMMA NextDayKeepsTypes == ASSUME IInv, NextDay PROVE IInv'
<1> DEFINE Later == {d \in Calendar : d > today /\ (counted # EmptyBag => d \in Days)}
<1>1. Later \subseteq Nat /\ Later # {} /\ today' = Min(Later) /\ counted' = counted
  BY ChartsAssumption DEF NextDay
<1>2. Min(Later) \in Later
  BY <1>1, MinOfNaturals
<1>3. today' \in Calendar /\ today < today' /\ today \in Int /\ today' \in Int
  BY <1>1, <1>2, ChartsAssumption DEF IInv, TypeOK
<1>4. \A s \in BagToSet(counted) : s.day \in Int /\ s.day <= today
  <2>1. \A s \in Search : s.day \in Days
    BY DEF Search
  <2>2. \A d \in Days : d \in Int
    BY ChartsAssumption
  <2>3. QED  BY <2>1, <2>2 DEF IInv, TypeOK
<1>5. \A s \in BagToSet(counted) : s.day <= today'
  BY <1>3, <1>4
<1>6. BagToSet(counted)' = BagToSet(counted) /\ IsABag(counted)' = IsABag(counted)
  BY <1>1 DEF BagToSet, IsABag
<1>7. QED  BY <1>1, <1>3, <1>5, <1>6 DEF IInv, TypeOK

THEOREM InvariantHolds == Spec => []IInv
<1>1. ASSUME IInv, [Next]_vars PROVE IInv'
  <2>1. CASE NextDay
    BY <1>1, <2>1, NextDayKeepsTypes
  <2>2. ASSUME NEW person \in People, NEW song \in Songs, Observe(person, song) PROVE IInv'
    <3> DEFINE s == [day |-> today, key_epoch |-> Own, person |-> person, song |-> song]
    <3>1. today \in Days /\ today \in Int /\ Count(s)
      BY <1>1, <2>2, ChartsAssumption DEF Observe, Count, IInv, TypeOK
    <3>2. s \in Search /\ s.day <= today
      BY <3>1 DEF Search
    <3>3. QED  BY <1>1, <3>1, <3>2, CountKeepsTypes
  <2>3. ASSUME NEW person \in People, NEW song \in Songs, NEW day \in Days,
               Import(person, song, day)
        PROVE  IInv'
    <3> DEFINE s == [day |-> day, key_epoch |-> Archive, person |-> person, song |-> song]
    <3>1. s \in Search /\ s.day <= today /\ Count(s)
      BY <2>3 DEF Import, Search
    <3>2. QED  BY <1>1, <3>1, CountKeepsTypes
  <2>4. CASE UNCHANGED vars
    BY <1>1, <2>4 DEF vars, IInv, TypeOK
  <2>5. QED  BY <1>1, <2>1, <2>2, <2>3, <2>4 DEF Next
<1>2. IInv /\ [Next]_vars => IInv'
  BY <1>1
<1>3. QED  BY <1>2, InitTypes, PTL DEF Spec

\* Types: what is counted is a bag of searches, none of a day to come.
THEOREM TypeCorrect == Spec => []TypeOK
<1>1. IInv => TypeOK
  BY DEF IInv
<1>2. QED  BY <1>1, InvariantHolds, PTL

\* periods.py: whatever the calendar, today lies in its window, all days of the
\* window have it, and the window before ends where this one begins.
THEOREM WindowsTileTheCalendar == Spec => []WindowsTile
<1>1. IInv => WindowsTile
  <2> SUFFICES ASSUME IInv, NEW period \in Period
               PROVE  LET w == ResolvePeriod(period, today)
                          v == ResolvePeriod(period, w.current_start - 1)
                      IN /\ today \in w.current_start..w.current_end - 1
                         /\ \A d \in w.current_start..w.current_end - 1 :
                               ResolvePeriod(period, d) = w
                         /\ v.current_start = w.previous_start
                         /\ v.current_end = w.current_start
    BY DEF WindowsTile
  <2>1. today \in Calendar /\ today \in Int
    BY ChartsAssumption DEF IInv, TypeOK
  <2>2. Tiled(period, today)
    BY <2>1, AllTile
  <2>3. QED  BY <2>1, <2>2 DEF Tiled
<1>2. QED  BY <1>1, InvariantHolds, PTL
-----------------------------------------------------------------------------
(* The charts.                                                               *)

\* What is known of a search that is counted.
LEMMA CountedSearch ==
    ASSUME IInv, NEW s \in BagToSet(counted)
    PROVE  /\ s \in Search /\ s.day \in Calendar /\ s.day \in Nat /\ s.day <= today
           /\ s.song \in Songs /\ s.song[1] \in Nat /\ s.song[2] \in Nat
           /\ s.key_epoch \in {Archive, Own} /\ s.person \in People
<1>1. s \in Search /\ s.day <= today
  BY DEF IInv, TypeOK
<1>2. s.day \in Days /\ s.song \in Songs /\ s.key_epoch \in {Archive, Own} /\ s.person \in People
  BY <1>1 DEF Search
<1>3. s.day \in Calendar /\ s.day \in Nat
  BY <1>2, ChartsAssumption
<1>4. s.song[1] \in Nat /\ s.song[2] \in Nat
  BY <1>2, ChartsAssumption
<1>5. QED  BY <1>1, <1>2, <1>3, <1>4

LEMMA WithinIsFinite ==
    ASSUME IInv, NEW chart, NEW from, NEW to
    PROVE  /\ Within(chart, from, to) \subseteq BagToSet(counted)
           /\ IsFiniteSet(Within(chart, from, to))
<1>1. Within(chart, from, to) \subseteq BagToSet(counted)
  BY DEF Within
<1>2. QED  BY <1>1, FS_Subset DEF IInv

\* The names of finitely many searches are finitely many.
LEMMA NamesAreFinite ==
    ASSUME NEW chart, NEW S, IsFiniteSet(S) PROVE IsFiniteSet(Names(chart, S))
<1> DEFINE f == [s \in S |-> NameOf(chart, s)]
<1>1. f \in Surjection(S, Names(chart, S))
  BY DEF Surjection, Names
<1>2. QED  BY <1>1, FS_Surjection

LEMMA PositionIsPositive ==
    ASSUME NEW chart, NEW S, IsFiniteSet(S), NEW n
    PROVE  Position(chart, S, n) \in Nat /\ Position(chart, S, n) >= 1
<1> DEFINE M == {m \in Names(chart, S) : RanksBefore(chart, S, m, n)}
<1>1. M \subseteq Names(chart, S)
  OBVIOUS
<1>2. Cardinality(M) \in Nat
  BY <1>1, NamesAreFinite, FS_Subset, FS_CardinalityType
<1>3. Position(chart, S, n) = 1 + Cardinality(M)
  BY DEF Position
<1> HIDE DEF M
<1>4. QED  BY <1>2, <1>3

LEMMA EntryFields ==
    ASSUME NEW chart, NEW w, NEW n
    PROVE  LET S == Within(chart, w.current_start, w.current_end)
               e == Entry(chart, w, n)
           IN /\ e.name = n /\ e.position = Position(chart, S, n)
              /\ e.searches = Searches(About(chart, S, n))
              /\ e.listeners = ListenersOrNone(About(chart, S, n))
              /\ e.previous_position = PositionOrZero(chart, Previous(chart, w), n)
              /\ e.movement = DescribeMovement(e.position, e.previous_position,
                                               SeenBefore(chart, w, n))
BY DEF Entry

\* The row of a chart is the entry of its name.
LEMMA RowsAreEntries ==
    ASSUME NEW chart, NEW w, NEW e \in ReadChart(chart, w)
    PROVE  /\ e.name \in Names(chart, Within(chart, w.current_start, w.current_end))
           /\ e = Entry(chart, w, e.name)
<1>1. PICK n \in Names(chart, Within(chart, w.current_start, w.current_end)) :
         e = Entry(chart, w, n)
  BY DEF ReadChart
<1>2. e.name = n
  BY <1>1, EntryFields
<1>3. QED  BY <1>1, <1>2

\* The window of today in the terms of the queries.
LEMMA WindowOfToday ==
    ASSUME IInv, NEW period \in Period
    PROVE  LET w == ResolvePeriod(period, today)
               v == ResolvePeriod(period, w.current_start - 1)
           IN /\ today \in Calendar /\ today \in Nat
              /\ w.current_start \in Int /\ w.current_end \in Int /\ w.previous_start \in Int
              /\ w.current_start <= today /\ today < w.current_end
              /\ w.previous_start < w.current_start
              /\ v.current_start = w.previous_start /\ v.current_end = w.current_start
<1>1. today \in Calendar /\ today \in Nat
  BY ChartsAssumption DEF IInv, TypeOK
<1>2. QED  BY <1>1, AllTile DEF Tiled

\* The window that a movement is told against is the previous one of the calendar.
THEOREM MovementsAreTrue == Spec => []MovementIsAgainstTheLastChart
<1>1. IInv => MovementIsAgainstTheLastChart
  <2> SUFFICES ASSUME IInv, NEW chart \in Chart, NEW period \in Period,
                      NEW e \in ReadChart(chart, ResolvePeriod(period, today))
               PROVE  LET w == ResolvePeriod(period, today)
                          last == ReadChart(chart, ResolvePeriod(period, w.current_start - 1))
                      IN \/ \E f \in last : f.name = e.name /\ f.position = e.previous_position
                         \/ e.previous_position = 0 /\ e.movement \in {"new", "re_entry"}
                               /\ \A f \in last : f.name # e.name
    BY DEF MovementIsAgainstTheLastChart
  <2> DEFINE w == ResolvePeriod(period, today)
             v == ResolvePeriod(period, w.current_start - 1)
             P == Previous(chart, w)
             n == e.name
  <2>1. Within(chart, v.current_start, v.current_end) = P
    BY WindowOfToday DEF Previous
  <2> HIDE DEF w, v
  <2>2. e = Entry(chart, w, n)
    BY RowsAreEntries DEF w
  <2>3. e.previous_position = PositionOrZero(chart, P, n)
        /\ e.movement = DescribeMovement(e.position, e.previous_position, SeenBefore(chart, w, n))
    BY <2>2, EntryFields
  <2> HIDE DEF P, n
  <2>4. CASE n \in Names(chart, P)
    <3>1. Entry(chart, v, n) \in ReadChart(chart, v)
      BY <2>1, <2>4 DEF ReadChart
    <3>2. Entry(chart, v, n).name = n /\ Entry(chart, v, n).position = Position(chart, P, n)
      BY <2>1, EntryFields
    <3>3. e.previous_position = Position(chart, P, n)
      BY <2>3, <2>4 DEF PositionOrZero
    <3>4. QED  BY <3>1, <3>2, <3>3 DEF n, v, w
  <2>5. CASE n \notin Names(chart, P)
    <3>1. e.previous_position = 0
      BY <2>3, <2>5 DEF PositionOrZero
    <3>2. e.movement \in {"new", "re_entry"}
      BY <2>3, <3>1 DEF DescribeMovement
    <3>3. \A f \in ReadChart(chart, v) : f.name # n
      BY <2>1, <2>5, RowsAreEntries
    <3>4. QED  BY <3>1, <3>2, <3>3 DEF n, v, w
  <2>6. QED  BY <2>4, <2>5
<1>2. QED  BY <1>1, InvariantHolds, PTL

\* ranking.py: "new" is said of an artist exactly when no search before the window
\* is counted for it.
THEOREM NewIsNew == Spec => []NewMeansNeverBefore
<1>1. IInv => NewMeansNeverBefore
  <2> SUFFICES ASSUME IInv, NEW period \in Period,
                      NEW e \in ReadChart("artists", ResolvePeriod(period, today))
               PROVE  e.movement = "new" <=>
                         \A s \in BagToSet(counted) :
                            s.song[1] = e.name =>
                               s.day >= ResolvePeriod(period, today).current_start
    BY DEF NewMeansNeverBefore
  <2> DEFINE w == ResolvePeriod(period, today)
             P == Previous("artists", w)
             L == Within("artists", 0, w.previous_start)
             n == e.name
  <2>1. /\ w.current_start \in Int /\ w.previous_start \in Int
        /\ w.previous_start < w.current_start
    BY WindowOfToday
  <2>2. e = Entry("artists", w, n)
    BY RowsAreEntries
  <2> HIDE DEF w
  <2>3. /\ e.previous_position = PositionOrZero("artists", P, n)
        /\ e.movement = DescribeMovement(e.position, e.previous_position,
                                         SeenBefore("artists", w, n))
    BY <2>2, EntryFields
  <2>4. SeenBefore("artists", w, n) <=> n \in Names("artists", L)
    BY DEF SeenBefore
  <2>5. e.previous_position = 0 <=> n \notin Names("artists", P)
    <3>1. Position("artists", P, n) >= 1
      BY WithinIsFinite, PositionIsPositive DEF Previous
    <3>2. Position("artists", P, n) \in Nat
      BY WithinIsFinite, PositionIsPositive DEF Previous
    <3>3. QED  BY <2>3, <3>1, <3>2 DEF PositionOrZero
  <2>6. e.movement = "new" <=> e.previous_position = 0 /\ ~SeenBefore("artists", w, n)
    BY <2>3 DEF DescribeMovement
  <2> HIDE DEF n
  <2>7. n \in Names("artists", P) <=>
           \E s \in BagToSet(counted) : /\ s.song[1] = n /\ w.previous_start <= s.day
                                        /\ s.day < w.current_start
    BY DEF Names, NameOf, P, Previous, Within, Counts
  <2>8. n \in Names("artists", L) <=>
           \E s \in BagToSet(counted) : /\ s.song[1] = n /\ 0 <= s.day
                                        /\ s.day < w.previous_start
    BY DEF Names, NameOf, L, Within, Counts
  <2>9. \A s \in BagToSet(counted) : s.day \in Nat
    BY CountedSearch
  <2>10. (\E s \in BagToSet(counted) : s.song[1] = n /\ s.day < w.current_start) <=>
             n \in Names("artists", P) \/ n \in Names("artists", L)
    <3> HIDE DEF P, L
    <3>1. ASSUME NEW s \in BagToSet(counted), s.song[1] = n, s.day < w.current_start
          PROVE  n \in Names("artists", P) \/ n \in Names("artists", L)
      <4>1. s.day \in Nat /\ (w.previous_start <= s.day \/ s.day < w.previous_start)
        BY <2>1, <2>9
      <4>2. CASE w.previous_start <= s.day
        BY <2>7, <3>1, <4>2
      <4>3. CASE s.day < w.previous_start
        BY <2>8, <3>1, <4>1, <4>3
      <4>4. QED  BY <4>1, <4>2, <4>3
    <3>2. ASSUME NEW s \in BagToSet(counted), s.day < w.previous_start
          PROVE  s.day < w.current_start
      BY <2>1, <2>9, <3>2
    <3>3. QED  BY <2>7, <2>8, <3>1, <3>2
  <2>11. (\A s \in BagToSet(counted) : s.song[1] = n => s.day >= w.current_start) <=>
            ~\E s \in BagToSet(counted) : s.song[1] = n /\ s.day < w.current_start
    BY <2>1, <2>9
  <2>12. QED
    <3> HIDE DEF P, L
    <3>1. e.movement = "new" <=>
             \A s \in BagToSet(counted) : s.song[1] = n => s.day >= w.current_start
      BY <2>4, <2>5, <2>6, <2>10, <2>11
    <3>2. QED  BY <3>1 DEF n, w
<1>2. QED  BY <1>1, InvariantHolds, PTL
-----------------------------------------------------------------------------
(* The numbers of listeners.                                                 *)

\* A number that is shown counts the people of one epoch.
LEMMA ListenersOfOneEpoch ==
    ASSUME NEW S, IsFiniteSet(S), S # {}
    PROVE  ListenersOrNone(S) = IF \E s, x \in S : s.key_epoch # x.key_epoch
                                THEN Withheld ELSE Cardinality({s.person : s \in S})
<1>1. IsFiniteSet(Epochs(S)) /\ Epochs(S) # {}
  <2> DEFINE f == [s \in S |-> s.key_epoch]
  <2>1. f \in Surjection(S, Epochs(S))
    BY DEF Surjection, Epochs
  <2>2. IsFiniteSet(Epochs(S))
    BY <2>1, FS_Surjection
  <2>3. QED  BY <2>2 DEF Epochs
<1>2. IsFiniteSet({s.person : s \in S})
  <2> DEFINE f == [s \in S |-> s.person]
  <2>1. f \in Surjection(S, {s.person : s \in S})
    BY DEF Surjection
  <2>2. QED  BY <2>1, FS_Surjection
<1>3. Cardinality(Epochs(S)) = 1 <=> ~\E s, x \in S : s.key_epoch # x.key_epoch
  <2>1. Cardinality(Epochs(S)) = 1 <=> \E k : Epochs(S) = {k}
    BY <1>1, FS_Singleton
  <2>2. (\E k : Epochs(S) = {k}) <=> ~\E s, x \in S : s.key_epoch # x.key_epoch
    <3>1. ASSUME NEW k, Epochs(S) = {k} PROVE \A s \in S : s.key_epoch = k
      BY <3>1 DEF Epochs
    <3>2. ASSUME ~\E s, x \in S : s.key_epoch # x.key_epoch
          PROVE  \E k : Epochs(S) = {k}
      <4>1. PICK x \in S : TRUE
        OBVIOUS
      <4>2. Epochs(S) = {x.key_epoch}
        BY <3>2, <4>1 DEF Epochs
      <4>3. QED  BY <4>2
    <3>3. QED  BY <3>1, <3>2
  <2>3. QED  BY <2>1, <2>2
<1>4. ASSUME ~\E s, x \in S : s.key_epoch # x.key_epoch
      PROVE  Listeners(S) = Cardinality({s.person : s \in S})
  <2> DEFINE Counted(e) == Cardinality({s.person : s \in {x \in S : x.key_epoch = e}})
  <2>1. PICK k \in S : TRUE
    OBVIOUS
  <2>2. Epochs(S) = {k.key_epoch} /\ {x \in S : x.key_epoch = k.key_epoch} = S
    BY <1>4, <2>1 DEF Epochs
  <2>3. {Counted(e) : e \in Epochs(S)} = {Cardinality({s.person : s \in S})}
    BY <2>2
  <2>4. Cardinality({s.person : s \in S}) \in Int
    BY <1>2, FS_CardinalityType
  <2>5. Max({Cardinality({s.person : s \in S})}) = Cardinality({s.person : s \in S})
    BY <2>4, MaxOfSingleton
  <2>6. QED  BY <2>3, <2>5 DEF Listeners
<1>5. QED  BY <1>3, <1>4 DEF ListenersOrNone

\* The searches that an entry is about.
LEMMA SearchesOfEntry ==
    ASSUME IInv, NEW chart, NEW period \in Period, NEW n
    PROVE  LET w == ResolvePeriod(period, today)
           IN About(chart, Within(chart, w.current_start, w.current_end), n) =
                 {s \in BagToSet(counted) : /\ NameOf(chart, s) = n /\ Counts(chart, s)
                                            /\ ResolvePeriod(period, s.day) = w}
<1> DEFINE w == ResolvePeriod(period, today)
<1>1. \A s \in BagToSet(counted) :
         (w.current_start <= s.day /\ s.day < w.current_end) <=> ResolvePeriod(period, s.day) = w
  BY CountedSearch, WindowOfToday, SameWindow
<1> HIDE DEF w
<1>2. About(chart, Within(chart, w.current_start, w.current_end), n) =
         {s \in BagToSet(counted) : /\ NameOf(chart, s) = n /\ Counts(chart, s)
                                    /\ ResolvePeriod(period, s.day) = w}
  BY <1>1 DEF About, Within
<1>3. QED  BY <1>2 DEF w

\* _chart_query: the listeners of a row are people, counted once each, or withheld
\* when pseudonyms of two keys would have to be told apart.
THEOREM ListenersAreNotPseudonyms == Spec => []ListenersArePeople
<1>1. IInv => ListenersArePeople
  <2> SUFFICES ASSUME IInv, NEW chart \in Chart, NEW period \in Period,
                      NEW e \in ReadChart(chart, ResolvePeriod(period, today))
               PROVE  LET w == ResolvePeriod(period, today)
                          S == {s \in BagToSet(counted) :
                                   /\ NameOf(chart, s) = e.name /\ Counts(chart, s)
                                   /\ ResolvePeriod(period, s.day) = w}
                      IN IF \E s, x \in S : s.key_epoch # x.key_epoch
                         THEN e.listeners = Withheld
                         ELSE e.listeners = Cardinality({s.person : s \in S})
    BY DEF ListenersArePeople
  <2> DEFINE w == ResolvePeriod(period, today)
             W == Within(chart, w.current_start, w.current_end)
             S == {s \in BagToSet(counted) : /\ NameOf(chart, s) = e.name /\ Counts(chart, s)
                                             /\ ResolvePeriod(period, s.day) = w}
  <2>1. e.name \in Names(chart, W) /\ e = Entry(chart, w, e.name)
    BY RowsAreEntries
  <2>2. e.listeners = ListenersOrNone(About(chart, W, e.name))
    BY <2>1, EntryFields
  <2>3. About(chart, W, e.name) = S
    BY SearchesOfEntry
  <2>4. About(chart, W, e.name) # {} /\ About(chart, W, e.name) \subseteq W
    BY <2>1 DEF About, Names
  <2>5. IsFiniteSet(W)
    BY WithinIsFinite
  <2>6. IsFiniteSet(S) /\ S # {}
    BY <2>3, <2>4, <2>5, FS_Subset
  <2> HIDE DEF S, W, w
  <2>7. e.listeners = IF \E s, x \in S : s.key_epoch # x.key_epoch
                      THEN Withheld ELSE Cardinality({s.person : s \in S})
    BY <2>2, <2>3, <2>6, ListenersOfOneEpoch
  <2>8. QED  BY <2>7 DEF S, w
<1>2. QED  BY <1>1, InvariantHolds, PTL
-----------------------------------------------------------------------------
(* Sums over finite sets: the fold of the library, one chosen element after  *)
(* the other, does not depend on which one is chosen.                        *)

Chosen(s) == CHOOSE x \in s : TRUE

\* g sums f over the sets of D.
Summing(g, f, D) ==
    g = [s \in D |-> IF s = {} THEN 0 ELSE f[Chosen(s)] + g[s \ {Chosen(s)}]]

UpTo(S, k) == {s \in SUBSET S : Cardinality(s) <= k}

\* What a smaller set has less.
LEMMA OneLess ==
    ASSUME NEW S, IsFiniteSet(S), NEW s \in SUBSET S, s # {}
    PROVE  /\ Chosen(s) \in s /\ IsFiniteSet(s) /\ Cardinality(s) \in Nat
           /\ \A x \in s : /\ s \ {x} \in SUBSET S /\ Cardinality(s \ {x}) \in Nat
                           /\ Cardinality(s \ {x}) = Cardinality(s) - 1
<1>1. Chosen(s) \in s
  BY DEF Chosen
<1>2. IsFiniteSet(s) /\ Cardinality(s) \in Nat
  BY FS_Subset, FS_CardinalityType
<1>3. ASSUME NEW x \in s
      PROVE  /\ s \ {x} \in SUBSET S /\ Cardinality(s \ {x}) \in Nat
             /\ Cardinality(s \ {x}) = Cardinality(s) - 1
  <2>1. s \ {x} \in SUBSET S
    OBVIOUS
  <2>2. IsFiniteSet(s \ {x}) /\ Cardinality(s \ {x}) = Cardinality(s) - 1
    BY <1>2, FS_RemoveElement
  <2>3. QED  BY <2>1, <2>2, FS_CardinalityType
<1>4. QED  BY <1>1, <1>2, <1>3

\* Among subsets of a finite set there is one that has no smaller one beside it.
LEMMA SmallestSubset ==
    ASSUME NEW S, IsFiniteSet(S), NEW Bad, Bad \subseteq SUBSET S, Bad # {}
    PROVE  \E s \in Bad : \A x \in s : s \ {x} \notin Bad
<1> DEFINE Sizes == {Cardinality(s) : s \in Bad}
<1>1. Sizes \subseteq Nat /\ Sizes # {}
  <2>1. \A s \in Bad : Cardinality(s) \in Nat
    BY FS_Subset, FS_CardinalityType
  <2>2. QED  BY <2>1
<1>2. PICK k \in Sizes : \A j \in Sizes : k <= j
  BY <1>1, SmallestExists
<1>3. PICK s \in Bad : Cardinality(s) = k
  OBVIOUS
<1>4. ASSUME NEW x \in s, s \ {x} \in Bad PROVE FALSE
  <2>1. Cardinality(s) \in Nat /\ Cardinality(s \ {x}) = Cardinality(s) - 1
    BY <1>4, OneLess
  <2>2. Cardinality(s) <= Cardinality(s \ {x})
    BY <1>2, <1>3, <1>4
  <2>3. QED  BY <2>1, <2>2
<1>5. QED  BY <1>4

LEMMA SummingExists ==
    ASSUME NEW S, IsFiniteSet(S), NEW f
    PROVE  \E g : Summing(g, f, SUBSET S)
<1> DEFINE P(k) == \E g : Summing(g, f, UpTo(S, k))
           Bad == {k \in Nat : ~P(k)}
<1>1. P(0)
  <2> DEFINE g == [s \in UpTo(S, 0) |-> 0]
  <2>1. ASSUME NEW s \in UpTo(S, 0) PROVE s = {}
    <3>1. s \in SUBSET S /\ Cardinality(s) <= 0
      BY DEF UpTo
    <3>2. IsFiniteSet(s) /\ Cardinality(s) \in Nat
      BY <3>1, FS_Subset, FS_CardinalityType
    <3>3. Cardinality(s) = 0
      BY <3>1, <3>2
    <3>4. QED  BY <3>2, <3>3, FS_EmptySet
  <2>2. g = [s \in UpTo(S, 0) |-> IF s = {} THEN 0 ELSE f[Chosen(s)] + g[s \ {Chosen(s)}]]
    BY <2>1
  <2>3. QED  BY <2>2 DEF Summing
<1>2. ASSUME NEW k \in Nat, P(k) PROVE P(k + 1)
  <2>1. PICK g : Summing(g, f, UpTo(S, k))
    BY <1>2
  <2> DEFINE Value(s) == IF s \in UpTo(S, k) THEN g[s]
                         ELSE f[Chosen(s)] + g[s \ {Chosen(s)}]
             h == [s \in UpTo(S, k + 1) |-> Value(s)]
  <2>2. ASSUME NEW s \in UpTo(S, k + 1)
        PROVE  Value(s) = IF s = {} THEN 0 ELSE f[Chosen(s)] + h[s \ {Chosen(s)}]
    <3>1. s \in SUBSET S /\ Cardinality(s) <= k + 1
      BY DEF UpTo
    <3>2. CASE s = {}
      <4>1. s \in UpTo(S, k)
        BY <3>1, <3>2, FS_EmptySet DEF UpTo
      <4>2. g[s] = 0
        BY <2>1, <3>2, <4>1 DEF Summing
      <4>3. QED  BY <3>2, <4>1, <4>2
    <3>3. CASE s # {}
      <4> DEFINE t == s \ {Chosen(s)}
      <4>1. /\ t \in SUBSET S /\ Cardinality(t) \in Nat /\ Cardinality(s) \in Nat
            /\ Cardinality(t) = Cardinality(s) - 1
        BY <3>1, <3>3, OneLess
      <4> HIDE DEF t
      <4>2. t \in UpTo(S, k) /\ t \in UpTo(S, k + 1)
        BY <3>1, <4>1 DEF UpTo
      <4>3. h[t] = g[t]
        BY <4>2
      <4>4. s \in UpTo(S, k) => g[s] = f[Chosen(s)] + g[t]
        BY <2>1, <3>3 DEF Summing, t
      <4>5. QED  BY <3>3, <4>3, <4>4 DEF t
    <3>4. QED  BY <3>2, <3>3
  <2>3. h = [s \in UpTo(S, k + 1) |-> IF s = {} THEN 0 ELSE f[Chosen(s)] + h[s \ {Chosen(s)}]]
    <3> DEFINE H(s) == IF s = {} THEN 0 ELSE f[Chosen(s)] + h[s \ {Chosen(s)}]
    <3>1. \A s \in UpTo(S, k + 1) : Value(s) = H(s)
      BY <2>2
    <3> HIDE DEF H, Value
    <3>2. h = [s \in UpTo(S, k + 1) |-> H(s)]
      BY <3>1
    <3>3. QED  BY <3>2 DEF H
  <2>4. QED  BY <2>3 DEF Summing
<1>3. ASSUME Bad # {} PROVE FALSE
  <2> HIDE DEF P
  <2>1. PICK k \in Bad : \A j \in Bad : k <= j
    BY <1>3, SmallestExists
  <2>2. k # 0
    BY <1>1, <2>1
  <2>3. k - 1 \in Nat /\ k - 1 \notin Bad
    BY <2>1, <2>2
  <2>4. P(k - 1 + 1)
    BY <1>2, <2>3
  <2>5. QED  BY <2>1, <2>4
<1>4. Cardinality(S) \in Nat /\ UpTo(S, Cardinality(S)) = SUBSET S
  BY FS_CardinalityType, FS_Subset DEF UpTo
<1>5. P(Cardinality(S))
  BY <1>3, <1>4
<1>6. QED  BY <1>4, <1>5

LEMMA SumsAreNatural ==
    ASSUME NEW S, IsFiniteSet(S), NEW f, \A x \in S : f[x] \in Nat,
           NEW g, Summing(g, f, SUBSET S)
    PROVE  g[{}] = 0 /\ \A s \in SUBSET S : g[s] \in Nat
<1> DEFINE Bad == {s \in SUBSET S : g[s] \notin Nat}
<1>1. g[{}] = 0
  <2>1. {} \in SUBSET S
    OBVIOUS
  <2>2. QED  BY <2>1 DEF Summing
<1>2. ASSUME Bad # {} PROVE FALSE
  <2>1. PICK s \in Bad : \A x \in s : s \ {x} \notin Bad
    BY <1>2, SmallestSubset
  <2>2. s # {}
    <3>1. g[s] \notin Nat
      BY <2>1
    <3>2. s = {} => g[s] = 0
      BY <1>1
    <3>3. QED  BY <3>1, <3>2
  <2> DEFINE c == Chosen(s)
  <2>3. c \in s /\ s \ {c} \in SUBSET S
    BY <2>2, OneLess
  <2>4. g[s] = f[c] + g[s \ {c}]
    BY <2>2 DEF Summing
  <2> HIDE DEF c
  <2>5. f[c] \in Nat /\ g[s \ {c}] \in Nat
    BY <2>1, <2>3
  <2>6. g[s] \in Nat
    BY <2>4, <2>5
  <2>7. QED  BY <2>1, <2>6
<1>3. QED  BY <1>1, <1>2

\* Any element may be taken first.
LEMMA AnyOrder ==
    ASSUME NEW S, IsFiniteSet(S), NEW f, \A x \in S : f[x] \in Nat,
           NEW g, Summing(g, f, SUBSET S)
    PROVE  \A s \in SUBSET S : \A x \in s : g[s] = f[x] + g[s \ {x}]
<1> DEFINE Fine(s) == \A x \in s : g[s] = f[x] + g[s \ {x}]
           Bad == {s \in SUBSET S : ~Fine(s)}
<1>1. \A s \in SUBSET S : g[s] \in Nat
  BY SumsAreNatural
<1>2. ASSUME NEW s \in SUBSET S, \A x \in s : Fine(s \ {x}), NEW x \in s
      PROVE  g[s] = f[x] + g[s \ {x}]
  <2> DEFINE c == Chosen(s)
  <2>1. c \in s
    BY <1>2, OneLess
  <2>2. g[s] = f[c] + g[s \ {c}]
    BY <1>2 DEF Summing
  <2> HIDE DEF c
  <2>3. CASE x # c
    <3>1. g[s \ {c}] = f[x] + g[(s \ {c}) \ {x}]
      BY <1>2, <2>1, <2>3
    <3>2. g[s \ {x}] = f[c] + g[(s \ {x}) \ {c}]
      BY <1>2, <2>1, <2>3
    <3>3. (s \ {x}) \ {c} = (s \ {c}) \ {x}
      OBVIOUS
    <3>4. f[x] \in Nat /\ f[c] \in Nat
      BY <2>1
    <3>5. ((s \ {c}) \ {x}) \in SUBSET S
      OBVIOUS
    <3>6. g[(s \ {c}) \ {x}] \in Nat
      BY <1>1, <3>5
    <3> DEFINE rest == g[(s \ {c}) \ {x}]
    <3>7. rest \in Nat /\ g[s \ {c}] = f[x] + rest /\ g[s \ {x}] = f[c] + rest
      BY <3>1, <3>2, <3>3, <3>6
    <3> HIDE DEF rest
    <3>8. QED  BY <2>2, <3>4, <3>7
  <2>4. QED  BY <2>2, <2>3
<1>3. ASSUME Bad # {} PROVE FALSE
  <2>1. ASSUME NEW s \in SUBSET S, \A x \in s : Fine(s \ {x}) PROVE Fine(s)
    BY <1>2, <2>1
  <2> HIDE DEF Fine
  <2>2. PICK s \in Bad : \A x \in s : s \ {x} \notin Bad
    BY <1>3, SmallestSubset
  <2>3. \A x \in s : Fine(s \ {x})
    BY <2>2
  <2>4. QED  BY <2>1, <2>2, <2>3
<1>4. QED  BY <1>3

\* The sums of the subsets of a smaller set are the same.
LEMMA SumsAgree ==
    ASSUME NEW S, IsFiniteSet(S), NEW f, NEW g, Summing(g, f, SUBSET S)
    PROVE  \A T \in SUBSET S : \A h : Summing(h, f, SUBSET T) => h[T] = g[T]
<1> SUFFICES ASSUME NEW T \in SUBSET S, NEW h, Summing(h, f, SUBSET T)
             PROVE  h[T] = g[T]
  OBVIOUS
<1> DEFINE Bad == {t \in SUBSET T : h[t] # g[t]}
<1>1. ASSUME Bad # {} PROVE FALSE
  <2>1. IsFiniteSet(T)
    BY FS_Subset
  <2>2. PICK t \in Bad : \A x \in t : t \ {x} \notin Bad
    BY <1>1, <2>1, SmallestSubset
  <2>3. t \in SUBSET T /\ t \in SUBSET S
    OBVIOUS
  <2>4. /\ h[t] = IF t = {} THEN 0 ELSE f[Chosen(t)] + h[t \ {Chosen(t)}]
        /\ g[t] = IF t = {} THEN 0 ELSE f[Chosen(t)] + g[t \ {Chosen(t)}]
    BY <2>3 DEF Summing
  <2>5. t # {} => h[t \ {Chosen(t)}] = g[t \ {Chosen(t)}]
    <3>1. t # {} => Chosen(t) \in t /\ t \ {Chosen(t)} \in SUBSET T
      BY <2>1, <2>3, OneLess
    <3>2. QED  BY <2>2, <3>1
  <2>6. QED  BY <2>2, <2>4, <2>5
<1>2. T \notin Bad
  BY <1>1
<1>3. QED  BY <1>2

Additive(g, S) == \A A, B \in SUBSET S : A \cap B = {} => g[A \cup B] = g[A] + g[B]

\* The sum of two disjoint sets.
LEMMA SumOfUnion ==
    ASSUME NEW S, IsFiniteSet(S), NEW f, \A x \in S : f[x] \in Nat,
           NEW g, Summing(g, f, SUBSET S)
    PROVE  Additive(g, S)
<1> SUFFICES ASSUME NEW A \in SUBSET S, NEW B \in SUBSET S, A \cap B = {}
             PROVE  g[A \cup B] = g[A] + g[B]
  BY DEF Additive
<1> DEFINE Bad == {b \in SUBSET B : g[A \cup b] # g[A] + g[b]}
<1>1. /\ g[{}] = 0
      /\ \A s \in SUBSET S : g[s] \in Nat
      /\ \A s \in SUBSET S : \A x \in s : g[s] = f[x] + g[s \ {x}]
  BY SumsAreNatural, AnyOrder
<1>2. ASSUME Bad # {} PROVE FALSE
  <2>1. IsFiniteSet(B)
    BY FS_Subset
  <2>2. PICK b \in Bad : \A x \in b : b \ {x} \notin Bad
    BY <1>2, <2>1, SmallestSubset
  <2>3. b # {}
    <3>1. A \cup {} = A
      OBVIOUS
    <3>2. g[A] \in Nat /\ g[A] + 0 = g[A]
      BY <1>1
    <3>3. g[A \cup b] # g[A] + g[b]
      BY <2>2
    <3>4. b = {} => g[A \cup b] = g[A] /\ g[b] = 0
      BY <1>1, <3>1
    <3>5. QED  BY <3>2, <3>3, <3>4
  <2>4. PICK x \in b : TRUE
    BY <2>3
  <2>5. b \in SUBSET S /\ A \cup b \in SUBSET S /\ x \notin A
    OBVIOUS
  <2>6. (A \cup b) \ {x} = A \cup (b \ {x})
    BY <2>5
  <2>7. g[A \cup b] = f[x] + g[A \cup (b \ {x})] /\ g[b] = f[x] + g[b \ {x}]
    <3>1. x \in A \cup b /\ x \in b
      OBVIOUS
    <3>2. g[A \cup b] = f[x] + g[(A \cup b) \ {x}]
      BY <1>1, <2>5, <3>1
    <3>3. g[b] = f[x] + g[b \ {x}]
      BY <1>1, <2>5, <3>1
    <3>4. QED  BY <2>6, <3>2, <3>3
  <2>8. g[A \cup (b \ {x})] = g[A] + g[b \ {x}]
    BY <2>2, <2>4
  <2>9. f[x] \in Nat /\ g[A] \in Nat /\ g[b \ {x}] \in Nat
    BY <1>1, <2>5
  <2>10. g[A \cup b] = g[A] + g[b]
    BY <2>7, <2>8, <2>9
  <2>11. QED  BY <2>2, <2>10
<1>3. B \notin Bad
  BY <1>2
<1>4. QED  BY <1>3

-----------------------------------------------------------------------------
(* The searches of a set, as sum(countMerge(search_count)) adds them up.     *)

LEMMA SearchesIsASum ==
    ASSUME NEW T, IsFiniteSet(T)
    PROVE  \E h : Summing(h, counted, SUBSET T) /\ Searches(T) = h[T]
<1> DEFINE h == CHOOSE g : g = [s \in SUBSET T |->
                                  IF s = {} THEN 0
                                  ELSE counted[CHOOSE x \in s : TRUE]
                                       + g[s \ {CHOOSE x \in s : TRUE}]]
<1>1. Searches(T) = h[T]
  BY DEF Searches, MapThenSumSet, MapThenFoldSet
<1>2. \E g : Summing(g, counted, SUBSET T)
  BY SummingExists
<1>3. Summing(h, counted, SUBSET T)
  BY <1>2 DEF Summing, Chosen
<1>4. QED  BY <1>1, <1>3

LEMMA SearchesAddUp ==
    ASSUME IInv
    PROVE  /\ Searches({}) = 0
           /\ \A T \in SUBSET BagToSet(counted) : Searches(T) \in Nat
           /\ \A A, B \in SUBSET BagToSet(counted) :
                 A \cap B = {} => Searches(A \cup B) = Searches(A) + Searches(B)
<1>1. PICK S, f : S = BagToSet(counted) /\ f = counted
  OBVIOUS
<1>2. IsFiniteSet(S) /\ \A x \in S : f[x] \in Nat
  BY <1>1 DEF IInv, TypeOK, IsABag, BagToSet
<1>3. PICK g : Summing(g, f, SUBSET S)
  BY <1>2, SummingExists
<1>4. ASSUME NEW T \in SUBSET S PROVE Searches(T) = g[T]
  <2>1. IsFiniteSet(T)
    BY <1>2, FS_Subset
  <2>2. PICK h : Summing(h, f, SUBSET T) /\ Searches(T) = h[T]
    BY <1>1, <2>1, SearchesIsASum
  <2>3. \A U \in SUBSET S : \A k : Summing(k, f, SUBSET U) => k[U] = g[U]
    BY <1>2, <1>3, SumsAgree
  <2>4. QED  BY <2>2, <2>3
<1>5. g[{}] = 0 /\ \A s \in SUBSET S : g[s] \in Nat
  BY <1>2, <1>3, SumsAreNatural
<1>6. ASSUME NEW A \in SUBSET S, NEW B \in SUBSET S, A \cap B = {}
      PROVE  Searches(A \cup B) = Searches(A) + Searches(B)
  <2>1. A \cup B \in SUBSET S
    OBVIOUS
  <2>2. Additive(g, S)
    BY <1>2, <1>3, SumOfUnion
  <2>3. g[A \cup B] = g[A] + g[B]
    BY <1>6, <2>2 DEF Additive
  <2>4. QED  BY <1>4, <2>1, <2>3
<1>7. {} \in SUBSET S
  OBVIOUS
<1>8. QED  BY <1>1, <1>4, <1>5, <1>6, <1>7
-----------------------------------------------------------------------------
(* The order of a chart.                                                     *)

\* The names of a chart are ordered by their searches, and by name among equals.
Ordered(chart, S) ==
    LET N == Names(chart, S)
    IN /\ \A n \in N : ~RanksBefore(chart, S, n, n)
       /\ \A m, n \in N : m = n \/ RanksBefore(chart, S, m, n) \/ RanksBefore(chart, S, n, m)
       /\ \A l, m, n \in N : RanksBefore(chart, S, l, m) /\ RanksBefore(chart, S, m, n)
                                => RanksBefore(chart, S, l, n)

LEMMA NamesAreOrdered ==
    ASSUME IInv, NEW chart \in Chart, NEW S \in SUBSET BagToSet(counted)
    PROVE  /\ \A n \in Names(chart, S) : ~NameBefore(chart, n, n)
           /\ \A m, n \in Names(chart, S) :
                 m = n \/ NameBefore(chart, m, n) \/ NameBefore(chart, n, m)
           /\ \A l, m, n \in Names(chart, S) :
                 NameBefore(chart, l, m) /\ NameBefore(chart, m, n) => NameBefore(chart, l, n)
<1>1. CASE chart = "artists"
  <2>1. \A n \in Names(chart, S) : n \in Nat
    BY <1>1, CountedSearch DEF Names, NameOf
  <2>2. \A m, n : NameBefore(chart, m, n) <=> m < n
    BY <1>1 DEF NameBefore
  <2>3. QED  BY <2>1, <2>2
<1>2. CASE chart # "artists"
  <2>1. ASSUME NEW n \in Names(chart, S)
        PROVE  n[1] \in Nat /\ n[2] \in Nat /\ n = <<n[1], n[2]>>
    <3>1. PICK s \in S : n = s.song
      BY <1>2 DEF Names, NameOf
    <3>2. n \in Songs
      BY <3>1, CountedSearch
    <3>3. QED  BY <3>2, ChartsAssumption
  <2>2. \A m, n : NameBefore(chart, m, n) <=> m[1] < n[1] \/ (m[1] = n[1] /\ m[2] < n[2])
    BY <1>2 DEF NameBefore
  <2>3. \A n \in Names(chart, S) : ~NameBefore(chart, n, n)
    BY <2>1, <2>2
  <2>4. ASSUME NEW m \in Names(chart, S), NEW n \in Names(chart, S), m # n
        PROVE  NameBefore(chart, m, n) \/ NameBefore(chart, n, m)
    <3>1. m[1] # n[1] \/ m[2] # n[2]
      BY <2>1, <2>4
    <3>2. m[1] \in Nat /\ m[2] \in Nat /\ n[1] \in Nat /\ n[2] \in Nat
      BY <2>1
    <3>3. QED  BY <2>2, <3>1, <3>2
  <2>5. ASSUME NEW l \in Names(chart, S), NEW m \in Names(chart, S), NEW n \in Names(chart, S),
               NameBefore(chart, l, m), NameBefore(chart, m, n)
        PROVE  NameBefore(chart, l, n)
    <3>1. /\ l[1] \in Nat /\ l[2] \in Nat /\ m[1] \in Nat /\ m[2] \in Nat
          /\ n[1] \in Nat /\ n[2] \in Nat
      BY <2>1
    <3>2. QED  BY <2>2, <2>5, <3>1
  <2>6. QED  BY <2>3, <2>4, <2>5
<1>3. QED  BY <1>1, <1>2

LEMMA ChartsAreOrdered ==
    ASSUME IInv, NEW chart \in Chart, NEW S \in SUBSET BagToSet(counted)
    PROVE  Ordered(chart, S)
<1> DEFINE N == Names(chart, S)
           Sum(n) == Searches(About(chart, S, n))
<1>1. ASSUME NEW n PROVE Sum(n) \in Nat
  <2>1. About(chart, S, n) \in SUBSET BagToSet(counted)
    BY DEF About
  <2>2. QED  BY <2>1, SearchesAddUp
<1>2. /\ \A n \in N : ~NameBefore(chart, n, n)
      /\ \A m, n \in N : m = n \/ NameBefore(chart, m, n) \/ NameBefore(chart, n, m)
      /\ \A l, m, n \in N :
            NameBefore(chart, l, m) /\ NameBefore(chart, m, n) => NameBefore(chart, l, n)
  BY NamesAreOrdered
<1>3. \A m, n : RanksBefore(chart, S, m, n) <=>
                   Sum(m) > Sum(n) \/ (Sum(m) = Sum(n) /\ NameBefore(chart, m, n))
  BY DEF RanksBefore
<1> HIDE DEF N, Sum
<1>4. \A n \in N : ~RanksBefore(chart, S, n, n)
  BY <1>1, <1>2, <1>3
<1>5. ASSUME NEW m \in N, NEW n \in N, m # n
      PROVE  RanksBefore(chart, S, m, n) \/ RanksBefore(chart, S, n, m)
  <2>1. Sum(m) \in Nat /\ Sum(n) \in Nat
    BY <1>1
  <2>2. NameBefore(chart, m, n) \/ NameBefore(chart, n, m)
    BY <1>2, <1>5
  <2>3. QED  BY <1>3, <2>1, <2>2
<1>6. ASSUME NEW l \in N, NEW m \in N, NEW n \in N,
             RanksBefore(chart, S, l, m), RanksBefore(chart, S, m, n)
      PROVE  RanksBefore(chart, S, l, n)
  <2>1. Sum(l) \in Nat /\ Sum(m) \in Nat /\ Sum(n) \in Nat
    BY <1>1
  <2>2. NameBefore(chart, l, m) /\ NameBefore(chart, m, n) => NameBefore(chart, l, n)
    BY <1>2
  <2>3. QED  BY <1>3, <1>6, <2>1, <2>2
<1>7. QED  BY <1>4, <1>5, <1>6 DEF Ordered, N

\* Positions number the names of a chart from one on, in their order.
LEMMA PositionsNumberTheNames ==
    ASSUME NEW chart, NEW S, IsFiniteSet(S), Ordered(chart, S)
    PROVE  LET N == Names(chart, S)
           IN /\ Cardinality(N) \in Nat
              /\ \A n \in N : Position(chart, S, n) \in 1..Cardinality(N)
              /\ \A m, n \in N : RanksBefore(chart, S, m, n)
                                    => Position(chart, S, m) < Position(chart, S, n)
              /\ \A m, n \in N : Position(chart, S, m) = Position(chart, S, n) => m = n
<1> DEFINE N == Names(chart, S)
           Before(n) == {m \in N : RanksBefore(chart, S, m, n)}
<1>1. IsFiniteSet(N) /\ Cardinality(N) \in Nat
  BY NamesAreFinite, FS_CardinalityType
<1>2. \A n : Position(chart, S, n) = 1 + Cardinality(Before(n))
  BY DEF Position
<1>3. \A n : IsFiniteSet(Before(n)) /\ Cardinality(Before(n)) \in Nat
  <2> SUFFICES ASSUME NEW n PROVE IsFiniteSet(Before(n)) /\ Cardinality(Before(n)) \in Nat
    OBVIOUS
  <2>1. Before(n) \in SUBSET N
    OBVIOUS
  <2>2. IsFiniteSet(Before(n))
    BY <1>1, <2>1, FS_Subset
  <2>3. QED  BY <2>2, FS_CardinalityType
<1>4. ASSUME NEW n \in N PROVE Position(chart, S, n) \in 1..Cardinality(N)
  <2>1. Before(n) \in SUBSET (N \ {n})
    BY DEF Ordered
  <2>2. IsFiniteSet(N \ {n}) /\ Cardinality(N \ {n}) = Cardinality(N) - 1
    BY <1>1, FS_RemoveElement
  <2>3. Cardinality(Before(n)) <= Cardinality(N) - 1
    BY <2>1, <2>2, FS_Subset
  <2> DEFINE k == Cardinality(Before(n))
             c == Cardinality(N)
  <2>4. k \in Nat /\ c \in Nat /\ k <= c - 1 /\ Position(chart, S, n) = 1 + k
    BY <1>1, <1>2, <1>3, <2>3
  <2> HIDE DEF k
  <2>5. Position(chart, S, n) \in 1..c
    <3> HIDE DEF c
    <3>1. QED  BY <2>4
  <2>6. QED  BY <2>5
<1>5. ASSUME NEW m \in N, NEW n \in N, RanksBefore(chart, S, m, n)
      PROVE  Position(chart, S, m) < Position(chart, S, n)
  <2>1. Before(m) \in SUBSET (Before(n) \ {m})
    BY <1>5 DEF Ordered
  <2>2. m \in Before(n)
    BY <1>5
  <2>3. IsFiniteSet(Before(n) \ {m}) /\ Cardinality(Before(n) \ {m}) = Cardinality(Before(n)) - 1
    <3>1. IsFiniteSet(Before(n))
      BY <1>3
    <3> HIDE DEF Before
    <3>2. QED  BY <2>2, <3>1, FS_RemoveElement
  <2>4. Cardinality(Before(m)) <= Cardinality(Before(n)) - 1
    BY <2>1, <2>3, FS_Subset
  <2> HIDE DEF Before, N
  <2>5. QED  BY <1>2, <1>3, <2>4
<1>6. ASSUME NEW m \in N, NEW n \in N, Position(chart, S, m) = Position(chart, S, n)
      PROVE  m = n
  <2>1. Position(chart, S, m) \in Int
    BY <1>1, <1>4
  <2>2. ~RanksBefore(chart, S, m, n) /\ ~RanksBefore(chart, S, n, m)
    BY <1>5, <1>6, <2>1
  <2>3. QED  BY <2>2 DEF Ordered
<1>7. QED  BY <1>1, <1>4, <1>5, <1>6

\* Each position is on a page, and not on a later one than its number.
LEMMA PageOfPosition ==
    ASSUME NEW size \in Nat, size >= 1, NEW p \in Nat, p >= 1
    PROVE  \E k \in 0..p : k * size < p /\ p <= k * size + size
<1> DEFINE Enough == {k \in Nat : p <= k * size + size}
<1>1. p \in Enough
  <2>1. p <= p * size
    OBVIOUS
  <2>2. QED  BY <2>1
<1>2. PICK k \in Enough : \A j \in Enough : k <= j
  BY <1>1, SmallestExists
<1>3. k \in Nat /\ p <= k * size + size /\ k <= p
  BY <1>1, <1>2
<1>4. k * size < p
  <2>1. CASE k = 0
    BY <2>1
  <2>2. CASE k # 0
    <3>1. k - 1 \in Nat /\ k - 1 \notin Enough
      BY <1>2, <1>3, <2>2
    <3>2. ~(p <= (k - 1) * size + size)
      BY <3>1
    <3>3. (k - 1) * size + size = k * size /\ k * size \in Nat
      BY <1>3
    <3>4. QED  BY <3>2, <3>3
  <2>3. QED  BY <2>1, <2>2
<1>5. QED  BY <1>3, <1>4

\* The pages of a chart, of any size, show every row, no more rows than their size,
\* and on no page a row with fewer searches than one that comes later.
PagesShow(chart, w, page_size) ==
    LET entries == ReadChart(chart, w)
    IN /\ \A e \in entries :
             \E k \in 0..Cardinality(entries) : e \in Page(chart, w, page_size, k * page_size)
       /\ \A k \in 0..Cardinality(entries) :
             LET page == Page(chart, w, page_size, k * page_size)
             IN /\ Cardinality(page) <= page_size
                /\ \A e \in page, f \in entries \ page :
                      f.position > e.position => f.searches <= e.searches

LEMMA PagesOfAnySize ==
    ASSUME IInv, NEW chart \in Chart, NEW w, NEW page_size \in Nat, page_size >= 1
    PROVE  PagesShow(chart, w, page_size)
<1> DEFINE S == Within(chart, w.current_start, w.current_end)
           N == Names(chart, S)
           entries == ReadChart(chart, w)
<1>1. IsFiniteSet(S) /\ S \in SUBSET BagToSet(counted)
  BY WithinIsFinite
<1>2. Ordered(chart, S)
  BY <1>1, ChartsAreOrdered
<1> HIDE DEF S
<1>3. /\ IsFiniteSet(N) /\ Cardinality(N) \in Nat
      /\ \A n \in N : Position(chart, S, n) \in 1..Cardinality(N)
      /\ \A m, n \in N : RanksBefore(chart, S, m, n)
                            => Position(chart, S, m) < Position(chart, S, n)
      /\ \A m, n \in N : Position(chart, S, m) = Position(chart, S, n) => m = n
  BY <1>1, <1>2, NamesAreFinite, PositionsNumberTheNames
<1>4. \A e \in entries : /\ e.name \in N /\ e = Entry(chart, w, e.name)
                         /\ e.position = Position(chart, S, e.name)
                         /\ e.searches = Searches(About(chart, S, e.name))
  BY RowsAreEntries, EntryFields DEF S
<1>5. \A n \in N : Entry(chart, w, n) \in entries /\ Entry(chart, w, n).name = n
  BY EntryFields DEF ReadChart, S
<1> HIDE DEF N, entries
<1>6. IsFiniteSet(entries) /\ Cardinality(entries) \in Nat /\ Cardinality(N) <= Cardinality(entries)
  <2> DEFINE f == [n \in N |-> Entry(chart, w, n)]
  <2>1. f \in Surjection(N, entries)
    BY <1>4, <1>5 DEF Surjection
  <2>2. f \in Injection(N, entries)
    BY <1>5 DEF Injection, IsInjective
  <2> HIDE DEF f
  <2>3. IsFiniteSet(entries)
    BY <1>3, <2>1, FS_Surjection
  <2>4. QED  BY <2>2, <2>3, FS_Injection, FS_CardinalityType
<1>7. ASSUME NEW e \in entries
      PROVE  \E k \in 0..Cardinality(entries) : e \in Page(chart, w, page_size, k * page_size)
  <2>1. e.position \in 1..Cardinality(N)
    BY <1>3, <1>4
  <2>2. e.position \in Nat /\ e.position >= 1 /\ e.position <= Cardinality(entries)
    BY <1>3, <1>6, <2>1
  <2>3. PICK k \in 0..e.position :
           k * page_size < e.position /\ e.position <= k * page_size + page_size
    BY <2>2, PageOfPosition
  <2>4. k \in 0..Cardinality(entries)
    BY <1>6, <2>2
  <2>5. e \in Page(chart, w, page_size, k * page_size)
    BY <2>3 DEF Page, entries
  <2>6. QED  BY <2>4, <2>5
<1>8. ASSUME NEW k \in 0..Cardinality(entries)
      PROVE  Cardinality(Page(chart, w, page_size, k * page_size)) <= page_size
  <2> DEFINE page == Page(chart, w, page_size, k * page_size)
             slots == k * page_size + 1..k * page_size + page_size
             f == [e \in page |-> e.position]
  <2>1. k * page_size \in Nat
    BY <1>6
  <2>2. ASSUME NEW e \in page
        PROVE  e \in entries /\ e.position \in slots
    <3>1. /\ e \in entries
          /\ k * page_size < e.position /\ e.position <= k * page_size + page_size
      BY DEF Page, entries
    <3>2. e.position \in Int
      BY <1>3, <1>4, <3>1
    <3>3. QED  BY <2>1, <3>1, <3>2
  <2>3. \A e, d \in page : e.position = d.position => e = d
    BY <1>3, <1>4, <2>2
  <2> HIDE DEF page
  <2>4. f \in Injection(page, slots)
    <3> HIDE DEF slots
    <3>1. f \in [page -> slots]
      BY <2>2
    <3>2. QED  BY <2>3, <3>1 DEF Injection, IsInjective
  <2>5. IsFiniteSet(slots) /\ Cardinality(slots) = page_size
    <3>1. k * page_size + 1 \in Int /\ k * page_size + page_size \in Int
          /\ ~(k * page_size + 1 > k * page_size + page_size)
          /\ (k * page_size + page_size) - (k * page_size + 1) + 1 = page_size
      BY <2>1
    <3>2. QED  BY <3>1, FS_Interval
  <2> HIDE DEF f, slots
  <2>6. Cardinality(page) <= Cardinality(slots)
    BY <2>4, <2>5, FS_Injection
  <2>7. QED  BY <2>5, <2>6 DEF page
<1>9. ASSUME NEW e \in entries, NEW f \in entries, f.position > e.position
      PROVE  f.searches <= e.searches
  <2>1. e.searches \in Nat /\ f.searches \in Nat
    <3>1. \A n : About(chart, S, n) \in SUBSET BagToSet(counted)
      BY <1>1 DEF About
    <3>2. QED  BY <1>4, <3>1, SearchesAddUp
  <2>2. e.position \in Int /\ f.position \in Int
    BY <1>3, <1>4
  <2>3. ~(f.searches > e.searches)
    <3>1. f.searches > e.searches => RanksBefore(chart, S, f.name, e.name)
      BY <1>4 DEF RanksBefore
    <3>2. RanksBefore(chart, S, f.name, e.name) => f.position < e.position
      BY <1>3, <1>4
    <3>3. QED  BY <1>9, <2>2, <3>1, <3>2
  <2>4. QED  BY <2>1, <2>3
<1>10. \A k : Page(chart, w, page_size, k * page_size) \subseteq entries
  BY DEF Page, entries
<1>11. QED  BY <1>7, <1>8, <1>9, <1>10 DEF PagesShow, entries

\* LIMIT and OFFSET over row_number(): reading page by page shows every name once,
\* in descending order of searches, however many names are tied.
THEOREM PagesShowTheChart == Spec => []PagesMakeTheChart
<1>1. IInv => PagesMakeTheChart
  <2> SUFFICES ASSUME IInv, NEW chart \in Chart, NEW period \in Period,
                      NEW page_size \in 1..2
               PROVE  PagesShow(chart, ResolvePeriod(period, today), page_size)
    BY DEF PagesMakeTheChart, PagesShow
  <2>1. page_size \in Nat /\ page_size >= 1
    OBVIOUS
  <2>2. QED  BY <2>1, PagesOfAnySize
<1>2. QED  BY <1>1, InvariantHolds, PTL
-----------------------------------------------------------------------------
(* The grains.                                                               *)

\* The rows of a history, over some of its days.
DayRow(S, d) == [day |-> d, searches |-> Searches({s \in S : s.day = d}),
                 listeners |-> ListenersOrNone({s \in S : s.day = d})]
DayRows(S, E) == {DayRow(S, d) : d \in E}
OfDays(S, E) == {s \in S : s.day \in E}
SearchesOfRows(H) == MapThenSumSet(LAMBDA p : p.searches, H)

LEMMA RowsAreSummed ==
    ASSUME NEW H, IsFiniteSet(H), NEW f, \A p \in H : f[p] = p.searches
    PROVE  \E h : Summing(h, f, SUBSET H) /\ SearchesOfRows(H) = h[H]
<1> DEFINE Value(g, s) == IF s = {} THEN 0
                          ELSE (CHOOSE x \in s : TRUE).searches
                               + g[s \ {CHOOSE x \in s : TRUE}]
           h == CHOOSE g : g = [s \in SUBSET H |-> Value(g, s)]
<1>1. SearchesOfRows(H) = h[H]
  BY DEF SearchesOfRows, MapThenSumSet, MapThenFoldSet
<1>2. ASSUME NEW g, NEW s \in SUBSET H
      PROVE  Value(g, s) = IF s = {} THEN 0 ELSE f[Chosen(s)] + g[s \ {Chosen(s)}]
  <2>1. CASE s # {}
    <3>1. Chosen(s) \in H
      BY <2>1 DEF Chosen
    <3>2. f[Chosen(s)] = Chosen(s).searches
      BY <3>1
    <3>3. QED  BY <3>2 DEF Chosen
  <2>2. QED  BY <2>1
<1>3. PICK g : Summing(g, f, SUBSET H)
  BY SummingExists
<1>4. g = [s \in SUBSET H |-> Value(g, s)]
  <2> HIDE DEF Value
  <2>1. g = [s \in SUBSET H |-> IF s = {} THEN 0 ELSE f[Chosen(s)] + g[s \ {Chosen(s)}]]
    BY <1>3 DEF Summing
  <2> HIDE DEF h
  <2>2. \A s \in SUBSET H : Value(g, s) = IF s = {} THEN 0
                                         ELSE f[Chosen(s)] + g[s \ {Chosen(s)}]
    BY ONLY <1>2
  <2>3. QED  BY ONLY <2>1, <2>2
<1>5. h = [s \in SUBSET H |-> Value(h, s)]
  <2> HIDE DEF Value
  <2>1. QED  BY <1>4
<1> HIDE DEF h
<1>6. h = [s \in SUBSET H |-> IF s = {} THEN 0 ELSE f[Chosen(s)] + h[s \ {Chosen(s)}]]
  <2> HIDE DEF Value
  <2>1. QED  BY <1>2, <1>5
<1>7. QED  BY <1>1, <1>6 DEF Summing

\* The rows of a history add up to the searches that it is about.
LEMMA HistoryAddsUp ==
    ASSUME IInv, NEW S \in SUBSET BagToSet(counted)
    PROVE  SearchesOfRows(DayRows(S, {s.day : s \in S})) = Searches(S)
<1> DEFINE D == {s.day : s \in S}
           H == DayRows(S, D)
<1>1. IsFiniteSet(D) /\ IsFiniteSet(H)
  <2>1. IsFiniteSet(S)
    BY FS_Subset DEF IInv
  <2> DEFINE f == [s \in S |-> s.day]
             k == [d \in D |-> DayRow(S, d)]
  <2>2. f \in Surjection(S, D) /\ k \in Surjection(D, H)
    BY DEF Surjection, DayRows
  <2>3. QED  BY <2>1, <2>2, FS_Surjection
<1> DEFINE f == [p \in H |-> p.searches]
<1>2. PICK h : Summing(h, f, SUBSET H) /\ SearchesOfRows(H) = h[H]
  BY <1>1, RowsAreSummed
<1>3. \A T \in SUBSET S : T \in SUBSET BagToSet(counted) /\ Searches(T) \in Nat
  BY SearchesAddUp
<1>4. \A d : DayRow(S, d).day = d /\ DayRow(S, d).searches = Searches(OfDays(S, {d}))
  <2> SUFFICES ASSUME NEW d
               PROVE  DayRow(S, d).day = d /\ DayRow(S, d).searches = Searches(OfDays(S, {d}))
    OBVIOUS
  <2>1. OfDays(S, {d}) = {s \in S : s.day = d}
    BY DEF OfDays
  <2>2. QED  BY <2>1 DEF DayRow
<1>5. \A E : OfDays(S, E) \in SUBSET S
  BY DEF OfDays
<1>6. \A p \in H : f[p] \in Nat
  <2> SUFFICES ASSUME NEW p \in H PROVE f[p] \in Nat
    OBVIOUS
  <2>1. PICK d \in D : p = DayRow(S, d)
    BY DEF DayRows
  <2>2. f[p] = Searches(OfDays(S, {d}))
    BY <1>4, <2>1
  <2> HIDE DEF f, H, D
  <2>3. QED  BY <1>3, <1>5, <2>2
<1>7. \A p \in H : f[p] = p.searches
  OBVIOUS
<1> HIDE DEF f, H, D
<1>8. h[{}] = 0 /\ \A U \in SUBSET H : \A p \in U : h[U] = f[p] + h[U \ {p}]
  BY <1>1, <1>2, <1>6, SumsAreNatural, AnyOrder
<1> DEFINE Bad == {E \in SUBSET D : h[DayRows(S, E)] # Searches(OfDays(S, E))}
<1>9. ASSUME Bad # {} PROVE FALSE
  <2>1. PICK E \in Bad : \A d \in E : E \ {d} \notin Bad
    BY <1>1, <1>9, SmallestSubset
  <2>2. E # {}
    <3>1. DayRows(S, {}) = {} /\ OfDays(S, {}) = {}
      BY DEF DayRows, OfDays
    <3>2. h[DayRows(S, {})] = Searches(OfDays(S, {}))
      BY <1>8, <3>1, SearchesAddUp
    <3>3. QED  BY <2>1, <3>2
  <2>3. PICK d \in E : TRUE
    BY <2>2
  <2> DEFINE F == E \ {d}
  <2>4. E \in SUBSET D /\ F \in SUBSET D /\ F \notin Bad
    BY <2>1, <2>3
  <2>5. h[DayRows(S, F)] = Searches(OfDays(S, F))
    BY <2>4
  <2>6. /\ DayRows(S, E) \in SUBSET H /\ DayRow(S, d) \in DayRows(S, E)
        /\ DayRows(S, E) \ {DayRow(S, d)} = DayRows(S, F)
    BY <1>4, <2>3, <2>4 DEF DayRows, H
  <2>7. h[DayRows(S, E)] = f[DayRow(S, d)] + h[DayRows(S, F)]
    BY <1>8, <2>6
  <2>8. f[DayRow(S, d)] = Searches(OfDays(S, {d}))
    BY <1>4, <1>7, <2>6
  <2>9. OfDays(S, E) = OfDays(S, {d}) \cup OfDays(S, F) /\ OfDays(S, {d}) \cap OfDays(S, F) = {}
    BY <2>3 DEF OfDays
  <2>10. Searches(OfDays(S, E)) = Searches(OfDays(S, {d})) + Searches(OfDays(S, F))
    <3>1. OfDays(S, {d}) \in SUBSET BagToSet(counted) /\ OfDays(S, F) \in SUBSET BagToSet(counted)
      BY <1>3, <1>5
    <3>2. QED  BY <2>9, <3>1, SearchesAddUp
  <2>11. h[DayRows(S, E)] = Searches(OfDays(S, E))
    BY <2>5, <2>7, <2>8, <2>10
  <2>12. QED  BY <2>1, <2>11
<1>10. h[DayRows(S, D)] = Searches(OfDays(S, D))
  BY <1>9
<1>11. OfDays(S, D) = S
  BY DEF OfDays, D
<1>12. QED  BY <1>2, <1>10, <1>11 DEF H, D

\* A day has no more listeners than the days around it together.
LEMMA DayOfTheWindow ==
    ASSUME NEW S, IsFiniteSet(S), NEW T \in SUBSET S, T # {}, ListenersOrNone(S) # Withheld
    PROVE  ListenersOrNone(T) # Withheld /\ ListenersOrNone(T) <= ListenersOrNone(S)
<1> DEFINE Heard(U) == {s.person : s \in U}
<1>1. S # {} /\ IsFiniteSet(T)
  BY FS_Subset
<1>2. /\ ~\E s, x \in S : s.key_epoch # x.key_epoch
      /\ ListenersOrNone(S) = Cardinality(Heard(S))
  BY <1>1, ListenersOfOneEpoch
<1>3. ~\E s, x \in T : s.key_epoch # x.key_epoch
  BY <1>2
<1>4. ListenersOrNone(T) = Cardinality(Heard(T))
  BY <1>1, <1>3, ListenersOfOneEpoch
<1>5. IsFiniteSet(Heard(S))
  <2> DEFINE f == [s \in S |-> s.person]
  <2>1. f \in Surjection(S, Heard(S))
    BY DEF Surjection
  <2>2. QED  BY <2>1, FS_Surjection
<1>6. Heard(T) \in SUBSET Heard(S)
  OBVIOUS
<1> HIDE DEF Heard
<1>7. Cardinality(Heard(T)) <= Cardinality(Heard(S)) /\ Cardinality(Heard(T)) \in Nat
  BY <1>5, <1>6, FS_Subset, FS_CardinalityType
<1>8. QED  BY <1>2, <1>4, <1>7 DEF Withheld

\* Nothing is counted after today, so the queries that end with today see the
\* whole window.
LEMMA UntilToday ==
    ASSUME IInv, NEW chart, NEW period \in Period
    PROVE  LET w == ResolvePeriod(period, today)
           IN Within(chart, w.current_start, today + 1) =
                 Within(chart, w.current_start, w.current_end)
<1> DEFINE w == ResolvePeriod(period, today)
<1>1. today \in Nat /\ w.current_end \in Int /\ today < w.current_end
  BY WindowOfToday
<1> HIDE DEF w
<1>2. \A s \in BagToSet(counted) : s.day < today + 1 /\ s.day < w.current_end
  BY <1>1, CountedSearch
<1>3. Within(chart, w.current_start, today + 1) = Within(chart, w.current_start, w.current_end)
  BY <1>2 DEF Within
<1>4. QED  BY <1>3 DEF w

\* The row of a track in the chart and among the top tracks of its artist.
TrackRow(S, n) == [name |-> n, searches |-> Searches(About("tracks", S, n)),
                   listeners |-> ListenersOrNone(About("tracks", S, n))]

LEMMA TopTracksAreTheChart ==
    ASSUME IInv, NEW period \in Period, NEW artist
    PROVE  LET w == ResolvePeriod(period, today)
           IN {[name |-> x.name, searches |-> x.searches, listeners |-> x.listeners] :
                  x \in {y \in ReadChart("tracks", w) : y.name[1] = artist}}
              = ReadArtistTopTracks(artist, w.current_start)
<1> DEFINE w == ResolvePeriod(period, today)
           W == Within("tracks", w.current_start, w.current_end)
           S == {s \in W : s.song[1] = artist}
           chart == {y \in ReadChart("tracks", w) : y.name[1] = artist}
<1>1. Within("tracks", w.current_start, today + 1) = W
  BY UntilToday
<1> HIDE DEF w
<1>2. ReadArtistTopTracks(artist, w.current_start) = {TrackRow(S, n) : n \in Names("tracks", S)}
  BY <1>1 DEF ReadArtistTopTracks, TrackRow
<1>3. \A n : n \in Names("tracks", S) <=> n \in Names("tracks", W) /\ n[1] = artist
  BY DEF Names, NameOf
<1>4. \A n : n[1] = artist => About("tracks", S, n) = About("tracks", W, n)
  BY DEF About, NameOf
<1> HIDE DEF S
<1>5. ASSUME NEW x \in chart
      PROVE  /\ x.name \in Names("tracks", S)
             /\ [name |-> x.name, searches |-> x.searches, listeners |-> x.listeners]
                   = TrackRow(S, x.name)
  <2>1. x \in ReadChart("tracks", w) /\ x.name[1] = artist
    OBVIOUS
  <2>2. x.name \in Names("tracks", W) /\ x = Entry("tracks", w, x.name)
    BY <2>1, RowsAreEntries
  <2>3. /\ x.searches = Searches(About("tracks", W, x.name))
        /\ x.listeners = ListenersOrNone(About("tracks", W, x.name))
    BY <2>2, EntryFields
  <2>4. QED  BY <1>3, <1>4, <2>1, <2>2, <2>3 DEF TrackRow
<1>6. ASSUME NEW n \in Names("tracks", S)
      PROVE  \E x \in chart : x.name = n
  <2>1. Entry("tracks", w, n) \in ReadChart("tracks", w) /\ Entry("tracks", w, n).name = n
    BY <1>3, EntryFields DEF ReadChart
  <2>2. QED  BY <1>3, <2>1
<1> HIDE DEF chart
<1>7. {[name |-> x.name, searches |-> x.searches, listeners |-> x.listeners] : x \in chart}
         = {TrackRow(S, n) : n \in Names("tracks", S)}
  <2> DEFINE Row(x) == [name |-> x.name, searches |-> x.searches, listeners |-> x.listeners]
  <2>1. \A x \in chart : x.name \in Names("tracks", S) /\ Row(x) = TrackRow(S, x.name)
    BY <1>5
  <2> HIDE DEF Row
  <2>2. {Row(x) : x \in chart} = {TrackRow(S, n) : n \in Names("tracks", S)}
    BY <1>6, <2>1
  <2>3. QED  BY <2>2 DEF Row
<1>8. QED  BY <1>2, <1>7 DEF chart, w

\* repository.py: the history of an artist, its top tracks and the charts add up the
\* same hourly aggregates, so their numbers agree.
THEOREM GrainsAgreeAlways == Spec => []GrainsAgree
<1>1. ASSUME IInv, NEW period \in Period,
             NEW e \in ReadChart("artists", ResolvePeriod(period, today))
      PROVE  LET w == ResolvePeriod(period, today)
                 history == ReadArtistTimeSeries(e.name, w.current_start)
             IN /\ MapThenSumSet(LAMBDA p : p.searches, history) = e.searches
                /\ \A p \in history : e.listeners # Withheld =>
                       p.listeners # Withheld /\ p.listeners <= e.listeners
                /\ \A p \in history : p.day = today =>
                       \E x \in ReadChart("artists", ResolvePeriod("day", today)) :
                           x.name = e.name /\ x.listeners = p.listeners
  <2> DEFINE w == ResolvePeriod(period, today)
             n == e.name
             W == Within("artists", w.current_start, w.current_end)
             S == About("artists", W, n)
             D == {s.day : s \in S}
             history == ReadArtistTimeSeries(n, w.current_start)
  <2>1. Within("artists", w.current_start, today + 1) = W
    BY <1>1, UntilToday
  <2>2. n \in Names("artists", W) /\ e = Entry("artists", w, n)
    BY <1>1, RowsAreEntries
  <2>3. /\ w.current_start \in Int /\ w.current_end \in Int /\ today \in Nat
        /\ w.current_start <= today /\ today < w.current_end
    BY <1>1, WindowOfToday
  <2> HIDE DEF w
  <2>4. e.searches = Searches(S) /\ e.listeners = ListenersOrNone(S)
    BY <2>2, EntryFields
  <2>5. IsFiniteSet(W) /\ W \in SUBSET BagToSet(counted)
    BY <1>1, WithinIsFinite
  <2>6. S \in SUBSET W /\ IsFiniteSet(S) /\ S \in SUBSET BagToSet(counted)
    <3>1. S \in SUBSET W
      BY DEF About
    <3>2. QED  BY <2>5, <3>1, FS_Subset
  <2>7. history = DayRows(S, D)
    BY <2>1 DEF ReadArtistTimeSeries, DayRows, DayRow
  <2> HIDE DEF n, W, S, history
  <2>8. SearchesOfRows(history) = e.searches
    BY <1>1, <2>4, <2>6, <2>7, HistoryAddsUp
  <2>9. ASSUME NEW p \in history
        PROVE  \E d \in D : /\ p.day = d /\ {s \in S : s.day = d} # {}
                            /\ p.listeners = ListenersOrNone({s \in S : s.day = d})
    <3>1. PICK d \in D : p = DayRow(S, d)
      BY <2>7 DEF DayRows
    <3>2. QED  BY <3>1 DEF DayRow
  <2>10. ASSUME NEW p \in history, e.listeners # Withheld
         PROVE  p.listeners # Withheld /\ p.listeners <= e.listeners
    <3>1. PICK d \in D : /\ {s \in S : s.day = d} # {}
                         /\ p.listeners = ListenersOrNone({s \in S : s.day = d})
      BY <2>9
    <3> DEFINE T == {s \in S : s.day = d}
    <3>2. T \in SUBSET S
      OBVIOUS
    <3>3. T # {} /\ p.listeners = ListenersOrNone(T)
      BY <3>1
    <3> HIDE DEF T
    <3>4. ListenersOrNone(T) # Withheld /\ ListenersOrNone(T) <= ListenersOrNone(S)
      BY <2>4, <2>6, <2>10, <3>2, <3>3, DayOfTheWindow
    <3>5. QED  BY <2>4, <3>3, <3>4
  <2>11. ASSUME NEW p \in history, p.day = today
         PROVE  \E x \in ReadChart("artists", ResolvePeriod("day", today)) :
                    x.name = n /\ x.listeners = p.listeners
    <3> DEFINE v == ResolvePeriod("day", today)
               V == Within("artists", v.current_start, v.current_end)
               T == {s \in S : s.day = today}
    <3>1. v.current_start = today /\ v.current_end = today + 1
      BY DEF ResolvePeriod, DaysIn
    <3>2. T # {} /\ p.listeners = ListenersOrNone(T)
      BY <2>9, <2>11
    <3> HIDE DEF v
    <3>3. \A s \in BagToSet(counted) : s.day \in Nat
      BY <1>1, CountedSearch
    <3>4. About("artists", V, n) = T
      <4>1. \A s \in BagToSet(counted) :
               s.day = today <=> v.current_start <= s.day /\ s.day < v.current_end
        BY <2>3, <3>1, <3>3
      <4>2. \A s \in BagToSet(counted) : s.day = today =>
               w.current_start <= s.day /\ s.day < w.current_end
        BY <2>3
      <4>3. QED  BY <4>1, <4>2 DEF About, Within, S, W
    <3>5. n \in Names("artists", V)
      BY <3>2, <3>4 DEF About, Names
    <3>6. Entry("artists", v, n) \in ReadChart("artists", v)
      BY <3>5 DEF ReadChart
    <3>7. Entry("artists", v, n).name = n /\ Entry("artists", v, n).listeners = ListenersOrNone(T)
      <4>1. /\ Entry("artists", v, n).name = n
            /\ Entry("artists", v, n).listeners = ListenersOrNone(About("artists", V, n))
        BY EntryFields
      <4>2. QED  BY <3>4, <4>1
    <3>8. QED  BY <3>2, <3>6, <3>7 DEF v
  <2>12. QED  BY <2>8, <2>10, <2>11 DEF SearchesOfRows, n, w, history
<1>2. IInv => GrainsAgree
  BY <1>1, TopTracksAreTheChart DEF GrainsAgree
<1>3. QED  BY <1>2, InvariantHolds, PTL
=============================================================================
