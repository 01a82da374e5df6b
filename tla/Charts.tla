-------------------------------- MODULE Charts --------------------------------
(***************************************************************************)
(* What the charts say about the searches that were counted: the windows   *)
(* of charts/periods.py, the queries of charts/repository.py over the      *)
(* hourly aggregates, and the movements of charts/ranking.py.              *)
(*                                                                         *)
(* A row stands for the searches of one person for one song on one day.    *)
(* Hours are left out, for every window is made of whole days, and so are  *)
(* searches that no chart counts and the TTL of the aggregates, which is   *)
(* many times the longest window.  Names are numbers in their order; title *)
(* 0 is an empty track_name.  A pseudonym is a person under the key of an  *)
(* epoch: the archive of the prototype was written with another key.       *)
(* Day 0 is a Monday.                                                      *)
(***************************************************************************)
EXTENDS Integers, FiniteSets, FiniteSetsExt, Bags

CONSTANTS People,
          Songs,         \* pairs <<artist, title>>
          MonthStarts,   \* the first days of the months of the calendar
          Calendar,      \* the days that a chart may be asked for
          Days,          \* bound: the days on which searches are counted
          MaxSearches    \* bound: searches counted

ASSUME ChartsAssumption ==
    /\ Songs \subseteq (Nat \ {0}) \X Nat
    /\ Days \subseteq Calendar /\ Calendar \subseteq Nat /\ Calendar # {}
    /\ MaxSearches \in Nat

\* Months have 28 to 31 days, and there is one before and one after each window.
ASSUME CalendarAssumption ==
    /\ MonthStarts \subseteq Int
    /\ \A m \in MonthStarts :
          (\E d \in Calendar : m <= d + 31) =>
              \E n \in 28..31 : /\ m + n \in MonthStarts
                                /\ \A k \in 1..n - 1 : m + k \notin MonthStarts
    /\ \A d \in Calendar : \E m \in MonthStarts : m <= d - 31

VARIABLES today,    \* the day of datetime.now()
          counted   \* the bag of searches that the aggregates hold

vars == <<today, counted>>

Archive == 1   \* ARCHIVE_KEY_EPOCH
Own == 2       \* OWN_KEY_EPOCH

Search == [day : Days, key_epoch : {Archive, Own}, person : People, song : Songs]

TypeOK == /\ today \in Calendar
          /\ IsABag(counted) /\ BagToSet(counted) \subseteq Search
          /\ \A s \in BagToSet(counted) : s.day <= today

Init == /\ today = Min(Calendar)
        /\ counted = EmptyBag
-----------------------------------------------------------------------------
(* periods.py                                                                *)

Period == {"day", "week", "month"}

DaysIn == [day |-> 1, week |-> 7]

\* replace(day=1)
FirstOfMonth(d) == Max({m \in MonthStarts : m <= d})

\* Mutant: the next month is found 31 days after the first.
ResolvePeriodShort(period, d) ==
    IF period = "month"
    THEN LET start == FirstOfMonth(d)
         IN [current_start |-> start, current_end |-> FirstOfMonth(start + 30),
             previous_start |-> FirstOfMonth(start - 1)]
    ELSE LET start == IF period = "day" THEN d ELSE d - (d % 7)
         IN [current_start |-> start, current_end |-> start + DaysIn[period],
             previous_start |-> start - DaysIn[period]]

ResolvePeriod(period, d) ==
    IF period = "month"
    THEN LET start == FirstOfMonth(d)
         IN [current_start |-> start, current_end |-> FirstOfMonth(start + 32),
             previous_start |-> FirstOfMonth(start - 1)]
    ELSE LET start == IF period = "day" THEN d ELSE d - (d % 7)
         IN [current_start |-> start, current_end |-> start + DaysIn[period],
             previous_start |-> start - DaysIn[period]]
-----------------------------------------------------------------------------
(* repository.py                                                             *)

Chart == {"artists", "tracks"}

\* What a row of the chart is about, and which searches the view counts for it.
NameOf(chart, s) == IF chart = "artists" THEN s.song[1] ELSE s.song
Counts(chart, s) == chart = "artists" \/ s.song[2] # 0

\* WHERE hour_start >= ... AND hour_start < ...
Within(chart, from, to) ==
    {s \in BagToSet(counted) : Counts(chart, s) /\ from <= s.day /\ s.day < to}

Names(chart, S) == {NameOf(chart, s) : s \in S}
About(chart, S, name) == {s \in S : NameOf(chart, s) = name}

\* sum(countMerge(search_count))
Searches(S) == MapThenSumSet(LAMBDA s : counted[s], S)

Epochs(S) == {s.key_epoch : s \in S}

\* max over the epochs of uniqMerge(unique_searchers).
Listeners(S) == Max({Cardinality({s.person : s \in {x \in S : x.key_epoch = e}}) :
                        e \in Epochs(S)})

Withheld == -1   \* None

\* Mutant: the count is not withheld.
ListenersAlways(S) == Listeners(S)

ListenersOrNone(S) == IF Cardinality(Epochs(S)) = 1 THEN Listeners(S) ELSE Withheld

\* ORDER BY ... ASC of names.
NameBefore(chart, m, n) == IF chart = "artists" THEN m < n
                           ELSE m[1] < n[1] \/ (m[1] = n[1] /\ m[2] < n[2])

\* Mutant: rank() in the place of row_number().
RanksBeforeTied(chart, S, m, n) == Searches(About(chart, S, m)) > Searches(About(chart, S, n))

\* ORDER BY searches DESC, names ASC.
RanksBefore(chart, S, m, n) ==
    \/ Searches(About(chart, S, m)) > Searches(About(chart, S, n))
    \/ /\ Searches(About(chart, S, m)) = Searches(About(chart, S, n))
       /\ NameBefore(chart, m, n)

\* row_number() over that order.
Position(chart, S, n) == 1 + Cardinality({m \in Names(chart, S) : RanksBefore(chart, S, m, n)})

\* The position after a LEFT JOIN, 0 for a missing row.
PositionOrZero(chart, S, n) == IF n \in Names(chart, S) THEN Position(chart, S, n) ELSE 0

\* ranking.py; positions is left out, for it is the difference of the two ranks.
DescribeMovement(rank, previous_rank, seen_before) ==
    IF previous_rank = 0
    THEN IF seen_before THEN "re_entry" ELSE "new"
    ELSE IF previous_rank = rank THEN "unchanged"
         ELSE IF previous_rank > rank THEN "up" ELSE "down"

\* Mutant: everything before the end of the window has been seen before.
SeenBeforeTheEnd(chart, w, n) ==
    chart = "artists" /\ n \in Names(chart, Within(chart, 0, w.current_end))

\* The chart of tracks does not look for it.
SeenBefore(chart, w, n) ==
    chart = "artists" /\ n \in Names(chart, Within(chart, 0, w.previous_start))

\* Mutant: the previous period is as long as the current one.
PreviousOfEqualLength(chart, w) ==
    Within(chart, w.current_start - (w.current_end - w.current_start), w.current_start)

Previous(chart, w) == Within(chart, w.previous_start, w.current_start)

Entry(chart, w, n) ==
    LET S == Within(chart, w.current_start, w.current_end)
        position == Position(chart, S, n)
        previous == PositionOrZero(chart, Previous(chart, w), n)
    IN [position |-> position, name |-> n,
        searches |-> Searches(About(chart, S, n)),
        listeners |-> ListenersOrNone(About(chart, S, n)),
        previous_position |-> previous,
        movement |-> DescribeMovement(position, previous, SeenBefore(chart, w, n))]

\* read_artist_chart and read_track_chart, before LIMIT and OFFSET.
ReadChart(chart, w) ==
    {Entry(chart, w, n) : n \in Names(chart, Within(chart, w.current_start, w.current_end))}

\* LIMIT page_size OFFSET offset.
Page(chart, w, page_size, offset) ==
    {e \in ReadChart(chart, w) : offset < e.position /\ e.position <= offset + page_size}

\* Mutant: the epochs of a day are counted together.
TimeSeriesMerged(artist, start) ==
    LET S == About("artists", Within("artists", start, today + 1), artist)
    IN {[day |-> d, searches |-> Searches({s \in S : s.day = d}),
         listeners |-> Listeners({s \in S : s.day = d})] : d \in {s.day : s \in S}}

ReadArtistTimeSeries(artist, start) ==
    LET S == About("artists", Within("artists", start, today + 1), artist)
    IN {[day |-> d, searches |-> Searches({s \in S : s.day = d}),
         listeners |-> ListenersOrNone({s \in S : s.day = d})] : d \in {s.day : s \in S}}

\* Before LIMIT, which cuts ties anywhere: they have no order.
ReadArtistTopTracks(artist, start) ==
    LET S == {s \in Within("tracks", start, today + 1) : s.song[1] = artist}
    IN {[name |-> n, searches |-> Searches(About("tracks", S, n)),
         listeners |-> ListenersOrNone(About("tracks", S, n))] : n \in Names("tracks", S)}
-----------------------------------------------------------------------------
\* Time passes. Bound: once there is something to count, from one of Days to the next.
NextDay == /\ \E d \in Calendar : d > today /\ (counted # EmptyBag => d \in Days)
           /\ today' = Min({d \in Calendar : d > today /\ (counted # EmptyBag => d \in Days)})
           /\ UNCHANGED counted

Count(s) == /\ today \in Days
            /\ BagCardinality(counted) < MaxSearches
            /\ counted' = counted (+) SetToBag({s})
            /\ UNCHANGED today

\* The collector and the reprocess command count a search of today.
Observe(person, song) ==
    Count([day |-> today, key_epoch |-> Own, person |-> person, song |-> song])

\* Mutant: the rows of a day to come are counted.
ImportAnyDay(person, song, day) ==
    Count([day |-> day, key_epoch |-> Archive, person |-> person, song |-> song])

\* The archive of the prototype is imported, whatever days it covers.
Import(person, song, day) ==
    /\ day <= today
    /\ Count([day |-> day, key_epoch |-> Archive, person |-> person, song |-> song])

Next == \/ NextDay
        \/ \E person \in People, song \in Songs :
              \/ Observe(person, song)
              \/ \E day \in Days : Import(person, song, day)

Spec == Init /\ [][Next]_vars
-----------------------------------------------------------------------------
\* The windows of a period tile the calendar: today lies in its window, every day
\* of the window resolves to the same one, and the previous window is the one that
\* ends where this one begins.
WindowsTile ==
    \A period \in Period :
        LET w == ResolvePeriod(period, today)
            v == ResolvePeriod(period, w.current_start - 1)
        IN /\ today \in w.current_start..w.current_end - 1
           /\ \A d \in w.current_start..w.current_end - 1 : ResolvePeriod(period, d) = w
           /\ v.current_start = w.previous_start /\ v.current_end = w.current_start

\* Reading a chart page by page shows every name once, in descending order of
\* searches, whatever the size of the pages and however many names are tied.
PagesMakeTheChart ==
    \A chart \in Chart, period \in Period :
        LET w == ResolvePeriod(period, today)
            entries == ReadChart(chart, w)
        IN \A page_size \in 1..2 :
              /\ \A e \in entries :
                    \E k \in 0..Cardinality(entries) :
                        e \in Page(chart, w, page_size, k * page_size)
              /\ \A k \in 0..Cardinality(entries) :
                    LET page == Page(chart, w, page_size, k * page_size)
                    IN /\ Cardinality(page) <= page_size
                       /\ \A e \in page, f \in entries \ page :
                             f.position > e.position => f.searches <= e.searches

\* A number of listeners that is shown is the number of people who searched, never
\* the number of their pseudonyms; it is withheld only when there are two keys.
ListenersArePeople ==
    \A chart \in Chart, period \in Period :
        LET w == ResolvePeriod(period, today)
        IN \A e \in ReadChart(chart, w) :
              LET S == {s \in BagToSet(counted) :
                           /\ NameOf(chart, s) = e.name /\ Counts(chart, s)
                           /\ ResolvePeriod(period, s.day) = w}
              IN IF \E s, x \in S : s.key_epoch # x.key_epoch
                 THEN e.listeners = Withheld
                 ELSE e.listeners = Cardinality({s.person : s \in S})

\* The movement of an entry is told against the chart that the previous period
\* ended with, as a reader saw it then (the archive apart, which may come later).
MovementIsAgainstTheLastChart ==
    \A chart \in Chart, period \in Period :
        LET w == ResolvePeriod(period, today)
            last == ReadChart(chart, ResolvePeriod(period, w.current_start - 1))
        IN \A e \in ReadChart(chart, w) :
              \/ \E f \in last : f.name = e.name /\ f.position = e.previous_position
              \/ e.previous_position = 0 /\ e.movement \in {"new", "re_entry"}
                    /\ \A f \in last : f.name # e.name

\* An artist is new exactly when it was never searched before this period.
NewMeansNeverBefore ==
    \A period \in Period :
        LET w == ResolvePeriod(period, today)
        IN \A e \in ReadChart("artists", w) :
              e.movement = "new" <=>
                  \A s \in BagToSet(counted) : s.song[1] = e.name => s.day >= w.current_start

\* One source of truth for every grain: the history of an artist and its top
\* tracks agree with the charts of the day and of the period.
GrainsAgree ==
    \A period \in Period :
        LET w == ResolvePeriod(period, today)
            tracks == ReadChart("tracks", w)
        IN \A e \in ReadChart("artists", w) :
              LET history == ReadArtistTimeSeries(e.name, w.current_start)
              IN /\ MapThenSumSet(LAMBDA p : p.searches, history) = e.searches
                 /\ \A p \in history : e.listeners # Withheld =>
                        p.listeners # Withheld /\ p.listeners <= e.listeners
                 /\ \A p \in history : p.day = today =>
                        \E x \in ReadChart("artists", ResolvePeriod("day", today)) :
                            x.name = e.name /\ x.listeners = p.listeners
                 /\ {[name |-> x.name, searches |-> x.searches, listeners |-> x.listeners] :
                        x \in {y \in tracks : y.name[1] = e.name}}
                        = ReadArtistTopTracks(e.name, w.current_start)
=============================================================================
