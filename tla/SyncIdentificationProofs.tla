----------------------- MODULE SyncIdentificationProofs -----------------------
(***************************************************************************)
(* Theorems of SyncIdentification, for every length of an hour, overlap,   *)
(* number of buckets and bound: the pull skips no row, and what is swapped *)
(* in is a whole local table, whichever commands fail.                     *)
(***************************************************************************)
EXTENDS SyncIdentification, FiniteSetTheorems, WellFoundedInduction, TLAPS

\* The raw layers and the variables of the pull: the local rows are rows of the
\* jump, which are not of the future, and the watermark is not past them.
PullTyped ==
    /\ now \in 1..MaxTime
    /\ jump \subseteq Row /\ here \subseteq jump /\ here # {}
    /\ \A r \in jump : Time(r) <= now
    /\ hours \subseteq {HourOf(r) : r \in jump}
    /\ hours # {} <=> step = "pull"
    /\ watermark \in Nat /\ watermark <= Newest(here)

\* The hours still to pull have no gap: a row that an earlier hour than the last
\* of them still misses belongs to one of them.
HoursInOrder ==
    \A r \in jump \ here : Time(r) > watermark =>
        \A h \in hours : HourOf(r) < h => HourOf(r) \in hours

\* PullLeavesNoGap, the newest moment included.
NothingSkipped ==
    ~torn => \A r \in jump \ late : Time(r) <= Newest(here) => r \in here

PullInv == PullTyped /\ HoursInOrder /\ NothingSkipped

\* The tables, and the place of the transfer.
TablesTyped ==
    /\ counted \in [View -> Table]
    /\ live \in [View -> Table]
    /\ staging \in [View -> Table]
    /\ table \in 1..2
    /\ bucket \in 0..Buckets - 1

\* The open table holds the buckets that were sent, and nothing else; when all
\* were, it is the local table.
StagingFollows ==
    /\ step = "ship" =>
          \A r \in Row : staging[Tables[table]][r] =
                             IF Bucket(r) < bucket THEN counted[Tables[table]][r] ELSE 0
    /\ step = "swap" => staging[Tables[table]] = counted[Tables[table]]
    /\ step # "ship" => bucket = 0

ShipInv == TablesTyped /\ StagingFollows
-----------------------------------------------------------------------------
(* Numbers.                                                                  *)

LEMMA Constants ==
    /\ HourLength \in Nat /\ HourLength > 0
    /\ Buckets \in Nat /\ Buckets > 0
    /\ MaxTime \in Nat /\ MaxTime > 0
BY SyncAssumption

\* A set of natural numbers that is not empty has a smallest element,
LEMMA MinOfNaturals ==
    ASSUME NEW S, S \subseteq Nat, S # {}
    PROVE  Min(S) \in S /\ \A y \in S : Min(S) <= y
<1> DEFINE Less == {p \in Nat \X Nat : p[1] < p[2]}
<1>1. IsWellFoundedOn(Less, Nat)
  BY NatLessThanWellFounded DEF OpToRel
<1>2. PICK x \in S : \A y \in S : <<y, x>> \notin Less
  BY <1>1, WFMin
<1>3. ASSUME NEW y \in S PROVE x <= y
  <2>1. y \in Nat /\ x \in Nat
    OBVIOUS
  <2>2. y < x => <<y, x>> \in Less
    BY <2>1
  <2>3. QED  BY <1>2, <2>1, <2>2
<1>4. QED  BY <1>3 DEF Min

\* and one that is bounded has a greatest.
LEMMA MaxOfBounded ==
    ASSUME NEW N \in Nat, NEW S, S \subseteq 0..N, S # {}
    PROVE  Max(S) \in S /\ \A y \in S : Max(S) >= y
<1> DEFINE Below == {N - y : y \in S}
<1>1. Below \subseteq Nat /\ Below # {}
  <2>1. ASSUME NEW y \in S PROVE N - y \in Nat
    OBVIOUS
  <2>2. QED  BY <2>1
<1>2. Min(Below) \in Below /\ \A y \in Below : Min(Below) <= y
  BY <1>1, MinOfNaturals
<1>3. PICK x \in S : N - x = Min(Below)
  BY <1>2
<1>4. ASSUME NEW y \in S PROVE x >= y
  <2>1. N - x <= N - y
    BY <1>2, <1>3
  <2>2. x \in Int /\ y \in Int
    OBVIOUS
  <2>3. QED  BY <2>1, <2>2
<1>5. QED  BY <1>4 DEF Max

\* A row has a moment and a bucket within the bounds, and an hour; the hours are in
\* the order of the moments.
LEMMA RowProperties ==
    ASSUME NEW r \in Row
    PROVE  /\ Time(r) \in 1..MaxTime /\ Bucket(r) \in 0..Buckets - 1
           /\ HourOf(r) \in Nat
<1>1. Time(r) \in 1..MaxTime /\ Bucket(r) \in 0..Buckets - 1
  BY DEF Row, Time, Bucket
<1>2. Time(r) - 1 \in Nat /\ HourLength \in Nat /\ HourLength > 0
  BY <1>1, Constants
<1>3. (Time(r) - 1) \div HourLength \in Nat
  BY <1>2
<1>4. QED  BY <1>1, <1>3 DEF HourOf

LEMMA HoursFollowTime ==
    ASSUME NEW q \in Row, NEW r \in Row, Time(q) <= Time(r)
    PROVE  HourOf(q) <= HourOf(r)
<1> DEFINE a == Time(q) - 1
           b == Time(r) - 1
<1>1. a \in Nat /\ b \in Nat /\ a <= b /\ HourLength \in Nat /\ HourLength > 0
  BY RowProperties, Constants
<1> HIDE DEF a, b
<1>2. a \div HourLength <= b \div HourLength
  BY <1>1
<1>3. QED  BY <1>2 DEF HourOf, a, b

\* The newest moment of some rows.
LEMMA NewestProperties ==
    ASSUME NEW rows, rows \subseteq Row, rows # {}
    PROVE  /\ Newest(rows) \in 1..MaxTime
           /\ \A r \in rows : Time(r) <= Newest(rows)
           /\ \E r \in rows : Time(r) = Newest(rows)
<1> DEFINE S == {Time(r) : r \in rows}
<1>1. S \subseteq 1..MaxTime /\ S # {}
  BY RowProperties
<1>2. MaxTime \in Nat /\ S \subseteq 0..MaxTime
  BY <1>1, Constants
<1>3. Max(S) \in S /\ \A y \in S : Max(S) >= y
  BY <1>1, <1>2, MaxOfBounded
<1>4. Newest(rows) = Max(S)
  BY DEF Newest
<1>5. PICK r \in rows : Time(r) = Newest(rows)
  BY <1>3, <1>4
<1>6. ASSUME NEW q \in rows PROVE Time(q) <= Newest(rows)
  <2>1. Newest(rows) >= Time(q)
    BY <1>3, <1>4
  <2>2. Time(q) \in 1..MaxTime /\ Newest(rows) \in 1..MaxTime
    BY <1>1, <1>3, <1>4
  <2>3. QED  BY <2>1, <2>2
<1>7. Newest(rows) \in 1..MaxTime
  BY <1>1, <1>3, <1>4
<1>8. QED  BY <1>5, <1>6, <1>7

\* More rows are not older.
LEMMA NewestGrows ==
    ASSUME NEW rows, NEW more, rows # {}, more \subseteq Row, rows \subseteq more
    PROVE  Newest(rows) <= Newest(more)
<1>1. PICK r \in rows : Time(r) = Newest(rows)
  BY NewestProperties
<1>2. QED  BY <1>1, NewestProperties
-----------------------------------------------------------------------------
(* The pull.                                                                 *)

\* The rows here are rows, and the newest of them has a moment.
LEMMA HereProperties ==
    ASSUME PullTyped
    PROVE  /\ here \subseteq Row
           /\ Newest(here) \in 1..MaxTime
           /\ \A r \in here : Time(r) <= Newest(here)
<1>1. here \subseteq Row /\ here # {}
  BY DEF PullTyped
<1>2. QED  BY <1>1, NewestProperties

\* A step that moves no row, and either leaves the pull where it is or ends it.
LEMMA StillPreserves ==
    ASSUME PullInv, UNCHANGED <<jump, here, late>>, now' \in now..MaxTime,
           torn => torn',
           \/ UNCHANGED <<hours, watermark, step>>
           \/ hours' = {} /\ step' # "pull" /\ watermark' \in {watermark, 0, Newest(here)}
    PROVE  PullInv'
<1>1. PullTyped'
  <2>1. Newest(here) \in Nat /\ Newest(here)' = Newest(here)
    BY HereProperties, Constants DEF PullInv, Newest
  <2>2. \A r \in jump : Time(r) \in Int
    BY RowProperties DEF PullInv, PullTyped
  <2>3. now \in Nat /\ now' \in 1..MaxTime /\ now <= now'
    BY Constants DEF PullInv, PullTyped
  <2>4. \A r \in jump' : Time(r) <= now'
    BY <2>2, <2>3 DEF PullInv, PullTyped
  <2>5. hours' \subseteq {HourOf(r) : r \in jump}' /\ (hours' # {} <=> step' = "pull")
    BY DEF PullInv, PullTyped
  <2>6. watermark' \in Nat /\ watermark' <= Newest(here)'
    BY <2>1 DEF PullInv, PullTyped
  <2>7. QED  BY <2>3, <2>4, <2>5, <2>6 DEF PullInv, PullTyped
<1>2. HoursInOrder'
  BY DEF PullInv, HoursInOrder
<1>3. NothingSkipped'
  BY DEF PullInv, NothingSkipped, Newest
<1>4. QED  BY <1>1, <1>2, <1>3 DEF PullInv

\* A row that arrives is of the last hour or of a later one, and it is late when
\* its moment was pulled already.
LEMMA ArrivePreserves == ASSUME PullInv, Arrive PROVE PullInv'
<1>1. PICK r \in Row \ jump :
          /\ Time(r) = now /\ jump' = jump \cup {r}
          /\ late' = IF now <= Newest(here) THEN late \cup {r} ELSE late
  BY DEF Arrive
<1>2. UNCHANGED <<now, here, step, watermark, hours, torn>>
  BY DEF Arrive, locals
<1>3. Newest(here)' = Newest(here) /\ Newest(here) \in Nat
  BY <1>2, HereProperties, Constants DEF PullInv, Newest
<1>4. PullTyped'
  <2>1. now \in Nat
    BY Constants DEF PullInv, PullTyped
  <2>2. jump' \subseteq Row /\ here' \subseteq jump' /\ here' # {}
    BY <1>1, <1>2 DEF PullInv, PullTyped
  <2>3. \A q \in jump' : Time(q) <= now'
    BY <1>1, <1>2, <2>1 DEF PullInv, PullTyped
  <2>4. hours' \subseteq {HourOf(q) : q \in jump}'
    BY <1>1, <1>2 DEF PullInv, PullTyped
  <2>5. QED  BY <1>2, <1>3, <2>2, <2>3, <2>4 DEF PullInv, PullTyped
<1>5. HoursInOrder'
  <2>1. SUFFICES ASSUME NEW q \in jump' \ here', Time(q) > watermark,
                        NEW h \in hours, HourOf(q) < h
                 PROVE  HourOf(q) \in hours
    BY <1>2 DEF HoursInOrder
  <2>2. CASE q \in jump
    BY <1>2, <2>1, <2>2 DEF PullInv, HoursInOrder
  <2>3. CASE q = r
    <3>1. PICK p \in jump : h = HourOf(p)
      BY DEF PullInv, PullTyped
    <3>2. p \in Row /\ Time(p) <= Time(q)
      BY <1>1, <2>3 DEF PullInv, PullTyped
    <3>3. h <= HourOf(q)
      BY <1>1, <2>3, <3>1, <3>2, HoursFollowTime
    <3>4. h \in Nat /\ HourOf(q) \in Nat
      BY <1>1, <2>3, <3>1, <3>2, RowProperties
    <3>5. QED  BY <2>1, <3>3, <3>4
  <2>4. QED  BY <1>1, <2>2, <2>3
<1>6. NothingSkipped'
  <2>1. SUFFICES ASSUME ~torn, NEW q \in jump' \ late', Time(q) <= Newest(here)
                 PROVE  q \in here
    BY <1>2, <1>3 DEF NothingSkipped
  <2>2. CASE q \in jump
    BY <1>1, <2>1, <2>2 DEF PullInv, NothingSkipped
  <2>3. CASE q = r
    BY <1>1, <2>1, <2>3
  <2>4. QED  BY <1>1, <2>2, <2>3
<1>7. QED  BY <1>4, <1>5, <1>6 DEF PullInv

\* What is read of the hours of the new rows has no gap, if the list breaks off too.
LEMMA ListedPreserves ==
    ASSUME PullInv, NEW list, list \subseteq HoursOnJump, Listed(list),
           \A k \in HoursOnJump, h \in list : k < h => k \in list
    PROVE  PullInv'
<1>1. /\ UNCHANGED <<now, jump, here, watermark, late, torn>>
      /\ hours' = list /\ (hours' # {} <=> step' = "pull")
  BY DEF Listed, rawLayers
<1>2. Newest(here)' = Newest(here)
  BY <1>1 DEF Newest
<1>3. PullTyped'
  BY <1>1, <1>2 DEF PullInv, PullTyped, HoursOnJump, NewOnJump
<1>4. HoursInOrder'
  BY <1>1 DEF HoursInOrder, HoursOnJump, NewOnJump
<1>5. NothingSkipped'
  BY <1>1, <1>2 DEF PullInv, NothingSkipped
<1>6. QED  BY <1>3, <1>4, <1>5 DEF PullInv

LEMMA ReadHoursPreserves ==
    ASSUME PullInv, ReadHours \/ ReadHoursFails
    PROVE  PullInv'
<1>1. CASE ReadHours
  BY <1>1, ListedPreserves DEF ReadHours
<1>2. CASE ReadHoursFails
  <2>1. PICK h \in HoursOnJump : Listed({k \in HoursOnJump : k < h})
    BY <1>2 DEF ReadHoursFails
  <2>2. HoursOnJump \subseteq Nat
    BY RowProperties DEF HoursOnJump, NewOnJump, PullInv, PullTyped
  <2> DEFINE list == {k \in HoursOnJump : k < h}
  <2>3. \A k \in HoursOnJump, g \in list : k < g => k \in list
    BY <2>2
  <2>4. list \subseteq HoursOnJump /\ Listed(list)
    BY <2>1
  <2> HIDE DEF list
  <2>5. QED  BY <2>3, <2>4, ListedPreserves
<1>3. QED  BY <1>1, <1>2

\* The next hour is the first of those still to pull.
LEMMA NextHourProperties ==
    ASSUME PullTyped, hours # {}
    PROVE  /\ NextHour \in hours /\ NextHour \in Nat
           /\ \A h \in hours : NextHour <= h
<1>1. \A r \in jump : HourOf(r) \in Nat
  BY RowProperties DEF PullTyped
<1>2. hours \subseteq Nat
  BY <1>1 DEF PullTyped
<1>3. QED  BY <1>2, MinOfNaturals DEF NextHour

\* The rows of the next hour, or some of them, come to the local host.  A row that
\* is skipped by it lies in an earlier hour, which was pulled, or in this one, and
\* then something was torn.
LEMMA PulledRows ==
    ASSUME PullInv, hours # {}, NEW some, some \subseteq RowsOfHour, here' = here \cup some,
           UNCHANGED <<jump, late>>,
           ~torn' => ~torn /\ \A r \in RowsOfHour \ some : some # {} => Time(r) > Newest(some)
    PROVE  /\ here' \subseteq jump /\ here' # {}
           /\ Newest(here) <= Newest(here')
           /\ NothingSkipped'
<1>1. /\ jump \subseteq Row /\ here \subseteq jump /\ here # {}
      /\ some \subseteq jump /\ some \subseteq Row /\ here' \subseteq Row
      /\ watermark \in Nat /\ watermark <= Newest(here)
  BY DEF PullInv, PullTyped, RowsOfHour, NewOnJump
<1>2. /\ Newest(here) \in Nat /\ Newest(here') \in Nat /\ Newest(here) <= Newest(here')
  BY <1>1, NewestProperties, NewestGrows, Constants
<1>3. ASSUME ~torn', NEW r \in jump \ late, Time(r) <= Newest(here'), r \notin here'
      PROVE  FALSE
  <2>1. Time(r) \in Nat /\ HourOf(r) \in Nat /\ r \in Row
    BY <1>1, <1>3, RowProperties, Constants
  <2>2. ~torn /\ ~(Time(r) <= Newest(here))
    BY <1>3 DEF PullInv, NothingSkipped
  <2>3. Time(r) > watermark /\ r \in NewOnJump
    BY <1>1, <1>2, <2>1, <2>2 DEF NewOnJump
  <2>4. PICK q \in here' : Time(q) = Newest(here')
    BY <1>1, NewestProperties
  <2>5. q \in some
    <3>1. q \notin here
      BY <1>1, <1>2, <1>3, <2>1, <2>2, <2>4, NewestProperties
    <3>2. QED  BY <2>4, <3>1
  <2>6. HourOf(q) = NextHour /\ HourOf(r) <= HourOf(q)
    BY <1>1, <1>3, <2>1, <2>4, <2>5, HoursFollowTime DEF RowsOfHour
  <2>7. NextHour \in hours /\ NextHour \in Nat /\ \A h \in hours : NextHour <= h
    BY NextHourProperties DEF PullInv
  <2>8. CASE HourOf(r) = NextHour
    <3>1. r \in RowsOfHour \ some
      BY <1>3, <2>3, <2>8 DEF RowsOfHour
    <3>2. Time(r) > Newest(some) /\ Newest(some) \in Nat /\ Time(q) <= Newest(some)
      BY <1>1, <1>3, <2>5, <3>1, NewestProperties, Constants
    <3>3. QED  BY <1>2, <1>3, <2>1, <2>4, <3>2
  <2>9. CASE HourOf(r) < NextHour
    <3>1. HourOf(r) \in hours
      BY <1>3, <2>3, <2>7, <2>9 DEF PullInv, HoursInOrder
    <3>2. QED  BY <2>1, <2>7, <2>9, <3>1
  <2>10. QED  BY <2>1, <2>6, <2>7, <2>8, <2>9
<1>4. NothingSkipped'
  BY <1>3 DEF NothingSkipped
<1>5. QED  BY <1>1, <1>2, <1>4

\* What is left to pull after an hour has no gap either.
LEMMA PullHourPreserves == ASSUME PullInv, PullHour PROVE PullInv'
<1>1. /\ step = "pull" /\ here' = here \cup RowsOfHour /\ hours' = hours \ {NextHour}
      /\ step' = IF hours' = {} THEN "reprocess" ELSE "pull"
      /\ UNCHANGED <<now, jump, late, torn, watermark>>
  BY DEF PullHour
<1>2. /\ hours # {} /\ jump \subseteq Row /\ here \subseteq jump
      /\ watermark \in Nat /\ watermark <= Newest(here)
  BY <1>1 DEF PullInv, PullTyped
<1>3. /\ here' \subseteq jump /\ here' # {}
      /\ Newest(here) <= Newest(here')
      /\ NothingSkipped'
  BY <1>1, <1>2, PulledRows
<1>4. PullTyped'
  <2>1. Newest(here') = Newest(here)'
    BY DEF Newest
  <2>2. Newest(here) \in Nat /\ Newest(here') \in Nat
    BY <1>2, <1>3, HereProperties, NewestProperties, Constants DEF PullInv
  <2>3. watermark' \in Nat /\ watermark' <= Newest(here)'
    BY <1>1, <1>2, <1>3, <2>1, <2>2
  <2>4. hours' \subseteq {HourOf(r) : r \in jump}' /\ (hours' # {} <=> step' = "pull")
    BY <1>1 DEF PullInv, PullTyped
  <2>5. QED  BY <1>1, <1>3, <2>3, <2>4 DEF PullInv, PullTyped
<1>5. HoursInOrder'
  <2>1. SUFFICES ASSUME NEW r \in jump \ here', Time(r) > watermark,
                        NEW h \in hours', HourOf(r) < h
                 PROVE  HourOf(r) \in hours'
    BY <1>1 DEF HoursInOrder
  <2>2. HourOf(r) \in hours
    BY <1>1, <2>1 DEF PullInv, HoursInOrder
  <2>3. r \notin RowsOfHour /\ r \in NewOnJump
    BY <1>1, <2>1 DEF NewOnJump
  <2>4. QED  BY <1>1, <2>2, <2>3 DEF RowsOfHour
<1>6. QED  BY <1>3, <1>4, <1>5 DEF PullInv

\* A pull that fails has left some rows of the hour, or none.
LEMMA PullFailsPreserves == ASSUME PullInv, PullFails PROVE PullInv'
<1>1. /\ step = "pull" /\ hours' = {} /\ watermark' = 0 /\ step' = "idle"
      /\ UNCHANGED <<now, jump, late>>
  BY DEF PullFails, Fails
<1>2. PICK some \in SUBSET RowsOfHour :
          /\ some # {} /\ here' = here \cup some
          /\ torn' = (torn \/ \E r \in RowsOfHour \ some : Time(r) <= Newest(some))
  BY DEF PullFails
<1>3. hours # {} /\ jump \subseteq Row /\ some \subseteq Row /\ RowsOfHour \subseteq Row
  BY <1>1 DEF PullInv, PullTyped, RowsOfHour, NewOnJump
<1>4. ASSUME ~torn', NEW r \in RowsOfHour \ some PROVE ~torn /\ Time(r) > Newest(some)
  <2>1. ~torn /\ ~(Time(r) <= Newest(some))
    BY <1>2, <1>4
  <2>2. Time(r) \in Nat /\ Newest(some) \in Nat
    BY <1>2, <1>3, RowProperties, NewestProperties, Constants
  <2>3. QED  BY <2>1, <2>2
<1>5. ~torn' => ~torn
  BY <1>2
<1>6. /\ here' \subseteq jump /\ here' # {}
      /\ NothingSkipped'
  BY <1>1, <1>2, <1>3, <1>4, <1>5, PulledRows
<1>7. PullTyped'
  <2>1. Newest(here') = Newest(here)'
    BY DEF Newest
  <2>2. Newest(here') \in Nat
    BY <1>3, <1>6, NewestProperties, Constants
  <2>3. watermark' \in Nat /\ watermark' <= Newest(here)'
    BY <1>1, <2>1, <2>2
  <2>4. QED  BY <1>1, <1>6, <2>3 DEF PullInv, PullTyped
<1>8. HoursInOrder'
  BY <1>1 DEF HoursInOrder
<1>9. QED  BY <1>6, <1>7, <1>8 DEF PullInv

\* The other steps of the script, and those that fail, move no raw row.
LEMMA ScriptPreserves ==
    ASSUME PullInv,
           \/ Begin \/ ReadCount \/ Reprocess \/ OpenStaging \/ ShipBucket \/ Swap
           \/ CommandFails \/ ReprocessFails \/ ShipFails \/ SwapFails
    PROVE  PullInv'
<1>1. now \in now..MaxTime
  BY Constants DEF PullInv, PullTyped
<1>2. CASE Begin
  <2>1. hours = {} /\ hours' = hours /\ step' = "count" /\ watermark' = Newest(here)
        /\ UNCHANGED <<now, jump, here, late, torn>>
    BY <1>2 DEF Begin, PullInv, PullTyped, rawLayers
  <2>2. QED  BY <1>1, <2>1, StillPreserves
<1>3. CASE ReadCount \/ Reprocess \/ OpenStaging \/ ShipBucket \/ Swap
  <2>1. hours = {} /\ hours' = hours /\ step' # "pull" /\ watermark' \in {watermark, 0}
        /\ UNCHANGED <<now, jump, here, late, torn>>
    BY <1>3 DEF ReadCount, Reprocess, OpenStaging, ShipBucket, Swap, PullInv, PullTyped,
                rawLayers, locals
  <2>2. QED  BY <1>1, <2>1, StillPreserves
<1>4. CASE CommandFails \/ ReprocessFails \/ ShipFails \/ SwapFails
  <2>1. hours' = {} /\ step' = "idle" /\ watermark' = 0
        /\ UNCHANGED <<now, jump, here, late>>
    BY <1>4 DEF CommandFails, ReprocessFails, ShipFails, SwapFails, Fails
  <2>2. torn => torn'
    BY <1>4 DEF CommandFails, ReprocessFails, ShipFails, SwapFails
  <2>3. QED  BY <1>1, <2>1, <2>2, StillPreserves
<1>5. QED  BY <1>2, <1>3, <1>4

LEMMA InitPull == ASSUME Init PROVE PullInv
<1>1. /\ now = 1 /\ jump = {<<1, 0>>} /\ here = jump /\ hours = {}
      /\ step = "idle" /\ watermark = 0
  BY DEF Init
<1>2. jump \subseteq Row /\ \A r \in jump : Time(r) = 1
  BY <1>1, Constants DEF Row, Time
<1>3. Newest(here) \in 1..MaxTime
  BY <1>1, <1>2, NewestProperties
<1>4. PullTyped
  BY <1>1, <1>2, <1>3, Constants DEF PullTyped
<1>5. HoursInOrder /\ NothingSkipped
  BY <1>1 DEF HoursInOrder, NothingSkipped
<1>6. QED  BY <1>4, <1>5 DEF PullInv

LEMMA NextPull == ASSUME PullInv, [Next]_vars PROVE PullInv'
<1>1. now \in now..MaxTime /\ now \in Nat
  BY Constants DEF PullInv, PullTyped
<1>2. CASE Tick
  <2>1. now' \in now..MaxTime /\ UNCHANGED <<jump, here, late, torn, hours, watermark, step>>
    BY <1>1, <1>2, Constants DEF Tick, locals, PullInv, PullTyped
  <2>2. QED  BY <2>1, StillPreserves
<1>3. CASE UNCHANGED vars
  <2>1. UNCHANGED <<now, jump, here, late, torn, hours, watermark, step>>
    BY <1>3 DEF vars, rawLayers, locals
  <2>2. QED  BY <1>1, <2>1, StillPreserves
<1>4. CASE Arrive
  BY <1>4, ArrivePreserves
<1>5. CASE ReadHours \/ ReadHoursFails
  BY <1>5, ReadHoursPreserves
<1>6. CASE PullHour
  BY <1>6, PullHourPreserves
<1>7. CASE PullFails
  BY <1>7, PullFailsPreserves
<1>8. CASE \/ Begin \/ ReadCount \/ Reprocess \/ OpenStaging \/ ShipBucket \/ Swap
           \/ CommandFails \/ ReprocessFails \/ ShipFails \/ SwapFails
  BY <1>8, ScriptPreserves
<1>9. QED
  BY <1>2, <1>3, <1>4, <1>5, <1>6, <1>7, <1>8, Zenon DEF Next, GoOn
-----------------------------------------------------------------------------
(* The transfer.                                                             *)

LEMMA TableNames == Tables[1] = "artist" /\ Tables[2] = "track" /\ Len(Tables) = 2
BY DEF Tables

\* What is added to a table makes a table, and on top of nothing it is copied.
LEMMA AddedProperties ==
    ASSUME NEW t \in Table, NEW much \in Table, NEW rows
    PROVE  /\ Added(t, rows, much) \in Table
           /\ \A r \in Row : r \notin rows => Added(t, rows, much)[r] = t[r]
           /\ \A r \in Row : r \in rows /\ t[r] = 0 => Added(t, rows, much)[r] = much[r]
<1>1. ASSUME NEW a \in 0..2, NEW b \in 0..2
      PROVE  Min({a + b, 2}) \in 0..2 /\ (a = 0 => Min({a + b, 2}) = b)
  <2>1. {a + b, 2} \subseteq Nat /\ {a + b, 2} # {}
    OBVIOUS
  <2>2. /\ Min({a + b, 2}) \in {a + b, 2}
        /\ Min({a + b, 2}) <= a + b /\ Min({a + b, 2}) <= 2
    BY <2>1, MinOfNaturals
  <2>3. QED  BY <2>2
<1>2. ASSUME NEW r \in Row PROVE t[r] \in 0..2 /\ much[r] \in 0..2
  BY DEF Table
<1>3. Added(t, rows, much) \in [Row -> 0..2]
  BY <1>1, <1>2 DEF Added
<1>4. QED  BY <1>1, <1>2, <1>3 DEF Added, Table

LEMMA ConstantTables == One \in Table /\ Empty \in Table
BY DEF One, Empty, Table

\* The local aggregates do not change while they are shipped: a step that leaves
\* the tables and the transfer alone, or ends the transfer.
LEMMA TransferUntouched ==
    ASSUME ShipInv, UNCHANGED <<counted, live, staging, table, bucket>>,
           step' = step \/ (bucket = 0 /\ step' \notin {"ship", "swap"})
    PROVE  ShipInv'
<1>1. TablesTyped'
  BY DEF ShipInv, TablesTyped
<1>2. StagingFollows'
  BY DEF ShipInv, StagingFollows
<1>3. QED  BY <1>1, <1>2 DEF ShipInv

\* A script that has ended has no transfer open.
LEMMA TransferEnds ==
    ASSUME counted' \in [View -> Table], live' \in [View -> Table],
           staging' \in [View -> Table], table' = 1, bucket' = 0,
           step' \notin {"ship", "swap"}
    PROVE  ShipInv'
<1>1. TablesTyped'
  BY Constants DEF TablesTyped
<1>2. StagingFollows'
  BY DEF StagingFollows
<1>3. QED  BY <1>1, <1>2 DEF ShipInv

LEMMA OpenPreserves == ASSUME ShipInv, OpenStaging PROVE ShipInv'
<1> DEFINE v == Tables[table]
<1>1. /\ staging' = [staging EXCEPT ![v] = Empty] /\ step' = "ship" /\ bucket = 0
      /\ UNCHANGED <<counted, live, table, bucket>>
  BY DEF OpenStaging, locals, ShipInv, StagingFollows
<1>2. /\ staging \in [View -> Table] /\ v \in View
  BY TableNames DEF ShipInv, TablesTyped, View
<1>3. TablesTyped'
  BY <1>1, <1>2, ConstantTables DEF ShipInv, TablesTyped
<1>4. staging'[v] = Empty
  BY <1>1, <1>2
<1>5. \A r \in Row : Empty[r] = 0 /\ ~(Bucket(r) < 0)
  BY RowProperties, Constants DEF Empty
<1>6. StagingFollows'
  BY <1>1, <1>4, <1>5 DEF StagingFollows
<1>7. QED  BY <1>3, <1>6 DEF ShipInv

\* After a bucket the next, and after the last bucket the table is whole.
LEMMA ShipPreserves == ASSUME ShipInv, ShipBucket PROVE ShipInv'
<1> DEFINE v == Tables[table]
           more == Added(staging[v], RowsOfBucket, counted[v])
<1>1. /\ step = "ship"
      /\ staging' = [staging EXCEPT ![v] = more]
      /\ bucket' = (bucket + 1) % Buckets
      /\ step' = IF bucket' = 0 THEN "swap" ELSE "ship"
      /\ UNCHANGED <<counted, live, table>>
  BY DEF ShipBucket, Sent
<1>2. /\ staging \in [View -> Table] /\ counted \in [View -> Table] /\ v \in View
      /\ staging[v] \in Table /\ counted[v] \in Table
      /\ bucket \in 0..Buckets - 1
  BY TableNames DEF ShipInv, TablesTyped, View
<1>3. /\ \A r \in Row : staging[v][r] = IF Bucket(r) < bucket THEN counted[v][r] ELSE 0
  BY <1>1 DEF ShipInv, StagingFollows
<1> HIDE DEF v, more
<1>4. /\ more \in Table
      /\ \A r \in Row : Bucket(r) # bucket => more[r] = staging[v][r]
      /\ \A r \in Row : Bucket(r) = bucket /\ staging[v][r] = 0 => more[r] = counted[v][r]
  BY <1>2, AddedProperties DEF more, RowsOfBucket
<1>5. \A r \in Row : more[r] = IF Bucket(r) < bucket + 1 THEN counted[v][r] ELSE 0
  <2>1. ASSUME NEW r \in Row
        PROVE  more[r] = IF Bucket(r) < bucket + 1 THEN counted[v][r] ELSE 0
    <3>1. Bucket(r) \in 0..Buckets - 1 /\ Buckets \in Nat
      BY RowProperties, Constants
    <3>2. QED  BY <1>2, <1>3, <1>4, <3>1
  <2>2. QED  BY <2>1
<1>6. staging' \in [View -> Table] /\ staging'[v] = more
  BY <1>1, <1>2, <1>4
<1>7. CASE bucket + 1 < Buckets
  <2>1. bucket' = bucket + 1 /\ bucket' \in 0..Buckets - 1 /\ bucket' # 0
    BY <1>1, <1>2, <1>7, Constants
  <2>2. TablesTyped'
    BY <1>1, <1>6, <2>1 DEF ShipInv, TablesTyped
  <2>3. StagingFollows'
    BY <1>1, <1>5, <1>6, <2>1 DEF StagingFollows, v
  <2>4. QED  BY <2>2, <2>3 DEF ShipInv
<1>8. CASE bucket + 1 = Buckets
  <2>1. bucket' = 0 /\ bucket' \in 0..Buckets - 1
    BY <1>1, <1>2, <1>8, Constants
  <2>2. TablesTyped'
    BY <1>1, <1>6, <2>1 DEF ShipInv, TablesTyped
  <2>3. more = counted[v]
    <3>1. ASSUME NEW r \in Row PROVE more[r] = counted[v][r]
      <4>1. Bucket(r) < bucket + 1
        BY <1>2, <1>8, RowProperties, Constants
      <4>2. QED  BY <1>5, <4>1
    <3>2. QED  BY <1>2, <1>4, <3>1 DEF Table
  <2>4. StagingFollows'
    BY <1>1, <1>6, <2>1, <2>3 DEF StagingFollows, v
  <2>5. QED  BY <2>2, <2>4 DEF ShipInv
<1>9. QED  BY <1>2, <1>7, <1>8, Constants

\* The swap serves what was shipped, and keeps the old table as the next one's
\* leftovers.
LEMMA SwapExchanges ==
    ASSUME ShipInv, step = "swap", Exchanged
    PROVE  /\ live' \in [View -> Table] /\ staging' \in [View -> Table]
           /\ \A w \in View : live'[w] # live[w] => live'[w] = counted[w]
<1> DEFINE v == Tables[table]
<1>1. /\ live' = [live EXCEPT ![v] = staging[v]] /\ staging' = [staging EXCEPT ![v] = live[v]]
      /\ staging[v] = counted[v]
  BY DEF Exchanged, ShipInv, StagingFollows
<1>2. v \in View /\ live \in [View -> Table] /\ staging \in [View -> Table]
  BY TableNames DEF ShipInv, TablesTyped, View
<1>3. QED  BY <1>1, <1>2

LEMMA SwapPreserves == ASSUME ShipInv, Swap PROVE ShipInv'
<1>1. /\ step = "swap" /\ Exchanged
      /\ table' = (table % 2) + 1 /\ step' \notin {"ship", "swap"} /\ bucket' = 0
      /\ counted' = counted
  BY TableNames DEF Swap, ShipInv, StagingFollows
<1>2. live' \in [View -> Table] /\ staging' \in [View -> Table]
  BY <1>1, SwapExchanges
<1>3. table' \in 1..2 /\ counted' \in [View -> Table]
  BY <1>1 DEF ShipInv, TablesTyped
<1>4. TablesTyped'
  BY <1>1, <1>2, <1>3, Constants DEF TablesTyped
<1>5. StagingFollows'
  BY <1>1 DEF StagingFollows
<1>6. QED  BY <1>4, <1>5 DEF ShipInv

LEMMA ReprocessKeepsTables == ASSUME ShipInv, Reprocess PROVE ShipInv'
<1>1. /\ counted' = [v \in View |-> Added(counted[v], {r \in Unparsed : Takes(v, r)}, One)]
      /\ step = "reprocess" /\ step' = "stage"
      /\ UNCHANGED <<live, staging, table, bucket>>
  BY DEF Reprocess, locals
<1>2. ASSUME NEW v \in View
      PROVE  Added(counted[v], {r \in Unparsed : Takes(v, r)}, One) \in Table
  BY AddedProperties, ConstantTables DEF ShipInv, TablesTyped
<1>3. counted' \in [View -> Table]
  BY <1>1, <1>2
<1>4. TablesTyped'
  BY <1>1, <1>3 DEF ShipInv, TablesTyped
<1>5. StagingFollows'
  BY <1>1 DEF ShipInv, StagingFollows
<1>6. QED  BY <1>4, <1>5 DEF ShipInv

\* A command that fails leaves tables behind, whatever is in them.
LEMMA FailuresPreserve ==
    ASSUME ShipInv, CommandFails \/ PullFails \/ ReprocessFails \/ ShipFails \/ SwapFails
    PROVE  ShipInv'
<1>1. table' = 1 /\ bucket' = 0 /\ step' = "idle"
  BY DEF CommandFails, PullFails, ReprocessFails, ShipFails, SwapFails, Fails
<1>2. /\ counted \in [View -> Table] /\ live \in [View -> Table]
      /\ staging \in [View -> Table]
  BY DEF ShipInv, TablesTyped
<1>3. CASE CommandFails \/ PullFails
  <2>1. UNCHANGED <<counted, live, staging>>
    BY <1>3 DEF CommandFails, PullFails
  <2>2. QED  BY <1>1, <1>2, <2>1, TransferEnds
<1>4. CASE ReprocessFails
  <2>1. PICK some \in SUBSET Unparsed, views \in SUBSET View :
            counted' = [v \in View |->
                Added(counted[v],
                      {r \in IF v \in views THEN Unparsed ELSE some : Takes(v, r)}, One)]
    BY <1>4 DEF ReprocessFails
  <2>2. ASSUME NEW v \in View
        PROVE  Added(counted[v],
                     {r \in IF v \in views THEN Unparsed ELSE some : Takes(v, r)}, One)
                   \in Table
    BY <1>2, AddedProperties, ConstantTables
  <2>3. counted' \in [View -> Table] /\ UNCHANGED <<live, staging>>
    BY <1>4, <2>1, <2>2 DEF ReprocessFails
  <2>4. QED  BY <1>1, <1>2, <2>3, TransferEnds
<1>5. CASE ShipFails
  <2>1. PICK some \in SUBSET RowsOfBucket : Sent(some)
    BY <1>5 DEF ShipFails
  <2>2. Tables[table] \in View
    BY TableNames DEF ShipInv, TablesTyped, View
  <2>3. Added(staging[Tables[table]], some, counted[Tables[table]]) \in Table
    BY <1>2, <2>2, AddedProperties
  <2>4. staging' \in [View -> Table] /\ UNCHANGED <<counted, live>>
    BY <1>2, <1>5, <2>1, <2>2, <2>3 DEF ShipFails, Sent
  <2>5. QED  BY <1>1, <1>2, <2>4, TransferEnds
<1>6. CASE SwapFails
  <2>1. step = "swap" /\ Exchanged /\ counted' = counted
    BY <1>6 DEF SwapFails
  <2>2. live' \in [View -> Table] /\ staging' \in [View -> Table]
    BY <2>1, SwapExchanges
  <2>3. QED  BY <1>1, <1>2, <2>1, <2>2, TransferEnds
<1>7. QED  BY <1>3, <1>4, <1>5, <1>6

LEMMA InitShip == ASSUME Init PROVE ShipInv
<1>1. /\ counted = [v \in View |-> [r \in Row |->
                       IF r \in jump /\ Takes(v, r) THEN 1 ELSE 0]]
      /\ live = counted /\ staging = [v \in View |-> Empty]
      /\ step = "idle" /\ table = 1 /\ bucket = 0
  BY DEF Init
<1>2. counted \in [View -> Table] /\ staging \in [View -> Table]
  BY <1>1, ConstantTables DEF Table
<1>3. TablesTyped
  BY <1>1, <1>2, Constants DEF TablesTyped
<1>4. StagingFollows
  BY <1>1 DEF StagingFollows
<1>5. QED  BY <1>3, <1>4 DEF ShipInv

LEMMA NextShip == ASSUME ShipInv, [Next]_vars PROVE ShipInv'
<1>1. CASE Arrive \/ Tick \/ UNCHANGED vars
  <2>1. UNCHANGED <<counted, live, staging, table, bucket, step>>
    BY <1>1 DEF Arrive, Tick, vars, locals
  <2>2. QED  BY <2>1, TransferUntouched
<1>2. CASE Begin \/ ReadCount \/ ReadHours \/ ReadHoursFails \/ PullHour
  <2>1. /\ UNCHANGED <<counted, live, staging, table, bucket>>
        /\ step # "ship" /\ step' \notin {"ship", "swap"}
    BY <1>2 DEF Begin, ReadCount, ReadHours, ReadHoursFails, Listed, PullHour, locals
  <2>2. bucket = 0
    BY <2>1 DEF ShipInv, StagingFollows
  <2>3. QED  BY <2>1, <2>2, TransferUntouched
<1>3. CASE Reprocess
  BY <1>3, ReprocessKeepsTables
<1>4. CASE OpenStaging
  BY <1>4, OpenPreserves
<1>5. CASE ShipBucket
  BY <1>5, ShipPreserves
<1>6. CASE Swap
  BY <1>6, SwapPreserves
<1>7. CASE CommandFails \/ PullFails \/ ReprocessFails \/ ShipFails \/ SwapFails
  BY <1>7, FailuresPreserve
<1>8. QED
  BY <1>1, <1>2, <1>3, <1>4, <1>5, <1>6, <1>7, Zenon DEF Next, GoOn
-----------------------------------------------------------------------------
(* The rest of the types.                                                    *)

\* What neither the pull nor the transfer rests on.
RestTyped ==
    /\ parsed \subseteq here
    /\ late \subseteq Row
    /\ step \in {"idle", "count", "hours", "pull", "reprocess", "stage", "ship", "swap"}
    /\ torn \in BOOLEAN
    /\ failures \in 0..MaxFailures

LEMMA InitRest == ASSUME Init PROVE RestTyped
<1>1. /\ parsed = here /\ late = {} /\ torn = FALSE /\ failures = 0 /\ step = "idle"
  BY DEF Init
<1>2. failures \in 0..MaxFailures
  <2>1. MaxFailures \in Nat
    BY SyncAssumption
  <2>2. QED  BY <1>1, <2>1
<1>3. QED  BY <1>1, <1>2 DEF RestTyped

\* The parsed rows are local rows, also after a pull or a run that got half way.
LEMMA NextRest == ASSUME RestTyped, [Next]_vars PROVE RestTyped'
<1>1. CASE Arrive
  <2>1. PICK r \in Row : late' = IF now <= Newest(here) THEN late \cup {r} ELSE late
    BY <1>1 DEF Arrive
  <2>2. late' \subseteq Row
    BY <2>1 DEF RestTyped
  <2>3. UNCHANGED <<here, parsed, step, torn, failures>>
    BY <1>1 DEF Arrive
  <2>4. QED  BY <2>2, <2>3 DEF RestTyped
<1>2. CASE Tick \/ UNCHANGED vars
  <2>1. UNCHANGED <<here, parsed, late, step, torn, failures>>
    BY <1>2 DEF Tick, vars, rawLayers
  <2>2. QED  BY <2>1 DEF RestTyped
<1>3. CASE Begin \/ ReadCount \/ ReadHours \/ PullHour \/ OpenStaging \/ ShipBucket \/ Swap
  <2>1. /\ here \subseteq here' /\ UNCHANGED <<parsed, late, torn, failures>>
        /\ step' \in {"idle", "count", "hours", "pull", "reprocess", "stage", "ship", "swap"}
    BY <1>3 DEF Begin, ReadCount, ReadHours, Listed, PullHour, OpenStaging, ShipBucket,
                Swap, rawLayers
  <2>2. QED  BY <2>1 DEF RestTyped
<1>4. CASE Reprocess
  <2>1. /\ parsed' = parsed \cup Unparsed /\ Unparsed \subseteq here
        /\ step' = "stage" /\ UNCHANGED <<here, late, torn, failures>>
    BY <1>4 DEF Reprocess, Unparsed, rawLayers
  <2>2. QED  BY <2>1 DEF RestTyped
<1>5. CASE CommandFails \/ PullFails \/ ReprocessFails \/ ShipFails \/ SwapFails
  <2>1. Fails
    BY <1>5 DEF CommandFails, PullFails, ReprocessFails, ShipFails, SwapFails
  <2>2. step' = "idle" /\ late' = late
    BY <2>1 DEF Fails
  <2>3. failures' \in 0..MaxFailures
    BY <2>1, SyncAssumption DEF Fails, RestTyped
  <2>4. here \subseteq here' /\ parsed' \subseteq here'
    BY <1>5 DEF CommandFails, PullFails, ReprocessFails, ShipFails, SwapFails, RestTyped,
                Unparsed
  <2>5. torn' \in BOOLEAN
    BY <1>5 DEF CommandFails, PullFails, ReprocessFails, ShipFails, SwapFails, RestTyped
  <2>6. QED  BY <2>2, <2>3, <2>4, <2>5 DEF RestTyped
<1>6. CASE ReadHoursFails
  <2>1. /\ step' \in {"reprocess", "pull"}
        /\ UNCHANGED <<here, parsed, late, torn>>
    BY <1>6 DEF ReadHoursFails, Listed, rawLayers
  <2>2. failures' \in 0..MaxFailures
    BY <1>6, SyncAssumption DEF ReadHoursFails, RestTyped
  <2>3. QED  BY <2>1, <2>2 DEF RestTyped
<1>7. QED
  BY <1>1, <1>2, <1>3, <1>4, <1>5, <1>6, Zenon DEF Next, GoOn
-----------------------------------------------------------------------------
\* The two invariants, of the pull and of the transfer.
THEOREM InvariantHolds == Spec => [](PullInv /\ ShipInv)
<1>1. Init => PullInv /\ ShipInv
  BY InitPull, InitShip
<1>2. PullInv /\ ShipInv /\ [Next]_vars => (PullInv /\ ShipInv)'
  BY NextPull, NextShip
<1>3. QED  BY <1>1, <1>2, PTL DEF Spec

\* Types: the local rows are rows of the jump, the parsed ones local rows, and the
\* tables are tables, whichever commands fail and how far they got.
THEOREM TypeCorrect == Spec => []TypeOK
<1>1. Spec => []RestTyped
  <2>1. Init => RestTyped
    BY InitRest
  <2>2. RestTyped /\ [Next]_vars => RestTyped'
    BY NextRest
  <2>3. QED  BY <2>1, <2>2, PTL DEF Spec
<1>2. PullInv /\ ShipInv /\ RestTyped => TypeOK
  <2> SUFFICES ASSUME PullInv, ShipInv, RestTyped PROVE TypeOK
    OBVIOUS
  <2>1. watermark \in 0..MaxTime
    BY HereProperties, Constants DEF PullInv, PullTyped
  <2>2. /\ {jump, here, parsed, late} \subseteq SUBSET Row
        /\ here \subseteq jump /\ parsed \subseteq here
    BY DEF PullInv, PullTyped, RestTyped
  <2>3. /\ \A t \in {counted, live, staging} : DOMAIN t = View
        /\ \A v \in View : {counted[v], live[v], staging[v]} \subseteq Table
    BY DEF ShipInv, TablesTyped
  <2>4. now \in 1..MaxTime /\ hours \subseteq {HourOf(r) : r \in jump}
    BY DEF PullInv, PullTyped
  <2>5. table \in 1..Len(Tables) /\ bucket \in 0..Buckets - 1
    BY TableNames DEF ShipInv, TablesTyped
  <2>6. QED  BY <2>1, <2>2, <2>3, <2>4, <2>5 DEF TypeOK, RestTyped
<1>3. QED  BY <1>1, <1>2, InvariantHolds, PTL

\* No row is skipped by the watermark of the pull, whatever arrives during it and
\* whichever command ends it, unless a failure tore an hour.
THEOREM NothingIsSkipped == Spec => []PullLeavesNoGap
<1>1. PullInv => PullLeavesNoGap
  <2>1. SUFFICES ASSUME PullInv, ~torn, NEW r \in jump \ late, Time(r) < Newest(here)
                 PROVE  r \in here
    BY DEF PullLeavesNoGap
  <2>2. Time(r) \in Nat /\ Newest(here) \in Nat
    BY <2>1, RowProperties, HereProperties, Constants DEF PullInv, PullTyped
  <2>3. QED  BY <2>1, <2>2 DEF PullInv, NothingSkipped
<1>2. QED  BY <1>1, InvariantHolds, PTL

\* The jump never serves a part of a table, nor what an earlier run left.
THEOREM OnlyWholeTables == Spec => LiveIsTheLocalTable
<1>1. ASSUME ShipInv, [Next]_vars, NEW w \in View, live'[w] # live[w]
      PROVE  live'[w] = counted[w]
  <2>1. CASE Swap \/ SwapFails
    <3>1. step = "swap" /\ Exchanged
      BY <2>1 DEF Swap, SwapFails
    <3>2. QED  BY <1>1, <3>1, SwapExchanges
  <2>2. CASE ~(Swap \/ SwapFails)
    <3>1. live' = live
      BY <1>1, <2>2 DEF Next, GoOn, Arrive, Tick, Begin, ReadCount, ReadHours,
                        ReadHoursFails, Listed, PullHour, Reprocess, OpenStaging, ShipBucket, CommandFails, PullFails,
                        ReprocessFails, ShipFails, vars
    <3>2. QED  BY <1>1, <3>1
  <2>3. QED  BY <2>1, <2>2
<1>2. PullInv /\ ShipInv /\ [Next]_vars =>
          [\A v \in View : live'[v] # live[v] => live'[v] = counted[v]]_vars
  BY <1>1
<1>3. QED  BY <1>2, InvariantHolds, PTL DEF Spec, LiveIsTheLocalTable
=============================================================================
