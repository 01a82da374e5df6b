------------------------- MODULE ResponseCacheProofs -------------------------
(***************************************************************************)
(* Theorems of ResponseCache, for any number of threads, keys and entries  *)
(* and every time to live.                                                 *)
(***************************************************************************)
EXTENDS ResponseCache, Integers, FiniteSetTheorems, TLAPS

Places == {"idle", "get", "produce", "check", "scanning",
           "choosing", "delete", "insert", "answered", "failed"}

\* The places of a thread that holds a value from its producer.
Produced == {"check", "scanning", "choosing", "delete", "insert"}

\* A thread that has a call in progress has its argument: without it an entry
\* might be stored under no key.
ArgumentGiven == \A t \in Threads : pc[t] # "idle" => key[t] \in Keys

\* A value is no older than the request that fetched it, and an entry expires the
\* time to live after its value was fetched, or earlier.
ValuesAreRecent ==
    /\ \A t \in Threads : now[t] <= clock
    /\ \A t \in Threads : pc[t] \in Produced => now[t] <= value[t]
    /\ \A k \in DOMAIN entries : entries[k].expires_at <= entries[k].value + TimeToLive

\* The threads that will insert without another look at the dictionary.
Inserting == {t \in Threads : pc[t] = "insert"}

\* SizeBound is not inductive alone: every thread about to insert counts as an
\* entry already.
RoomIsReserved ==
    Length + Cardinality(Inserting) <= MaximumEntries + Cardinality(Threads) - 1

IInv == TypeOK /\ ArgumentGiven /\ ValuesAreRecent /\ Freshness /\ RoomIsReserved
-----------------------------------------------------------------------------
(* Types.                                                                    *)

\* A thread goes to a place, and the others stay where they are.
LEMMA GotoMoves ==
    ASSUME TypeOK, NEW t \in Threads, NEW place \in Places, Goto(t, place)
    PROVE  /\ pc' \in [Threads -> Places]
           /\ pc'[t] = place
           /\ \A u \in Threads \ {t} : pc'[u] = pc[u]
BY DEF TypeOK, Places, Goto

\* The dictionary is finite, so its length is a number.
LEMMA LengthIsNatural ==
    ASSUME TypeOK
    PROVE  /\ IsFiniteSet(DOMAIN entries)
           /\ Length \in Nat
<1>1. DOMAIN entries \in SUBSET Keys
  BY DEF TypeOK
<1>2. IsFiniteSet(DOMAIN entries)
  BY <1>1, CacheAssumption, FS_Subset
<1>3. QED  BY <1>2, FS_CardinalityType DEF Length

\* Every step keeps the types; an entry is stored with a value and an expiry.
LEMMA TypePreserved == ASSUME TypeOK, ArgumentGiven, [Next]_vars PROVE TypeOK'
<1>1. TimeToLive \in Nat /\ MaxClock \in Nat /\ Length \in Nat
  BY CacheAssumption, LengthIsNatural
<1>2. CASE Passes
  BY <1>1, <1>2 DEF Passes, TypeOK, locals, Moment, Entry
<1>3. ASSUME NEW t \in Threads, Call(t) PROVE TypeOK'
  BY <1>1, <1>3 DEF Call, Goto, TypeOK, Moment, Entry
<1>4. ASSUME NEW t \in Threads, Return(t) PROVE TypeOK'
  BY <1>1, <1>4 DEF Return, Goto, TypeOK, Moment, Entry
<1>5. ASSUME NEW t \in Threads, Get(t) PROVE TypeOK'
  BY <1>1, <1>5 DEF Get, Hits, Goto, TypeOK, Moment, Entry
<1>6. ASSUME NEW t \in Threads, Produce(t) PROVE TypeOK'
  BY <1>1, <1>6 DEF Produce, Goto, TypeOK, Moment, Entry
<1>7. ASSUME NEW t \in Threads, ProducerRaises(t) PROVE TypeOK'
  BY <1>1, <1>7 DEF ProducerRaises, locals, Goto, TypeOK, Moment, Entry
<1>8. ASSUME NEW t \in Threads, Check(t) PROVE TypeOK'
  BY <1>1, <1>8 DEF Check, Goto, TypeOK, Moment, Entry
<1>9. ASSUME NEW t \in Threads, Scanned(t) PROVE TypeOK'
  <2>1. Expired(t) \in SUBSET Keys
    BY DEF TypeOK, Expired
  <2>2. QED  BY <1>1, <1>9, <2>1 DEF Scanned, Goto, TypeOK, Moment, Entry
<1>10. ASSUME NEW t \in Threads, Chosen(t) PROVE TypeOK'
  <2>1. Oldest \subseteq Keys
    BY DEF TypeOK, Oldest
  <2>2. QED  BY <1>1, <1>10, <2>1 DEF Chosen, Goto, TypeOK, Moment, Entry
<1>11. ASSUME NEW t \in Threads, Delete(t) PROVE TypeOK'
  BY <1>1, <1>11 DEF Delete, Restrict, Goto, TypeOK, Moment, Entry
<1>12. ASSUME NEW t \in Threads, Insert(t) PROVE TypeOK'
  <2> DEFINE entry == [value |-> value[t], expires_at |-> now[t] + TimeToLive]
  <2>1. key[t] \in Keys
    BY <1>12 DEF Insert, ArgumentGiven
  <2>2. entry \in Entry
    BY <1>1 DEF TypeOK, Moment, Entry
  <2>3. entries' = With(key[t], entry)
    BY <1>12 DEF Insert
  <2> HIDE DEF entry
  <2>4. DOMAIN entries' \subseteq Keys /\ \A k \in DOMAIN entries' : entries'[k] \in Entry
    BY <2>1, <2>2, <2>3 DEF With, TypeOK
  <2>5. QED  BY <1>12, <2>4 DEF Insert, locals, Goto, TypeOK, Moment
<1>13. CASE UNCHANGED vars
  BY <1>13 DEF vars, locals, TypeOK, Moment, Entry
<1>14. QED  BY <1>2, <1>3, <1>4, <1>5, <1>6, <1>7, <1>8, <1>9, <1>10, <1>11, <1>12, <1>13,
               Zenon DEF Next, Step

\* A request comes with its key and keeps it until it is answered.
LEMMA ArgumentPreserved ==
    ASSUME TypeOK, ArgumentGiven, [Next]_vars
    PROVE  ArgumentGiven'
<1>1. ASSUME NEW t \in Threads, Call(t) PROVE ArgumentGiven'
  BY <1>1 DEF Call, Goto, TypeOK, ArgumentGiven
<1>2. ASSUME NEW t \in Threads, Return(t) PROVE ArgumentGiven'
  BY <1>2 DEF Return, Goto, TypeOK, ArgumentGiven
<1>3. ASSUME NEW t \in Threads, pc[t] # "idle", key' = key,
             NEW place \in Places, Goto(t, place)
      PROVE  ArgumentGiven'
  BY <1>3 DEF Goto, TypeOK, ArgumentGiven
<1>4. ASSUME NEW t \in Threads,
             \/ Get(t) \/ Produce(t) \/ ProducerRaises(t) \/ Check(t)
             \/ Scanned(t) \/ Chosen(t) \/ Delete(t) \/ Insert(t)
      PROVE  ArgumentGiven'
  <2>1. pc[t] # "idle" /\ key' = key
    BY <1>4 DEF Get, Produce, ProducerRaises, Check, Scanned, Chosen, Delete, Insert, locals
  <2>2. \E place \in Places : Goto(t, place)
    BY <1>4 DEF Get, Produce, ProducerRaises, Check, Scanned, Chosen, Delete, Insert, Places
  <2>3. QED  BY <1>3, <2>1, <2>2
<1>5. CASE Passes \/ UNCHANGED vars
  BY <1>5 DEF Passes, vars, locals, ArgumentGiven
<1>6. QED  BY <1>1, <1>2, <1>4, <1>5, Zenon DEF Next, Step
-----------------------------------------------------------------------------
(* Freshness.                                                                *)

\* A step that leaves the dictionary alone and takes thread t to a place where its
\* value is recent, if it has to be, leaves every value recent.
LEMMA ThreadKeepsRecent ==
    ASSUME TypeOK, ValuesAreRecent, Freshness,
           NEW t \in Threads, NEW place \in Places, Goto(t, place),
           clock' = clock, entries' = entries,
           now' \in [Threads -> Moment], value' \in [Threads -> Moment],
           \A u \in Threads \ {t} : now'[u] = now[u] /\ value'[u] = value[u],
           now'[t] <= clock,
           place \in Produced => now'[t] <= value'[t],
           place = "answered" /\ TimeToLive > 0 => value'[t] + TimeToLive > now'[t]
    PROVE  ValuesAreRecent' /\ Freshness'
<1>1. pc'[t] = place /\ \A u \in Threads \ {t} : pc'[u] = pc[u]
  BY GotoMoves
<1>2. ValuesAreRecent'
  BY <1>1 DEF ValuesAreRecent
<1>3. Freshness'
  BY <1>1 DEF Freshness
<1>4. QED  BY <1>2, <1>3

\* Every step keeps values recent: a hit is younger than its expiry, a miss is
\* answered with what was fetched after the request came.
LEMMA RecentPreserved ==
    ASSUME TypeOK, ValuesAreRecent, Freshness, [Next]_vars, TypeOK'
    PROVE  ValuesAreRecent' /\ Freshness'
<1>1. /\ TimeToLive \in Nat /\ clock \in Nat
      /\ \A t \in Threads : now[t] \in Nat /\ value[t] \in Nat
      /\ now \in [Threads -> Moment] /\ value \in [Threads -> Moment]
      /\ now' \in [Threads -> Moment] /\ value' \in [Threads -> Moment]
  BY CacheAssumption DEF TypeOK, Moment
<1>2. CASE Passes
  <2>1. /\ clock' = clock + 1 /\ entries' = entries /\ pc' = pc
        /\ now' = now /\ value' = value
    BY <1>2 DEF Passes, locals
  <2>2. QED  BY <1>1, <2>1 DEF ValuesAreRecent, Freshness
<1>3. ASSUME NEW t \in Threads, Call(t) PROVE ValuesAreRecent' /\ Freshness'
  <2>1. /\ Goto(t, "get") /\ clock' = clock /\ entries' = entries /\ value' = value
        /\ now' = [now EXCEPT ![t] = clock]
    BY <1>3 DEF Call
  <2>2. now'[t] = clock /\ \A u \in Threads \ {t} : now'[u] = now[u]
    BY <1>1, <2>1
  <2>3. "get" \in Places /\ "get" \notin Produced
    BY DEF Places, Produced
  <2>4. QED  BY <1>1, <2>1, <2>2, <2>3, ThreadKeepsRecent
<1>4. ASSUME NEW t \in Threads, Return(t) PROVE ValuesAreRecent' /\ Freshness'
  <2>1. /\ Goto(t, "idle") /\ clock' = clock /\ entries' = entries
        /\ now' = [now EXCEPT ![t] = 0] /\ value' = [value EXCEPT ![t] = 0]
    BY <1>4 DEF Return
  <2>2. /\ now'[t] = 0
        /\ \A u \in Threads \ {t} : now'[u] = now[u] /\ value'[u] = value[u]
    BY <1>1, <2>1
  <2>3. "idle" \in Places /\ "idle" \notin Produced
    BY DEF Places, Produced
  <2>4. now'[t] <= clock
    BY <1>1, <2>2
  <2>5. QED  BY <1>1, <2>1, <2>2, <2>3, <2>4, ThreadKeepsRecent
<1>5. ASSUME NEW t \in Threads, Get(t) PROVE ValuesAreRecent' /\ Freshness'
  <2>1. now' = now /\ clock' = clock /\ entries' = entries /\ now[t] <= clock
    BY <1>5 DEF Get, ValuesAreRecent
  <2>2. CASE /\ Hits(t) /\ Goto(t, "answered")
             /\ value' = [value EXCEPT ![t] = entries[key[t]].value]
    <3>1. /\ value'[t] = entries[key[t]].value
          /\ \A u \in Threads \ {t} : value'[u] = value[u]
      BY <1>1, <2>2
    <3>2. /\ entries[key[t]].expires_at > now[t]
          /\ entries[key[t]].expires_at <= entries[key[t]].value + TimeToLive
          /\ entries[key[t]] \in Entry
      BY <2>2 DEF Hits, ValuesAreRecent, TypeOK
    <3>3. value'[t] + TimeToLive > now'[t]
      BY <1>1, <2>1, <3>1, <3>2, CacheAssumption DEF Entry, Moment
    <3>4. "answered" \in Places /\ "answered" \notin Produced
      BY DEF Places, Produced
    <3>5. QED  BY <1>1, <2>1, <2>2, <3>1, <3>3, <3>4, ThreadKeepsRecent
  <2>3. CASE ~Hits(t) /\ Goto(t, "produce") /\ value' = value
    <3>1. "produce" \in Places /\ "produce" \notin Produced
      BY DEF Places, Produced
    <3>2. QED  BY <1>1, <2>1, <2>3, <3>1, ThreadKeepsRecent
  <2>4. QED  BY <1>5, <2>2, <2>3, Zenon DEF Get
<1>6. ASSUME NEW t \in Threads, Produce(t) PROVE ValuesAreRecent' /\ Freshness'
  <2>1. /\ Goto(t, "check") /\ clock' = clock /\ entries' = entries /\ now' = now
        /\ value' = [value EXCEPT ![t] = clock]
    BY <1>6 DEF Produce
  <2>2. value'[t] = clock /\ \A u \in Threads \ {t} : value'[u] = value[u]
    BY <1>1, <2>1
  <2>3. "check" \in Places /\ now[t] <= clock
    BY DEF Places, ValuesAreRecent
  <2>4. QED  BY <1>1, <2>1, <2>2, <2>3, ThreadKeepsRecent
<1>7. ASSUME NEW t \in Threads, ProducerRaises(t) PROVE ValuesAreRecent' /\ Freshness'
  <2>1. /\ Goto(t, "failed") /\ clock' = clock /\ entries' = entries
        /\ now' = now /\ value' = value
    BY <1>7 DEF ProducerRaises, locals
  <2>2. "failed" \in Places /\ "failed" \notin Produced /\ now[t] <= clock
    BY DEF Places, Produced, ValuesAreRecent
  <2>3. QED  BY <1>1, <2>1, <2>2, ThreadKeepsRecent
<1>8. ASSUME NEW t \in Threads, Check(t) \/ Scanned(t) \/ Chosen(t)
      PROVE  ValuesAreRecent' /\ Freshness'
  <2>1. /\ pc[t] \in Produced
        /\ clock' = clock /\ entries' = entries /\ now' = now /\ value' = value
    BY <1>8 DEF Check, Scanned, Chosen, Produced
  <2>2. PICK place \in Produced \cup {"failed"} : Goto(t, place)
    BY <1>8 DEF Check, Scanned, Chosen, Produced
  <2>3. place \in Places /\ place # "answered"
    BY DEF Produced, Places
  <2>4. now[t] <= clock /\ now[t] <= value[t]
    BY <2>1 DEF ValuesAreRecent
  <2>5. QED  BY <1>1, <2>1, <2>2, <2>3, <2>4, ThreadKeepsRecent
<1>9. ASSUME NEW t \in Threads, Delete(t) PROVE ValuesAreRecent' /\ Freshness'
  <2>1. /\ pc[t] \in Produced
        /\ clock' = clock /\ now' = now /\ value' = value
    BY <1>9 DEF Delete, Produced
  <2>2. PICK place \in {"insert", "delete", "failed"} : Goto(t, place)
    BY <1>9 DEF Delete
  <2>3. DOMAIN entries' \subseteq DOMAIN entries
    BY <1>9 DEF Delete, Restrict
  <2>4. \A k \in DOMAIN entries' : entries'[k] = entries[k]
    BY <1>9 DEF Delete, Restrict
  <2>5. place \in Places /\ place # "answered"
    BY DEF Places
  <2>6. pc'[t] = place /\ \A u \in Threads \ {t} : pc'[u] = pc[u]
    BY <2>2, <2>5, GotoMoves
  <2>7. ValuesAreRecent'
    BY <2>1, <2>3, <2>4, <2>6 DEF ValuesAreRecent
  <2>8. Freshness'
    BY <2>1, <2>5, <2>6 DEF Freshness
  <2>9. QED  BY <2>7, <2>8
<1>10. ASSUME NEW t \in Threads, Insert(t) PROVE ValuesAreRecent' /\ Freshness'
  <2> DEFINE entry == [value |-> value[t], expires_at |-> now[t] + TimeToLive]
  <2>1. /\ pc[t] = "insert" /\ Goto(t, "answered")
        /\ clock' = clock /\ now' = now /\ value' = value
        /\ entries' = With(key[t], entry)
    BY <1>10 DEF Insert, locals
  <2>2. now[t] <= value[t]
    BY <2>1 DEF ValuesAreRecent, Produced
  <2>3. "answered" \in Places /\ "answered" \notin Produced
    BY DEF Places, Produced
  <2>4. pc'[t] = "answered" /\ \A u \in Threads \ {t} : pc'[u] = pc[u]
    BY <2>1, <2>3, GotoMoves
  <2>5. entry.expires_at <= entry.value + TimeToLive
    BY <1>1, <2>2
  <2> HIDE DEF entry
  <2>6. \A k \in DOMAIN entries' :
           \/ entries'[k] = entry
           \/ k \in DOMAIN entries /\ entries'[k] = entries[k]
    BY <2>1 DEF With
  <2>7. \A k \in DOMAIN entries' :
           entries'[k].expires_at <= entries'[k].value + TimeToLive
    BY <2>5, <2>6 DEF ValuesAreRecent
  <2>8. ValuesAreRecent'
    BY <2>1, <2>3, <2>4, <2>7 DEF ValuesAreRecent
  <2>9. Freshness'
    BY <1>1, <2>1, <2>2, <2>4 DEF Freshness
  <2>10. QED  BY <2>8, <2>9
<1>11. CASE UNCHANGED vars
  BY <1>11 DEF vars, locals, ValuesAreRecent, Freshness
<1>12. QED  BY <1>2, <1>3, <1>4, <1>5, <1>6, <1>7, <1>8, <1>9, <1>10, <1>11,
               Zenon DEF Next, Step
-----------------------------------------------------------------------------
(* The size.                                                                 *)

\* The threads are finitely many, and so are those about to insert.
LEMMA InsertingIsFinite ==
    /\ IsFiniteSet(Threads) /\ Cardinality(Threads) \in Nat \ {0}
    /\ IsFiniteSet(Inserting) /\ Cardinality(Inserting) \in Nat
    /\ Cardinality(Inserting) <= Cardinality(Threads)
<1>1. IsFiniteSet(Threads) /\ Threads # {}
  BY CacheAssumption
<1>2. Cardinality(Threads) \in Nat /\ Cardinality(Threads) # 0
  BY <1>1, FS_CardinalityType, FS_EmptySet
<1>3. Inserting \in SUBSET Threads
  BY DEF Inserting
<1>4. IsFiniteSet(Inserting) /\ Cardinality(Inserting) <= Cardinality(Threads)
  BY <1>1, <1>3, FS_Subset
<1>5. QED  BY <1>1, <1>2, <1>4, FS_CardinalityType

\* Room stays reserved as long as neither the dictionary nor the number of threads
\* about to insert grows.
LEMMA QuietKeepsRoom ==
    ASSUME TypeOK, RoomIsReserved,
           DOMAIN entries' = DOMAIN entries, Inserting' \subseteq Inserting
    PROVE  RoomIsReserved'
<1> DEFINE after == Inserting'
<1>1. /\ IsFiniteSet(Inserting) /\ Cardinality(Inserting) \in Nat
      /\ Cardinality(Threads) \in Nat
  BY InsertingIsFinite
<1>2. Length \in Nat /\ MaximumEntries \in Nat
  BY LengthIsNatural, CacheAssumption
<1>3. after \in SUBSET Inserting
  OBVIOUS
<1> HIDE DEF after
<1>4. Cardinality(after) <= Cardinality(Inserting) /\ Cardinality(after) \in Nat
  BY <1>1, <1>3, FS_Subset, FS_CardinalityType
<1>5. Length' = Length
  BY DEF Length
<1>6. Length + Cardinality(after) <= MaximumEntries + Cardinality(Threads) - 1
  BY <1>1, <1>2, <1>4 DEF RoomIsReserved
<1>7. QED  BY <1>5, <1>6 DEF RoomIsReserved, after

\* Every step keeps the room: the check is passed by a thread that saw room for
\* one more, a deletion makes room for one, and an insertion takes its own.
LEMMA RoomPreserved ==
    ASSUME TypeOK, RoomIsReserved, [Next]_vars
    PROVE  RoomIsReserved'
<1> DEFINE before == Inserting
           after == Inserting'
           D == DOMAIN entries
           T == Cardinality(Threads)
<1>1. /\ T \in Nat \ {0} /\ IsFiniteSet(Threads)
      /\ IsFiniteSet(before) /\ Cardinality(before) \in Nat
      /\ IsFiniteSet(D) /\ Cardinality(D) \in Nat
      /\ MaximumEntries \in Nat \ {0}
  BY InsertingIsFinite, LengthIsNatural, CacheAssumption DEF Length
<1>2. Cardinality(D) + Cardinality(before) <= MaximumEntries + T - 1
  BY DEF RoomIsReserved, Length
<1>3. ASSUME NEW t \in Threads, NEW place \in Places, Goto(t, place)
      PROVE  after = IF place = "insert" THEN before \cup {t} ELSE before \ {t}
  <2>1. pc'[t] = place /\ \A u \in Threads \ {t} : pc'[u] = pc[u]
    BY <1>3, GotoMoves
  <2>2. QED  BY <2>1 DEF Inserting
<1>4. ASSUME NEW t \in Threads, NEW place \in Places \ {"insert"}, Goto(t, place),
             DOMAIN entries' = D
      PROVE  RoomIsReserved'
  <2>1. after \subseteq before
    BY <1>3, <1>4
  <2>2. QED  BY <1>4, <2>1, QuietKeepsRoom
<1>5. ASSUME NEW t \in Threads,
             Call(t) \/ Return(t) \/ Get(t) \/ Produce(t) \/ ProducerRaises(t)
             \/ Scanned(t) \/ Chosen(t)
      PROVE  RoomIsReserved'
  <2>1. entries' = entries
    BY <1>5 DEF Call, Return, Get, Produce, ProducerRaises, Scanned, Chosen
  <2>2. \E place \in Places \ {"insert"} : Goto(t, place)
    BY <1>5 DEF Call, Return, Get, Produce, ProducerRaises, Scanned, Chosen, Places
  <2>3. QED  BY <1>4, <2>1, <2>2
<1>6. ASSUME NEW t \in Threads, Check(t) PROVE RoomIsReserved'
  <2>1. entries' = entries
    BY <1>6 DEF Check
  <2>2. CASE Length >= MaximumEntries
    <3>1. Goto(t, "scanning") /\ "scanning" \in Places \ {"insert"}
      BY <1>6, <2>2 DEF Check, Places
    <3>2. QED  BY <1>4, <2>1, <3>1
  <2>3. CASE ~(Length >= MaximumEntries)
    <3>1. after \in SUBSET Threads
      BY DEF Inserting
    <3>2. Cardinality(D) < MaximumEntries
      BY <1>1, <2>3 DEF Length
    <3>3. Length' = Cardinality(D)
      BY <2>1 DEF Length
    <3> HIDE DEF after, D, T
    <3>4. Cardinality(after) <= T /\ Cardinality(after) \in Nat
      BY <1>1, <3>1, FS_Subset, FS_CardinalityType DEF T
    <3>5. Cardinality(D) + Cardinality(after) <= MaximumEntries + T - 1
      BY <1>1, <3>2, <3>4
    <3>6. QED  BY <3>3, <3>5 DEF RoomIsReserved, after, T
  <2>4. QED  BY <2>2, <2>3
<1>7. ASSUME NEW t \in Threads, Delete(t) PROVE RoomIsReserved'
  <2>1. PICK k \in doomed[t] :
           \/ /\ k \in DOMAIN entries
              /\ entries' = Restrict(entries, DOMAIN entries \ {k})
              /\ Goto(t, IF doomed'[t] = {} THEN "insert" ELSE "delete")
           \/ /\ Goto(t, "failed")
              /\ entries' = entries
    BY <1>7, Zenon DEF Delete
  <2>2. CASE Goto(t, "failed") /\ entries' = entries
    <3>1. "failed" \in Places \ {"insert"}
      BY DEF Places
    <3>2. QED  BY <1>4, <2>2, <3>1
  <2>3. CASE /\ k \in DOMAIN entries
             /\ entries' = Restrict(entries, DOMAIN entries \ {k})
             /\ Goto(t, IF doomed'[t] = {} THEN "insert" ELSE "delete")
    <3>1. after \in SUBSET (before \cup {t})
      <4>1. PICK place \in {"insert", "delete"} : Goto(t, place)
        BY <2>3
      <4>2. place \in Places
        BY DEF Places
      <4>3. QED  BY <1>3, <4>1, <4>2
    <3>2. DOMAIN entries' = D \ {k} /\ k \in D
      BY <2>3 DEF Restrict
    <3>3. Length' = Cardinality(D \ {k})
      BY <3>2 DEF Length
    <3> HIDE DEF before, after, D, T
    <3>4. Cardinality(D \ {k}) = Cardinality(D) - 1
      BY <1>1, <3>2, FS_RemoveElement
    <3>5. /\ IsFiniteSet(before \cup {t})
          /\ Cardinality(before \cup {t}) <= Cardinality(before) + 1
      <4>1. /\ IsFiniteSet(before \cup {t})
            /\ Cardinality(before \cup {t}) \in {Cardinality(before), Cardinality(before) + 1}
        BY <1>1, FS_AddElement
      <4>2. QED  BY <1>1, <4>1
    <3>6. /\ Cardinality(after) <= Cardinality(before \cup {t})
          /\ Cardinality(after) \in Nat /\ Cardinality(before \cup {t}) \in Nat
      BY <3>1, <3>5, FS_Subset, FS_CardinalityType
    <3>7. Cardinality(D \ {k}) + Cardinality(after) <= MaximumEntries + T - 1
      BY <1>1, <1>2, <3>4, <3>5, <3>6
    <3>8. QED  BY <3>3, <3>7 DEF RoomIsReserved, after, T
  <2>4. QED  BY <2>1, <2>2, <2>3
<1>8. ASSUME NEW t \in Threads, Insert(t) PROVE RoomIsReserved'
  <2>1. pc[t] = "insert" /\ Goto(t, "answered") /\ DOMAIN entries' = D \cup {key[t]}
    BY <1>8 DEF Insert, With
  <2>2. after = before \ {t}
    BY <1>3, <2>1 DEF Places
  <2>3. t \in before
    BY <2>1 DEF Inserting
  <2>4. Length' = Cardinality(D \cup {key[t]})
    BY <2>1 DEF Length
  <2> HIDE DEF before, after, D, T
  <2>5. Cardinality(after) = Cardinality(before) - 1
    BY <1>1, <2>2, <2>3, FS_RemoveElement
  <2>6. Cardinality(D \cup {key[t]}) \in {Cardinality(D), Cardinality(D) + 1}
    BY <1>1, FS_AddElement
  <2>7. Cardinality(D \cup {key[t]}) + Cardinality(after) <= MaximumEntries + T - 1
    BY <1>1, <1>2, <2>5, <2>6
  <2>8. QED  BY <2>4, <2>7 DEF RoomIsReserved, after, T
<1>9. CASE Passes \/ UNCHANGED vars
  <2>1. entries' = entries /\ pc' = pc
    BY <1>9 DEF Passes, vars
  <2>2. after = before
    BY <2>1 DEF Inserting
  <2>3. QED  BY <2>1, <2>2, QuietKeepsRoom
<1>10. QED  BY <1>5, <1>6, <1>7, <1>8, <1>9, Zenon DEF Next, Step
-----------------------------------------------------------------------------
\* An empty dictionary and idle threads.
LEMMA InitHolds == ASSUME Init PROVE IInv
<1>1. /\ clock = 0 /\ DOMAIN entries = {}
      /\ pc = [t \in Threads |-> "idle"] /\ key = [t \in Threads |-> NoKey]
      /\ now = [t \in Threads |-> 0] /\ value = [t \in Threads |-> 0]
      /\ size = [t \in Threads |-> 0] /\ doomed = [t \in Threads |-> {}]
  BY DEF Init
<1>2. TypeOK
  BY <1>1, CacheAssumption DEF TypeOK, Moment
<1>3. ArgumentGiven /\ ValuesAreRecent /\ Freshness
  BY <1>1 DEF ArgumentGiven, ValuesAreRecent, Freshness, Produced
<1>4. RoomIsReserved
  <2>1. Inserting = {}
    BY <1>1 DEF Inserting
  <2>2. Length = 0 /\ Cardinality(Inserting) = 0
    BY <1>1, <2>1, FS_EmptySet DEF Length
  <2>3. QED  BY <2>2, InsertingIsFinite, CacheAssumption DEF RoomIsReserved
<1>5. QED  BY <1>2, <1>3, <1>4 DEF IInv

\* The inductive invariant of the cache.
THEOREM InvariantHolds == Spec => []IInv
<1>1. ASSUME IInv, [Next]_vars PROVE IInv'
  BY <1>1, TypePreserved, ArgumentPreserved, RecentPreserved, RoomPreserved DEF IInv
<1>2. QED  BY <1>1, InitHolds, PTL DEF Spec

\* Entries and locals keep their types; no entry is stored under no key.
THEOREM TypeCorrect == Spec => []TypeOK
<1>1. IInv => TypeOK
  BY DEF IInv
<1>2. QED  BY <1>1, InvariantHolds, PTL

\* No answer is older than the time to live when its request came, however the
\* threads interleave.
THEOREM AnswersAreFresh == Spec => []Freshness
<1>1. IInv => Freshness
  BY DEF IInv
<1>2. QED  BY <1>1, InvariantHolds, PTL

\* The dictionary exceeds its maximum by less than the number of threads.
THEOREM SizeIsBounded == Spec => []SizeBound
<1>1. IInv => SizeBound
  <2> SUFFICES ASSUME IInv PROVE SizeBound
    OBVIOUS
  <2>1. Length + Cardinality(Inserting) <= MaximumEntries + Cardinality(Threads) - 1
    BY DEF IInv, RoomIsReserved
  <2>2. Length \in Nat /\ Cardinality(Inserting) \in Nat
    BY LengthIsNatural, InsertingIsFinite DEF IInv
  <2>3. QED  BY <2>1, <2>2, InsertingIsFinite, CacheAssumption DEF SizeBound
<1>2. QED  BY <1>1, InvariantHolds, PTL
=============================================================================
