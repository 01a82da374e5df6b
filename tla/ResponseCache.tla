---------------------------- MODULE ResponseCache ----------------------------
(***************************************************************************)
(* ResponseCache.get_or_call (api/cache.py) as the threads of the API's    *)
(* pool run it: the endpoints are plain functions, so FastAPI calls them   *)
(* in threads, and nothing locks the dictionary.  One action is one access *)
(* to the shared dictionary, or the call of the producer.                  *)
(*                                                                         *)
(* A value is the moment its query was answered.  An iteration over the    *)
(* dictionary raises when it finds the size changed, min() of an empty one *)
(* raises, and so does deleting an absent key: the request fails.          *)
(***************************************************************************)
EXTENDS Naturals, FiniteSets, Functions

CONSTANTS Threads, Keys,
          NoKey,             \* no argument
          TimeToLive,        \* time_to_live_seconds, in moments
          MaximumEntries,    \* MAXIMUM_ENTRIES
          MaxClock           \* bound: moments

ASSUME CacheAssumption == /\ IsFiniteSet(Threads) /\ Threads # {}
                          /\ IsFiniteSet(Keys) /\ NoKey \notin Keys
                          /\ TimeToLive \in Nat
                          /\ MaximumEntries \in Nat \ {0}
                          /\ MaxClock \in Nat

VARIABLES clock,     \* time.monotonic()
          entries,   \* _entries
          pc, key,   \* where each thread is, and its argument
          now,       \* the local of get_or_call
          value,     \* the local, once it has one
          size,      \* len(_entries) when the iteration in progress began
          doomed     \* keys _evict_expired still has to delete

locals == <<key, now, value, size, doomed>>
vars == <<clock, entries, pc, locals>>

Moment == 0..MaxClock
Entry == [value : Moment, expires_at : 0..(MaxClock + TimeToLive)]

TypeOK == /\ clock \in Moment
          /\ DOMAIN entries \subseteq Keys
          /\ \A k \in DOMAIN entries : entries[k] \in Entry
          /\ pc \in [Threads -> {"idle", "get", "produce", "check", "scanning",
                                 "choosing", "delete", "insert", "answered", "failed"}]
          /\ key \in [Threads -> Keys \cup {NoKey}]
          /\ now \in [Threads -> Moment]
          /\ value \in [Threads -> Moment]
          /\ size \in [Threads -> Nat]
          /\ doomed \in [Threads -> SUBSET Keys]

Init == /\ clock = 0
        /\ entries = << >>
        /\ pc = [t \in Threads |-> "idle"]
        /\ key = [t \in Threads |-> NoKey]
        /\ now = [t \in Threads |-> 0]
        /\ value = [t \in Threads |-> 0]
        /\ size = [t \in Threads |-> 0]
        /\ doomed = [t \in Threads |-> {}]
-----------------------------------------------------------------------------
Length == Cardinality(DOMAIN entries)

Goto(t, place) == pc' = [pc EXCEPT ![t] = place]

Expired(t) == {k \in DOMAIN entries : entries[k].expires_at <= now[t]}

Oldest == {k \in DOMAIN entries :
              \A j \in DOMAIN entries : entries[k].expires_at <= entries[j].expires_at}

Passes == /\ clock < MaxClock
          /\ clock' = clock + 1
          /\ UNCHANGED <<entries, pc, locals>>

\* A request comes in: now = time.monotonic() before anything else.
Call(t) == /\ pc[t] = "idle"
           /\ \E k \in Keys : key' = [key EXCEPT ![t] = k]
           /\ now' = [now EXCEPT ![t] = clock]
           /\ Goto(t, "get")
           /\ UNCHANGED <<clock, entries, value, size, doomed>>

Hits(t) == key[t] \in DOMAIN entries /\ entries[key[t]].expires_at > now[t]

Get(t) == /\ pc[t] = "get"
          /\ \/ /\ Hits(t)
                /\ value' = [value EXCEPT ![t] = entries[key[t]].value]
                /\ Goto(t, "answered")
             \/ /\ ~Hits(t)
                /\ Goto(t, "produce")
                /\ UNCHANGED value
          /\ UNCHANGED <<clock, entries, key, now, size, doomed>>

\* producer(): what the database, or chart_or_empty in its place, says now.
Produce(t) == /\ pc[t] = "produce"
              /\ value' = [value EXCEPT ![t] = clock]
              /\ Goto(t, "check")
              /\ UNCHANGED <<clock, entries, key, now, size, doomed>>

ProducerRaises(t) == /\ pc[t] = "produce"
                     /\ Goto(t, "failed")
                     /\ UNCHANGED <<clock, entries, locals>>

\* Mutant: evict only beyond the maximum.
CheckTooLate(t) == /\ pc[t] = "check"
                   /\ size' = [size EXCEPT ![t] = Length]
                   /\ Goto(t, IF Length > MaximumEntries THEN "scanning" ELSE "insert")
                   /\ UNCHANGED <<clock, entries, key, now, value, doomed>>

\* if len(_entries) >= MAXIMUM_ENTRIES, and the first step of the scan.
Check(t) == /\ pc[t] = "check"
            /\ size' = [size EXCEPT ![t] = Length]
            /\ Goto(t, IF Length >= MaximumEntries THEN "scanning" ELSE "insert")
            /\ UNCHANGED <<clock, entries, key, now, value, doomed>>

\* expired_keys is complete; with none, min() begins to look for the oldest.
Scanned(t) == /\ pc[t] = "scanning"
              /\ \/ /\ Length # size[t]
                    /\ Goto(t, "failed")
                    /\ UNCHANGED doomed
                 \/ /\ Length = size[t] /\ Expired(t) # {}
                    /\ doomed' = [doomed EXCEPT ![t] = Expired(t)]
                    /\ Goto(t, "delete")
                 \/ /\ Length = size[t] /\ Expired(t) = {}
                    /\ Goto(t, "choosing")
                    /\ UNCHANGED doomed
              /\ UNCHANGED <<clock, entries, key, now, value, size>>

Chosen(t) == /\ pc[t] = "choosing"
             /\ \/ /\ Length # size[t] \/ Length = 0
                   /\ Goto(t, "failed")
                   /\ UNCHANGED doomed
                \/ /\ Length = size[t]
                   /\ \E k \in Oldest : doomed' = [doomed EXCEPT ![t] = {k}]
                   /\ Goto(t, "delete")
             /\ UNCHANGED <<clock, entries, key, now, value, size>>

Delete(t) == /\ pc[t] = "delete"
             /\ \E k \in doomed[t] :
                   \/ /\ k \in DOMAIN entries
                      /\ entries' = Restrict(entries, DOMAIN entries \ {k})
                      /\ doomed' = [doomed EXCEPT ![t] = @ \ {k}]
                      /\ Goto(t, IF doomed'[t] = {} THEN "insert" ELSE "delete")
                   \/ /\ k \notin DOMAIN entries
                      /\ Goto(t, "failed")
                      /\ UNCHANGED <<entries, doomed>>
             /\ UNCHANGED <<clock, key, now, value, size>>

With(k, entry) == [j \in DOMAIN entries \cup {k} |-> IF j = k THEN entry ELSE entries[j]]

\* Mutant: the time to live starts when the value is stored.
InsertLivesFromNow(t) ==
    /\ pc[t] = "insert"
    /\ entries' = With(key[t], [value |-> value[t], expires_at |-> clock + TimeToLive])
    /\ Goto(t, "answered")
    /\ UNCHANGED <<clock, locals>>

\* Mutant: the entry does not expire.
InsertForever(t) ==
    /\ pc[t] = "insert"
    /\ entries' = With(key[t], [value |-> value[t], expires_at |-> MaxClock + TimeToLive + 1])
    /\ Goto(t, "answered")
    /\ UNCHANGED <<clock, locals>>

Insert(t) == /\ pc[t] = "insert"
             /\ entries' = With(key[t], [value |-> value[t],
                                         expires_at |-> now[t] + TimeToLive])
             /\ Goto(t, "answered")
             /\ UNCHANGED <<clock, locals>>

\* The call ends and its locals with it.
Return(t) == /\ pc[t] \in {"answered", "failed"}
             /\ key' = [key EXCEPT ![t] = NoKey]
             /\ now' = [now EXCEPT ![t] = 0]
             /\ value' = [value EXCEPT ![t] = 0]
             /\ size' = [size EXCEPT ![t] = 0]
             /\ doomed' = [doomed EXCEPT ![t] = {}]
             /\ Goto(t, "idle")
             /\ UNCHANGED <<clock, entries>>

Step(t) == \/ Call(t) \/ Return(t) \/ Get(t) \/ Produce(t) \/ ProducerRaises(t) \/ Check(t)
           \/ Scanned(t) \/ Chosen(t) \/ Delete(t) \/ Insert(t)

Next == Passes \/ \E t \in Threads : Step(t)

Spec == Init /\ [][Next]_vars
-----------------------------------------------------------------------------
\* No answer is older than the time to live, measured from the arrival of the
\* request it answers, however long the query of the thread that stored it took
\* and in whichever order threads stored their values.
Freshness ==
    \A t \in Threads : pc[t] = "answered" /\ TimeToLive > 0 =>
                          value[t] + TimeToLive > now[t]

\* cache.py: "drop the oldest entry to bound memory".  MAXIMUM_ENTRIES alone is no
\* bound: each thread but one can have passed the check before the others insert.
SizeBound == Length <= MaximumEntries + Cardinality(Threads) - 1
=============================================================================
