------------------------- MODULE SearchDeduplicator -------------------------
(***************************************************************************)
(* SearchDeduplicator and its caller CollectorNode._handle_message         *)
(* (collector/node.py): what the node lets through to the event buffer.    *)
(* An identity is a pair (searcher_pseudonym, ticket).  A message that is  *)
(* not a search is returned from at once and has no action here.           *)
(***************************************************************************)
EXTENDS Naturals, Sequences, Functions

CONSTANTS Identities,
          Capacity,       \* RECENT_SEARCH_MEMORY
          MaxMessages     \* bound: searches the process is sent

ASSUME DeduplicatorAssumption == Capacity \in Nat /\ MaxMessages \in Nat

VARIABLES seen, order,       \* _seen and _order
          duplicate_count,   \* of the node
          accepted           \* the searches handed to on_search, in order

vars == <<seen, order, duplicate_count, accepted>>

TypeOK == /\ seen \in SUBSET Identities
          /\ order \in Seq(Identities) /\ Len(order) <= Capacity
          /\ duplicate_count \in Nat
          /\ accepted \in Seq(Identities)

Init == /\ seen = {}
        /\ order = <<>>
        /\ duplicate_count = 0
        /\ accepted = <<>>
-----------------------------------------------------------------------------
\* Mutant: nothing is evicted.
RememberAll(id) == /\ order' = Append(order, id)
                   /\ seen' = seen \cup {id}

\* Mutant: one identity less is remembered.
RememberLess(id) ==
    LET longer == Append(order, id)
    IN IF Len(longer) >= Capacity
       THEN order' = Tail(longer) /\ seen' = (seen \cup {id}) \ {Head(longer)}
       ELSE order' = longer /\ seen' = seen \cup {id}

\* Mutant: what leaves the queue stays in the set.
RememberInSet(id) ==
    LET longer == Append(order, id)
    IN /\ order' = IF Len(longer) > Capacity THEN Tail(longer) ELSE longer
       /\ seen' = seen \cup {id}

\* is_new, of an identity that is: the oldest is forgotten beyond the capacity.
Remember(id) ==
    LET longer == Append(order, id)
    IN IF Len(longer) > Capacity
       THEN order' = Tail(longer) /\ seen' = (seen \cup {id}) \ {Head(longer)}
       ELSE order' = longer /\ seen' = seen \cup {id}

Accept(id) == /\ id \notin seen
              /\ Remember(id)
              /\ accepted' = Append(accepted, id)
              /\ UNCHANGED duplicate_count

Suppress(id) == /\ id \in seen
                /\ duplicate_count' = duplicate_count + 1
                /\ UNCHANGED <<seen, order, accepted>>

HandleMessage(id) == /\ Len(accepted) + duplicate_count < MaxMessages
                     /\ Accept(id) \/ Suppress(id)

Next == \E id \in Identities : HandleMessage(id)

Spec == Init /\ [][Next]_vars
-----------------------------------------------------------------------------
\* Identical searches are suppressed within the window: between two acceptances
\* of one identity at least Capacity others are accepted.
UniqueInWindow ==
    \A i, j \in DOMAIN accepted :
        i < j /\ accepted[i] = accepted[j] => j - i > Capacity

\* Nothing else is suppressed: a search counts as a duplicate only if it is one
\* of the last Capacity accepted ones, so memory of a search does fade.
SuppressesOnlyRepeats ==
    [][\A id \in Identities :
          Suppress(id) => \E k \in DOMAIN accepted :
                             /\ k > Len(accepted) - Capacity
                             /\ accepted[k] = id]_vars
=============================================================================
