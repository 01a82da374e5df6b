----------------------- MODULE SearchDeduplicatorProofs -----------------------
(***************************************************************************)
(* Theorems of SearchDeduplicator, for every set of identities, every size *)
(* of its memory, zero included, and any number of messages.               *)
(***************************************************************************)
EXTENDS SearchDeduplicator, SequenceTheorems, TLAPS

\* The queue holds the last identities accepted, as many as the memory has room
\* for, and the set holds what is in the queue.
MemoryIsTheWindow ==
    /\ Len(order) = IF Len(accepted) <= Capacity THEN Len(accepted) ELSE Capacity
    /\ \A k \in 1..Len(order) : order[k] = accepted[Len(accepted) - Len(order) + k]
    /\ seen = {order[k] : k \in 1..Len(order)}

IInv == TypeOK /\ MemoryIsTheWindow /\ UniqueInWindow
-----------------------------------------------------------------------------
\* What is_new accepts was not among the last Capacity accepted ones.
LEMMA AcceptKeepsUnique ==
    ASSUME IInv, NEW id \in Identities, Accept(id)
    PROVE  UniqueInWindow'
<1> DEFINE n == Len(accepted)
           m == Len(order)
<1>1. /\ accepted \in Seq(Identities) /\ order \in Seq(Identities)
      /\ n \in Nat /\ m \in Nat /\ Capacity \in Nat
  BY LenProperties, DeduplicatorAssumption DEF IInv, TypeOK
<1>2. /\ accepted' \in Seq(Identities) /\ Len(accepted') = n + 1
      /\ \A k \in 1..n : accepted'[k] = accepted[k]
      /\ accepted'[n + 1] = id
  <2>1. accepted' = Append(accepted, id)
    BY Zenon DEF Accept
  <2>2. QED  BY <1>1, <2>1, AppendProperties
<1>3. DOMAIN accepted' = 1..n + 1 /\ DOMAIN accepted = 1..n
  BY <1>1, <1>2, LenProperties
<1>4. /\ m = IF n <= Capacity THEN n ELSE Capacity
      /\ \A k \in 1..m : order[k] = accepted[n - m + k]
      /\ seen = {order[k] : k \in 1..m}
      /\ id \notin seen
  BY DEF IInv, MemoryIsTheWindow, Accept
<1> SUFFICES ASSUME NEW i \in 1..n + 1, NEW j \in 1..n + 1,
                    i < j, accepted'[i] = accepted'[j]
             PROVE  j - i > Capacity
  BY <1>3 DEF UniqueInWindow
<1> HIDE DEF n, m
<1>5. CASE j <= n
  <2>1. i \in 1..n /\ j \in 1..n
    BY <1>1, <1>5
  <2>2. accepted[i] = accepted[j]
    BY <1>2, <2>1
  <2>3. QED  BY <1>3, <2>1, <2>2 DEF IInv, UniqueInWindow
<1>6. CASE j = n + 1
  <2>1. i \in 1..n /\ accepted[i] = id
    BY <1>1, <1>2, <1>6
  <2>2. ASSUME i > n - m PROVE FALSE
    <3>1. i - (n - m) \in 1..m
      BY <1>1, <2>1, <2>2
    <3>2. order[i - (n - m)] = accepted[n - m + (i - (n - m))]
      BY <1>4, <3>1
    <3>3. n - m + (i - (n - m)) = i
      BY <1>1, <2>1
    <3>4. order[i - (n - m)] = id
      BY <2>1, <3>2, <3>3
    <3>5. QED  BY <1>4, <3>1, <3>4
  <2>3. i <= n - m
    BY <1>1, <2>1, <2>2
  <2>4. CASE n <= Capacity
    BY <1>1, <1>4, <2>1, <2>3, <2>4
  <2>5. CASE ~(n <= Capacity)
    BY <1>1, <1>4, <1>6, <2>1, <2>3, <2>5
  <2>6. QED  BY <2>4, <2>5
<1>7. QED  BY <1>1, <1>5, <1>6

\* After is_new the queue is again the window, and the set its elements: the one
\* that leaves occurs in the queue once.
LEMMA AcceptKeepsMemory ==
    ASSUME IInv, NEW id \in Identities, Accept(id)
    PROVE  TypeOK' /\ MemoryIsTheWindow'
<1> DEFINE n == Len(accepted)
           m == Len(order)
           longer == Append(order, id)
<1>1. /\ accepted \in Seq(Identities) /\ order \in Seq(Identities)
      /\ n \in Nat /\ m \in Nat /\ Capacity \in Nat
      /\ seen \in SUBSET Identities /\ duplicate_count \in Nat
  BY LenProperties, DeduplicatorAssumption DEF IInv, TypeOK
<1>2. /\ accepted' \in Seq(Identities) /\ Len(accepted') = n + 1
      /\ \A k \in 1..n : accepted'[k] = accepted[k]
      /\ accepted'[n + 1] = id
  <2>1. accepted' = Append(accepted, id)
    BY Zenon DEF Accept
  <2>2. QED  BY <1>1, <2>1, AppendProperties
<1>3. /\ longer \in Seq(Identities) /\ Len(longer) = m + 1
      /\ \A k \in 1..m : longer[k] = order[k]
      /\ longer[m + 1] = id
  BY <1>1, AppendProperties
<1>4. /\ m = IF n <= Capacity THEN n ELSE Capacity
      /\ \A k \in 1..m : order[k] = accepted[n - m + k]
      /\ seen = {order[k] : k \in 1..m}
  BY DEF IInv, MemoryIsTheWindow
<1>5. /\ IF Len(longer) > Capacity
         THEN order' = Tail(longer) /\ seen' = (seen \cup {id}) \ {Head(longer)}
         ELSE order' = longer /\ seen' = seen \cup {id}
      /\ duplicate_count' = duplicate_count
  BY Zenon DEF Accept, Remember
<1>6. UniqueInWindow'
  BY AcceptKeepsUnique
<1>7. DOMAIN accepted' = 1..n + 1
  BY <1>1, <1>2, LenProperties
<1> HIDE DEF n, m, longer
<1>8. ASSUME NEW k \in 1..m + 1 PROVE longer[k] = accepted'[n - m + k]
  <2>1. CASE k <= m
    <3>1. k \in 1..m /\ n - m + k \in 1..n
      BY <1>1, <1>4, <2>1
    <3>2. QED  BY <1>2, <1>3, <1>4, <3>1
  <2>2. CASE k = m + 1
    <3>1. n - m + k = n + 1
      BY <1>1, <2>2
    <3>2. QED  BY <1>2, <1>3, <2>2, <3>1
  <2>3. QED  BY <1>1, <2>1, <2>2
<1>9. seen \cup {id} = {longer[k] : k \in 1..m + 1}
  <2>1. seen \cup {id} \subseteq {longer[k] : k \in 1..m + 1}
    <3>1. ASSUME NEW x \in seen PROVE x \in {longer[k] : k \in 1..m + 1}
      <4>1. PICK k \in 1..m : x = order[k]
        BY <1>4
      <4>2. k \in 1..m + 1 /\ x = longer[k]
        BY <1>1, <1>3, <4>1
      <4>3. QED  BY <4>2
    <3>2. m + 1 \in 1..m + 1
      BY <1>1
    <3>3. QED  BY <1>3, <3>1, <3>2
  <2>2. ASSUME NEW k \in 1..m + 1 PROVE longer[k] \in seen \cup {id}
    <3>1. CASE k \in 1..m
      BY <1>3, <1>4, <3>1
    <3>2. CASE k = m + 1
      BY <1>3, <3>2
    <3>3. QED  BY <1>1, <3>1, <3>2
  <2>3. QED  BY <2>1, <2>2
<1>10. CASE ~(Len(longer) > Capacity)
  <2>1. order' = longer /\ seen' = seen \cup {id}
    BY <1>5, <1>10
  <2>2. m + 1 <= Capacity
    BY <1>1, <1>3, <1>10
  <2>3. m = n
    BY <1>1, <1>4, <2>2
  <2>4. TypeOK'
    BY <1>1, <1>2, <1>3, <1>5, <2>1, <2>2 DEF TypeOK
  <2>5. /\ Len(order') = m + 1 /\ Len(accepted') = m + 1
        /\ Len(accepted') - Len(order') = n - m
    BY <1>1, <1>2, <1>3, <2>1, <2>3
  <2>6. Len(order') = IF Len(accepted') <= Capacity THEN Len(accepted') ELSE Capacity
    BY <2>2, <2>5
  <2>7. \A k \in 1..Len(order') : order'[k] = accepted'[Len(accepted') - Len(order') + k]
    BY <1>8, <2>1, <2>5
  <2>8. seen' = {order'[k] : k \in 1..Len(order')}
    BY <1>9, <2>1, <2>5
  <2>9. QED  BY <2>4, <2>6, <2>7, <2>8 DEF MemoryIsTheWindow
<1>11. CASE Len(longer) > Capacity
  <2>1. order' = Tail(longer) /\ seen' = (seen \cup {id}) \ {Head(longer)}
    BY <1>5, <1>11
  <2>2. m = Capacity
    BY <1>1, <1>3, <1>4, <1>11
  <2>3. longer # <<>>
    BY <1>1, <1>3, EmptySeq
  <2>4. /\ order' \in Seq(Identities) /\ Len(order') = m
        /\ \A k \in 1..m : order'[k] = longer[k + 1]
        /\ Head(longer) = longer[1]
    <3>1. /\ Tail(longer) \in Seq(Identities) /\ Len(Tail(longer)) = Len(longer) - 1
          /\ \A k \in 1..Len(Tail(longer)) : Tail(longer)[k] = longer[k + 1]
      BY <1>3, <2>3, HeadTailProperties
    <3>2. Len(longer) - 1 = m
      BY <1>1, <1>3
    <3>3. Head(longer) = longer[1]
      BY <1>3
    <3>4. QED  BY <2>1, <3>1, <3>2, <3>3
  <2>5. seen' \in SUBSET Identities
    BY <1>1, <2>1
  <2>6. TypeOK'
    BY <1>1, <1>2, <1>5, <2>2, <2>4, <2>5 DEF TypeOK
  <2>7. Len(order') = IF Len(accepted') <= Capacity THEN Len(accepted') ELSE Capacity
    <3>1. ~(n + 1 <= Capacity)
      BY <1>1, <1>4, <2>2
    <3>2. QED  BY <1>2, <2>2, <2>4, <3>1
  <2>8. ASSUME NEW k \in 1..m
        PROVE  order'[k] = accepted'[Len(accepted') - Len(order') + k]
    <3>1. k + 1 \in 1..m + 1
      BY <1>1
    <3>2. order'[k] = accepted'[n - m + (k + 1)]
      BY <1>8, <2>4, <3>1
    <3>3. Len(accepted') - Len(order') + k = n - m + (k + 1)
      BY <1>1, <1>2, <2>4
    <3>4. QED  BY <3>2, <3>3
  <2>9. ASSUME NEW k \in 1..m PROVE order'[k] # longer[1]
    <3>1. 1 \in 1..m + 1 /\ k + 1 \in 1..m + 1
      BY <1>1
    <3>2. longer[1] = accepted'[n - m + 1] /\ order'[k] = accepted'[n - m + (k + 1)]
      BY <1>8, <2>4, <3>1
    <3>3. /\ n - m + 1 \in 1..n + 1 /\ n - m + (k + 1) \in 1..n + 1
          /\ n - m + 1 < n - m + (k + 1)
          /\ (n - m + (k + 1)) - (n - m + 1) <= Capacity
      BY <1>1, <1>4, <2>2
    <3>4. SUFFICES ASSUME accepted'[n - m + 1] = accepted'[n - m + (k + 1)]
                   PROVE  FALSE
      BY <3>2
    <3>5. (n - m + (k + 1)) - (n - m + 1) > Capacity
      BY <1>6, <1>7, <3>3, <3>4 DEF UniqueInWindow
    <3>6. QED  BY <1>1, <3>3, <3>5
  <2>10. seen' = {order'[k] : k \in 1..m}
    <3>1. ASSUME NEW k \in 1..m PROVE order'[k] \in seen'
      <4>1. k + 1 \in 1..m + 1
        BY <1>1
      <4>2. order'[k] \in seen \cup {id}
        BY <1>9, <2>4, <4>1
      <4>3. QED  BY <2>1, <2>4, <2>9, <4>2
    <3>2. ASSUME NEW x \in seen' PROVE x \in {order'[k] : k \in 1..m}
      <4>1. PICK k \in 1..m + 1 : x = longer[k]
        BY <1>9, <2>1
      <4>2. k # 1
        BY <2>1, <2>4, <4>1
      <4>3. k - 1 \in 1..m /\ (k - 1) + 1 = k
        BY <1>1, <4>2
      <4>4. x = order'[k - 1]
        BY <2>4, <4>1, <4>3
      <4>5. QED  BY <4>3, <4>4
    <3>3. QED  BY <3>1, <3>2
  <2>11. QED  BY <2>4, <2>6, <2>7, <2>8, <2>10 DEF MemoryIsTheWindow
<1>12. QED  BY <1>10, <1>11

\* A suppressed search changes nothing but the count.
LEMMA SuppressKeeps == ASSUME IInv, NEW id \in Identities, Suppress(id) PROVE IInv'
<1>1. /\ duplicate_count' = duplicate_count + 1
      /\ seen' = seen /\ order' = order /\ accepted' = accepted
  BY Zenon DEF Suppress
<1>2. QED  BY <1>1 DEF IInv, TypeOK, MemoryIsTheWindow, UniqueInWindow

\* Nothing is remembered of a process that has not begun.
LEMMA InitHolds == ASSUME Init PROVE IInv
<1>1. seen = {} /\ order = <<>> /\ duplicate_count = 0 /\ accepted = <<>>
  BY DEF Init
<1>2. <<>> \in Seq(Identities) /\ Len(<<>>) = 0 /\ DOMAIN <<>> = {}
  BY EmptySeq
<1>3. TypeOK
  BY <1>1, <1>2, DeduplicatorAssumption DEF TypeOK
<1>4. MemoryIsTheWindow
  BY <1>1, <1>2, DeduplicatorAssumption DEF MemoryIsTheWindow
<1>5. UniqueInWindow
  BY <1>1, <1>2 DEF UniqueInWindow
<1>6. QED  BY <1>3, <1>4, <1>5 DEF IInv
-----------------------------------------------------------------------------
\* The inductive invariant of the deduplicator.
THEOREM InvariantHolds == Spec => []IInv
<1>1. ASSUME IInv, [Next]_vars PROVE IInv'
  <2>1. ASSUME NEW id \in Identities, Accept(id) PROVE IInv'
    BY <1>1, <2>1, AcceptKeepsUnique, AcceptKeepsMemory DEF IInv
  <2>2. ASSUME NEW id \in Identities, Suppress(id) PROVE IInv'
    BY <1>1, <2>2, SuppressKeeps
  <2>3. CASE UNCHANGED vars
    <3>1. /\ duplicate_count' = duplicate_count /\ seen' = seen
          /\ order' = order /\ accepted' = accepted
      BY <2>3 DEF vars
    <3>2. QED  BY <1>1, <3>1 DEF IInv, TypeOK, MemoryIsTheWindow, UniqueInWindow
  <2>4. QED  BY <1>1, <2>1, <2>2, <2>3, Zenon DEF Next, HandleMessage
<1>2. QED  BY <1>1, InitHolds, PTL DEF Spec

\* The queue never outgrows the memory it is given, and the set has only identities.
THEOREM TypeCorrect == Spec => []TypeOK
<1>1. IInv => TypeOK
  BY DEF IInv
<1>2. QED  BY <1>1, InvariantHolds, PTL

\* Two acceptances of one identity lie further apart than the memory is long.
THEOREM RepeatsAreSuppressed == Spec => []UniqueInWindow
<1>1. IInv => UniqueInWindow
  BY DEF IInv
<1>2. QED  BY <1>1, InvariantHolds, PTL

\* What is suppressed is a repeat of one of the last accepted: an identity is
\* forgotten as soon as it leaves the window.
THEOREM OnlyRepeatsAreSuppressed == Spec => SuppressesOnlyRepeats
<1>1. ASSUME IInv, NEW id \in Identities, Suppress(id)
      PROVE  \E k \in DOMAIN accepted : k > Len(accepted) - Capacity /\ accepted[k] = id
  <2> DEFINE n == Len(accepted)
             m == Len(order)
  <2>1. /\ n \in Nat /\ m \in Nat /\ Capacity \in Nat /\ DOMAIN accepted = 1..n
    BY <1>1, LenProperties, DeduplicatorAssumption DEF IInv, TypeOK
  <2>2. /\ m = IF n <= Capacity THEN n ELSE Capacity
        /\ \A k \in 1..m : order[k] = accepted[n - m + k]
        /\ seen = {order[k] : k \in 1..m}
    BY <1>1 DEF IInv, MemoryIsTheWindow
  <2>3. PICK k \in 1..m : order[k] = id
    BY <1>1, <2>2 DEF Suppress
  <2> HIDE DEF n, m
  <2>4. n - m + k \in 1..n /\ n - m + k > n - Capacity
    BY <2>1, <2>2
  <2>5. accepted[n - m + k] = id
    BY <2>2, <2>3
  <2>6. QED  BY <2>1, <2>4, <2>5 DEF n
<1>2. IInv => [\A id \in Identities :
                  Suppress(id) => \E k \in DOMAIN accepted :
                                     /\ k > Len(accepted) - Capacity
                                     /\ accepted[k] = id]_vars
  BY <1>1
<1>3. QED  BY <1>2, InvariantHolds, PTL DEF SuppressesOnlyRepeats
=============================================================================
