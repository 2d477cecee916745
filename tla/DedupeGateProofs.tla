-------------------------- MODULE DedupeGateProofs --------------------------
(***************************************************************************)
(* Theorems about DedupeGate for any set of keys and callers, any lifetime *)
(* and any capacity.                                                       *)
(***************************************************************************)
EXTENDS DedupeGate, FiniteSetTheorems, SequenceTheorems, TLAPS

\* A pending call read the clock in the past, and found a gate that is in use.
PendingCalls == \A c \in Callers : /\ asked[c].at <= clock
                                   /\ asked[c] # NoCall => Capacity > 0

\* The inductive invariant.  Each part needs the others: evictOldest brings the
\* map back within the capacity only because order lists its keys, once each.
IInv == /\ TypeOK
        /\ OrderMatchesEntries
        /\ IsFiniteSet(DOMAIN entries)
        /\ WithinCapacity
        /\ PendingCalls

-----------------------------------------------------------------------------
\* New clamps a negative capacity to zero.
LEMMA CapacityNat == Capacity \in Nat
  BY GateAssumption DEF GateAssumption, Capacity

\* In a sequence without duplicates FirstAt is the position of the key.
LEMMA FirstAtUnique ==
  ASSUME NEW s \in Seq(Keys), IsInjective(s), NEW i \in DOMAIN s
  PROVE  FirstAt(s, s[i]) = i
<1>1. \A j \in DOMAIN s : s[j] = s[i] => j = i
  BY DEF IsInjective
<1>2. i \in Int /\ i <= i
  BY LenProperties
<1> QED BY <1>1, <1>2 DEF FirstAt

\* compactOrder on a slice without duplicates: the live keys, once each, in
\* the same order.
LEMMA CompactionProperties ==
  ASSUME NEW s \in Seq(Keys), IsInjective(s),
         NEW live \in SUBSET ToSet(s), IsFiniteSet(live),
         NEW t \in Compactions(s, live)
  PROVE  /\ t \in Seq(Keys)
         /\ IsInjective(t)
         /\ ToSet(t) = live
         /\ \A i, j \in DOMAIN t : i < j => FirstAt(s, t[i]) < FirstAt(s, t[j])
<1>1. live \cap ToSet(s) = live
  OBVIOUS
<1>2. /\ t \in [1..Cardinality(live) -> live]
      /\ ToSet(t) = live
      /\ \A i, j \in DOMAIN t : i < j => FirstAt(s, t[i]) < FirstAt(s, t[j])
  BY <1>1 DEF Compactions
<1>3. Cardinality(live) \in Nat
  BY FS_CardinalityType
<1>4. ToSet(s) \subseteq Keys
  BY LenProperties DEF ToSet
<1>5. t \in Seq(Keys)
  BY <1>2, <1>3, <1>4
<1>6. IsInjective(t)
  <2> SUFFICES ASSUME NEW i \in DOMAIN t, NEW j \in DOMAIN t, t[i] = t[j]
               PROVE  i = j
    BY DEF IsInjective
  <2>1. i \in Int /\ j \in Int
    BY <1>2, <1>3
  <2>2. t[i] \in ToSet(s)
    BY <1>2
  <2>3. PICK m \in DOMAIN s : s[m] = t[i]
    BY <2>2 DEF ToSet
  <2>4. FirstAt(s, t[i]) = m /\ m \in Int
    BY <2>3, FirstAtUnique, LenProperties
  <2>5. ~(i < j) /\ ~(j < i)
    BY <1>2, <2>4
  <2> QED BY <2>1, <2>5
<1> QED BY <1>2, <1>5, <1>6

\* One element is taken at most when the slice lists the keys and there is one
\* key too many: the loop around evictOldest makes a single pass.
LEMMA EvictsAtMostOne ==
  ASSUME NEW s \in Seq(Keys), IsInjective(s), IsFiniteSet(ToSet(s)),
         Cardinality(ToSet(s)) <= Capacity + 1,
         NEW n \in 0..Len(s), Evicts(ToSet(s), s, n)
  PROVE  n = 0 \/ n = 1
<1>1. Len(s) \in Nat /\ n \in Nat
  BY LenProperties
<1> SUFFICES ASSUME n >= 2
             PROVE  FALSE
  BY <1>1
<1>2. 1 \in 1..Len(s) /\ s[1] \in ToSet(s)
  BY <1>1, LenProperties DEF ToSet
<1>3. LeftAfter(ToSet(s), s, 1) = ToSet(s) \ {s[1]}
  BY DEF LeftAfter
<1>4. Cardinality(LeftAfter(ToSet(s), s, 1)) > Capacity
  BY <1>1 DEF Evicts
<1>5. Cardinality(ToSet(s) \ {s[1]}) = Cardinality(ToSet(s)) - 1
  BY <1>2, FS_RemoveElement
<1>6. Cardinality(ToSet(s)) \in Nat
  BY FS_CardinalityType
<1>7. Cardinality(ToSet(s)) - 1 > Capacity
  BY <1>3, <1>4, <1>5
<1> QED BY <1>6, <1>7, CapacityNat

\* What s[n+1:] holds, position by position.
LEMMA SliceElements ==
  ASSUME NEW s \in Seq(Keys), NEW n \in 0..Len(s)
  PROVE  /\ SubSeq(s, n + 1, Len(s)) \in Seq(Keys)
         /\ Len(SubSeq(s, n + 1, Len(s))) = Len(s) - n
         /\ \A i \in 1..(Len(s) - n) : SubSeq(s, n + 1, Len(s))[i] = s[n + i]
<1>1. Len(s) \in Nat /\ n \in Nat /\ n <= Len(s)
  BY LenProperties
<1>2. n + 1 \in Int /\ \A i \in (n + 1)..Len(s) : s[i] \in Keys
  BY <1>1, LenProperties
<1>3. /\ SubSeq(s, n + 1, Len(s)) \in Seq(Keys)
      /\ Len(SubSeq(s, n + 1, Len(s))) =
            IF n + 1 <= Len(s) THEN Len(s) - (n + 1) + 1 ELSE 0
      /\ \A i \in 1..(Len(s) - (n + 1) + 1) :
            SubSeq(s, n + 1, Len(s))[i] = s[(n + 1) + i - 1]
  BY <1>1, <1>2, SubSeqProperties
<1>4. (IF n + 1 <= Len(s) THEN Len(s) - (n + 1) + 1 ELSE 0) = Len(s) - n
  BY <1>1
<1>5. ASSUME NEW i \in 1..(Len(s) - n)
      PROVE  SubSeq(s, n + 1, Len(s))[i] = s[n + i]
  <2>1. (n + 1) + i - 1 = n + i /\ i \in 1..(Len(s) - (n + 1) + 1)
    BY <1>1
  <2> QED BY <1>3, <2>1
<1> QED BY <1>3, <1>4, <1>5

\* Cutting the front off a slice without duplicates takes exactly the cut keys
\* out of the set it lists.
LEMMA CutProperties ==
  ASSUME NEW s \in Seq(Keys), IsInjective(s), NEW n \in 0..Len(s),
         NEW cut \in Seq(Keys), Len(cut) = Len(s) - n,
         \A i \in 1..(Len(s) - n) : cut[i] = s[n + i]
  PROVE  /\ IsInjective(cut)
         /\ ToSet(cut) = LeftAfter(ToSet(s), s, n)
<1>1. /\ Len(s) \in Nat /\ n \in Nat /\ n <= Len(s)
      /\ DOMAIN s = 1..Len(s)
      /\ \A i \in 1..Len(s) : s[i] \in Keys
  BY LenProperties
<1>2. \A i \in 1..(Len(s) - n) : cut[i] = s[n + i]
  OBVIOUS
<1>3. DOMAIN cut = 1..(Len(s) - n)
  BY LenProperties
<1>4. IsInjective(cut)
  <2> SUFFICES ASSUME NEW i \in DOMAIN cut, NEW j \in DOMAIN cut, cut[i] = cut[j]
               PROVE  i = j
    BY DEF IsInjective
  <2>1. i \in 1..(Len(s) - n) /\ j \in 1..(Len(s) - n)
    BY <1>3
  <2>2. n + i \in DOMAIN s /\ n + j \in DOMAIN s
    BY <1>1, <2>1
  <2>4. cut[i] = s[n + i] /\ cut[j] = s[n + j]
    BY <1>2, <2>1
  <2>3. n + i = n + j
    BY <2>2, <2>4 DEF IsInjective
  <2> QED BY <1>1, <2>1, <2>3
<1>5. ToSet(cut) = LeftAfter(ToSet(s), s, n)
  <2>1. ASSUME NEW x \in ToSet(cut)
        PROVE  x \in LeftAfter(ToSet(s), s, n)
    <3>1. PICK i \in 1..(Len(s) - n) : x = s[n + i]
      BY <1>2, <1>3 DEF ToSet
    <3>2. n + i \in DOMAIN s /\ x \in ToSet(s)
      BY <1>1, <3>1 DEF ToSet
    <3>3. ASSUME NEW m \in 1..n, s[m] = x
          PROVE  FALSE
      <4>1. m \in DOMAIN s /\ m # n + i
        BY <1>1
      <4> QED BY <3>1, <3>2, <3>3, <4>1 DEF IsInjective
    <3> QED BY <3>2, <3>3 DEF LeftAfter
  <2>2. ASSUME NEW x \in LeftAfter(ToSet(s), s, n)
        PROVE  x \in ToSet(cut)
    <3>1. PICK i \in 1..Len(s) : x = s[i]
      BY <1>1, <2>2 DEF LeftAfter, ToSet
    <3>2. i > n
      BY <1>1, <2>2, <3>1 DEF LeftAfter
    <3>3. i - n \in 1..(Len(s) - n) /\ n + (i - n) = i
      BY <1>1, <3>2
    <3> QED BY <1>2, <1>3, <3>1, <3>3 DEF ToSet
  <2> QED BY <2>1, <2>2
<1> QED BY <1>4, <1>5

\* Appending a new key keeps a slice without duplicates.
LEMMA AppendNew ==
  ASSUME NEW s \in Seq(Keys), IsInjective(s), NEW k \in Keys, k \notin ToSet(s)
  PROVE  /\ Append(s, k) \in Seq(Keys)
         /\ IsInjective(Append(s, k))
         /\ ToSet(Append(s, k)) = ToSet(s) \cup {k}
         /\ Len(Append(s, k)) = Len(s) + 1
         /\ \A i \in 1..Len(s) : Append(s, k)[i] = s[i]
         /\ Append(s, k)[Len(s) + 1] = k
<1>1. /\ Append(s, k) \in Seq(Keys)
      /\ Len(Append(s, k)) = Len(s) + 1
      /\ \A i \in 1..Len(s) : Append(s, k)[i] = s[i]
      /\ Append(s, k)[Len(s) + 1] = k
  BY AppendProperties
<1>2. /\ Len(s) \in Nat /\ DOMAIN s = 1..Len(s)
      /\ DOMAIN Append(s, k) = 1..(Len(s) + 1)
  BY <1>1, LenProperties
<1>3. \A i \in 1..Len(s) : s[i] # k
  BY <1>2 DEF ToSet
<1>4. IsInjective(Append(s, k))
  BY <1>1, <1>2, <1>3 DEF IsInjective
<1>5. ToSet(Append(s, k)) = ToSet(s) \cup {k}
  <2>1. ASSUME NEW x \in ToSet(Append(s, k))
        PROVE  x \in ToSet(s) \cup {k}
    <3>1. PICK i \in 1..(Len(s) + 1) : x = Append(s, k)[i]
      BY <1>2 DEF ToSet
    <3>2. CASE i = Len(s) + 1
      BY <1>1, <3>1, <3>2
    <3>3. CASE i \in 1..Len(s)
      BY <1>1, <1>2, <3>1, <3>3 DEF ToSet
    <3> QED BY <1>2, <3>2, <3>3
  <2>2. ASSUME NEW x \in ToSet(s) \cup {k}
        PROVE  x \in ToSet(Append(s, k))
    <3>1. CASE x = k
      BY <1>1, <1>2, <3>1 DEF ToSet
    <3>2. CASE x \in ToSet(s)
      <4>1. PICK i \in 1..Len(s) : x = s[i]
        BY <1>2, <3>2 DEF ToSet
      <4>2. i \in 1..(Len(s) + 1)
        BY <1>2
      <4> QED BY <1>1, <1>2, <4>1, <4>2 DEF ToSet
    <3> QED BY <2>2, <3>1, <3>2
  <2> QED BY <2>1, <2>2
<1> QED BY <1>1, <1>4, <1>5

-----------------------------------------------------------------------------
\* The keys that are live at any time form a finite set, all in the slice.
LEMMA LiveProperties ==
  ASSUME IInv, NEW now
  PROVE  /\ Live(now) \subseteq DOMAIN entries
         /\ Live(now) \subseteq ToSet(order)
         /\ IsFiniteSet(Live(now))
         /\ Cardinality(Live(now)) <= Capacity
         /\ Live(now) \subseteq Keys
<1>1. Live(now) \subseteq DOMAIN entries
  BY DEF Live
<1>2. IsFiniteSet(DOMAIN entries) /\ Cardinality(DOMAIN entries) <= Capacity
  BY DEF IInv, WithinCapacity
<1>3. IsFiniteSet(Live(now)) /\ Cardinality(Live(now)) <= Cardinality(DOMAIN entries)
  BY <1>1, <1>2, FS_Subset
<1>4. Cardinality(Live(now)) \in Nat /\ Cardinality(DOMAIN entries) \in Nat
  BY <1>2, <1>3, FS_CardinalityType
<1>5. Cardinality(Live(now)) <= Capacity
  BY <1>2, <1>3, <1>4, CapacityNat
<1> QED BY <1>1, <1>3, <1>5 DEF IInv, TypeOK, OrderMatchesEntries

\* What an acceptance leaves: n is 1 exactly when the oldest live key had to go.
LEMMA AcceptOutcome ==
  ASSUME IInv, NEW c \in Callers, Accept(c)
  PROVE  \E kept \in Seq(Keys), n \in {0, 1} :
            LET k == asked[c].key
                live == Live(asked[c].at)
            IN  /\ k \in Keys /\ k \notin live
                /\ IsInjective(kept) /\ ToSet(kept) = live
                /\ \A i, j \in DOMAIN kept :
                      i < j => FirstAt(order, kept[i]) < FirstAt(order, kept[j])
                /\ entries' = [j \in LeftAfter(live \cup {k}, Append(kept, k), n) |->
                                 IF j = k THEN asked[c].at + Ttl ELSE entries[j]]
                /\ order' \in Seq(Keys) /\ IsInjective(order')
                /\ ToSet(order') = DOMAIN entries'
                /\ IsFiniteSet(DOMAIN entries')
                /\ Cardinality(DOMAIN entries') <= Capacity
                /\ n = 1 => Cardinality(live \cup {k}) > Capacity
<1> DEFINE k == asked[c].key
           live == Live(asked[c].at)
<1>1. k \in Keys /\ k \notin live
  <2>1. asked[c] # NoCall /\ k \notin live
    BY DEF Accept
  <2>2. k # Blank
    BY <2>1 DEF IInv, TypeOK
  <2>3. k \in Keys \cup {Blank}
    BY DEF IInv, TypeOK
  <2> QED BY <2>1, <2>2, <2>3
<1>2. PICK kept \in Compactions(order, live) :
         \E n \in 0..Len(Append(kept, k)) :
            /\ Evicts(live \cup {k}, Append(kept, k), n)
            /\ order' = SubSeq(Append(kept, k), n + 1, Len(Append(kept, k)))
            /\ entries' = [j \in LeftAfter(live \cup {k}, Append(kept, k), n) |->
                             IF j = k THEN asked[c].at + Ttl ELSE entries[j]]
  BY DEF Accept
<1>3. PICK n \in 0..Len(Append(kept, k)) :
            /\ Evicts(live \cup {k}, Append(kept, k), n)
            /\ order' = SubSeq(Append(kept, k), n + 1, Len(Append(kept, k)))
            /\ entries' = [j \in LeftAfter(live \cup {k}, Append(kept, k), n) |->
                             IF j = k THEN asked[c].at + Ttl ELSE entries[j]]
  BY <1>2
<1>4. /\ live \subseteq ToSet(order) /\ IsFiniteSet(live)
      /\ Cardinality(live) <= Capacity
      /\ order \in Seq(Keys) /\ IsInjective(order)
  BY LiveProperties DEF IInv, TypeOK, OrderMatchesEntries
<1> HIDE DEF k, live
<1>5. /\ kept \in Seq(Keys) /\ IsInjective(kept) /\ ToSet(kept) = live
      /\ \A i, j \in DOMAIN kept : i < j => FirstAt(order, kept[i]) < FirstAt(order, kept[j])
  BY <1>4, CompactionProperties
<1>6. PICK appended : appended = Append(kept, k)
  OBVIOUS
<1>7. /\ appended \in Seq(Keys) /\ IsInjective(appended)
      /\ ToSet(appended) = live \cup {k}
  BY <1>1, <1>5, <1>6, AppendNew
<1>8. /\ IsFiniteSet(ToSet(appended))
      /\ Cardinality(ToSet(appended)) <= Capacity + 1
  <2>1. /\ IsFiniteSet(live \cup {k})
        /\ Cardinality(live \cup {k}) = IF k \in live THEN Cardinality(live)
                                                    ELSE Cardinality(live) + 1
    BY <1>4, FS_AddElement
  <2>2. Cardinality(live) \in Nat
    BY <1>4, FS_CardinalityType
  <2> QED BY <1>1, <1>4, <1>7, <2>1, <2>2, CapacityNat
<1>9. n \in 0..Len(appended) /\ Evicts(ToSet(appended), appended, n)
  BY <1>3, <1>6, <1>7
<1>10. n \in {0, 1}
  BY <1>7, <1>8, <1>9, EvictsAtMostOne
<1>11. n = 1 => Cardinality(live \cup {k}) > Capacity
  <2>1. LeftAfter(ToSet(appended), appended, 0) = ToSet(appended)
    BY DEF LeftAfter
  <2>2. n = 1 => 0 \in 0..(n - 1)
    OBVIOUS
  <2> QED BY <1>7, <1>9, <2>1, <2>2 DEF Evicts
<1>12. /\ order' \in Seq(Keys) /\ IsInjective(order')
       /\ ToSet(order') = LeftAfter(live \cup {k}, appended, n)
  <2>1. order' = SubSeq(appended, n + 1, Len(appended))
    BY <1>3, <1>6
  <2>2. /\ order' \in Seq(Keys)
        /\ Len(order') = Len(appended) - n
        /\ \A i \in 1..(Len(appended) - n) : order'[i] = appended[n + i]
    BY <1>7, <1>9, <2>1, SliceElements
  <2> QED BY <1>7, <1>9, <2>2, CutProperties
<1>13. DOMAIN entries' = LeftAfter(live \cup {k}, appended, n)
  BY <1>3, <1>6
<1>14. IsFiniteSet(DOMAIN entries') /\ Cardinality(DOMAIN entries') <= Capacity
  <2>1. DOMAIN entries' \subseteq ToSet(appended)
    BY <1>7, <1>13 DEF LeftAfter
  <2> QED BY <1>7, <1>8, <1>9, <1>13, <2>1, FS_Subset DEF Evicts
<1> QED BY <1>1, <1>3, <1>5, <1>10, <1>11, <1>12, <1>13, <1>14, <1>6 DEF k, live

\* What a rejection leaves: the live keys and nothing else.
LEMMA RejectOutcome ==
  ASSUME IInv, NEW c \in Callers, Reject(c)
  PROVE  /\ entries' = [j \in Live(asked[c].at) |-> entries[j]]
         /\ order' \in Seq(Keys) /\ IsInjective(order')
         /\ ToSet(order') = DOMAIN entries'
         /\ IsFiniteSet(DOMAIN entries')
         /\ Cardinality(DOMAIN entries') <= Capacity
<1> DEFINE live == Live(asked[c].at)
<1>1. /\ entries' = [j \in live |-> entries[j]]
      /\ order' \in Compactions(order, live)
  BY DEF Reject
<1>2. /\ live \subseteq ToSet(order) /\ IsFiniteSet(live)
      /\ Cardinality(live) <= Capacity
      /\ order \in Seq(Keys) /\ IsInjective(order)
  BY LiveProperties DEF IInv, TypeOK, OrderMatchesEntries
<1> HIDE DEF live
<1>3. order' \in Seq(Keys) /\ IsInjective(order') /\ ToSet(order') = live
  BY <1>1, <1>2, CompactionProperties
<1>4. DOMAIN entries' = live
  BY <1>1
<1> QED BY <1>1, <1>2, <1>3, <1>4 DEF live

-----------------------------------------------------------------------------
\* The empty gate satisfies the invariant.
LEMMA InitIInv == Init => IInv
<1> SUFFICES ASSUME Init
             PROVE  IInv
  OBVIOUS
<1>1. TypeOK
  BY GateAssumption DEF Init, TypeOK, NoCall, GateAssumption
<1>2. DOMAIN entries = {} /\ order = <<>>
  BY DEF Init
<1>3. OrderMatchesEntries
  <2>1. DOMAIN order = {}
    BY <1>2
  <2> QED BY <1>2, <2>1 DEF OrderMatchesEntries, IsInjective, ToSet
<1>4. IsFiniteSet(DOMAIN entries) /\ WithinCapacity
  BY <1>2, FS_EmptySet, CapacityNat DEF WithinCapacity
<1>5. PendingCalls
  BY DEF Init, NoCall, PendingCalls
<1> QED BY <1>1, <1>3, <1>4, <1>5 DEF IInv

\* A caller's clock value is never ahead of the clock, and only a gate that is
\* in use has calls waiting for the mutex.
LEMMA NextPendingCalls == IInv /\ [Next]_vars => PendingCalls'
<1> SUFFICES ASSUME TypeOK, PendingCalls, [Next]_vars
             PROVE  PendingCalls'
  BY DEF IInv
<1> USE DEF PendingCalls, Capacity
<1>0. clock \in Int /\ \A c \in Callers : asked[c].at \in Int
  BY GateAssumption DEF TypeOK, GateAssumption
<1>1. CASE Tick
  BY <1>0, <1>1 DEF Tick
<1>2. ASSUME NEW c \in Callers, NEW k \in Keys \cup {Blank}, Bypass(c, k)
      PROVE  PendingCalls'
  BY <1>2 DEF Bypass
<1>3. ASSUME NEW c \in Callers, NEW k \in Keys \cup {Blank}, ReadClock(c, k)
      PROVE  PendingCalls'
  <2>1. CapacityArg > 0
    BY <1>3, GateAssumption DEF ReadClock, Disabled, GateAssumption
  <2>2. /\ UNCHANGED clock
        /\ asked' = [asked EXCEPT ![c] = [key |-> k, at |-> clock]]
    BY <1>3 DEF ReadClock
  <2>3. ASSUME NEW d \in Callers
        PROVE  asked'[d].at <= clock'
    <3>1. asked'[d] = IF d = c THEN [key |-> k, at |-> clock] ELSE asked[d]
      BY <2>2 DEF TypeOK
    <3> QED BY <1>0, <2>2, <3>1
  <2>4. Capacity > 0
    BY <2>1, GateAssumption DEF GateAssumption
  <2> QED BY <2>3, <2>4
<1>4. ASSUME NEW c \in Callers, Reject(c) \/ Accept(c)
      PROVE  PendingCalls'
  <2>1. UNCHANGED clock /\ asked' = [asked EXCEPT ![c] = NoCall]
    BY <1>4 DEF Reject, Accept, Return
  <2>2. clock >= 0
    BY GateAssumption DEF TypeOK, GateAssumption
  <2> QED BY <1>0, <2>1, <2>2 DEF NoCall, TypeOK
<1>5. CASE UNCHANGED vars
  BY <1>5 DEF vars
<1> QED BY <1>1, <1>2, <1>3, <1>4, <1>5 DEF Next

\* Every step preserves the invariant; Accept is the step that needs all of it.
LEMMA NextIInv == IInv /\ [Next]_vars => IInv'
<1> SUFFICES ASSUME IInv, [Next]_vars
             PROVE  IInv'
  OBVIOUS
<1>7. PendingCalls'
  BY NextPendingCalls
<1> USE <1>7 DEF IInv
<1>0. CASE UNCHANGED <<entries, order>> /\ TypeOK'
  BY <1>0 DEF OrderMatchesEntries, WithinCapacity
<1>1. CASE Tick
  <2>1. TypeOK'
    BY <1>1, GateAssumption DEF Tick, TypeOK, GateAssumption, NoCall
  <2> QED BY <1>0, <1>1, <2>1 DEF Tick
<1>2. ASSUME NEW c \in Callers, NEW k \in Keys \cup {Blank}, Bypass(c, k)
      PROVE  IInv'
  <2>1. TypeOK'
    BY <1>2 DEF Bypass, TypeOK, NoCall
  <2> QED BY <1>0, <1>2, <2>1 DEF Bypass
<1>3. ASSUME NEW c \in Callers, NEW k \in Keys \cup {Blank}, ReadClock(c, k)
      PROVE  IInv'
  <2>1. k # Blank
    BY <1>3 DEF ReadClock, Disabled
  <2>2. TypeOK'
    BY <1>3, <2>1 DEF ReadClock, TypeOK, NoCall
  <2> QED BY <1>0, <1>3, <2>2 DEF ReadClock
<1>4. ASSUME NEW c \in Callers, Reject(c)
      PROVE  IInv'
  <2>1. /\ entries' = [j \in Live(asked[c].at) |-> entries[j]]
        /\ order' \in Seq(Keys) /\ IsInjective(order')
        /\ ToSet(order') = DOMAIN entries'
        /\ IsFiniteSet(DOMAIN entries')
        /\ Cardinality(DOMAIN entries') <= Capacity
    BY <1>4, RejectOutcome
  <2>2. DOMAIN entries' \subseteq Keys /\ entries' \in [DOMAIN entries' -> Int]
    BY <2>1 DEF Live, TypeOK
  <2>3. UNCHANGED clock /\ asked' = [asked EXCEPT ![c] = NoCall]
        /\ answer' = [answer EXCEPT ![c] = "no"]
    BY <1>4 DEF Reject, Return
  <2>4. TypeOK'
    BY <2>1, <2>2, <2>3, GateAssumption DEF TypeOK, NoCall, GateAssumption
  <2> QED BY <2>1, <2>4 DEF OrderMatchesEntries, WithinCapacity, Capacity
<1>5. ASSUME NEW c \in Callers, Accept(c)
      PROVE  IInv'
  <2>1. PICK kept \in Seq(Keys), n \in {0, 1} :
            LET k == asked[c].key
                live == Live(asked[c].at)
            IN  /\ k \in Keys
                /\ entries' = [j \in LeftAfter(live \cup {k}, Append(kept, k), n) |->
                                 IF j = k THEN asked[c].at + Ttl ELSE entries[j]]
                /\ order' \in Seq(Keys) /\ IsInjective(order')
                /\ ToSet(order') = DOMAIN entries'
                /\ IsFiniteSet(DOMAIN entries')
                /\ Cardinality(DOMAIN entries') <= Capacity
    BY <1>5, AcceptOutcome
  <2>2. DOMAIN entries' \subseteq Keys /\ entries' \in [DOMAIN entries' -> Int]
    <3>1. asked[c].at + Ttl \in Int
      BY GateAssumption DEF TypeOK, GateAssumption
    <3>2. \A j \in Live(asked[c].at) : entries[j] \in Int /\ j \in Keys
      BY DEF Live, TypeOK
    <3> QED BY <2>1, <3>1, <3>2 DEF LeftAfter
  <2>3. UNCHANGED clock /\ asked' = [asked EXCEPT ![c] = NoCall]
        /\ answer' = [answer EXCEPT ![c] = "yes"]
    BY <1>5 DEF Accept, Return
  <2>5. order' \in Seq(Keys)
    BY <2>1
  <2>4. TypeOK'
    BY <2>2, <2>3, <2>5, GateAssumption DEF TypeOK, NoCall, GateAssumption
  <2> QED BY <2>1, <2>4 DEF OrderMatchesEntries, WithinCapacity, Capacity
<1>6. CASE UNCHANGED vars
  <2>1. TypeOK'
    BY <1>6 DEF vars, TypeOK, NoCall
  <2> QED BY <1>0, <1>6, <2>1 DEF vars
<1> QED BY <1>1, <1>2, <1>3, <1>4, <1>5, <1>6 DEF Next

\* The invariant holds in every reachable state.
LEMMA Invariance == Spec => []IInv
  BY InitIInv, NextIInv, PTL DEF Spec

\* The variables of the gate and of its callers keep their types.
THEOREM TypeCorrect == Spec => []TypeOK
<1>1. IInv => TypeOK
  BY DEF IInv
<1> QED BY <1>1, Invariance, PTL

\* The order slice and the entries map agree after every FirstSeen, whatever
\* the interleaving of the callers and the age of the clock values they use.
THEOREM StructureCorrect == Spec => []OrderMatchesEntries
<1>1. IInv => OrderMatchesEntries
  BY DEF IInv
<1> QED BY <1>1, Invariance, PTL

\* The gate never exceeds its capacity.
THEOREM CapacityCorrect == Spec => []WithinCapacity
<1>1. IInv => WithinCapacity
  BY DEF IInv
<1> QED BY <1>1, Invariance, PTL

-----------------------------------------------------------------------------
\* An acceptance drops at most one live key, and then the gate was full, the
\* accepted key had no entry, and the dropped key was the oldest live one.
LEMMA AcceptVictim ==
  ASSUME IInv, NEW c \in Callers, Accept(c)
  PROVE  \E victim \in SUBSET Live(asked[c].at) :
            LET k == asked[c].key
                live == Live(asked[c].at)
            IN  /\ k \in Keys /\ k \notin live
                /\ entries' = [j \in (live \cup {k}) \ victim |->
                                 IF j = k THEN asked[c].at + Ttl ELSE entries[j]]
                /\ Cardinality(DOMAIN entries') <= Capacity
                /\ \/ victim = {}
                   \/ /\ \E v : victim = {v}
                      /\ Cardinality(DOMAIN entries) >= Capacity
                      /\ k \notin DOMAIN entries
                      /\ \A v \in victim, j \in live \ victim :
                            FirstAt(order, v) < FirstAt(order, j)
<1> DEFINE k == asked[c].key
           live == Live(asked[c].at)
<1>1. PICK kept \in Seq(Keys), n \in {0, 1} :
         /\ k \in Keys /\ k \notin live
         /\ IsInjective(kept) /\ ToSet(kept) = live
         /\ \A i, j \in DOMAIN kept :
               i < j => FirstAt(order, kept[i]) < FirstAt(order, kept[j])
         /\ entries' = [j \in LeftAfter(live \cup {k}, Append(kept, k), n) |->
                          IF j = k THEN asked[c].at + Ttl ELSE entries[j]]
         /\ Cardinality(DOMAIN entries') <= Capacity
         /\ n = 1 => Cardinality(live \cup {k}) > Capacity
  BY AcceptOutcome
<1>2. /\ IsFiniteSet(live) /\ Cardinality(live) \in Nat /\ live \subseteq DOMAIN entries
      /\ IsFiniteSet(DOMAIN entries) /\ Cardinality(DOMAIN entries) \in Nat
      /\ Cardinality(DOMAIN entries) <= Capacity
      /\ Cardinality(live) <= Cardinality(DOMAIN entries)
      /\ Capacity > 0
  <2>1. /\ IsFiniteSet(live) /\ live \subseteq DOMAIN entries
        /\ IsFiniteSet(DOMAIN entries) /\ Cardinality(DOMAIN entries) <= Capacity
    BY LiveProperties DEF IInv, WithinCapacity
  <2>2. asked[c] # NoCall
    BY DEF Accept
  <2>3. Capacity > 0
    BY <2>2 DEF IInv, PendingCalls
  <2> QED BY <2>1, <2>3, FS_CardinalityType, FS_Subset
<1> HIDE DEF k, live
<1>3. CASE n = 0
  <2>1. LeftAfter(live \cup {k}, Append(kept, k), n) = (live \cup {k}) \ {}
    BY <1>3 DEF LeftAfter
  <2> QED BY <1>1, <2>1 DEF k, live
<1>4. CASE n = 1
  <2>1. Cardinality(live \cup {k}) = Cardinality(live) + 1
    BY <1>1, <1>2, FS_AddElement
  <2>2. Cardinality(live) >= Capacity
    BY <1>1, <1>2, <1>4, <2>1, CapacityNat
  <2>3. Cardinality(DOMAIN entries) >= Capacity
    BY <1>2, <2>2, CapacityNat
  <2>4. k \notin DOMAIN entries
    <3>1. SUFFICES ASSUME k \in DOMAIN entries
                   PROVE  FALSE
      OBVIOUS
    <3>2. live \cup {k} \subseteq DOMAIN entries
      BY <1>2, <3>1
    <3>3. Cardinality(live \cup {k}) <= Cardinality(DOMAIN entries)
      BY <1>2, <3>2, FS_Subset
    <3> QED BY <1>2, <2>1, <2>2, <3>3, CapacityNat
  <2>5. live # {}
    BY <1>2, <2>2, FS_EmptySet, CapacityNat
  <2>6. Len(kept) \in Nat /\ DOMAIN kept = 1..Len(kept)
    BY <1>1, LenProperties
  <2>7. 1 \in DOMAIN kept
    BY <1>1, <2>5, <2>6 DEF ToSet
  <2> DEFINE v == kept[1]
  <2>8. v \in live
    BY <1>1, <2>7 DEF ToSet
  <2>9. Append(kept, k)[1] = v
    BY <1>1, <2>6, <2>7, AppendNew
  <2>10. LeftAfter(live \cup {k}, Append(kept, k), n) = (live \cup {k}) \ {v}
    BY <1>4, <2>9 DEF LeftAfter
  <2>11. ASSUME NEW j \in live \ {v}
         PROVE  FirstAt(order, v) < FirstAt(order, j)
    <3>1. PICK i \in DOMAIN kept : j = kept[i]
      BY <1>1 DEF ToSet
    <3>2. 1 < i
      BY <2>6, <3>1
    <3> QED BY <1>1, <2>7, <3>1, <3>2
  <2> QED BY <1>1, <2>3, <2>4, <2>8, <2>10, <2>11 DEF k, live
<1> QED BY <1>1, <1>3, <1>4

\* Only expired entries, or the oldest live one of a full gate, leave the gate.
THEOREM EvictionCorrect == Spec => EvictsOldest
<1> DEFINE Evicted == \A k \in DOMAIN entries \ DOMAIN entries' :
             entries[k] > clock =>
                \A j \in DOMAIN entries \cap DOMAIN entries' : FirstAt(order, k) < FirstAt(order, j)
<1>1. IInv /\ [Next]_vars => [Evicted]_vars
  <2> SUFFICES ASSUME IInv, Next,
                      NEW k \in DOMAIN entries \ DOMAIN entries', entries[k] > clock,
                      NEW j \in DOMAIN entries \cap DOMAIN entries'
               PROVE  FirstAt(order, k) < FirstAt(order, j)
    OBVIOUS
  <2>0. entries[k] \in Int /\ clock \in Int
    BY GateAssumption DEF IInv, TypeOK, GateAssumption
  <2>1. ASSUME NEW c \in Callers
        PROVE  k \in Live(asked[c].at)
    <3>1. asked[c].at <= clock /\ asked[c].at \in Int
      BY GateAssumption DEF IInv, PendingCalls, TypeOK, GateAssumption
    <3> QED BY <2>0, <3>1 DEF Live
  <2>2. ASSUME NEW c \in Callers, Reject(c)
        PROVE  FALSE
    BY <2>1, <2>2, RejectOutcome
  <2>3. ASSUME NEW c \in Callers, Accept(c)
        PROVE  FirstAt(order, k) < FirstAt(order, j)
    <3>1. PICK victim \in SUBSET Live(asked[c].at) :
            /\ asked[c].key \notin Live(asked[c].at)
            /\ DOMAIN entries' = (Live(asked[c].at) \cup {asked[c].key}) \ victim
            /\ \/ victim = {}
               \/ /\ asked[c].key \notin DOMAIN entries
                  /\ \A v \in victim, i \in Live(asked[c].at) \ victim :
                        FirstAt(order, v) < FirstAt(order, i)
      BY <2>3, AcceptVictim
    <3>2. k \in victim
      BY <2>1, <3>1
    <3>3. j \in Live(asked[c].at) \ victim
      BY <3>1, <3>2
    <3> QED BY <3>1, <3>2, <3>3
  <2>4. CASE UNCHANGED entries
    BY <2>4
  <2> QED BY <2>2, <2>3, <2>4 DEF Next, Tick, Bypass, ReadClock
<1> QED BY <1>1, Invariance, PTL DEF Spec, EvictsOldest

-----------------------------------------------------------------------------
\* The abstract memory counts as the gate does.
LEMMA SameCardinality == \A S : Memory!Cardinality(S) = Cardinality(S)
  BY DEF Memory!Cardinality, Cardinality

\* The gate implements the memory: it starts empty ...
LEMMA MemoryInit == Init => Memory!Init
  BY DEF Init, Memory!Init, NoCall, Memory!NoCall

\* ... a rejection answers that the key is suppressed ...
LEMMA MemoryReject ==
  ASSUME IInv, NEW c \in Callers, Reject(c)
  PROVE  Memory!AnswerNo(c)
<1> DEFINE k == asked[c].key
           live == Live(asked[c].at)
<1>1. /\ asked[c] # NoCall /\ k \in live
      /\ asked' = [asked EXCEPT ![c] = NoCall]
      /\ answer' = [answer EXCEPT ![c] = "no"]
      /\ UNCHANGED clock
  BY DEF Reject, Return
<1>2. entries' = [j \in live |-> entries[j]]
  BY RejectOutcome
<1>3. k \in DOMAIN entries /\ entries[k] > asked[c].at
  BY <1>1 DEF Live
<1>4. ASSUME NEW j \in DOMAIN entries \ live
      PROVE  ~Memory!Suppressed(j)
  <2>1. /\ entries[j] \in Int /\ clock \in Int
        /\ asked[c].at \in Int /\ asked[c].at <= clock
    BY GateAssumption DEF IInv, PendingCalls, TypeOK, GateAssumption
  <2>2. ~(entries[j] > asked[c].at)
    BY DEF Live
  <2> QED BY <2>1, <2>2 DEF Memory!Suppressed
<1>5. \E gone \in SUBSET {j \in DOMAIN entries : ~Memory!Suppressed(j)} :
         k \notin gone /\ Memory!Forgets(gone, k)
  <2> DEFINE gone == DOMAIN entries \ live
  <2>1. gone \in SUBSET {j \in DOMAIN entries : ~Memory!Suppressed(j)}
    BY <1>4
  <2>2. live \subseteq DOMAIN entries
    BY DEF Live
  <2>3. k \notin gone /\ Memory!Forgets(gone, k)
    BY <1>1, <1>2, <2>2 DEF Memory!Forgets
  <2> QED BY <2>1, <2>3
<1> QED BY <1>1, <1>2, <1>3, <1>5 DEF Memory!AnswerNo, NoCall, Memory!NoCall

\* ... and an acceptance that it is not, forgetting what the memory may forget.
LEMMA MemoryAccept ==
  ASSUME IInv, NEW c \in Callers, Accept(c)
  PROVE  Memory!AnswerYes(c)
<1> DEFINE k == asked[c].key
           live == Live(asked[c].at)
<1>1. /\ asked[c] # NoCall /\ k \notin live
      /\ asked' = [asked EXCEPT ![c] = NoCall]
      /\ answer' = [answer EXCEPT ![c] = "yes"]
      /\ UNCHANGED clock
  BY DEF Accept, Return
<1>2. PICK victim \in SUBSET live :
         /\ entries' = [j \in (live \cup {k}) \ victim |->
                          IF j = k THEN asked[c].at + Ttl ELSE entries[j]]
         /\ Cardinality(DOMAIN entries') <= Capacity
         /\ \/ victim = {}
            \/ (\E v : victim = {v}) /\ Cardinality(DOMAIN entries) >= Capacity
  BY AcceptVictim
<1>3. live \subseteq DOMAIN entries
  BY DEF Live
<1>4. ASSUME NEW j \in Keys, j \notin live
      PROVE  ~Memory!Suppressed(j)
  <2>1. SUFFICES ASSUME j \in DOMAIN entries
                 PROVE  ~(entries[j] > clock)
    BY DEF Memory!Suppressed
  <2>2. /\ entries[j] \in Int /\ clock \in Int
        /\ asked[c].at \in Int /\ asked[c].at <= clock
    BY <2>1, GateAssumption DEF IInv, PendingCalls, TypeOK, GateAssumption
  <2>3. ~(entries[j] > asked[c].at)
    BY <1>4, <2>1 DEF Live
  <2> QED BY <2>2, <2>3
<1>5. k \in Keys
  BY AcceptVictim
<1>6. \E gone \in SUBSET {j \in DOMAIN entries : ~Memory!Suppressed(j)},
         vs \in SUBSET DOMAIN entries :
         /\ Memory!Forgets(gone \cup vs, k)
         /\ vs = {} \/ /\ Cardinality(vs) = 1
                       /\ Cardinality(DOMAIN entries) >= Capacity
  <2> DEFINE gone == DOMAIN entries \ live
  <2>1. DOMAIN entries \subseteq Keys
    BY DEF IInv, TypeOK
  <2>2. gone \in SUBSET {j \in DOMAIN entries : ~Memory!Suppressed(j)}
    BY <1>4, <2>1
  <2>3. Memory!Forgets(gone \cup victim, k)
    BY <1>2, <1>3 DEF Memory!Forgets
  <2>4. victim = {} \/ (Cardinality(victim) = 1 /\ Cardinality(DOMAIN entries) >= Capacity)
    BY <1>2, FS_Singleton
  <2> QED BY <1>3, <2>2, <2>3, <2>4
<1>7. k \in DOMAIN entries' /\ entries'[k] = asked[c].at + Ttl
  BY <1>1, <1>2
<1>8. entries'[k] \in (asked[c].at + Ttl)..(clock + Ttl)
  <2>1. clock \in Int /\ asked[c].at \in Int /\ asked[c].at <= clock /\ Ttl \in Int
    BY GateAssumption DEF IInv, PendingCalls, TypeOK, GateAssumption
  <2> QED BY <1>7, <2>1
<1>9. ~Memory!Suppressed(k)
  BY <1>1, <1>4, <1>5
<1> QED BY <1>1, <1>2, <1>6, <1>7, <1>8, <1>9, SameCardinality DEF Memory!AnswerYes, NoCall, Memory!NoCall

\* Whatever the interleaving, each answer of the gate is one the memory gives.
THEOREM MemoryCorrect == Spec => ImplementsMemory
<1>1. IInv /\ [Next]_vars => [Memory!Next]_(Memory!vars)
  <2> SUFFICES ASSUME IInv, [Next]_vars
               PROVE  [Memory!Next]_(Memory!vars)
    OBVIOUS
  <2>1. CASE Tick
    BY <2>1 DEF Tick, Memory!Next, Memory!Tick
  <2>2. ASSUME NEW c \in Callers, NEW k \in Keys \cup {Blank}, Bypass(c, k)
        PROVE  Memory!Next
    BY <2>2 DEF Bypass, NoCall, Memory!Next, Memory!AnswerDisabled, Memory!NoCall
  <2>3. ASSUME NEW c \in Callers, NEW k \in Keys \cup {Blank}, ReadClock(c, k)
        PROVE  Memory!Next
    <3>1. k \in Keys
      BY <2>3 DEF ReadClock, Disabled
    <3> QED BY <2>3, <3>1 DEF ReadClock, NoCall, Memory!Next, Memory!Ask, Memory!NoCall
  <2>4. ASSUME NEW c \in Callers, Reject(c)
        PROVE  Memory!Next
    BY <2>4, MemoryReject DEF Memory!Next
  <2>5. ASSUME NEW c \in Callers, Accept(c)
        PROVE  Memory!Next
    BY <2>5, MemoryAccept DEF Memory!Next
  <2>6. CASE UNCHANGED vars
    BY <2>6 DEF vars, Memory!vars
  <2> QED BY <2>1, <2>2, <2>3, <2>4, <2>5, <2>6 DEF Next
<1> QED BY <1>1, MemoryInit, Invariance, PTL DEF Spec, ImplementsMemory, Memory!Spec
=============================================================================
