----------------------------- MODULE DedupeGate -----------------------------
(***************************************************************************)
(* internal/dedupe/gate.go: the time-limited, size-limited set of keys in  *)
(* front of the reactions.  FirstSeen reads the clock BEFORE it takes the  *)
(* mutex, so a caller may run the critical section with an old time: the   *)
(* two halves are two actions.  The critical section is one action, since  *)
(* entries and order are touched nowhere else.                             *)
(***************************************************************************)
EXTENDS Integers, FiniteSets, Sequences, SequencesExt

CONSTANTS Keys,         \* the non-empty keys callers use
          Blank,        \* the empty key
          Callers,      \* goroutines that call FirstSeen
          Ttl,          \* New's ttl, in ticks; may be <= 0
          CapacityArg,  \* New's capacity argument; may be negative
          MaxTime       \* bound on the clock

ASSUME GateAssumption == /\ Blank \notin Keys
                         /\ Ttl \in Int
                         /\ CapacityArg \in Int
                         /\ MaxTime \in Nat

VARIABLES clock,    \* time.Now(), monotonic
          entries,  \* Gate.entries: key -> expiry
          order,    \* Gate.order: keys, oldest acceptance first
          asked,    \* caller -> the key and the time it read, or NoCall
          answer    \* caller -> what FirstSeen returned last

vars == <<clock, entries, order, asked, answer>>

NoCall == [key |-> Blank, at |-> 0]

Capacity == IF CapacityArg < 0 THEN 0 ELSE CapacityArg

TypeOK ==
    /\ clock \in 0..MaxTime
    /\ DOMAIN entries \subseteq Keys
    /\ entries \in [DOMAIN entries -> Int]
    /\ order \in Seq(Keys)
    /\ asked \in [Callers -> [key : Keys \cup {Blank}, at : 0..MaxTime]]
    /\ \A c \in Callers : asked[c].key = Blank => asked[c] = NoCall
    /\ answer \in [Callers -> {"none", "yes", "no"}]

-----------------------------------------------------------------------------
\* Fault in Live: a key is still suppressed at the very end of its lifetime.
LiveInclusive(now) == {k \in DOMAIN entries : entries[k] >= now}

Live(now) == {k \in DOMAIN entries : entries[k] > now}

\* compactOrder keeps the first occurrence of every key that is still in
\* entries, in the order of those occurrences.
FirstAt(s, k) == CHOOSE i \in DOMAIN s : s[i] = k /\ \A j \in DOMAIN s : s[j] = k => i <= j

\* Faults in Compactions: the slice keeps dropped keys; it is turned around.
Uncompacted(s, live) == {s}
Reversed(s, live) ==
    {t \in [1..Cardinality(live \cap ToSet(s)) -> live \cap ToSet(s)] :
        /\ ToSet(t) = live \cap ToSet(s)
        /\ \A i, j \in DOMAIN t : i < j => FirstAt(s, t[i]) > FirstAt(s, t[j])}

Compactions(s, live) ==
    LET kept == live \cap ToSet(s)
    IN {t \in [1..Cardinality(kept) -> kept] :
          /\ ToSet(t) = kept
          /\ \A i, j \in DOMAIN t : i < j => FirstAt(s, t[i]) < FirstAt(s, t[j])}

\* What is left of the keys ks once the first n elements of s are evicted.
LeftAfter(ks, s, n) == ks \ {s[i] : i \in 1..n}

\* evictOldest runs until the number of entries is within the capacity: n is
\* the number of elements it takes from the front of s.
Evicts(ks, s, n) ==
    /\ n \in 0..Len(s)
    /\ Cardinality(LeftAfter(ks, s, n)) <= Capacity
    /\ \A m \in 0..(n - 1) : Cardinality(LeftAfter(ks, s, m)) > Capacity

Disabled(k) == k = Blank \/ Ttl <= 0 \/ Capacity <= 0

-----------------------------------------------------------------------------
Init == /\ clock = 0
        /\ entries = [k \in {} |-> 0]
        /\ order = <<>>
        /\ asked = [c \in Callers |-> NoCall]
        /\ answer = [c \in Callers |-> "none"]

Tick == /\ clock < MaxTime
        /\ clock' = clock + 1
        /\ UNCHANGED <<entries, order, asked, answer>>

\* FirstSeen without a key, a lifetime or room: always "first seen".
Bypass(c, k) == /\ asked[c] = NoCall
                /\ Disabled(k)
                /\ answer' = [answer EXCEPT ![c] = "yes"]
                /\ UNCHANGED <<clock, entries, order, asked>>

\* FirstSeen up to the mutex.
ReadClock(c, k) == /\ asked[c] = NoCall
                   /\ ~Disabled(k)
                   /\ asked' = [asked EXCEPT ![c] = [key |-> k, at |-> clock]]
                   /\ UNCHANGED <<clock, entries, order, answer>>

Return(c, result) == /\ asked' = [asked EXCEPT ![c] = NoCall]
                     /\ answer' = [answer EXCEPT ![c] = result]
                     /\ UNCHANGED clock

\* The critical section when the key is present and not expired.
Reject(c) ==
    /\ asked[c] # NoCall
    /\ asked[c].key \in Live(asked[c].at)
    /\ entries' = [k \in Live(asked[c].at) |-> entries[k]]
    /\ order' \in Compactions(order, Live(asked[c].at))
    /\ Return(c, "no")

\* The critical section when the key is new: prune, insert, evict.
Accept(c) ==
    LET k == asked[c].key
        live == Live(asked[c].at)
    IN /\ asked[c] # NoCall
       /\ k \notin live
       /\ \E kept \in Compactions(order, live) :
             LET appended == Append(kept, k)
             IN \E n \in 0..Len(appended) :
                   /\ Evicts(live \cup {k}, appended, n)
                   /\ order' = SubSeq(appended, n + 1, Len(appended))
                   /\ entries' = [j \in LeftAfter(live \cup {k}, appended, n) |->
                                     IF j = k THEN asked[c].at + Ttl ELSE entries[j]]
       /\ Return(c, "yes")

Next == \/ Tick
        \/ \E c \in Callers : \/ \E k \in Keys \cup {Blank} : Bypass(c, k) \/ ReadClock(c, k)
                            \/ Reject(c)
                            \/ Accept(c)

Spec == Init /\ [][Next]_vars

-----------------------------------------------------------------------------
\* The order slice lists every entry exactly once: evictOldest, which trusts
\* it, always finds a victim and never takes a key for another's duplicate.
OrderMatchesEntries == /\ IsInjective(order)
                       /\ ToSet(order) = DOMAIN entries

\* Between calls the gate never holds more keys than its capacity.
WithinCapacity == Cardinality(DOMAIN entries) <= Capacity

\* A key that still suppresses duplicates when it is dropped was accepted
\* before every key that stays, however old the clock value of the caller that
\* pushed it out (FirstSeen reads the clock outside the lock).
EvictsOldest ==
    [][\A k \in DOMAIN entries \ DOMAIN entries' :
          entries[k] > clock =>
             \A j \in DOMAIN entries \cap DOMAIN entries' : FirstAt(order, k) < FirstAt(order, j)]_vars

\* Every answer is one the abstract memory gives: "first seen" only for a key
\* that no acceptance inside its lifetime still suppresses, "seen" only for one
\* that was suppressed when the call was made, although callers use clock
\* values read before they got the mutex.
Memory == INSTANCE FirstSeenMemory WITH remembered <- entries
ImplementsMemory == Memory!Spec
=============================================================================
