--------------------------- MODULE FirstSeenMemory ---------------------------
(***************************************************************************)
(* What a caller of dedupe.Gate may rely on, without the order slice, the  *)
(* pruning pass or the moment the clock is read: a memory of keys, each    *)
(* with the time until which it is suppressed.  An answer is right for     *)
(* some moment between the call and the return, and a key that is still    *)
(* suppressed is forgotten only to make room for a new one.                *)
(***************************************************************************)
EXTENDS Integers, FiniteSets

CONSTANTS Keys, Blank, Callers, Ttl, Capacity, MaxTime

VARIABLES clock,       \* wall time
          remembered,  \* key -> the time until which it is suppressed
          asked,       \* caller -> the pending call, or NoCall
          answer       \* caller -> its last answer

vars == <<clock, remembered, asked, answer>>

NoCall == [key |-> Blank, at |-> 0]

Suppressed(k) == k \in DOMAIN remembered /\ remembered[k] > clock

Init == /\ clock = 0
        /\ remembered = [k \in {} |-> 0]
        /\ asked = [c \in Callers |-> NoCall]
        /\ answer = [c \in Callers |-> "none"]

Tick == /\ clock < MaxTime
        /\ clock' = clock + 1
        /\ UNCHANGED <<remembered, asked, answer>>

Ask(c) == /\ asked[c] = NoCall
          /\ \E k \in Keys : asked' = [asked EXCEPT ![c] = [key |-> k, at |-> clock]]
          /\ UNCHANGED <<clock, remembered, answer>>

\* A key the memory does not handle, or a memory that is turned off.
AnswerDisabled(c) == /\ asked[c] = NoCall
                     /\ answer' = [answer EXCEPT ![c] = "yes"]
                     /\ UNCHANGED <<clock, remembered, asked>>

\* The keys of gone leave the memory and no other key changes.
Forgets(gone, except) ==
    /\ \A k \in DOMAIN remembered \ (gone \cup {except}) :
          k \in DOMAIN remembered' /\ remembered'[k] = remembered[k]
    /\ DOMAIN remembered' \subseteq DOMAIN remembered \cup {except}

\* "Seen before": the key was still suppressed when the call was made.
AnswerNo(c) ==
    /\ asked[c] # NoCall
    /\ asked[c].key \in DOMAIN remembered
    /\ remembered[asked[c].key] > asked[c].at
    /\ \E gone \in SUBSET {k \in DOMAIN remembered : ~Suppressed(k)} :
          /\ asked[c].key \notin gone
          /\ Forgets(gone, asked[c].key)
    /\ asked[c].key \in DOMAIN remembered'
    /\ remembered'[asked[c].key] = remembered[asked[c].key]
    /\ asked' = [asked EXCEPT ![c] = NoCall]
    /\ answer' = [answer EXCEPT ![c] = "no"]
    /\ UNCHANGED clock

\* "First seen": the key is not suppressed at the moment of the answer; from
\* now on it is.  One suppressed key may make room when the memory is full.
AnswerYes(c) ==
    /\ asked[c] # NoCall
    /\ ~Suppressed(asked[c].key)
    /\ \E gone \in SUBSET {k \in DOMAIN remembered : ~Suppressed(k)},
          victim \in SUBSET DOMAIN remembered :
          /\ Forgets(gone \cup victim, asked[c].key)
          /\ victim = {} \/ /\ Cardinality(victim) = 1
                            /\ Cardinality(DOMAIN remembered) >= Capacity
    /\ asked[c].key \in DOMAIN remembered'
    /\ remembered'[asked[c].key] \in (asked[c].at + Ttl)..(clock + Ttl)
    /\ Cardinality(DOMAIN remembered') <= Capacity
    /\ asked' = [asked EXCEPT ![c] = NoCall]
    /\ answer' = [answer EXCEPT ![c] = "yes"]
    /\ UNCHANGED clock

Next == \/ Tick
        \/ \E c \in Callers : Ask(c) \/ AnswerDisabled(c) \/ AnswerNo(c) \/ AnswerYes(c)

Spec == Init /\ [][Next]_vars
=============================================================================
