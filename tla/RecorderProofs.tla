--------------------------- MODULE RecorderProofs ---------------------------
(***************************************************************************)
(* Record never sends on the closed channel, run never leaves a batch      *)
(* unsaved, accepted events are applied once and in order, and Close waits *)
(* for all of them; for any number of callers and any capacities.          *)
(***************************************************************************)
EXTENDS Recorder, SequenceTheorems, WellFoundedInduction, TLAPS

\* The types that the proofs rest on.
Callers == /\ producer \in [Producers -> {"idle", "locked", "checked"}]
           /\ changed \in BOOLEAN /\ saveFailed \in BOOLEAN

\* While a batch is open the file may lag only behind a job of this batch.
OnlyTheBatch ==
    /\ runner \in {"receive", "held", "exit"} => saved = snapshot \/ saveFailed
    /\ runner = "drain" /\ ~changed => saved = snapshot \/ saveFailed

\* The inductive invariant. SavedUnlessFailed says nothing of a state inside a
\* batch: there the flag changed must be right about what the file lacks.
IInv == Callers /\ NoSendOnClosed /\ OnlyTheBatch

\* The initial states satisfy the invariant.
LEMMA InitIInv == Init => IInv
  BY DEF Init, IInv, Callers, NoSendOnClosed, OnlyTheBatch, snapshot

\* Every step preserves the invariant.
LEMMA NextIInv == IInv /\ [Next]_vars => IInv'
<1> SUFFICES ASSUME IInv, [Next]_vars PROVE IInv'
  OBVIOUS
<1> USE DEF IInv, Callers, NoSendOnClosed, OnlyTheBatch, snapshot, callVars, runVars, storeVars
<1>1. CASE UNCHANGED vars
  BY <1>1 DEF vars
<1>2. ASSUME NEW p \in Producers, LockSend(p) PROVE IInv'
  BY <1>2 DEF LockSend
<1>3. ASSUME NEW p \in Producers, CheckClosed(p) PROVE IInv'
  BY <1>3 DEF CheckClosed
<1>4. ASSUME NEW p \in Producers, NEW ev \in Events, Send(p, ev) PROVE IInv'
  BY <1>4 DEF Send
<1>5. ASSUME NEW c \in Closers, EnterOnce(c) PROVE IInv'
  BY <1>5 DEF EnterOnce
<1>6. ASSUME NEW c \in Closers, CloseChannels(c) PROVE IInv'
  BY <1>6 DEF CloseChannels
<1>7. ASSUME NEW c \in Closers, LeaveOnce(c) PROVE IInv'
  BY <1>7 DEF LeaveOnce
<1>8. ASSUME NEW c \in Closers, CloseReturn(c) PROVE IInv'
  BY <1>8 DEF CloseReturn
<1>9. CASE Receive
  BY <1>9 DEF Receive
<1>10. CASE Exit
  BY <1>10 DEF Exit
<1>11. CASE ApplyFirst
  <2>1. changed' = (held \in Jobs) /\ changed' \in BOOLEAN
    BY <1>11 DEF ApplyFirst, IsJob
  <2>2. ~changed' => UNCHANGED snapshot
    BY <1>11, <2>1 DEF ApplyFirst, Apply, IsJob
  <2>3. UNCHANGED <<producer, closed, saved, saveFailed>> /\ runner = "held" /\ runner' = "drain"
    BY <1>11 DEF ApplyFirst
  <2> QED
    BY <2>1, <2>2, <2>3
<1>12. CASE ApplyNext
  <2>1. changed' = (changed \/ Head(events) \in Jobs) /\ changed' \in BOOLEAN
    BY <1>12 DEF ApplyNext, IsJob
  <2>2. ~changed' => UNCHANGED snapshot /\ ~changed
    BY <1>12, <2>1 DEF ApplyNext, Apply, IsJob
  <2>3. UNCHANGED <<producer, closed, runner, saved, saveFailed>> /\ runner = "drain"
    BY <1>12 DEF ApplyNext
  <2> QED
    BY <2>1, <2>2, <2>3
<1>13. CASE EndBatch
  BY <1>13 DEF EndBatch
<1>14. CASE Save
  BY <1>14 DEF Save
<1> QED
  BY <1>1, <1>2, <1>3, <1>4, <1>5, <1>6, <1>7, <1>8, <1>9, <1>10, <1>11, <1>12, <1>13, <1>14
     DEF Next, Run, Record, Close

\* The invariant holds in every reachable state.
LEMMA Invariance == Spec => []IInv
  BY InitIInv, NextIInv, PTL DEF Spec

\* The lock around check and send keeps Record off the closed channel.
THEOREM NoPanicCorrect == Spec => []NoSendOnClosed
<1>1. IInv => NoSendOnClosed
  BY DEF IInv
<1> QED
  BY <1>1, Invariance, PTL

\* A batch that changed the snapshot is saved before run waits again.
THEOREM SavedCorrect == Spec => []SavedUnlessFailed
<1>1. IInv => SavedUnlessFailed
  BY DEF IInv, OnlyTheBatch, SavedUnlessFailed
<1> QED
  BY <1>1, Invariance, PTL

-----------------------------------------------------------------------------
(* Numbers *)

\* The order of the natural numbers.
Below == {p \in Nat \X Nat : p[1] < p[2]}

\* Induction, in a form that needs no operator: a set with 0 and the successor
\* of each of its numbers has all of them.
LEMMA NatInd == ASSUME NEW S, 0 \in S, \A n \in Nat : n \in S => n + 1 \in S
                PROVE  Nat \subseteq S
<1> DEFINE T == Nat \ S
<1>1. IsWellFoundedOn(Below, Nat)
  BY NatLessThanWellFounded DEF OpToRel, Below
<1>2. SUFFICES ASSUME T # {} PROVE FALSE
  OBVIOUS
<1>3. PICK x \in T : \A y \in T : <<y, x>> \notin Below
  <2> HIDE DEF T
  <2>1. T \subseteq Nat
    BY DEF T
  <2> QED
    BY <1>1, <1>2, <2>1, WFMin
<1>4. x # 0 /\ x - 1 \in Nat /\ x - 1 \notin S
  OBVIOUS
<1>5. <<x - 1, x>> \in Below
  BY <1>4 DEF Below
<1> QED
  BY <1>3, <1>4, <1>5

\* Quotient and remainder are the ones that make up the number.
LEMMA Quotient == ASSUME NEW m \in Nat \ {0}
                  PROVE  /\ \A q \in Int, r \in 0..(m - 1) : (m * q + r) % m = r
                         /\ \A x \in Nat : /\ x = m * (x \div m) + (x % m)
                                           /\ x % m \in 0..(m - 1) /\ x \div m \in Nat
<1>1. ASSUME NEW q \in Int, NEW r \in 0..(m - 1) PROVE (m * q + r) % m = r
  OBVIOUS
<1>2. ASSUME NEW x \in Nat
      PROVE  x = m * (x \div m) + (x % m) /\ x % m \in 0..(m - 1) /\ x \div m \in Nat
  OBVIOUS
<1> QED
  BY <1>1, <1>2

\* A counter that wraps early counts the same as one that wraps late.
LEMMA WrapEarly == ASSUME NEW m \in Nat \ {0}, NEW a \in Nat, NEW b \in Nat
                   PROVE  ((a % m) + b) % m = (a + b) % m
<1> DEFINE q == a \div m
           r == a % m
<1>1. a = m * q + r /\ r \in 0..(m - 1) /\ q \in Nat
  BY Quotient
<1> HIDE DEF q, r
<1> DEFINE c == r + b
           q2 == c \div m
           r2 == c % m
<1>2. c \in Nat
  BY <1>1
<1> HIDE DEF c
<1>3. c = m * q2 + r2 /\ r2 \in 0..(m - 1) /\ q2 \in Nat
  BY <1>2, Quotient
<1> HIDE DEF q2, r2
<1>4. a + b = m * (q + q2) + r2 /\ q + q2 \in Int
  BY <1>1, <1>3 DEF c
<1>5. (m * (q + q2) + r2) % m = r2
  BY <1>3, <1>4, Quotient
<1> QED
  BY <1>4, <1>5 DEF r, r2, c

-----------------------------------------------------------------------------
(* Lists of jobs *)

\* What cutting a list to its newest entries leaves of it.
LEMMA NewestProperties ==
  ASSUME NEW s \in Seq(Jobs)
  PROVE  /\ Newest(s) \in Seq(Jobs)
         /\ Len(Newest(s)) = IF Len(s) < MaxJobs THEN Len(s) ELSE MaxJobs
         /\ \A i \in 1..Len(Newest(s)) : Newest(s)[i] = s[i]
  BY RecorderAssumption DEF Newest

\* Cutting the older part first makes no difference.
LEMMA CutEarly == ASSUME NEW s \in Seq(Jobs), NEW t \in Seq(Jobs)
                  PROVE  Newest(s \o Newest(t)) = Newest(s \o t)
<1>0. MaxJobs \in Nat \ {0}
  BY RecorderAssumption
<1> DEFINE u == s \o Newest(t)
           v == s \o t
           n == Newest(t)
<1>1. n \in Seq(Jobs) /\ Len(n) = (IF Len(t) < MaxJobs THEN Len(t) ELSE MaxJobs)
      /\ \A i \in 1..Len(n) : n[i] = t[i]
  BY NewestProperties
<1> HIDE DEF n
<1>2. u \in Seq(Jobs) /\ v \in Seq(Jobs) /\ Len(u) = Len(s) + Len(n) /\ Len(v) = Len(s) + Len(t)
  BY <1>1 DEF n
<1>3. \A i \in 1..Len(u) : u[i] = v[i]
  BY <1>1 DEF n
<1> HIDE DEF u, v
<1>4. /\ Newest(u) \in Seq(Jobs)
      /\ Len(Newest(u)) = IF Len(u) < MaxJobs THEN Len(u) ELSE MaxJobs
      /\ \A i \in 1..Len(Newest(u)) : Newest(u)[i] = u[i]
  BY <1>2, NewestProperties
<1>5. /\ Newest(v) \in Seq(Jobs)
      /\ Len(Newest(v)) = IF Len(v) < MaxJobs THEN Len(v) ELSE MaxJobs
      /\ \A i \in 1..Len(Newest(v)) : Newest(v)[i] = v[i]
  BY <1>2, NewestProperties
<1>6. Len(Newest(u)) = Len(Newest(v)) /\ Len(Newest(u)) \in 0..Len(u)
  <2>1. Len(s) \in Nat /\ Len(t) \in Nat /\ Len(n) \in Nat
    BY <1>1
  <2> QED
    BY <1>0, <1>1, <1>2, <1>4, <1>5, <2>1
<1>7. Newest(u) = Newest(v)
  <2>1. \A i \in 1..Len(Newest(u)) : i \in 1..Len(u)
    BY <1>2, <1>6
  <2>2. \A i \in 1..Len(Newest(u)) : Newest(u)[i] = Newest(v)[i]
    BY <1>3, <1>4, <1>5, <1>6, <2>1
  <2> QED
    BY <1>4, <1>5, <1>6, <2>2, SeqEqual
<1> QED
  BY <1>7 DEF u, v, n

\* Reversing turns the last into the first and the first into the last.
LEMMA ReverseProperties ==
  ASSUME NEW s \in Seq(Jobs), NEW e \in Jobs
  PROVE  /\ Reverse(s) \in Seq(Jobs)
         /\ Reverse(Append(s, e)) = <<e>> \o Reverse(s)
         /\ Reverse(<<e>> \o s) = Reverse(s) \o <<e>>
<1>1. Reverse(s) \in Seq(Jobs)
  BY DEF Reverse
<1>2. Reverse(Append(s, e)) = <<e>> \o Reverse(s)
  BY DEF Reverse
<1>3. Reverse(<<e>> \o s) = Reverse(s) \o <<e>>
  BY DEF Reverse
<1> QED
  BY <1>1, <1>2, <1>3

\* Appending to the second of two lists.
LEMMA AppendLater == ASSUME NEW S \in {Jobs, Events}, NEW a \in Seq(S), NEW b \in Seq(S), NEW e \in S
                     PROVE  Append(a \o b, e) = a \o Append(b, e)
<1>1. a \o b \in Seq(S) /\ Append(b, e) \in Seq(S) /\ <<e>> \in Seq(S)
  OBVIOUS
<1>2. Append(a \o b, e) = (a \o b) \o <<e>> /\ Append(b, e) = b \o <<e>>
  BY <1>1, AppendIsConcat
<1>3. (a \o b) \o <<e>> = a \o (b \o <<e>>)
  BY <1>1, ConcatAssociative
<1> QED
  BY <1>2, <1>3

\* f lists the jobs among the first events of s, for each number of them.
Lists(f, s) == /\ f \in [0..Len(s) -> Seq(Jobs)] /\ f[0] = <<>>
               /\ \A i \in 1..Len(s) : f[i] = IF s[i] \in Jobs THEN Append(f[i - 1], s[i])
                                                               ELSE f[i - 1]

\* There is such a list for every sequence of events.
LEMMA ListExists == \A n \in Nat : \A s \in Seq(Events) : Len(s) = n => \E f : Lists(f, s)
<1> DEFINE S == {n \in Nat : \A s \in Seq(Events) : Len(s) = n => \E f : Lists(f, s)}
<1>1. 0 \in S
  <2> SUFFICES ASSUME NEW s \in Seq(Events), Len(s) = 0 PROVE \E f : Lists(f, s)
    OBVIOUS
  <2>1. Lists([i \in 0..0 |-> <<>>], s)
    BY DEF Lists
  <2> QED
    BY <2>1
<1>2. ASSUME NEW n \in Nat, n \in S PROVE n + 1 \in S
  <2> SUFFICES ASSUME NEW s \in Seq(Events), Len(s) = n + 1 PROVE \E f : Lists(f, s)
    OBVIOUS
  <2> DEFINE t == SubSeq(s, 1, n)
  <2>1. t \in Seq(Events) /\ Len(t) = n /\ \A i \in 1..n : t[i] = s[i]
    OBVIOUS
  <2> HIDE DEF t
  <2>2. PICK g : Lists(g, t)
    BY <1>2, <2>1
  <2> DEFINE last == IF s[n + 1] \in Jobs THEN Append(g[n], s[n + 1]) ELSE g[n]
             f == [i \in 0..(n + 1) |-> IF i = n + 1 THEN last ELSE g[i]]
  <2>3. g[n] \in Seq(Jobs) /\ g \in [0..n -> Seq(Jobs)]
    BY <2>1, <2>2 DEF Lists
  <2>4. last \in Seq(Jobs)
    BY <2>3
  <2>5. f[n + 1] = last /\ \A i \in 0..n : f[i] = g[i]
    OBVIOUS
  <2>6. f \in [0..(n + 1) -> Seq(Jobs)]
    BY <2>3, <2>4
  <2> HIDE DEF f
  <2>7. ASSUME NEW i \in 1..(n + 1)
        PROVE  f[i] = IF s[i] \in Jobs THEN Append(f[i - 1], s[i]) ELSE f[i - 1]
    <3>1. CASE i = n + 1
      BY <2>5, <3>1
    <3>2. CASE i # n + 1
      <4>1. i \in 1..n /\ i \in 0..n /\ i - 1 \in 0..n
        BY <3>2
      <4> QED
        BY <2>1, <2>2, <2>5, <4>1 DEF Lists
    <3> QED
      BY <3>1, <3>2
  <2>8. f[0] = <<>>
    BY <2>2, <2>5 DEF Lists
  <2> QED
    BY <2>6, <2>7, <2>8 DEF Lists
<1> HIDE DEF S
<1>3. Nat \subseteq S
  BY <1>1, <1>2, NatInd
<1> QED
  BY <1>3 DEF S

\* JobsOf is the end of that list.
LEMMA JobsListed == ASSUME NEW s \in Seq(Events)
                    PROVE  \E f : Lists(f, s) /\ JobsOf(s) = f[Len(s)]
<1> DEFINE F == CHOOSE f : f = [i \in 0..Len(s) |->
                                  IF i = 0 THEN <<>>
                                  ELSE IF s[i] \in Jobs THEN Append(f[i - 1], s[i])
                                  ELSE f[i - 1]]
<1>1. PICK g : Lists(g, s)
  BY ListExists
<1>2. g = [i \in 0..Len(s) |-> IF i = 0 THEN <<>>
                               ELSE IF s[i] \in Jobs THEN Append(g[i - 1], s[i])
                               ELSE g[i - 1]]
  <2> DEFINE h == [i \in 0..Len(s) |-> IF i = 0 THEN <<>>
                               ELSE IF s[i] \in Jobs THEN Append(g[i - 1], s[i])
                               ELSE g[i - 1]]
  <2>1. ASSUME NEW i \in 0..Len(s) PROVE g[i] = h[i]
    <3>1. CASE i = 0
      BY <1>1, <3>1 DEF Lists
    <3>2. CASE i # 0
      <4>1. i \in 1..Len(s)
        BY <3>2
      <4> QED
        BY <1>1, <3>2, <4>1 DEF Lists
    <3> QED
      BY <3>1, <3>2
  <2>2. g = [i \in 0..Len(s) |-> g[i]]
    BY <1>1 DEF Lists
  <2>3. h = [i \in 0..Len(s) |-> h[i]]
    OBVIOUS
  <2> HIDE DEF h
  <2>4. g = h
    BY <2>1, <2>2, <2>3
  <2> QED
    BY <2>4 DEF h
<1>3. F = [i \in 0..Len(s) |-> IF i = 0 THEN <<>>
                               ELSE IF s[i] \in Jobs THEN Append(F[i - 1], s[i])
                               ELSE F[i - 1]]
  BY <1>2
<1>4. JobsOf(s) = F[Len(s)]
  BY DEF JobsOf, IsJob
<1> HIDE DEF F
<1> DEFINE S == {i \in Nat : i <= Len(s) => F[i] = g[i]}
<1>5. 0 \in S
  BY <1>1, <1>3 DEF Lists
<1>6. ASSUME NEW i \in Nat, i \in S PROVE i + 1 \in S
  <2>1. CASE i + 1 <= Len(s)
    <3>1. i + 1 \in 0..Len(s) /\ i + 1 \in 1..Len(s) /\ i + 1 # 0 /\ (i + 1) - 1 = i /\ F[i] = g[i]
      BY <1>6, <2>1
    <3>2. g[i + 1] = IF s[i + 1] \in Jobs THEN Append(g[i], s[i + 1]) ELSE g[i]
      BY <1>1, <3>1 DEF Lists
    <3>3. F[i + 1] = IF s[i + 1] \in Jobs THEN Append(F[i], s[i + 1]) ELSE F[i]
      BY <1>3, <3>1
    <3> QED
      BY <3>1, <3>2, <3>3
  <2> QED
    BY <2>1
<1> HIDE DEF S
<1>7. Nat \subseteq S
  BY <1>5, <1>6, NatInd
<1>8. F[Len(s)] = g[Len(s)]
  BY <1>7 DEF S
<1> QED
  BY <1>1, <1>4, <1>8

\* Two lists of one sequence end alike.
LEMMA ListUnique == ASSUME NEW s, Len(s) \in Nat, NEW f, NEW g, Lists(f, s), Lists(g, s)
                    PROVE  f[Len(s)] = g[Len(s)]
<1> DEFINE S == {i \in Nat : i <= Len(s) => f[i] = g[i]}
<1>1. 0 \in S
  BY DEF Lists
<1>2. ASSUME NEW i \in Nat, i \in S PROVE i + 1 \in S
  <2>1. CASE i + 1 <= Len(s)
    <3>1. i + 1 \in 1..Len(s) /\ (i + 1) - 1 = i /\ f[i] = g[i]
      BY <1>2, <2>1
    <3> QED
      BY <3>1 DEF Lists
  <2> QED
    BY <2>1
<1> HIDE DEF S
<1>3. Nat \subseteq S
  BY <1>1, <1>2, NatInd
<1> QED
  BY <1>3 DEF S

\* The job of an appended event comes last.
LEMMA JobsAppend == ASSUME NEW s \in Seq(Events), NEW e \in Events
                    PROVE  JobsOf(Append(s, e)) = IF e \in Jobs THEN Append(JobsOf(s), e)
                                                                ELSE JobsOf(s)
<1> DEFINE u == Append(s, e)
           n == Len(s)
<1>1. u \in Seq(Events) /\ Len(u) = n + 1 /\ n \in Nat /\ u[n + 1] = e /\ \A i \in 1..n : u[i] = s[i]
  OBVIOUS
<1>2. PICK f : Lists(f, s) /\ JobsOf(s) = f[n]
  BY JobsListed
<1>3. PICK g : Lists(g, u) /\ JobsOf(u) = g[n + 1]
  BY <1>1, JobsListed
<1> DEFINE h == [i \in 0..n |-> g[i]]
<1>4. Lists(h, s)
  BY <1>1, <1>3 DEF Lists
<1>5. h[n] = f[n] /\ h[n] = g[n]
  BY <1>1, <1>2, <1>4, ListUnique
<1>6. g[n + 1] = IF u[n + 1] \in Jobs THEN Append(g[(n + 1) - 1], u[n + 1]) ELSE g[(n + 1) - 1]
  BY <1>1, <1>3 DEF Lists
<1> HIDE DEF u, h
<1> QED
  BY <1>1, <1>2, <1>3, <1>5, <1>6 DEF u

\* The job of an event in front comes first.
LEMMA JobsPrepend == ASSUME NEW s \in Seq(Events), NEW e \in Events
                     PROVE  JobsOf(<<e>> \o s) = IF e \in Jobs THEN <<e>> \o JobsOf(s)
                                                               ELSE JobsOf(s)
<1> DEFINE u == <<e>> \o s
           n == Len(s)
           pre == IF e \in Jobs THEN <<e>> ELSE <<>>
<1>1. u \in Seq(Events) /\ Len(u) = n + 1 /\ n \in Nat /\ u[1] = e /\ \A i \in 1..n : u[i + 1] = s[i]
  OBVIOUS
<1>2. PICK f : Lists(f, s) /\ JobsOf(s) = f[n]
  BY JobsListed
<1>3. PICK g : Lists(g, u) /\ JobsOf(u) = g[n + 1]
  BY <1>1, JobsListed
<1> HIDE DEF u
<1> DEFINE S == {i \in Nat : i <= n => g[i + 1] = pre \o f[i]}
<1>4. /\ pre \in Seq(Jobs)
      /\ e \in Jobs => pre = Append(<<>>, e)
      /\ e \notin Jobs => pre = <<>>
      /\ pre \o <<>> = pre
  OBVIOUS
<1> HIDE DEF pre
<1>5. 0 \in S
  <2>1. 1 \in 1..Len(u)
    BY <1>1
  <2>2. g[1] = IF u[1] \in Jobs THEN Append(g[1 - 1], u[1]) ELSE g[1 - 1]
    BY <1>3, <2>1 DEF Lists
  <2>3. g[1 - 1] = <<>> /\ f[0] = <<>>
    BY <1>2, <1>3 DEF Lists
  <2>4. g[1] = pre
    BY <1>1, <1>4, <2>2, <2>3
  <2>5. g[0 + 1] = pre \o f[0]
    BY <1>4, <2>3, <2>4
  <2> QED
    BY <2>5
<1>6. ASSUME NEW i \in Nat, i \in S PROVE i + 1 \in S
  <2>1. CASE i + 1 <= n
    <3>1. /\ i + 1 \in 1..n /\ (i + 1) - 1 = i /\ i + 2 \in 1..Len(u) /\ (i + 2) - 1 = i + 1
          /\ (i + 1) + 1 = i + 2 /\ i \in 0..n
      BY <1>1, <2>1
    <3>2. g[i + 1] = pre \o f[i]
      BY <1>1, <1>6, <2>1
    <3>3. f[i + 1] = IF s[i + 1] \in Jobs THEN Append(f[i], s[i + 1]) ELSE f[i]
      BY <1>2, <3>1 DEF Lists
    <3>4. g[i + 2] = IF u[i + 2] \in Jobs THEN Append(g[i + 1], u[i + 2]) ELSE g[i + 1]
      BY <1>3, <3>1 DEF Lists
    <3>5. u[i + 2] = s[i + 1] /\ f[i] \in Seq(Jobs)
      BY <1>1, <1>2, <3>1 DEF Lists
    <3>6. ASSUME NEW j \in Jobs PROVE Append(pre \o f[i], j) = pre \o Append(f[i], j)
      <4>1. pre \in Seq(Jobs) /\ f[i] \in Seq(Jobs)
        BY <1>4, <3>5
      <4>2. ASSUME NEW a \in Seq(Jobs), NEW b \in Seq(Jobs)
            PROVE  Append(a \o b, j) = a \o Append(b, j)
        BY AppendLater
      <4> QED
        BY <4>1, <4>2
    <3>7. g[i + 2] = pre \o f[i + 1]
      BY <3>2, <3>3, <3>4, <3>5, <3>6
    <3> QED
      BY <3>1, <3>7
  <2> QED
    BY <1>1, <2>1
<1> HIDE DEF S
<1>7. Nat \subseteq S
  BY <1>5, <1>6, NatInd
<1>8. g[n + 1] = pre \o f[n]
  BY <1>1, <1>7 DEF S
<1>9. f[n] \in Seq(Jobs)
  BY <1>1, <1>2 DEF Lists
<1> QED
  <2>1. JobsOf(<<e>> \o s) = pre \o JobsOf(s) /\ JobsOf(s) \in Seq(Jobs)
    BY <1>2, <1>3, <1>8, <1>9 DEF u
  <2>2. <<>> \o JobsOf(s) = JobsOf(s)
    BY <2>1
  <2>3. CASE e \in Jobs
    BY <2>1, <2>3 DEF pre
  <2>4. CASE e \notin Jobs
    BY <2>1, <2>2, <2>4 DEF pre
  <2> QED
    BY <2>3, <2>4

-----------------------------------------------------------------------------
(* What is accepted is applied *)

\* Without events there are no jobs.
LEMMA NoJobs == JobsOf(<<>>) = <<>>
<1>1. <<>> \in Seq(Events) /\ Len(<<>>) = 0
  OBVIOUS
<1>2. PICK f : Lists(f, <<>>) /\ JobsOf(<<>>) = f[Len(<<>>)]
  BY <1>1, JobsListed
<1> QED
  BY <1>1, <1>2 DEF Lists

\* The jobs of any events are jobs.
LEMMA JobsType == ASSUME NEW s \in Seq(Events) PROVE JobsOf(s) \in Seq(Jobs)
<1>1. PICK f : Lists(f, s) /\ JobsOf(s) = f[Len(s)]
  BY JobsListed
<1> QED
  BY <1>1 DEF Lists

\* The types that the accounting rests on.
ListTypes == /\ events \in Seq(Events) /\ held \in Events
             /\ jobs \in Seq(Jobs) /\ Len(jobs) <= MaxJobs /\ newest \in Seq(Jobs)
             /\ found \in 0..(Modulus - 1) /\ total \in 0..(Modulus - 1)

\* What is on its way is a list of events.
LEMMA PendingType == ListTypes => Pending \in Seq(Events)
<1> SUFFICES ASSUME ListTypes PROVE Pending \in Seq(Events)
  OBVIOUS
<1> DEFINE now == IF runner = "held" THEN <<held>> ELSE <<>>
<1>1. now \in Seq(Events)
  BY DEF ListTypes
<1> HIDE DEF now
<1>2. now \o events \in Seq(Events)
  BY <1>1 DEF ListTypes
<1> QED
  BY <1>2 DEF Pending, now

\* An accepted event joins the end of what is on its way.
LEMMA Accepted ==
  ASSUME ListTypes, ListTypes', NothingLostOrReordered, NEW ev \in Events,
         Pending' = Append(Pending, ev), UNCHANGED snapshot,
         IF IsJob(ev) THEN newest' = Newest(<<ev>> \o newest) /\ total' = (total + 1) % Modulus
                      ELSE UNCHANGED acceptVars
  PROVE  NothingLostOrReordered'
<1> DEFINE P == PendingJobs
<1>1. Pending \in Seq(Events) /\ P \in Seq(Jobs)
  BY PendingType, JobsType DEF PendingJobs
<1>2. PendingJobs' = IF ev \in Jobs THEN Append(P, ev) ELSE P
  BY <1>1, JobsAppend DEF PendingJobs
<1>3. newest = Newest(Reverse(P) \o jobs) /\ total = (found + Len(P)) % Modulus
  BY DEF NothingLostOrReordered
<1> HIDE DEF P
<1>4. CASE ev \notin Jobs
  BY <1>2, <1>3, <1>4 DEF IsJob, acceptVars, snapshot, NothingLostOrReordered
<1>5. CASE ev \in Jobs
  <2>1. /\ newest' = Newest(<<ev>> \o newest) /\ total' = (total + 1) % Modulus
        /\ jobs' = jobs /\ found' = found
    BY <1>5 DEF IsJob, snapshot
  <2>2. Reverse(P) \in Seq(Jobs) /\ Reverse(Append(P, ev)) = <<ev>> \o Reverse(P)
    BY <1>1, <1>5, ReverseProperties
  <2>3. <<ev>> \in Seq(Jobs) /\ jobs \in Seq(Jobs)
    BY <1>5 DEF ListTypes
  <2> DEFINE R == Reverse(P)
  <2>4. R \in Seq(Jobs)
    BY <2>2
  <2> HIDE DEF R
  <2>5. R \o jobs \in Seq(Jobs)
    BY <2>3, <2>4, ConcatProperties
  <2>6. Newest(<<ev>> \o Newest(R \o jobs)) = Newest(<<ev>> \o (R \o jobs))
    BY <2>3, <2>5, CutEarly
  <2>7. <<ev>> \o (R \o jobs) = (<<ev>> \o R) \o jobs
    BY <2>3, <2>4, ConcatAssociative
  <2>8. newest' = Newest(Reverse(PendingJobs') \o jobs')
    BY <1>2, <1>3, <1>5, <2>1, <2>2, <2>6, <2>7 DEF R
  <2>9. Len(P) \in Nat /\ Len(Append(P, ev)) = Len(P) + 1
    BY <1>1, <1>5
  <2>10. (((found + Len(P)) % Modulus) + 1) % Modulus = (found + Len(P) + 1) % Modulus
    <3>1. Modulus \in Nat \ {0} /\ found + Len(P) \in Nat /\ 1 \in Nat
      BY <2>9, RecorderAssumption DEF ListTypes
    <3> QED
      BY <3>1, WrapEarly
  <2>11. found + Len(P) + 1 = found + Len(Append(P, ev))
    BY <2>9, RecorderAssumption DEF ListTypes
  <2>12. total' = (found' + Len(PendingJobs')) % Modulus
    BY <1>2, <1>3, <1>5, <2>1, <2>10, <2>11
  <2> QED
    BY <2>8, <2>12 DEF NothingLostOrReordered
<1> QED
  BY <1>4, <1>5

\* An applied event leaves the front of what is on its way.
LEMMA Applied ==
  ASSUME ListTypes, NothingLostOrReordered, NEW ev \in Events, NEW rest \in Seq(Events),
         Pending = <<ev>> \o rest, Pending' = rest, Apply(ev), UNCHANGED acceptVars
  PROVE  /\ jobs' \in Seq(Jobs) /\ Len(jobs') <= MaxJobs /\ found' \in 0..(Modulus - 1)
         /\ NothingLostOrReordered'
<1> DEFINE P == JobsOf(rest)
<1>1. P \in Seq(Jobs)
  BY JobsType
<1>2. PendingJobs = IF ev \in Jobs THEN <<ev>> \o P ELSE P
  BY JobsPrepend DEF PendingJobs
<1>3. PendingJobs' = P
  BY DEF PendingJobs
<1>4. /\ newest = Newest(Reverse(PendingJobs) \o jobs)
      /\ total = (found + Len(PendingJobs)) % Modulus
      /\ newest' = newest /\ total' = total
  BY DEF NothingLostOrReordered, acceptVars
<1>5. /\ jobs \in Seq(Jobs) /\ Len(jobs) <= MaxJobs /\ found \in 0..(Modulus - 1)
      /\ Modulus \in Nat \ {0} /\ MaxJobs \in Nat \ {0}
  BY RecorderAssumption DEF ListTypes
<1> HIDE DEF P
<1>6. CASE ev \notin Jobs
  <2>1. jobs' = jobs /\ found' = found
    BY <1>6 DEF Apply, IsJob, snapshot
  <2> QED
    BY <1>2, <1>3, <1>4, <1>5, <1>6, <2>1 DEF NothingLostOrReordered
<1>7. CASE ev \in Jobs
  <2>1. jobs' = Newest(<<ev>> \o jobs) /\ found' = (found + 1) % Modulus
    BY <1>7 DEF Apply, IsJob
  <2> DEFINE R == Reverse(P)
  <2>2. R \in Seq(Jobs) /\ Reverse(PendingJobs) = R \o <<ev>>
    BY <1>1, <1>2, <1>7, ReverseProperties
  <2> HIDE DEF R
  <2>3. <<ev>> \in Seq(Jobs)
    BY <1>7
  <2>4. <<ev>> \o jobs \in Seq(Jobs)
    BY <1>5, <2>3, ConcatProperties
  <2>5. (R \o <<ev>>) \o jobs = R \o (<<ev>> \o jobs)
    BY <1>5, <2>2, <2>3, ConcatAssociative
  <2>6. Newest(R \o Newest(<<ev>> \o jobs)) = Newest(R \o (<<ev>> \o jobs))
    BY <2>2, <2>4, CutEarly
  <2>7. newest' = Newest(Reverse(PendingJobs') \o jobs')
    BY <1>3, <1>4, <2>1, <2>2, <2>5, <2>6 DEF R
  <2>8. Len(P) \in Nat /\ Len(PendingJobs) = Len(P) + 1
    BY <1>1, <1>2, <1>7
  <2>9. (((found + 1) % Modulus) + Len(P)) % Modulus = (found + 1 + Len(P)) % Modulus
    <3>1. found + 1 \in Nat
      BY <1>5
    <3> QED
      BY <1>5, <2>8, <3>1, WrapEarly
  <2>10. found + 1 + Len(P) = found + Len(PendingJobs)
    BY <1>5, <2>8
  <2>11. total' = (found' + Len(PendingJobs')) % Modulus
    BY <1>3, <1>4, <2>1, <2>9, <2>10
  <2>12. jobs' \in Seq(Jobs) /\ Len(jobs') <= MaxJobs
    <3> DEFINE longer == <<ev>> \o jobs
    <3>1. longer \in Seq(Jobs) /\ jobs' = Newest(longer) /\ Len(longer) \in Nat
      BY <2>1, <2>4
    <3> HIDE DEF longer
    <3>2. /\ Newest(longer) \in Seq(Jobs)
          /\ Len(Newest(longer)) = IF Len(longer) < MaxJobs THEN Len(longer) ELSE MaxJobs
      BY <3>1, NewestProperties
    <3> QED
      BY <1>5, <3>1, <3>2
  <2>13. found' \in 0..(Modulus - 1)
    <3>1. found + 1 \in Nat
      BY <1>5
    <3> QED
      BY <1>5, <2>1, <3>1, Quotient
  <2> QED
    BY <2>7, <2>11, <2>12, <2>13 DEF NothingLostOrReordered
<1> QED
  BY <1>6, <1>7

\* The inductive invariant behind NothingLostOrReordered.
AccountInv == ListTypes /\ NothingLostOrReordered

\* A new recorder has accepted and applied nothing.
LEMMA AccountInit == Init => AccountInv
<1> SUFFICES ASSUME Init PROVE AccountInv
  OBVIOUS
<1>1. events = <<>> /\ runner = "receive" /\ held = Other /\ jobs = <<>> /\ found = 0
      /\ newest = <<>> /\ total = 0
  BY DEF Init
<1>2. ListTypes
  BY <1>1, RecorderAssumption DEF ListTypes, Events
<1>3. PendingJobs = <<>>
  <2>1. Pending = <<>>
    BY <1>1 DEF Pending
  <2> QED
    BY <2>1, NoJobs DEF PendingJobs
<1>4. Reverse(<<>>) \o <<>> = <<>> /\ Len(<<>>) = 0
  BY DEF Reverse
<1>5. Newest(<<>>) = <<>>
  BY RecorderAssumption DEF Newest
<1>6. (0 + 0) % Modulus = 0
  BY RecorderAssumption
<1> QED
  BY <1>1, <1>2, <1>3, <1>4, <1>5, <1>6 DEF AccountInv, NothingLostOrReordered

\* Recording, batching and saving preserve it; only Send adds to the end of what
\* is on its way and only applyBatch takes from its front.
LEMMA AccountStep == AccountInv /\ [Next]_vars => AccountInv'
<1> SUFFICES ASSUME AccountInv, [Next]_vars PROVE AccountInv'
  OBVIOUS
<1> USE DEF AccountInv
<1>1. ASSUME UNCHANGED <<events, held, snapshot, acceptVars>>,
             (runner' = "held") <=> (runner = "held")
      PROVE  AccountInv'
  <2>1. Pending' = Pending
    BY <1>1 DEF Pending
  <2>2. PendingJobs' = PendingJobs
    BY <2>1 DEF PendingJobs
  <2> QED
    BY <1>1, <2>2 DEF ListTypes, NothingLostOrReordered, snapshot, acceptVars
<1>2. CASE UNCHANGED vars
  BY <1>1, <1>2 DEF vars, runVars
<1>3. ASSUME NEW p \in Producers, LockSend(p) \/ CheckClosed(p) PROVE AccountInv'
  BY <1>1, <1>3 DEF LockSend, CheckClosed, runVars
<1>4. ASSUME NEW c \in Closers,
             EnterOnce(c) \/ CloseChannels(c) \/ LeaveOnce(c) \/ CloseReturn(c)
      PROVE  AccountInv'
  BY <1>1, <1>4 DEF EnterOnce, CloseChannels, LeaveOnce, CloseReturn, runVars
<1>5. CASE Exit \/ EndBatch \/ Save
  BY <1>1, <1>5 DEF Exit, EndBatch, Save
<1>6. ASSUME NEW p \in Producers, NEW ev \in Events, Send(p, ev) PROVE AccountInv'
  <2>1. CASE ~(Len(events) < Buffer)
    BY <1>1, <1>6, <2>1 DEF Send, runVars
  <2>2. CASE Len(events) < Buffer
    <3>1. /\ events' = Append(events, ev) /\ UNCHANGED <<runner, held, snapshot>>
          /\ IF IsJob(ev) THEN newest' = Newest(<<ev>> \o newest) /\ total' = (total + 1) % Modulus
                          ELSE UNCHANGED acceptVars
      BY <1>6, <2>2 DEF Send, runVars
    <3>2. Pending' = Append(Pending, ev)
      <4> DEFINE now == IF runner = "held" THEN <<held>> ELSE <<>>
      <4>1. now \in Seq(Events) /\ events \in Seq(Events)
        BY DEF ListTypes
      <4>2. Pending = now \o events /\ Pending' = now \o Append(events, ev)
        BY <3>1 DEF Pending
      <4> HIDE DEF now
      <4> QED
        BY <4>1, <4>2, AppendLater
    <3>3. newest' \in Seq(Jobs) /\ total' \in 0..(Modulus - 1)
      <4>1. CASE IsJob(ev)
        <5>1. <<ev>> \o newest \in Seq(Jobs)
          BY <4>1 DEF IsJob, ListTypes
        <5>2. total + 1 \in Nat /\ Modulus \in Nat \ {0}
          BY RecorderAssumption DEF ListTypes
        <5> QED
          BY <3>1, <4>1, <5>1, <5>2, NewestProperties, Quotient
      <4>2. CASE ~IsJob(ev)
        BY <3>1, <4>2 DEF acceptVars, ListTypes
      <4> QED
        BY <4>1, <4>2
    <3>4. ListTypes'
      BY <3>1, <3>3 DEF ListTypes, snapshot
    <3> QED
      BY <3>1, <3>2, <3>4, Accepted
  <2> QED
    BY <2>1, <2>2
<1>7. ASSUME events # <<>>
      PROVE  /\ Head(events) \in Events /\ Tail(events) \in Seq(Events)
             /\ events = <<Head(events)>> \o Tail(events)
  BY <1>7 DEF ListTypes
<1>8. CASE Receive
  <2>1. /\ events # <<>> /\ runner = "receive" /\ runner' = "held"
        /\ held' = Head(events) /\ events' = Tail(events) /\ UNCHANGED <<snapshot, acceptVars>>
    BY <1>8 DEF Receive
  <2>2. Pending' = events /\ Pending = <<>> \o events
    BY <1>7, <2>1 DEF Pending
  <2>3. PendingJobs' = PendingJobs
    BY <2>2 DEF PendingJobs, ListTypes
  <2> QED
    BY <1>7, <2>1, <2>3 DEF ListTypes, NothingLostOrReordered, snapshot, acceptVars
<1>9. CASE ApplyFirst
  <2>1. /\ runner = "held" /\ runner' = "drain" /\ Apply(held) /\ held' = Other
        /\ UNCHANGED <<events, acceptVars>>
    BY <1>9 DEF ApplyFirst
  <2>2. Pending = <<held>> \o events /\ Pending' = <<>> \o events
    BY <2>1 DEF Pending
  <2>3. Pending' = events /\ events \in Seq(Events) /\ held \in Events
    BY <2>2 DEF ListTypes
  <2>4. /\ jobs' \in Seq(Jobs) /\ Len(jobs') <= MaxJobs /\ found' \in 0..(Modulus - 1)
        /\ NothingLostOrReordered'
    BY <2>1, <2>2, <2>3, Applied
  <2> QED
    BY <2>1, <2>4 DEF ListTypes, acceptVars, Events
<1>10. CASE ApplyNext
  <2>1. /\ runner = "drain" /\ events # <<>> /\ Apply(Head(events)) /\ events' = Tail(events)
        /\ UNCHANGED <<runner, held, acceptVars>>
    BY <1>10 DEF ApplyNext
  <2>2. Pending = <<>> \o events /\ Pending' = <<>> \o Tail(events)
    BY <2>1 DEF Pending
  <2>3. Pending = <<Head(events)>> \o Tail(events) /\ Pending' = Tail(events)
    BY <1>7, <2>1, <2>2 DEF ListTypes
  <2>4. /\ jobs' \in Seq(Jobs) /\ Len(jobs') <= MaxJobs /\ found' \in 0..(Modulus - 1)
        /\ NothingLostOrReordered'
    BY <1>7, <2>1, <2>3, Applied
  <2> QED
    BY <1>7, <2>1, <2>4 DEF ListTypes, acceptVars
<1> QED
  BY <1>2, <1>3, <1>4, <1>5, <1>6, <1>8, <1>9, <1>10 DEF Next, Run, Record, Close

\* Every accepted event is on its way or applied, once and in order.
THEOREM AccountCorrect == Spec => []NothingLostOrReordered
<1>1. AccountInv => NothingLostOrReordered
  BY DEF AccountInv
<1> QED
  BY <1>1, AccountInit, AccountStep, PTL DEF Spec

\* Close returns after run has ended, and run ends on a closed, empty channel,
\* to which nothing can be sent any more.
CloseInv == /\ producer \in [Producers -> {"idle", "locked", "checked"}]
            /\ closer = [c \in Closers |-> closer[c]] /\ once \in {"new", "running", "done"}
            /\ NoSendOnClosed
            /\ \A c \in Closers : closer[c] = "returned" => runner = "exit"
            /\ runner = "exit" => closed /\ events = <<>>

\* Every step preserves it: sendMu is what keeps the channel empty after Exit.
LEMMA CloseStep == CloseInv /\ [Next]_vars => CloseInv'
<1> SUFFICES ASSUME CloseInv, [Next]_vars PROVE CloseInv'
  OBVIOUS
<1> USE DEF CloseInv, NoSendOnClosed, callVars, runVars
<1>1. CASE UNCHANGED vars
  BY <1>1 DEF vars
<1>2. ASSUME NEW p \in Producers, LockSend(p) \/ CheckClosed(p) PROVE CloseInv'
  BY <1>2 DEF LockSend, CheckClosed
<1>3. ASSUME NEW p \in Producers, NEW ev \in Events, Send(p, ev) PROVE CloseInv'
  BY <1>3 DEF Send
<1>4. ASSUME NEW c \in Closers, EnterOnce(c) \/ CloseChannels(c) \/ LeaveOnce(c) PROVE CloseInv'
  BY <1>4 DEF EnterOnce, CloseChannels, LeaveOnce
<1>5. ASSUME NEW c \in Closers, CloseReturn(c) PROVE CloseInv'
  BY <1>5 DEF CloseReturn
<1>6. CASE Receive \/ ApplyFirst \/ ApplyNext \/ EndBatch \/ Save
  BY <1>6 DEF Receive, ApplyFirst, ApplyNext, EndBatch, Save
<1>7. CASE Exit
  BY <1>7 DEF Exit
<1> QED
  BY <1>1, <1>2, <1>3, <1>4, <1>5, <1>6, <1>7 DEF Next, Run, Record, Close

\* When Close returns, every accepted event is in the snapshot.
THEOREM DrainCorrect == Spec => []CloseDrains
<1>1. Init => CloseInv
  BY DEF Init, CloseInv, NoSendOnClosed
<1>2. CloseInv /\ AccountInv => CloseDrains
  <2> SUFFICES ASSUME CloseInv, AccountInv, NEW c \in Closers, closer[c] = "returned"
               PROVE  jobs = newest /\ found = total /\ Pending = <<>>
    BY DEF CloseDrains
  <2>1. runner = "exit" /\ events = <<>>
    BY DEF CloseInv
  <2>2. Pending = <<>>
    BY <2>1 DEF Pending
  <2>3. PendingJobs = <<>>
    BY <2>2, NoJobs DEF PendingJobs
  <2>4. newest = Newest(Reverse(<<>>) \o jobs) /\ total = (found + Len(<<>>)) % Modulus
    BY <2>3 DEF AccountInv, NothingLostOrReordered
  <2>5. Reverse(<<>>) \o jobs = jobs
    BY DEF Reverse, AccountInv, ListTypes
  <2>6. Newest(jobs) = jobs
    <3>1. jobs \in Seq(Jobs) /\ Len(jobs) <= MaxJobs
      BY DEF AccountInv, ListTypes
    <3>2. /\ Newest(jobs) \in Seq(Jobs)
          /\ Len(Newest(jobs)) = IF Len(jobs) < MaxJobs THEN Len(jobs) ELSE MaxJobs
          /\ \A i \in 1..Len(Newest(jobs)) : Newest(jobs)[i] = jobs[i]
      BY <3>1, NewestProperties
    <3>3. Len(Newest(jobs)) = Len(jobs)
      BY <3>1, <3>2, RecorderAssumption
    <3> QED
      BY <3>1, <3>2, <3>3, SeqEqual
  <2>7. (found + Len(<<>>)) % Modulus = found
    <3>1. found \in 0..(Modulus - 1) /\ Modulus \in Nat \ {0}
      BY RecorderAssumption DEF AccountInv, ListTypes
    <3>2. (Modulus * 0 + found) % Modulus = found
      BY <3>1, Quotient
    <3>3. Modulus * 0 + found = found + Len(<<>>)
      BY <3>1
    <3> QED
      BY <3>2, <3>3
  <2> QED
    BY <2>2, <2>4, <2>5, <2>6, <2>7
<1> QED
  BY <1>1, <1>2, AccountInit, AccountStep, CloseStep, PTL DEF Spec
=============================================================================
