-------------------------- MODULE RssMonitorProofs --------------------------
(***************************************************************************)
(* Proofs about internal/monitor/rss/monitor.go: the loop of nextWait      *)
(* returns the capped doubling it is meant to, fetches keep their          *)
(* distance, the monitor is a refinement of that schedule, and an item is  *)
(* reported once and never because it was there at startup.                *)
(***************************************************************************)
EXTENDS RssMonitor, WellFoundedInduction, TLAPS

\* The order of the natural numbers.
Below == {p \in Nat \X Nat : p[1] < p[2]}

\* Induction, in a form that needs no operator: a set with 0 and the successor
\* of each of its numbers has all of them.
LEMMA NatInd == ASSUME NEW S, 0 \in S, \A n \in Nat : n \in S => n + 1 \in S
                PROVE  Nat \subseteq S
<1> DEFINE T == Nat \ S
<1>1. IsWellFoundedOn(Below, Nat)
  BY NatLessThanWellFounded DEF OpToRel, Below
<1>2. SUFFICES ASSUME T # {} PROVE FALSE
  OBVIOUS
<1>3. PICK x \in T : \A y \in T : <<y, x>> \notin Below
  <2> HIDE DEF T
  <2>1. T \subseteq Nat
    BY DEF T
  <2> QED
    BY <1>1, <1>2, <2>1, WFMin
<1>4. x # 0 /\ x - 1 \in Nat /\ x - 1 \notin S
  OBVIOUS
<1>5. <<x - 1, x>> \in Below
  BY <1>4 DEF Below
<1> QED
  BY <1>3, <1>4, <1>5

\* A sequence of doublings exists up to any number.
LEMMA Doublings ==
  \A n \in Nat : \E g \in [0..n -> Nat] : g[0] = 1 /\ \A i \in 1..n : g[i] = 2 * g[i - 1]
<1> DEFINE Is(g, n) == g[0] = 1 /\ \A i \in 1..n : g[i] = 2 * g[i - 1]
           S == {n \in Nat : \E g \in [0..n -> Nat] : Is(g, n)}
<1>1. 0 \in S
  <2>1. [i \in 0..0 |-> 1] \in [0..0 -> Nat] /\ Is([i \in 0..0 |-> 1], 0)
    OBVIOUS
  <2> QED
    BY <2>1
<1>2. ASSUME NEW n \in Nat, n \in S PROVE n + 1 \in S
  <2> SUFFICES \E k \in [0..(n + 1) -> Nat] : Is(k, n + 1)
    <3> HIDE DEF Is
    <3> QED
      OBVIOUS
  <2>1. PICK g \in [0..n -> Nat] : Is(g, n)
    BY <1>2
  <2> DEFINE h == [i \in 0..(n + 1) |-> IF i = n + 1 THEN 2 * g[n] ELSE g[i]]
  <2>2. h \in [0..(n + 1) -> Nat]
    OBVIOUS
  <2>3. h[n + 1] = 2 * h[n] /\ \A i \in 0..n : h[i] = g[i]
    OBVIOUS
  <2> HIDE DEF h
  <2>4. ASSUME NEW i \in 1..(n + 1) PROVE h[i] = 2 * h[i - 1]
    <3>1. CASE i = n + 1
      BY <2>3, <3>1
    <3>2. CASE i # n + 1
      <4>1. i \in 1..n /\ i \in 0..n /\ i - 1 \in 0..n
        BY <3>2
      <4> QED
        BY <2>1, <2>3, <4>1
    <3> QED
      BY <3>1, <3>2
  <2>5. Is(h, n + 1)
    BY <2>1, <2>3, <2>4
  <2> QED
    BY <2>2, <2>5
<1> HIDE DEF S
<1>3. Nat \subseteq S
  BY <1>1, <1>2, NatInd
<1> QED
  BY <1>3 DEF S

\* What the powers of two are in BackoffExact.
LEMMA Powers == ASSUME MaxFailures \in Nat
                PROVE  /\ Pow2[0] = 1
                       /\ \A n \in 1..MaxFailures : Pow2[n] = 2 * Pow2[n - 1]
                       /\ \A n \in 0..MaxFailures : Pow2[n] \in Nat \ {0}
<1>1. PICK g \in [0..MaxFailures -> Nat] :
                g[0] = 1 /\ \A i \in 1..MaxFailures : g[i] = 2 * g[i - 1]
  BY Doublings
<1>2. g = [n \in 0..MaxFailures |-> IF n = 0 THEN 1 ELSE 2 * g[n - 1]]
  BY <1>1
<1>3. Pow2 = [n \in 0..MaxFailures |-> IF n = 0 THEN 1 ELSE 2 * Pow2[n - 1]]
  BY <1>2 DEF Pow2
<1> HIDE DEF Pow2
<1>4. /\ Pow2[0] = 1
      /\ \A n \in 1..MaxFailures : Pow2[n] = 2 * Pow2[n - 1]
  <2>1. Pow2[0] = 1
    BY <1>3
  <2>2. ASSUME NEW n \in 1..MaxFailures PROVE Pow2[n] = 2 * Pow2[n - 1]
    BY <1>3
  <2> QED
    BY <2>1, <2>2
<1> DEFINE S == {n \in Nat : n <= MaxFailures => Pow2[n] \in Nat \ {0}}
<1>5. 0 \in S
  BY <1>4
<1>6. ASSUME NEW n \in Nat, n \in S PROVE n + 1 \in S
  <2>1. CASE n + 1 <= MaxFailures
    <3>1. n + 1 \in 1..MaxFailures /\ (n + 1) - 1 = n /\ Pow2[n] \in Nat \ {0}
      BY <1>6, <2>1
    <3> QED
      BY <1>4, <3>1
  <2> QED
    BY <2>1
<1> HIDE DEF S
<1>7. Nat \subseteq S
  BY <1>5, <1>6, NatInd
<1> QED
  BY <1>4, <1>7 DEF S

-----------------------------------------------------------------------------
(* The schedule *)

\* A configuration that is accepted has durations that can be used.
LEMMA ConfigTypes ==
  ASSUME NEW file \in Files, NEW env \in Environments,
         Accepted(Load(file, env)), Load(file, env).rss_enabled
  PROVE  /\ Load(file, env).check_interval \in MinCheckInterval..MaxInt
         /\ Load(file, env).max_backoff \in 1..MaxInt
         /\ Load(file, env).pause_sleep \in 1..MaxInt
<1> DEFINE D == {"check_interval", "max_backoff", "pause_sleep"}
           lay == Layered(file, env)
           cfg == Load(file, env)
<1>1. /\ D \subseteq DOMAIN Defaults /\ MaxInt \in Nat \ {0} /\ MinCheckInterval \in 1..MaxInt
      /\ Defaults["check_interval"] \in MinCheckInterval..MaxInt
      /\ Defaults["max_backoff"] \in 1..MaxInt /\ Defaults["pause_sleep"] \in 1..MaxInt
  BY ScheduleAssumption DEF ScheduleAssumption
<1>2. \A s \in D : (s \in DOMAIN file => file[s] \in Durations)
                /\ (s \in DOMAIN env => env[s] \in Durations)
  BY ScheduleAssumption DEF ScheduleAssumption
<1>3. DOMAIN lay = DOMAIN Defaults
  BY DEF Layered
<1>4. \A s \in D : lay[s] \in Durations
  <2> SUFFICES ASSUME NEW s \in D PROVE lay[s] \in Durations
    OBVIOUS
  <2>1. Defaults[s] \in Durations
    BY <1>1 DEF Durations
  <2>2. \/ lay[s] = env[s] /\ s \in DOMAIN env
        \/ lay[s] = file[s] /\ s \in DOMAIN file
        \/ lay[s] = Defaults[s]
    BY <1>1 DEF Layered
  <2> QED
    BY <1>2, <2>1, <2>2
<1>5. /\ cfg["check_interval"] = IF lay["check_interval"] = 0 THEN Defaults["check_interval"]
                                 ELSE lay["check_interval"]
      /\ cfg["max_backoff"] = IF lay["max_backoff"] <= 0 THEN Defaults["max_backoff"]
                              ELSE lay["max_backoff"]
      /\ cfg["pause_sleep"] = IF lay["pause_sleep"] <= 0 THEN Defaults["pause_sleep"]
                              ELSE lay["pause_sleep"]
  BY <1>1, <1>3 DEF Load, ApplyDefaults
<1>6. cfg["check_interval"] >= MinCheckInterval
  BY DEF Accepted, Validate
<1> QED
  BY <1>1, <1>4, <1>5, <1>6 DEF Durations

\* The remainder of a number that is smaller than the divisor.
LEMMA ModSmall == ASSUME NEW m \in Nat \ {0}, NEW x \in 0..(m - 1) PROVE x % m = x
  OBVIOUS

\* So wait *= 2 is 2 * wait while that fits in a time.Duration.
LEMMA NoWrap == ASSUME MaxInt \in Nat \ {0}, NEW d \in Nat, 2 * d <= MaxInt
                PROVE  Doubled(d) = 2 * d
<1>1. 2 * d + MaxInt + 1 \in 0..(2 * (MaxInt + 1) - 1)
  OBVIOUS
<1>2. (2 * d + MaxInt + 1) % (2 * (MaxInt + 1)) = 2 * d + MaxInt + 1
  BY <1>1, ModSmall
<1> QED
  BY <1>2 DEF Doubled

\* The loop of nextWait returns check * 2^n, or the cap where that is less, for
\* every interval and cap: no doubling leaves the range of durations.
LEMMA BackoffValue ==
  ASSUME check \in 1..MaxInt, maxBackoff \in 1..MaxInt,
         NEW n \in 1..MaxFailures
  PROVE  BackoffLoop(n) = Smaller(check * Pow2[n], maxBackoff)
<1> DEFINE Capped(i) == Smaller(check * Pow2[i], maxBackoff)
           Grown(d) == IF d >= maxBackoff \/ d > maxBackoff \div 2 THEN maxBackoff
                       ELSE Doubled(d)
           W == [i \in 0..n |-> IF i = 0 THEN check ELSE Capped(i)]
           w == CHOOSE w : w = [i \in 0..n |-> IF i = 0 THEN check ELSE Grown(w[i - 1])]
<1>1. MaxInt \in Nat \ {0} /\ MaxFailures \in Nat
  BY ScheduleAssumption DEF ScheduleAssumption
<1>2. /\ Pow2[0] = 1
      /\ \A i \in 1..MaxFailures : Pow2[i] = 2 * Pow2[i - 1]
      /\ \A i \in 0..MaxFailures : Pow2[i] \in Nat \ {0}
  BY <1>1, Powers
<1> HIDE DEF Pow2
<1>3. ASSUME NEW i \in 1..n PROVE W[i] = Grown(W[i - 1])
  <2>1. i - 1 \in 0..n /\ i \in 0..n /\ i \in 1..MaxFailures /\ i - 1 \in 0..MaxFailures
    BY <1>1
  <2> DEFINE p == Pow2[i - 1]
  <2>2. p \in Nat \ {0} /\ Pow2[i] = 2 * p
    BY <1>2, <2>1
  <2>3. W[i] = Smaller(check * (2 * p), maxBackoff)
    BY <2>1, <2>2
  <2>4. PICK d : d = W[i - 1]
    OBVIOUS
  <2>5. d = check * p \/ (d = maxBackoff /\ check * p >= maxBackoff)
    BY <1>2, <2>1, <2>4 DEF Smaller
  <2>6. check * p \in Nat /\ check * (2 * p) = 2 * (check * p)
    BY <2>2
  <2> HIDE DEF p, W
  <2>7. CASE d >= maxBackoff \/ d > maxBackoff \div 2
    BY <2>3, <2>4, <2>5, <2>6, <2>7 DEF Smaller
  <2>8. CASE ~(d >= maxBackoff \/ d > maxBackoff \div 2)
    <3>1. d = check * p /\ 2 * d <= maxBackoff /\ 2 * d <= MaxInt /\ d \in Nat
      BY <2>5, <2>6, <2>8, <1>1
    <3>2. Doubled(d) = 2 * d
      BY <1>1, <3>1, NoWrap
    <3>3. W[i] = 2 * d
      BY <2>3, <2>6, <3>1 DEF Smaller
    <3> QED
      BY <2>4, <2>8, <3>2, <3>3
  <2> HIDE DEF Grown
  <2> QED
    BY <2>7, <2>8
<1>4. W = [i \in 0..n |-> IF i = 0 THEN check ELSE Grown(W[i - 1])]
  <2>1. ASSUME NEW i \in 0..n PROVE W[i] = IF i = 0 THEN check ELSE Grown(W[i - 1])
    <3>1. CASE i = 0
      BY <3>1
    <3>2. CASE i # 0
      <4>1. i \in 1..n
        BY <3>2
      <4> QED
        BY <1>3, <3>2, <4>1
    <3> QED
      BY <3>1, <3>2
  <2>2. W = [i \in 0..n |-> W[i]]
    OBVIOUS
  <2> HIDE DEF W, Grown
  <2> QED
    BY <2>1, <2>2
<1> HIDE DEF W, Grown
<1>5. w = [i \in 0..n |-> IF i = 0 THEN check ELSE Grown(w[i - 1])]
  BY <1>4
<1>6. BackoffLoop(n) = w[n]
  BY DEF BackoffLoop, Grown
<1> HIDE DEF w
<1> DEFINE S == {i \in Nat : i <= n => w[i] = W[i]}
<1>7. 0 \in S
  BY <1>4, <1>5
<1>8. ASSUME NEW i \in Nat, i \in S PROVE i + 1 \in S
  <2>1. CASE i + 1 <= n
    <3>1. i + 1 \in 0..n /\ i + 1 # 0 /\ (i + 1) - 1 = i /\ w[i] = W[i]
      BY <1>8, <2>1
    <3> QED
      BY <1>4, <1>5, <3>1
  <2> QED
    BY <2>1
<1> HIDE DEF S
<1>9. Nat \subseteq S
  BY <1>7, <1>8, NatInd
<1>10. w[n] = W[n]
  BY <1>9 DEF S
<1> QED
  BY <1>6, <1>10 DEF W

\* The durations and what is counted with them, wherever Start is.
Times == /\ check \in MinCheckInterval..MaxInt /\ maxBackoff \in 1..MaxInt
         /\ pauseSleep \in 1..MaxInt /\ failureCount \in 0..MaxFailures
         /\ wait \in 0..MaxInt /\ gap \in 0..MaxInt
         /\ paused \in BOOLEAN /\ fetched \in BOOLEAN

\* A sleep after failures is no shorter than the smaller of interval and cap.
LEMMA WaitAfter ==
  ASSUME Times, NEW success \in BOOLEAN, NextWait(success)
  PROVE  /\ wait' \in 1..MaxInt /\ wait' >= Smaller(check, maxBackoff)
         /\ failureCount' \in 0..MaxFailures
         /\ failureCount' > failureCount =>
               wait' = Smaller(check * Pow2[failureCount'], maxBackoff)
<1>1. /\ check \in 1..MaxInt /\ maxBackoff \in 1..MaxInt /\ failureCount \in 0..MaxFailures
      /\ MaxInt \in Nat /\ MaxFailures \in Nat \ {0}
  BY ScheduleAssumption DEF Times, ScheduleAssumption
<1>2. CASE success
  BY <1>1, <1>2 DEF NextWait, Smaller
<1>3. CASE ~success
  <2> DEFINE n == Smaller(failureCount + 1, MaxFailures)
             d == BackoffLoop(n)
  <2>1. /\ n \in 1..MaxFailures /\ failureCount' = n
        /\ wait' = IF d <= 0 \/ d > maxBackoff THEN maxBackoff ELSE d
    BY <1>1, <1>3 DEF NextWait, Smaller
  <2>2. d = Smaller(check * Pow2[n], maxBackoff)
    BY <1>1, <2>1, BackoffValue
  <2>3. Pow2[n] \in Nat \ {0}
    BY <1>1, <2>1, Powers
  <2> HIDE DEF Pow2, d, n
  <2>4. check * Pow2[n] \in Nat /\ check * Pow2[n] >= check
    BY <1>1, <2>3
  <2> QED
    BY <1>1, <2>1, <2>2, <2>4 DEF Smaller
<1> QED
  BY <1>2, <1>3

\* So a fetch leaves a wait behind it that is long enough.
LEMMA FetchEnds ==
  ASSUME Times, NEW success \in BOOLEAN, Reschedule(success)
  PROVE  /\ Times' /\ Smaller(check', maxBackoff') = Smaller(check, maxBackoff)
         /\ gap' + wait' >= Smaller(check', maxBackoff')
<1>1. /\ wait' \in 1..MaxInt /\ wait' >= Smaller(check, maxBackoff)
      /\ failureCount' \in 0..MaxFailures
  BY WaitAfter DEF Reschedule
<1>2. /\ fetched' = TRUE /\ gap' = 0
      /\ UNCHANGED <<check, maxBackoff, pauseSleep, paused>>
  BY DEF Reschedule
<1>3. MaxInt \in Nat
  BY ScheduleAssumption DEF ScheduleAssumption
<1>4. Smaller(check', maxBackoff') = Smaller(check, maxBackoff)
  BY <1>2
<1>5. Times'
  BY <1>1, <1>2, <1>3 DEF Times
<1> QED
  BY <1>1, <1>2, <1>4, <1>5

\* A wait that is over, and perhaps followed by a pause, has brought the time since
\* the last fetch to the smaller of interval and cap.
LEMMA WaitEnds ==
  ASSUME Times, gap' = Smaller(gap + wait, check),
         wait' = (IF paused THEN PauseDuration ELSE wait),
         UNCHANGED <<check, maxBackoff, pauseSleep, failureCount, paused, fetched>>
  PROVE  /\ Times' /\ Smaller(check', maxBackoff') = Smaller(check, maxBackoff)
         /\ gap + wait >= Smaller(check, maxBackoff) =>
               /\ gap' >= Smaller(check', maxBackoff')
               /\ gap' + wait' >= Smaller(check', maxBackoff')
<1>1. MaxInt \in Nat /\ MinCheckInterval \in 1..MaxInt /\ MaxFailures \in Nat
  BY ScheduleAssumption DEF ScheduleAssumption
<1>2. gap' \in 0..MaxInt /\ wait' \in 0..MaxInt
  BY <1>1 DEF Times, Smaller, PauseDuration
<1>3. Times'
  BY <1>2 DEF Times
<1>4. Smaller(check', maxBackoff') = Smaller(check, maxBackoff)
  OBVIOUS
<1>5. gap + wait >= Smaller(check, maxBackoff) => gap' >= Smaller(check, maxBackoff)
  BY <1>1 DEF Times, Smaller
<1>6. Smaller(check, maxBackoff) \in Nat
  BY <1>1 DEF Times, Smaller
<1> QED
  BY <1>2, <1>3, <1>4, <1>5, <1>6

\* What a wait that is set after a fetch and the time since that fetch add up to.
Spaced == /\ at = "start" => ~fetched
          /\ at = "wait" /\ fetched => gap + wait >= Smaller(check, maxBackoff)
          /\ at = "fetch" /\ fetched => gap >= Smaller(check, maxBackoff)

\* The inductive invariant of the schedule.
ScheduleInv == ScheduleTypeOK /\ Spaced

\* New's sanitized durations are ones the invariant can start from.
LEMMA InitialSchedule == ScheduleInit => ScheduleInv
<1> SUFFICES ASSUME ScheduleInit PROVE ScheduleInv
  OBVIOUS
<1>1. check \in MinCheckInterval..MaxInt /\ maxBackoff \in 1..MaxInt /\ pauseSleep \in 1..MaxInt
  <2>1. PICK file \in Files, env \in Environments :
           /\ Accepted(Load(file, env)) /\ Load(file, env).rss_enabled
           /\ check = Load(file, env).check_interval
           /\ maxBackoff = IF Load(file, env).max_backoff <= 0 THEN Defaults.max_backoff
                           ELSE Load(file, env).max_backoff
           /\ pauseSleep = IF Load(file, env).pause_sleep < 0 THEN Defaults.pause_sleep
                           ELSE Load(file, env).pause_sleep
    BY DEF ScheduleInit
  <2>2. MaxInt \in Nat
    BY ScheduleAssumption DEF ScheduleAssumption
  <2> QED
    BY <2>1, <2>2, ConfigTypes
<1>2. /\ at = "start" /\ ~fetched /\ failureCount = 0 /\ wait = 0 /\ gap = 0
      /\ paused \in BOOLEAN /\ fetched \in BOOLEAN
  BY DEF ScheduleInit
<1>3. MaxInt \in Nat /\ MinCheckInterval \in 1..MaxInt /\ MaxFailures \in Nat
  BY ScheduleAssumption DEF ScheduleAssumption
<1>4. check \in 1..MaxInt /\ 0 \in 0..MaxInt /\ 0 \in 0..MaxFailures
  BY <1>1, <1>3
<1>5. Spaced
  BY <1>2 DEF Spaced
<1>6. ScheduleTypeOK
  BY <1>1, <1>2, <1>3, <1>4 DEF ScheduleTypeOK
<1> QED
  BY <1>5, <1>6 DEF ScheduleInv

\* Waking, pausing, fetching and backing off keep what waits and gaps add up to.
LEMMA ScheduleStep == ScheduleInv /\ [ScheduleNext]_(startVars) => ScheduleInv'
<1> SUFFICES ASSUME ScheduleInv, [ScheduleNext]_(startVars) PROVE ScheduleInv'
  OBVIOUS
<1> USE DEF ScheduleInv, Spaced, ScheduleTypeOK, scheduleVars
<1>0. MaxInt \in Nat /\ MinCheckInterval \in 1..MaxInt /\ MaxFailures \in Nat
  BY ScheduleAssumption DEF ScheduleAssumption
<1>1. CASE UNCHANGED startVars
  BY <1>1 DEF startVars
<1>2. CASE ToggleFile
  BY <1>2 DEF ToggleFile
<1>3. CASE FirstWait
  BY <1>0, <1>3 DEF FirstWait
<1>4. CASE WaitOver
  <2>1. /\ at = "wait" /\ at' \in {"wait", "fetch"} /\ fetched' = fetched
        /\ Times' /\ Smaller(check', maxBackoff') = Smaller(check, maxBackoff)
        /\ gap + wait >= Smaller(check, maxBackoff) =>
              /\ gap' >= Smaller(check', maxBackoff')
              /\ gap' + wait' >= Smaller(check', maxBackoff')
    <3>1. /\ at = "wait" /\ at' \in {"wait", "fetch"} /\ gap' = Smaller(gap + wait, check)
          /\ wait' = IF paused THEN PauseDuration ELSE wait
          /\ UNCHANGED <<check, maxBackoff, pauseSleep, failureCount, paused, fetched>>
      BY <1>4 DEF WaitOver
    <3>2. Times
      BY DEF Times
    <3> HIDE DEF ScheduleInv, Spaced, ScheduleTypeOK, scheduleVars
    <3> QED
      BY <3>1, <3>2, WaitEnds
  <2>2. ScheduleTypeOK'
    BY <2>1 DEF Times
  <2> QED
    BY <2>1, <2>2
<1>5. CASE Fetch
  <2>1. PICK success \in BOOLEAN : Reschedule(success)
    BY <1>5 DEF Fetch
  <2>2. at' = "wait" /\ Times' /\ gap' + wait' >= Smaller(check', maxBackoff')
    BY <1>5, <2>1, FetchEnds DEF Fetch, Times
  <2>3. ScheduleTypeOK'
    BY <2>2 DEF Times
  <2> QED
    BY <2>2, <2>3
<1> QED
  BY <1>1, <1>2, <1>3, <1>4, <1>5 DEF ScheduleNext

\* So it holds of every state of Start's loop.
LEMMA ScheduleInvariance == ScheduleSpec => []ScheduleInv
  BY InitialSchedule, ScheduleStep, PTL DEF ScheduleSpec

\* The sanitized durations stay in range, and so do wait and failureCount.
THEOREM ScheduleTypeCorrect == ScheduleSpec => []ScheduleTypeOK
<1>1. ScheduleInv => ScheduleTypeOK
  BY DEF ScheduleInv
<1> QED
  BY <1>1, ScheduleInvariance, PTL

\* Two fetches are a check interval apart, or max_backoff where that is shorter,
\* whatever failures and pauses are in between.
THEOREM SpacingCorrect == ScheduleSpec => []SpacingKept
<1>1. ScheduleInv => SpacingKept
  BY DEF ScheduleInv, Spaced, SpacingKept
<1> QED
  BY <1>1, ScheduleInvariance, PTL

\* Two fetches are the legal minimum apart if max_backoff allows it.
THEOREM MinimumCorrect == ScheduleSpec => []MinimumKept
<1>1. ScheduleInv => MinimumKept
  <2>1. MaxInt \in Nat /\ MinCheckInterval \in 1..MaxInt
    BY ScheduleAssumption DEF ScheduleAssumption
  <2> QED
    BY <2>1 DEF ScheduleInv, Spaced, ScheduleTypeOK, MinimumKept, Smaller
<1> QED
  BY <1>1, ScheduleInvariance, PTL

\* Each failure sets the wait to the capped doubling, in a step of any schedule.
THEOREM BackoffCorrect == ScheduleSpec => BackoffExact
<1>1. ScheduleInv /\ [ScheduleNext]_(startVars) =>
        [failureCount' > failureCount =>
          wait' = Smaller(check * Pow2[failureCount'], maxBackoff)]_(startVars)
  <2> SUFFICES ASSUME ScheduleInv, ScheduleNext, failureCount' > failureCount
               PROVE  wait' = Smaller(check * Pow2[failureCount'], maxBackoff)
    OBVIOUS
  <2>1. failureCount \in Int
    BY ScheduleAssumption DEF ScheduleInv, ScheduleTypeOK, ScheduleAssumption
  <2>2. PICK success \in BOOLEAN : NextWait(success)
    BY <2>1 DEF ScheduleNext, ToggleFile, FirstWait, WaitOver, Fetch,
           Reschedule, scheduleVars
  <2> QED
    BY <2>2, WaitAfter DEF ScheduleInv, ScheduleTypeOK, Times
<1> QED
  BY <1>1, ScheduleInvariance, PTL DEF ScheduleSpec, BackoffExact

-----------------------------------------------------------------------------
(* The monitor *)

\* A step that is none of the schedule's leaves the schedule alone.
LEMMA ScheduleRests ==
  ASSUME UNCHANGED scheduleVars, ScheduleAt' = ScheduleAt
  PROVE  [Schedule!ScheduleNext]_(Schedule!startVars)
BY DEF scheduleVars, Schedule!startVars, Schedule!scheduleVars

\* Whatever a fetch ends with, and wherever its end is, it is a Fetch of the schedule.
LEMMA ScheduleFetches ==
  ASSUME NEW success \in BOOLEAN, at \in {"fetch", "emit"}, at' \in {"wait", "error", "done"},
         Schedule!Reschedule(success)
  PROVE  [Schedule!ScheduleNext]_(Schedule!startVars)
<1>1. ScheduleAt = "fetch" /\ ScheduleAt' = "wait"
  BY DEF ScheduleAt
<1>2. Schedule!Fetch
  BY <1>1 DEF Schedule!Fetch
<1> QED
  BY <1>2 DEF Schedule!ScheduleNext

\* Every step of the monitor is one of the schedule's, or none.
LEMMA ScheduleSimulates == [Next]_vars => [Schedule!ScheduleNext]_(Schedule!startVars)
<1> SUFFICES ASSUME [Next]_vars PROVE [Schedule!ScheduleNext]_(Schedule!startVars)
  OBVIOUS
<1> DEFINE Simulates == [Schedule!ScheduleNext]_(Schedule!startVars)
<1>1. CASE UNCHANGED vars
  BY <1>1, ScheduleRests DEF vars, ScheduleAt
<1>2. CASE Publish
  BY <1>2, ScheduleRests DEF Publish, ScheduleAt
<1>3. CASE Cancel
  BY <1>3, ScheduleRests DEF Cancel, ScheduleAt
<1>4. CASE TogglePause
  BY <1>4 DEF TogglePause, Schedule!ScheduleNext
<1>5. CASE \E i \in Items : Expire(i)
  BY <1>5, ScheduleRests DEF Expire, ScheduleAt
<1>6. CASE Begin
  BY <1>6 DEF Begin, Schedule!ScheduleNext
<1>7. CASE Wake
  BY <1>7 DEF Wake, Schedule!ScheduleNext
<1>8. CASE StopWaiting
  BY <1>8, ScheduleRests DEF StopWaiting, ScheduleAt
<1>9. CASE FetchFails \/ FetchBroken
  BY <1>9, ScheduleFetches DEF FetchFails, FetchBroken, Failed
<1>10. ASSUME NEW body, at = "fetch", UseBody(body) PROVE Simulates
  <2>1. CASE at' = "emit"
    <3>1. UNCHANGED scheduleVars
      BY <1>10, <2>1 DEF UseBody
    <3>2. ScheduleAt' = ScheduleAt
      BY <1>10, <2>1 DEF ScheduleAt
    <3> QED
      BY <3>1, <3>2, ScheduleRests
  <2>2. CASE at' # "emit"
    BY <1>10, <2>2, ScheduleFetches DEF UseBody
  <2> QED
    BY <2>1, <2>2
<1>11. CASE NotModified \/ FetchOk
  BY <1>10, <1>11 DEF NotModified, FetchOk
<1>12. CASE \E i \in Items, r \in {"low", "high"} : Look(i, r)
  BY <1>12, ScheduleRests DEF Look, ScheduleAt
<1>13. CASE Send
  BY <1>13, ScheduleRests DEF Send, ScheduleAt
<1>14. CASE AbandonSend \/ EmitDone
  BY <1>14, ScheduleFetches DEF AbandonSend, EmitDone
<1>15. CASE ReportError \/ AbandonError
  BY <1>15, ScheduleRests DEF ReportError, AbandonError, ScheduleAt
<1> QED
  BY <1>1, <1>2, <1>3, <1>4, <1>5, <1>6, <1>7, <1>8, <1>9, <1>11, <1>12, <1>13, <1>14, <1>15
     DEF Next, MonitorStep

\* The monitor keeps to the schedule: with errors reported, sends abandoned and
\* unchanged feeds skipped, each of its steps is one of RssSchedule or none.
THEOREM ScheduleCorrect == Spec => ImplementsSchedule
<1>1. Init => Schedule!ScheduleInit
  BY DEF Init
<1> QED
  BY <1>1, ScheduleSimulates, PTL DEF Spec, ImplementsSchedule, Schedule!ScheduleSpec

\* The wait and the time since the last fetch, at each place of the monitor.
Paced == /\ at = "start" => ~fetched
         /\ at \in {"wait", "error"} /\ fetched => gap + wait >= Smaller(check, maxBackoff)
         /\ at \in {"fetch", "emit"} /\ fetched => gap >= Smaller(check, maxBackoff)

\* The instance of the schedule computes its waits as the schedule does.
LEMMA SameReschedule == ASSUME NEW success \in BOOLEAN, Schedule!Reschedule(success)
                        PROVE  Reschedule(success)
  BY DEF Schedule!Reschedule, Reschedule, Schedule!NextWait, NextWait, Schedule!BackoffLoop,
         BackoffLoop, Schedule!Doubled, Doubled, Schedule!Smaller, Smaller

\* Every step of the monitor keeps what waits and gaps add up to.
LEMMA PacedStep == Times /\ Paced /\ [Next]_vars => Times' /\ Paced'
<1> SUFFICES ASSUME Times, Paced, [Next]_vars PROVE Times' /\ Paced'
  OBVIOUS
<1>1. ASSUME UNCHANGED scheduleVars,
             \/ at' \in {at, "done", "invalid"}
             \/ at \in {"start", "error"} /\ at' = "wait"
             \/ at = "fetch" /\ at' = "emit"
      PROVE  Times' /\ Paced'
  <2>1. Smaller(check', maxBackoff') = Smaller(check, maxBackoff)
    BY <1>1 DEF scheduleVars
  <2> QED
    BY <1>1, <2>1 DEF Times, Paced, scheduleVars
<1>2. CASE UNCHANGED vars
  BY <1>1, <1>2 DEF vars
<1>3. CASE Publish \/ Cancel \/ StopWaiting \/ Send \/ ReportError \/ AbandonError
  BY <1>1, <1>3 DEF Publish, Cancel, StopWaiting, Send, ReportError, AbandonError, scheduleVars
<1>4. CASE TogglePause
  <2>1. /\ paused' = ~paused /\ at' = at
        /\ UNCHANGED <<check, maxBackoff, pauseSleep, failureCount, wait, fetched, gap>>
    BY <1>4 DEF TogglePause, Schedule!ToggleFile
  <2>2. Smaller(check', maxBackoff') = Smaller(check, maxBackoff)
    BY <2>1
  <2> QED
    BY <2>1, <2>2 DEF Times, Paced
<1>5. CASE \E i \in Items : Expire(i) \/ \E r \in {"low", "high"} : Look(i, r)
  BY <1>1, <1>5 DEF Expire, Look
<1>6. CASE Begin
  BY <1>1, <1>6 DEF Begin, Schedule!FirstWait, Schedule!scheduleVars, scheduleVars
<1>7. CASE Wake
  <2>1. /\ at = "wait" /\ at' \in {"wait", "fetch"} /\ gap' = Smaller(gap + wait, check)
        /\ wait' = IF paused THEN PauseDuration ELSE wait
        /\ UNCHANGED <<check, maxBackoff, pauseSleep, failureCount, paused, fetched>>
    BY <1>7 DEF Wake, Schedule!WaitOver, Schedule!Smaller, Smaller, Schedule!PauseDuration,
            PauseDuration
  <2>2. /\ Times' /\ Smaller(check', maxBackoff') = Smaller(check, maxBackoff)
        /\ gap + wait >= Smaller(check, maxBackoff) =>
              /\ gap' >= Smaller(check', maxBackoff')
              /\ gap' + wait' >= Smaller(check', maxBackoff')
    BY <2>1, WaitEnds
  <2> QED
    BY <2>1, <2>2 DEF Paced
<1>8. ASSUME NEW success \in BOOLEAN, Schedule!Reschedule(success),
             at' \in {"wait", "error", "done"}
      PROVE  Times' /\ Paced'
  BY <1>8, SameReschedule, FetchEnds DEF Paced
<1>9. CASE FetchFails \/ FetchBroken \/ AbandonSend \/ EmitDone
  BY <1>8, <1>9 DEF FetchFails, FetchBroken, Failed, AbandonSend, EmitDone
<1>10. CASE NotModified \/ FetchOk
  <2>1. PICK body : at = "fetch" /\ UseBody(body)
    BY <1>10 DEF NotModified, FetchOk
  <2> QED
    BY <1>1, <1>8, <2>1 DEF UseBody
<1> QED
  BY <1>2, <1>3, <1>4, <1>5, <1>6, <1>7, <1>9, <1>10 DEF Next, MonitorStep

\* It holds of every state of the monitor.
LEMMA PacedInvariance == Spec => [](Times /\ Paced)
<1>1. Init => Times /\ Paced
  <2> SUFFICES ASSUME Init PROVE Times /\ Paced
    OBVIOUS
  <2>1. ScheduleInit
    BY DEF Init, Schedule!ScheduleInit, ScheduleInit, Schedule!Load, Load, Schedule!Accepted, Accepted,
           Schedule!Layered, Layered, Schedule!ApplyDefaults, ApplyDefaults, Schedule!Validate,
           Validate, Schedule!HasEnabledMonitors, HasEnabledMonitors, Schedule!Overridable,
           Overridable, Schedule!Secrets, Secrets
  <2>2. at = "start" /\ ~fetched
    BY <2>1 DEF ScheduleInit
  <2> QED
    BY <2>1, <2>2, InitialSchedule DEF ScheduleInv, ScheduleTypeOK, Times, Paced
<1> QED
  BY <1>1, PacedStep, PTL DEF Spec

\* What the schedule promises is true of the monitor itself: whatever the feed, the
\* server and the consumer do, two requests are a check interval apart, or max_backoff.
THEOREM MonitorSpacingCorrect == Spec => []SpacingKept
<1>1. Paced => SpacingKept
  BY DEF Paced, SpacingKept
<1> QED
  BY <1>1, PacedInvariance, PTL

\* So its requests keep the legal minimum apart if max_backoff allows it.
THEOREM MonitorMinimumCorrect == Spec => []MinimumKept
<1>1. Times /\ Paced => MinimumKept
  <2>1. MaxInt \in Nat /\ MinCheckInterval \in 1..MaxInt
    BY ScheduleAssumption DEF ScheduleAssumption
  <2> QED
    BY <2>1 DEF Times, Paced, MinimumKept, Smaller
<1> QED
  BY <1>1, PacedInvariance, PTL

\* What the deduplication works on.
ItemTypes == /\ emitted \in [Items -> 0..MaxCount]
             /\ marked \subseteq Items \ Keyless /\ expired \subseteq Items \ Keyless
             /\ sending \in Items \cup {NoItem}

\* A condition, counted.
One(P) == IF P THEN 1 ELSE 0

\* What was reported of an item, and what is about to be, is paid for with a key
\* in the gate or with one that has expired.
Paid == \A i \in Items \ Keyless :
           emitted[i] + One(sending = i) <= One(i \in expired) + One(i \in marked)

\* The inductive invariant behind ReportedOnce.
OnceInv == ItemTypes /\ Paid

\* A key is put in the gate before its item is sent, and expires into the history.
LEMMA OnceStep == OnceInv /\ [Next]_vars => OnceInv'
<1> SUFFICES ASSUME OnceInv, [Next]_vars PROVE OnceInv'
  OBVIOUS
<1> USE DEF OnceInv, ItemTypes, Paid
<1>1. ASSUME UNCHANGED <<emitted, expired, sending>>, marked' \subseteq Items \ Keyless,
             marked \subseteq marked'
      PROVE  OnceInv'
  BY <1>1 DEF One
<1>2. CASE UNCHANGED vars \/ Publish \/ Cancel \/ TogglePause
  BY <1>1, <1>2 DEF vars, Publish, Cancel, TogglePause, monitorVars, historyVars
<1>3. ASSUME NEW i \in Items, Expire(i) PROVE OnceInv'
  BY <1>3 DEF Expire, One
<1>4. CASE Begin \/ Wake \/ StopWaiting
  BY <1>1, <1>4 DEF Begin, Wake, StopWaiting, monitorVars, historyVars
<1>5. CASE FetchFails \/ FetchBroken
  BY <1>1, <1>5 DEF FetchFails, FetchBroken, Failed, historyVars
<1>6. CASE NotModified \/ FetchOk
  BY <1>1, <1>6 DEF NotModified, FetchOk, UseBody, KeyedIn
<1>7. ASSUME NEW i \in Items, NEW r \in {"low", "high"}, Look(i, r) PROVE OnceInv'
  BY <1>7, RssAssumption DEF Look, historyVars, One, RssAssumption
<1>8. CASE Send
  BY <1>8, RssAssumption DEF Send, One, MaxCount, RssAssumption
<1>9. CASE AbandonSend
  BY <1>9, RssAssumption DEF AbandonSend, historyVars, One, RssAssumption
<1>10. CASE EmitDone \/ ReportError \/ AbandonError
  BY <1>1, <1>10 DEF EmitDone, ReportError, AbandonError, monitorVars, historyVars
<1> QED
  BY <1>2, <1>3, <1>4, <1>5, <1>6, <1>7, <1>8, <1>9, <1>10 DEF Next, MonitorStep

\* An item with a key is reported once, or twice if its key has expired.
THEOREM OnceCorrect == Spec => []ReportedOnce
<1>1. Init => OnceInv
  BY RssAssumption DEF Init, OnceInv, ItemTypes, Paid, One, MaxCount, RssAssumption
<1>2. OnceInv => ReportedOnce
  BY DEF OnceInv, ItemTypes, Paid, One, ReportedOnce, MaxCount
<1> QED
  BY <1>1, <1>2, OnceStep, PTL DEF Spec

\* Until the monitor is primed it has sent nothing.
Unprimed == ~primed => /\ ~blind /\ at # "emit" /\ sending = NoItem
                       /\ backlog = {} /\ \A i \in Items : emitted[i] = 0

\* What was in the feed when it was primed with a body has a key until that key
\* expires.
BacklogMarked == ~blind => \A i \in backlog \ expired : i \in marked /\ emitted[i] = 0 /\ sending # i

\* The inductive invariant behind NoBurstIfRead.
PrimingInv == /\ feed \in [Items -> {"absent", "low", "high"}] /\ version \in 1..MaxVersion
              /\ backlog \subseteq Items \ Keyless /\ DOMAIN emitted = Items
              /\ Unprimed /\ BacklogMarked

\* A first feed that was read primes the monitor and gives all of its items a key,
\* and no step but a first "not modified" primes it otherwise.
LEMMA PrimingStep == PrimingInv /\ [Next]_vars => PrimingInv'
<1> SUFFICES ASSUME PrimingInv, [Next]_vars PROVE PrimingInv'
  OBVIOUS
<1> USE DEF PrimingInv, Unprimed, BacklogMarked
<1>1. CASE UNCHANGED vars \/ Cancel \/ TogglePause
  BY <1>1 DEF vars, Cancel, TogglePause, feedVars, monitorVars, historyVars
<1>2. CASE Publish
  BY <1>2, RssAssumption DEF Publish, monitorVars, historyVars, RssAssumption
<1>3. ASSUME NEW i \in Items, Expire(i) PROVE PrimingInv'
  BY <1>3 DEF Expire, feedVars
<1>4. CASE Begin \/ Wake \/ StopWaiting
  BY <1>4 DEF Begin, Wake, StopWaiting, feedVars, monitorVars, historyVars
<1>5. CASE FetchFails \/ FetchBroken
  <2>1. /\ at' \in {"done", "error"} /\ UNCHANGED <<feed, version>>
        /\ UNCHANGED <<primed, marked, sending, emitted, backlog, expired, blind>>
    BY <1>5 DEF FetchFails, FetchBroken, Failed, feedVars
  <2> QED
    BY <2>1
<1>6. CASE NotModified
  <2>1. CASE primed
    BY <1>6, <2>1 DEF NotModified, UseBody, feedVars
  <2>2. CASE ~primed
    <3>1. primed' = TRUE /\ blind' = TRUE /\ UNCHANGED <<feed, version, emitted>>
      BY <1>6, <2>2 DEF NotModified, UseBody, feedVars
    <3>2. backlog' \subseteq Items \ Keyless
      BY <1>6, <2>2 DEF NotModified, UseBody
    <3> QED
      BY <3>1, <3>2
  <2> QED
    BY <2>1, <2>2
<1>7. CASE FetchOk
  <2> DEFINE body == {<<i, feed[i]>> : i \in {j \in Items : feed[j] # "absent"}}
  <2>1. CASE primed
    BY <1>7, <2>1 DEF FetchOk, UseBody, feedVars
  <2>2. CASE ~primed
    <3>1. /\ marked' = marked \cup KeyedIn(body) /\ primed' = TRUE
          /\ backlog' = {i \in Items \ Keyless : feed[i] # "absent"}
          /\ UNCHANGED <<feed, version, sending, emitted, expired, blind>>
      BY <1>7, <2>2 DEF FetchOk, UseBody, feedVars
    <3>2. ASSUME NEW i \in backlog' PROVE i \in marked'
      <4>1. i \in Items \ Keyless /\ feed[i] \in {"low", "high"} /\ <<i, feed[i]>> \in body
        BY <3>1, <3>2
      <4> QED
        BY <3>1, <4>1 DEF KeyedIn
    <3>3. \A i \in backlog' : emitted[i] = 0 /\ sending # i
      BY <2>2, <3>1, RssAssumption DEF RssAssumption
    <3> QED
      BY <3>1, <3>2, <3>3
  <2> QED
    BY <2>1, <2>2
<1>8. ASSUME NEW i \in Items, NEW r \in {"low", "high"}, Look(i, r) PROVE PrimingInv'
  BY <1>8, RssAssumption DEF Look, feedVars, historyVars, RssAssumption
<1>9. CASE Send
  BY <1>9, RssAssumption DEF Send, feedVars, RssAssumption
<1>10. CASE AbandonSend \/ EmitDone \/ ReportError \/ AbandonError
  <2>1. /\ at' \in {"done", "wait"} /\ sending' \in {sending, NoItem}
        /\ UNCHANGED <<feed, version, primed, marked, emitted, backlog, expired, blind>>
    BY <1>10 DEF AbandonSend, EmitDone, ReportError, AbandonError, feedVars, monitorVars,
           historyVars
  <2> QED
    BY <2>1, RssAssumption DEF RssAssumption
<1> QED
  BY <1>1, <1>2, <1>3, <1>4, <1>5, <1>6, <1>7, <1>8, <1>9, <1>10 DEF Next, MonitorStep

\* What was in the feed at startup is never reported before its key expires, unless
\* the monitor took "not modified" for its first feed.
THEOREM PrimingCorrect == Spec => []NoBurstIfRead
<1>1. Init => PrimingInv
  BY RssAssumption DEF Init, PrimingInv, Unprimed, BacklogMarked, RssAssumption
<1>2. PrimingInv => NoBurstIfRead
  BY DEF PrimingInv, BacklogMarked, NoBurstIfRead, NoStartupBurst
<1> QED
  BY <1>1, <1>2, PrimingStep, PTL DEF Spec
=============================================================================
