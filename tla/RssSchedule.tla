----------------------------- MODULE RssSchedule -----------------------------
(***************************************************************************)
(* When internal/monitor/rss/monitor.go fetches the feed: the interval     *)
(* between polls, the exponential backoff after failures and the pause     *)
(* file.  Durations are integers of a fixed width, as time.Duration is.    *)
(* The monitor gets them the way the program does: Config loads a file and *)
(* an environment, main accepts the result, and New cleans it up.          *)
(***************************************************************************)
EXTENDS Integers, Sequences

CONSTANTS MaxInt,            \* the largest time.Duration; the smallest is -MaxInt - 1
          Files,             \* configuration files, see Config
          Environments,      \* environments, see Config
          Defaults, MinCheckInterval, \* see Config
          MaxFailures        \* bound on failureCount: it stays there

INSTANCE Config

Durations == (-MaxInt - 1)..MaxInt

\* Whatever a file or an environment names is parsed as a duration.
ASSUME ScheduleAssumption ==
    /\ \A source \in Files \cup Environments :
          \A s \in {"check_interval", "max_backoff", "pause_sleep"} \cap DOMAIN source :
             source[s] \in Durations
    /\ {"check_interval", "max_backoff", "pause_sleep", "rss_enabled"} \subseteq DOMAIN Defaults
    /\ MaxInt \in Nat \ {0}
    /\ MinCheckInterval \in 1..MaxInt
    /\ Defaults.check_interval \in MinCheckInterval..MaxInt
    /\ Defaults.max_backoff \in 1..MaxInt
    /\ Defaults.pause_sleep \in 1..MaxInt
    /\ MaxFailures \in Nat \ {0}

VARIABLES check,         \* Monitor.checkInterval
          maxBackoff,    \* Monitor.maxBackoff
          pauseSleep,    \* Monitor.pauseSleep
          failureCount,  \* Monitor.failureCount
          wait,          \* Start's wait
          paused,        \* the pause file exists
          fetched,       \* a fetch has been made
          gap,           \* time waited since the last fetch, up to check
          at             \* where Start is

scheduleVars == <<check, maxBackoff, pauseSleep, failureCount, wait, paused, fetched, gap>>
startVars == <<scheduleVars, at>>

Smaller(a, b) == IF a < b THEN a ELSE b

\* Powers of two, as a function: 2^n is more than the provers know.
Pow2[n \in 0..MaxFailures] == IF n = 0 THEN 1 ELSE 2 * Pow2[n - 1]

ScheduleTypeOK == /\ check \in MinCheckInterval..MaxInt
                  /\ maxBackoff \in 1..MaxInt
                  /\ pauseSleep \in 1..MaxInt
                  /\ failureCount \in 0..MaxFailures
                  /\ wait \in 0..MaxInt
                  /\ paused \in BOOLEAN /\ fetched \in BOOLEAN
                  /\ gap \in 0..MaxInt
                  /\ at \in {"start", "wait", "fetch", "invalid"}

-----------------------------------------------------------------------------
\* Two's complement: wait *= 2 may wrap around.
Doubled(d) == ((2 * d + MaxInt + 1) % (2 * (MaxInt + 1))) - (MaxInt + 1)

\* Faults in BackoffLoop: the check against half the cap is gone; the first
\* retry starts from one tick.
BackoffUnguarded(n) ==
    LET w[i \in 0..n] == IF i = 0 THEN check
                         ELSE IF w[i - 1] >= maxBackoff THEN maxBackoff
                         ELSE Doubled(w[i - 1])
    IN w[n]
BackoffFromOne(n) == Pow2[n]

\* The loop of nextWait: it returns maxBackoff before a doubling could pass it.
BackoffLoop(n) ==
    LET Grown(d) == IF d >= maxBackoff \/ d > maxBackoff \div 2 THEN maxBackoff ELSE Doubled(d)
        w[i \in 0..n] == IF i = 0 THEN check ELSE Grown(w[i - 1])
    IN w[n]

NextWait(success) ==
    IF success
    THEN failureCount' = 0 /\ wait' = check
    ELSE /\ failureCount' = Smaller(failureCount + 1, MaxFailures)
         /\ wait' = LET d == BackoffLoop(failureCount')
                    IN IF d <= 0 \/ d > maxBackoff THEN maxBackoff ELSE d

PauseDuration == IF pauseSleep > 0 THEN pauseSleep ELSE check

-----------------------------------------------------------------------------
\* A configuration with the rss monitor that main accepts; New, whose
\* sanitizeRSSDurations replaces durations that cannot be used.
ScheduleInit == /\ \E file \in Files, env \in Environments :
                      LET cfg == Load(file, env)
                      IN /\ Accepted(cfg) /\ cfg.rss_enabled
                         /\ check = cfg.check_interval
                         /\ maxBackoff = IF cfg.max_backoff <= 0 THEN Defaults.max_backoff
                                                                ELSE cfg.max_backoff
                         /\ pauseSleep = IF cfg.pause_sleep < 0 THEN Defaults.pause_sleep
                                                               ELSE cfg.pause_sleep
                /\ failureCount = 0 /\ wait = 0
                /\ paused \in BOOLEAN
                /\ fetched = FALSE /\ gap = 0
                /\ at = "start"

\* Somebody creates or removes the pause file.
ToggleFile == /\ paused' = ~paused
              /\ UNCHANGED <<check, maxBackoff, pauseSleep, failureCount, wait, fetched, gap, at>>

\* Start refuses an interval that is not positive.
FirstWait == /\ at = "start"
             /\ at' = IF check <= 0 THEN "invalid" ELSE "wait"
             /\ UNCHANGED scheduleVars

\* The wait is over: look at the pause file, then wait again or fetch.
WaitOver == /\ at = "wait"
            /\ gap' = Smaller(gap + wait, check)
            /\ IF paused THEN wait' = PauseDuration /\ at' = "wait"
                         ELSE UNCHANGED wait /\ at' = "fetch"
            /\ UNCHANGED <<check, maxBackoff, pauseSleep, failureCount, paused, fetched>>

\* After primeOnce or pollOnce.
Reschedule(success) == /\ NextWait(success)
                       /\ fetched' = TRUE /\ gap' = 0
                       /\ UNCHANGED <<check, maxBackoff, pauseSleep, paused>>

Fetch == /\ at = "fetch"
         /\ \E success \in BOOLEAN : Reschedule(success)
         /\ at' = "wait"

ScheduleNext == ToggleFile \/ FirstWait \/ WaitOver \/ Fetch

ScheduleSpec == ScheduleInit /\ [][ScheduleNext]_startVars

-----------------------------------------------------------------------------
\* The wait after n failures in a row is check * 2^n, cut off at max_backoff,
\* for every legal pair of durations: no doubling overflows on the way.
BackoffExact ==
    [][failureCount' > failureCount =>
          wait' = Smaller(check * Pow2[failureCount'], maxBackoff)]_startVars

\* Whatever the pauses and failures in between, two fetches are at least one
\* check interval apart, or one max_backoff where that is shorter.
SpacingKept == at = "fetch" /\ fetched => gap >= Smaller(check, maxBackoff)

\* Whatever the file and the environment say, two fetches keep the legal minimum
\* apart, provided max_backoff is not below it: no code asks for that.
MinimumKept == at = "fetch" /\ fetched /\ maxBackoff >= MinCheckInterval
                  => gap >= MinCheckInterval
=============================================================================
