----------------------- MODULE WebSocketMonitorProofs -----------------------
(***************************************************************************)
(* What ends a connection, for any heartbeat, pong wait and latency: a     *)
(* silent server is given up in time, a live one is kept as long as the    *)
(* consumer lets the reader read.  What is slept before the next one, for  *)
(* any waits and jitter.                                                   *)
(***************************************************************************)
EXTENDS WebSocketMonitor, WellFoundedInduction, TLAPS

\* The types that the proofs rest on.
SocketTypes == /\ at \in {"dial", "read", "deliver", "report", "sleep", "done"}
               /\ stop \in BOOLEAN /\ broken \in BOOLEAN /\ heldUp \in BOOLEAN
               /\ server \in {"up", "silent", "gone"}
               /\ inbox \in Seq({"pong", "job", "other"})
               /\ quiet \in 0..PongWait /\ beat \in 0..Heartbeat
               /\ answer \in {NoPong} \cup 0..Latency
               /\ silence \in Nat

\* Without a connection everything about one is as a new one needs it.
Fresh == ~Connected => /\ server = "gone" /\ inbox = <<>> /\ quiet = 0 /\ beat = 0
                       /\ answer = NoPong /\ ~broken /\ ~heldUp /\ silence = 0

\* The connection to a live server.
Live == Connected /\ server = "up" /\ ~stop

\* Nothing but the end of the context or of the server stops the heartbeat.
HeartbeatLives == /\ Live => conn \in beating /\ ~broken
                  /\ server # "up" => answer = NoPong

\* While nothing waits to be read, the deadline is no older than the last ping
\* if that was answered, and than the ping before and its way back if not.
DeadlineFollowsPings ==
    Live /\ inbox = <<>> =>
        /\ answer = NoPong => quiet <= beat
        /\ answer # NoPong => quiet + answer <= Heartbeat + Latency

\* So only an event that is not taken lets the deadline of a live server pass.
OnlyHeldUp == Heartbeat + Latency < PongWait /\ Live /\ quiet = PongWait => heldUp

\* A silent server leaves nothing to read, and nothing moves the deadline.
SilenceIsQuiet == /\ silence > 0 => server # "up" /\ inbox = <<>> /\ at = "read"
                  /\ silence <= quiet

\* The inductive invariant.
IInv == SocketTypes /\ Fresh /\ HeartbeatLives /\ DeadlineFollowsPings /\ OnlyHeldUp /\ SilenceIsQuiet

\* What the assumption says of the durations, and the values of a new connection.
LEMMA Durations == /\ Heartbeat \in Nat \ {0} /\ PongWait \in Nat \ {0}
                   /\ Latency \in Nat /\ Latency < Heartbeat
                   /\ 0 \in 0..PongWait /\ 0 \in 0..Heartbeat
                   /\ <<>> \in Seq({"pong", "job", "other"})
  BY SocketAssumption

\* The initial states satisfy the invariant.
LEMMA InitIInv == Init => IInv
<1> SUFFICES ASSUME Init PROVE IInv
  OBVIOUS
<1> USE DEF Init, NoPong, Connected
<1>1. SocketTypes /\ Fresh
  BY Durations DEF SocketTypes, Fresh
<1>2. HeartbeatLives /\ DeadlineFollowsPings /\ OnlyHeldUp /\ SilenceIsQuiet
  BY Durations DEF HeartbeatLives, DeadlineFollowsPings, OnlyHeldUp, SilenceIsQuiet, Live
<1> QED
  BY <1>1, <1>2 DEF IInv

\* A connection that is hung up leaves everything as a new one needs it.
LEMMA HungUp == ASSUME at' \in {"done", "report"}, Hangup, UNCHANGED stop, stop \in BOOLEAN
                PROVE  IInv'
<1> USE DEF Hangup, NoPong, Connected
<1>1. SocketTypes' /\ Fresh'
  BY Durations DEF SocketTypes, Fresh
<1>2. HeartbeatLives' /\ DeadlineFollowsPings' /\ OnlyHeldUp' /\ SilenceIsQuiet'
  BY Durations DEF HeartbeatLives, DeadlineFollowsPings, OnlyHeldUp, SilenceIsQuiet, Live
<1> QED
  BY <1>1, <1>2 DEF IInv

\* Steps of Start preserve the invariant.
LEMMA StartIInv == IInv /\ StartStep => IInv'
<1> SUFFICES ASSUME IInv, StartStep PROVE IInv'
  OBVIOUS
<1> USE Durations
<1> USE DEF IInv, SocketTypes, Fresh, HeartbeatLives, DeadlineFollowsPings, OnlyHeldUp,
            SilenceIsQuiet, Live, Connected, NoPong, socketVars, helperVars, listenVars, paceVars
<1>1. CASE DialFails
  <2>1. /\ at = "dial" /\ at' \in {"done", "report"}
        /\ UNCHANGED <<stop, conn, socketVars, helperVars, listenVars>>
    BY <1>1 DEF DialFails, Lost
  <2> QED
    BY <2>1
<1>2. CASE Connect
  BY <1>2 DEF Connect
<1>3. CASE Report \/ Redial \/ GiveUp
  <2>1. /\ at \in {"report", "sleep"} /\ at' \in {"sleep", "dial", "done"}
        /\ UNCHANGED <<stop, conn, socketVars, helperVars, listenVars>>
    BY <1>3 DEF Report, Redial, GiveUp
  <2> QED
    BY <2>1
<1>4. CASE ReadFrame
  <2>1. /\ at = "read" /\ at' \in {"read", "deliver"} /\ inbox # <<>> /\ inbox' = Tail(inbox)
        /\ quiet' = 0 /\ heldUp' = FALSE
        /\ UNCHANGED <<stop, conn, server, beat, answer, broken, helperVars, silence>>
    BY <1>4 DEF ReadFrame
  <2>2. inbox' \in Seq({"pong", "job", "other"})
    BY <2>1
  <2>3. SocketTypes' /\ Fresh' /\ HeartbeatLives'
    BY <2>1, <2>2
  <2>4. DeadlineFollowsPings'
    BY <2>1, <2>3
  <2>5. OnlyHeldUp' /\ SilenceIsQuiet'
    BY <2>1, <2>3
  <2> QED
    BY <2>3, <2>4, <2>5
<1>5. CASE ReadFails
  <2>1. /\ at = "read" /\ at' \in {"done", "report"} /\ Hangup
        /\ UNCHANGED <<stop, conn, helperVars>>
    BY <1>5 DEF ReadFails, Lost
  <2> QED
    BY <2>1, HungUp
<1>6. CASE Deliver
  BY <1>6 DEF Deliver
<1>7. CASE AbandonDeliver
  BY <1>7, HungUp DEF AbandonDeliver
<1> QED
  BY <1>1, <1>2, <1>3, <1>4, <1>5, <1>6, <1>7 DEF StartStep

\* Time preserves the invariant.
LEMMA TickIInv == IInv /\ Tick => IInv'
<1> SUFFICES ASSUME IInv, Tick PROVE IInv'
  OBVIOUS
<1> USE Durations
<1> USE DEF IInv, SocketTypes, Connected, NoPong
<1>1. CASE Connected
  <2>1. /\ quiet' = Smaller(quiet + 1, PongWait)
        /\ beat' = IF conn \in beating THEN beat + 1 ELSE beat
        /\ answer' = IF answer > 0 THEN answer - 1 ELSE answer
        /\ heldUp' = (heldUp \/ (at = "deliver" /\ quiet' = PongWait))
        /\ silence' = IF at = "read" /\ server = "silent"
                      THEN Smaller(silence + 1, PongWait + 1) ELSE silence
        /\ UNCHANGED <<at, stop, conn, server, inbox, broken, beating>>
    BY <1>1 DEF Tick, Older, helperVars
  <2>2. /\ at = "read" => inbox = <<>> /\ quiet < PongWait
        /\ answer # 0
        /\ conn \in beating => beat < Heartbeat
    BY <1>1 DEF Tick, Idle
  <2>3. SocketTypes'
    BY <2>1, <2>2 DEF Smaller
  <2>4. Fresh' /\ HeartbeatLives'
    BY <1>1, <2>1, <2>2 DEF Fresh, HeartbeatLives, Live
  <2>5. DeadlineFollowsPings'
    BY <2>1, <2>2 DEF DeadlineFollowsPings, HeartbeatLives, Live, Smaller
  <2>6. OnlyHeldUp'
    <3>1. CASE at = "deliver"
      BY <2>1, <3>1 DEF OnlyHeldUp, Live
    <3>2. CASE at = "read"
      <4>1. inbox' = <<>> /\ quiet' \in Nat /\ beat' \in 0..Heartbeat
        BY <2>1, <2>2, <2>3, <3>2
      <4>2. answer' = NoPong \/ answer' \in Nat
        BY <2>3
      <4>3. ASSUME Live' PROVE quiet' <= Heartbeat + Latency
        <5>1. answer' = NoPong => quiet' <= beat'
          BY <2>5, <4>1, <4>3 DEF DeadlineFollowsPings
        <5>2. answer' # NoPong => quiet' + answer' <= Heartbeat + Latency
          BY <2>5, <4>1, <4>3 DEF DeadlineFollowsPings
        <5> QED
          BY <4>1, <4>2, <5>1, <5>2
      <4> QED
        BY <2>3, <4>1, <4>3 DEF OnlyHeldUp
    <3> QED
      BY <1>1, <3>1, <3>2
  <2>7. SilenceIsQuiet'
    BY <2>1, <2>2 DEF SilenceIsQuiet, Smaller
  <2> QED
    BY <2>3, <2>4, <2>5, <2>6, <2>7
<1>2. CASE ~Connected
  <2>1. UNCHANGED <<at, stop, conn, socketVars, helperVars, listenVars>>
    BY <1>2 DEF Tick, socketVars, helperVars, listenVars
  <2> QED
    BY <2>1 DEF Fresh, HeartbeatLives, DeadlineFollowsPings, OnlyHeldUp, SilenceIsQuiet, Live,
                socketVars, helperVars, listenVars
<1> QED
  BY <1>1, <1>2

\* Every step preserves the invariant.
LEMMA NextIInv == IInv /\ [Next]_vars => IInv'
<1> SUFFICES ASSUME IInv, [Next]_vars PROVE IInv'
  OBVIOUS
<1> USE Durations
<1> USE DEF IInv, SocketTypes, Fresh, HeartbeatLives, DeadlineFollowsPings, OnlyHeldUp,
            SilenceIsQuiet, Live, Connected, NoPong, socketVars, helperVars, listenVars, paceVars
<1>1. CASE UNCHANGED vars
  BY <1>1 DEF vars
<1>2. CASE Ping
  BY <1>2 DEF Ping
<1>3. CASE PingFails
  BY <1>3 DEF PingFails
<1>4. ASSUME NEW c \in {0, 1}, HeartbeatEnds(c) PROVE IInv'
  BY <1>4 DEF HeartbeatEnds
<1>5. ASSUME NEW c \in {0, 1}, WatcherEnds(c) PROVE IInv'
  BY <1>5 DEF WatcherEnds
<1>6. CASE Cancel
  BY <1>6 DEF Cancel
<1>7. ASSUME NEW f \in {"pong", "job", "other"}, inbox' = Frame(f)
      PROVE  inbox' \in Seq({"pong", "job", "other"}) /\ inbox' # <<>>
  BY <1>7 DEF Frame
<1>8. CASE Pong
  <2>1. /\ Connected /\ answer = 0 /\ answer' = NoPong
        /\ inbox' \in Seq({"pong", "job", "other"}) /\ inbox' # <<>>
        /\ UNCHANGED <<at, stop, conn, server, quiet, beat, broken, helperVars, listenVars>>
    BY <1>7, <1>8 DEF Pong
  <2> QED
    BY <2>1
<1>9. ASSUME NEW f \in {"job", "other"}, Publish(f) PROVE IInv'
  <2>1. /\ Connected /\ server = "up"
        /\ inbox' \in Seq({"pong", "job", "other"}) /\ inbox' # <<>>
        /\ UNCHANGED <<at, stop, conn, server, quiet, beat, answer, broken, helperVars, listenVars>>
    BY <1>7, <1>9 DEF Publish
  <2> QED
    BY <2>1
<1>10. CASE ServerFails
  BY <1>10 DEF ServerFails
<1> QED
  BY StartIInv, TickIInv, <1>1, <1>2, <1>3, <1>4, <1>5, <1>6, <1>8, <1>9, <1>10
     DEF Next, HelperStep

\* The invariant holds in every reachable state.
LEMMA Invariance == Spec => []IInv
  BY InitIInv, NextIInv, PTL DEF Spec

\* A server that falls silent is given up within PongWait, however it had
\* behaved before and whatever else goes on.
THEOREM SilenceCorrect == Spec => []SilenceEnds
<1>1. IInv => SilenceEnds
  BY Durations DEF IInv, SocketTypes, SilenceIsQuiet, SilenceEnds
<1> QED
  BY <1>1, Invariance, PTL

\* No timing of pings, answers, messages and reads loses a live server, unless
\* the consumer leaves an event for PongWait.
THEOREM LiveCorrect == Spec => LiveServerKept
<1>1. IInv /\ [Next]_vars =>
         [Heartbeat + Latency < PongWait /\ Connected /\ at' = "report" /\ server = "up" => heldUp]_vars
  <2> SUFFICES ASSUME IInv, Next, Heartbeat + Latency < PongWait, Connected, at' = "report",
                      server = "up"
               PROVE  heldUp
    OBVIOUS
  <2>1. ReadFails
    BY DEF Next, StartStep, HelperStep, DialFails, Connect, Report, Redial, GiveUp, ReadFrame,
           Deliver, AbandonDeliver, Ping, PingFails, HeartbeatEnds, WatcherEnds, Cancel, Pong,
           Publish, ServerFails, Tick, Connected
  <2>2. ~stop
    BY <2>1 DEF ReadFails, Lost
  <2>3. quiet = PongWait
    BY <2>1, <2>2 DEF ReadFails, IInv, HeartbeatLives, Live
  <2> QED
    BY <2>2, <2>3 DEF IInv, OnlyHeldUp, Live
<1> QED
  BY <1>1, Invariance, PTL DEF Spec, LiveServerKept

-----------------------------------------------------------------------------
(* The pace of the dials *)

\* The order of the natural numbers.
Below == {p \in Nat \X Nat : p[1] < p[2]}

\* Induction, in a form that needs no operator: a set with 0 and the successor
\* of each of its numbers has all of them.
LEMMA NatInd == ASSUME NEW S, 0 \in S, \A n \in Nat : n \in S => n + 1 \in S
                PROVE  Nat \subseteq S
<1> DEFINE T == Nat \ S
<1>1. IsWellFoundedOn(Below, Nat)
  BY NatLessThanWellFounded DEF OpToRel, Below
<1>2. SUFFICES ASSUME T # {} PROVE FALSE
  OBVIOUS
<1>3. PICK x \in T : \A y \in T : <<y, x>> \notin Below
  <2> HIDE DEF T
  <2>1. T \subseteq Nat
    BY DEF T
  <2> QED
    BY <1>1, <1>2, <2>1, WFMin
<1>4. x # 0 /\ x - 1 \in Nat /\ x - 1 \notin S
  OBVIOUS
<1>5. <<x - 1, x>> \in Below
  BY <1>4 DEF Below
<1> QED
  BY <1>3, <1>4, <1>5

\* A sequence of doublings exists up to any number.
LEMMA Doublings ==
  \A n \in Nat : \E g \in [0..n -> Nat] : g[0] = 1 /\ \A i \in 1..n : g[i] = 2 * g[i - 1]
<1> DEFINE Is(g, n) == g[0] = 1 /\ \A i \in 1..n : g[i] = 2 * g[i - 1]
           S == {n \in Nat : \E g \in [0..n -> Nat] : Is(g, n)}
<1>1. 0 \in S
  <2>1. [i \in 0..0 |-> 1] \in [0..0 -> Nat] /\ Is([i \in 0..0 |-> 1], 0)
    OBVIOUS
  <2> QED
    BY <2>1
<1>2. ASSUME NEW n \in Nat, n \in S PROVE n + 1 \in S
  <2> SUFFICES \E k \in [0..(n + 1) -> Nat] : Is(k, n + 1)
    <3> HIDE DEF Is
    <3> QED
      OBVIOUS
  <2>1. PICK g \in [0..n -> Nat] : Is(g, n)
    BY <1>2
  <2> DEFINE h == [i \in 0..(n + 1) |-> IF i = n + 1 THEN 2 * g[n] ELSE g[i]]
  <2>2. h \in [0..(n + 1) -> Nat]
    OBVIOUS
  <2>3. h[n + 1] = 2 * h[n] /\ \A i \in 0..n : h[i] = g[i]
    OBVIOUS
  <2> HIDE DEF h
  <2>4. ASSUME NEW i \in 1..(n + 1) PROVE h[i] = 2 * h[i - 1]
    <3>1. CASE i = n + 1
      BY <2>3, <3>1
    <3>2. CASE i # n + 1
      <4>1. i \in 1..n /\ i \in 0..n /\ i - 1 \in 0..n
        BY <3>2
      <4> QED
        BY <2>1, <2>3, <4>1
    <3> QED
      BY <3>1, <3>2
  <2>5. Is(h, n + 1)
    BY <2>1, <2>3, <2>4
  <2> QED
    BY <2>2, <2>5
<1> HIDE DEF S
<1>3. Nat \subseteq S
  BY <1>1, <1>2, NatInd
<1> QED
  BY <1>3 DEF S

\* What the powers of two are in DialsPaced.
LEMMA Powers == ASSUME MaxRow \in Nat
                PROVE  /\ Pow2[0] = 1
                       /\ \A n \in 1..MaxRow : Pow2[n] = 2 * Pow2[n - 1]
                       /\ \A n \in 0..MaxRow : Pow2[n] \in Nat \ {0}
<1>1. PICK g \in [0..MaxRow -> Nat] :
                g[0] = 1 /\ \A i \in 1..MaxRow : g[i] = 2 * g[i - 1]
  BY Doublings
<1>2. g = [n \in 0..MaxRow |-> IF n = 0 THEN 1 ELSE 2 * g[n - 1]]
  BY <1>1
<1>3. Pow2 = [n \in 0..MaxRow |-> IF n = 0 THEN 1 ELSE 2 * Pow2[n - 1]]
  BY <1>2 DEF Pow2
<1> HIDE DEF Pow2
<1>4. /\ Pow2[0] = 1
      /\ \A n \in 1..MaxRow : Pow2[n] = 2 * Pow2[n - 1]
  <2>1. Pow2[0] = 1
    BY <1>3
  <2>2. ASSUME NEW n \in 1..MaxRow PROVE Pow2[n] = 2 * Pow2[n - 1]
    BY <1>3
  <2> QED
    BY <2>1, <2>2
<1> DEFINE S == {n \in Nat : n <= MaxRow => Pow2[n] \in Nat \ {0}}
<1>5. 0 \in S
  BY <1>4
<1>6. ASSUME NEW n \in Nat, n \in S PROVE n + 1 \in S
  <2>1. CASE n + 1 <= MaxRow
    <3>1. n + 1 \in 1..MaxRow /\ (n + 1) - 1 = n /\ Pow2[n] \in Nat \ {0}
      BY <1>6, <2>1
    <3> QED
      BY <1>4, <3>1
  <2> QED
    BY <2>1
<1> HIDE DEF S
<1>7. Nat \subseteq S
  BY <1>5, <1>6, NatInd
<1> QED
  BY <1>4, <1>7 DEF S


\* The wait after n failures in a row, before it is jittered.
Wait(n) == Smaller(MinWait * Pow2[n], MaxWait)

\* Where Start is, its backoff and the last sleep fit the failures counted.
PaceInv == /\ row \in 0..MaxRow
           /\ at \in {"read", "deliver"} => row = 0
           /\ at \in {"report", "sleep"} => row > 0
           /\ at \in {"dial", "sleep"} => backoff = Wait(row)
           /\ at = "report" => backoff = Wait(row - 1)
           /\ at = "sleep" \/ (at = "dial" /\ row > 0) => slept \in Jittered(Wait(row - 1))

\* Each wait is the double of the one before, up to MaxWait, and MaxRow failures
\* are enough to get there.
LEMMA Waits == /\ Wait(0) = MinWait
               /\ \A n \in 1..MaxRow : Wait(n) = Smaller(2 * Wait(n - 1), MaxWait)
               /\ Wait(MaxRow) = Wait(MaxRow - 1)
<1>1. /\ MinWait \in Nat \ {0} /\ MaxWait \in Nat /\ MinWait <= MaxWait
      /\ MaxRow \in Nat \ {0} /\ MaxWait <= MinWait * Pow2[MaxRow - 1]
  BY SocketAssumption
<1>2. /\ Pow2[0] = 1
      /\ \A n \in 1..MaxRow : Pow2[n] = 2 * Pow2[n - 1]
      /\ \A n \in 0..MaxRow : Pow2[n] \in Nat \ {0}
  BY <1>1, Powers
<1> HIDE DEF Pow2
<1>3. Wait(0) = MinWait
  BY <1>1, <1>2 DEF Wait, Smaller
<1>4. ASSUME NEW n \in 1..MaxRow PROVE Wait(n) = Smaller(2 * Wait(n - 1), MaxWait)
  <2> DEFINE p == Pow2[n - 1]
  <2>1. p \in Nat \ {0} /\ Pow2[n] = 2 * p
    BY <1>1, <1>2
  <2> HIDE DEF p
  <2>2. MinWait * p \in Nat /\ MinWait * (2 * p) = 2 * (MinWait * p)
    BY <1>1, <2>1
  <2>3. Wait(n) = Smaller(2 * (MinWait * p), MaxWait) /\ Wait(n - 1) = Smaller(MinWait * p, MaxWait)
    BY <2>1, <2>2 DEF Wait, p
  <2> QED
    BY <1>1, <2>2, <2>3 DEF Smaller
<1>5. Wait(MaxRow) = Wait(MaxRow - 1)
  <2>1. Wait(MaxRow - 1) = MaxWait
    <3>1. Pow2[MaxRow - 1] \in Nat
      BY <1>1, <1>2
    <3>2. MinWait * Pow2[MaxRow - 1] \in Nat
      BY <1>1, <3>1
    <3> QED
      BY <1>1, <3>2 DEF Wait, Smaller
  <2>2. Wait(MaxRow) = Smaller(2 * MaxWait, MaxWait)
    BY <1>1, <1>4, <2>1
  <2> QED
    BY <1>1, <2>1, <2>2 DEF Smaller
<1> QED
  BY <1>3, <1>4, <1>5

\* Dialling, sleeping and losing a connection keep the pace.
LEMMA PaceStep == PaceInv /\ [Next]_vars => PaceInv'
<1> SUFFICES ASSUME PaceInv, [Next]_vars PROVE PaceInv'
  OBVIOUS
<1> USE DEF PaceInv, paceVars
<1> HIDE DEF Wait, Jittered
<1>0. MaxRow \in Nat \ {0}
  BY SocketAssumption
<1>1. CASE UNCHANGED vars \/ UNCHANGED <<at, paceVars>>
  BY <1>1 DEF vars
<1>2. CASE DialFails
  <2>1. CASE row < MaxRow
    BY <1>0, <1>2, <2>1 DEF DialFails, Lost, Smaller
  <2>2. CASE row = MaxRow
    BY <1>0, <1>2, <2>2, Waits DEF DialFails, Lost, Smaller
  <2> QED
    BY <1>0, <2>1, <2>2
<1>3. CASE Connect
  BY <1>0, <1>3 DEF Connect
<1>4. CASE Report
  <2>1. /\ at = "report" /\ at' = "sleep" /\ slept' \in Jittered(backoff)
        /\ backoff' = Smaller(2 * backoff, MaxWait) /\ row' = row
    BY <1>4 DEF Report
  <2>2. backoff' = Wait(row)
    BY <1>0, <2>1, Waits
  <2> QED
    BY <2>1, <2>2
<1>5. CASE Redial
  BY <1>5 DEF Redial
<1>6. CASE GiveUp \/ AbandonDeliver
  BY <1>6 DEF GiveUp, AbandonDeliver
<1>7. CASE ReadFrame \/ Deliver
  BY <1>7 DEF ReadFrame, Deliver
<1>8. CASE ReadFails
  BY <1>0, <1>8, Waits DEF ReadFails, Lost
<1>9. CASE Tick
  BY <1>9 DEF Tick
<1>10. CASE HelperStep \/ Cancel \/ Pong \/ ServerFails \/ \E f \in {"job", "other"} : Publish(f)
  BY <1>1, <1>10 DEF HelperStep, Ping, PingFails, HeartbeatEnds, WatcherEnds, Cancel, Pong,
                     ServerFails, Publish
<1> QED
  BY <1>1, <1>2, <1>3, <1>4, <1>5, <1>6, <1>7, <1>8, <1>9, <1>10 DEF Next, StartStep

\* The sleep before a dial is the jittered wait for the failures in a row, for
\* any waits, any jitter and any number of failures.
THEOREM PaceCorrect == Spec => []DialsPaced
<1>1. Init => PaceInv
  BY Waits, SocketAssumption DEF Init, PaceInv
<1>2. PaceInv => DialsPaced
  BY DEF PaceInv, DialsPaced, Wait
<1> QED
  BY <1>1, <1>2, PaceStep, PTL DEF Spec
=============================================================================
