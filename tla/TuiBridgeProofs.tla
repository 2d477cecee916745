-------------------------- MODULE TuiBridgeProofs --------------------------
(***************************************************************************)
(* ui.Run swallows neither an error nor a drop, and the screen is never    *)
(* stale, for any sizes of channel and screen.                             *)
(***************************************************************************)
EXTENDS TuiBridge, FiniteSetTheorems, TLAPS

-----------------------------------------------------------------------------
(* Errors *)

\* The watcher's goroutine sends once, at its end, and sends what Start returned.
SentOnce == /\ watcher \in {"off", "running", "quitting", "sending", "over"}
            /\ watcher \in {"quitting", "sending", "over"} => result \in {"nil", "error"}
            /\ watcherErr = IF watcher = "over" THEN result ELSE "empty"

\* Once program.Run has returned, its result stands.
ProgramOver == run \in {"join", "drain", "flush"} => program = "ended"

\* The inductive invariant. ErrorNotSwallowed is about the end of Run: until
\* then the value it is going to return must be right.
ErrorInv == /\ SentOnce /\ ProgramOver
            /\ run \in {"open", "launch", "start", "program", "join", "drain", "flush", "done"}
            /\ run \in {"open", "launch", "start"} => program = "off" /\ shown = {}
            /\ run \in {"open", "launch"} => watcher = "off"
            /\ programErr \in {"nil", "error"}
            /\ run \in {"open", "launch", "start", "program", "join", "drain"} => returned = "none"
            /\ run \in {"open", "launch", "start", "program", "join"} => timedOut = "no"
            /\ run = "drain" => timedOut = "join"
            /\ returned = "nil" =>
                  /\ program = "ended" /\ programErr = "nil"
                  /\ watcherErr = "nil" \/ timedOut = "drain"

\* The initial states satisfy the invariant.
LEMMA InitErrorInv == Init => ErrorInv
  BY DEF Init, ErrorInv, SentOnce, ProgramOver

\* Steps of Run preserve the invariant.
LEMMA RunErrorInv == ErrorInv /\ RunStep => ErrorInv'
<1> SUFFICES ASSUME ErrorInv, RunStep PROVE ErrorInv'
  OBVIOUS
<1> USE DEF ErrorInv, SentOnce, ProgramOver, watcherVars, dropVars, screenVars, programVars,
            outsideLaunch, outsideRun
<1>1. CASE Open
  BY <1>1 DEF Open
<1>2. CASE Launch \/ StartProgram
  BY <1>2 DEF Launch, StartProgram
<1>3. CASE ProgramReturns
  BY <1>3 DEF ProgramReturns
<1>4. CASE Join
  BY <1>4 DEF Join, OwnError
<1>5. CASE JoinTimeout
  BY <1>5 DEF JoinTimeout
<1>6. CASE DrainTimeout
  BY <1>6 DEF DrainTimeout, OwnError
<1>7. CASE Finish
  BY <1>7 DEF Finish
<1> QED
  BY <1>1, <1>2, <1>3, <1>4, <1>5, <1>6, <1>7 DEF RunStep

\* Every step preserves the invariant.
LEMMA NextErrorInv == ErrorInv /\ [Next]_vars => ErrorInv'
<1> SUFFICES ASSUME ErrorInv, [Next]_vars PROVE ErrorInv'
  OBVIOUS
<1> USE DEF ErrorInv, SentOnce, ProgramOver, watcherVars, dropVars, screenVars, programVars,
            runVars, outsideProgram, outsideReporter, Quit
<1>1. CASE UNCHANGED vars
  BY <1>1 DEF vars
<1>2. CASE Cancel
  BY <1>2 DEF Cancel
<1>3. CASE FindJob
  <2>1. /\ watcher = "running"
        /\ UNCHANGED <<result, watcher, watcherErr, shown, programVars, runVars>>
    BY <1>3 DEF FindJob, Service!Find
  <2> QED
    BY <2>1
<1>4. CASE WatcherReturns
  <2>1. /\ watcher = "running" /\ watcher' \in {"sending", "quitting"}
        /\ result' \in {"nil", "error"}
        /\ UNCHANGED <<watcherErr, shown, programVars, runVars>>
    BY <1>4 DEF WatcherReturns, Service!Return
  <2> QED
    BY <2>1
<1>5. CASE WatcherQuits
  BY <1>5 DEF WatcherQuits
<1>6. CASE WatcherSends
  BY <1>6 DEF WatcherSends
<1>7. CASE QuitterQuits
  BY <1>7 DEF QuitterQuits
<1>8. CASE Tick \/ LastReport
  BY <1>8 DEF Tick, LastReport
<1>9. CASE PressQuit \/ EndProgram
  BY <1>9 DEF PressQuit, EndProgram
<1>10. CASE PumpReceives \/ PumpEnds
  BY <1>10 DEF PumpReceives, PumpEnds
<1>11. ASSUME NEW j \in Jobs, Update(j) PROVE ErrorInv'
  BY <1>11 DEF Update
<1> QED
  BY RunErrorInv, <1>1, <1>2, <1>3, <1>4, <1>5, <1>6, <1>7, <1>8, <1>9, <1>10, <1>11
     DEF Next, WatcherStep

\* Whatever the order of cancellation, quit, failure and timeouts, Run returns
\* nil only when nothing went wrong, or the watcher missed the join timer, which was
\* reported, and the drain window.
THEOREM ErrorCorrect == Spec => []ErrorNotSwallowed
<1>1. ErrorInv => ErrorNotSwallowed
  BY DEF ErrorInv, ErrorNotSwallowed
<1> QED
  BY <1>1, InitErrorInv, NextErrorInv, PTL DEF Spec

-----------------------------------------------------------------------------
(* Jobs on their way to the screen *)

\* Every found job has a place or is counted.
Counted == Cardinality(found) =
              Len(events) + Cardinality(messages) + Cardinality(shown) + dropped + reported

\* The pump, the message it becomes and the next pump are never two at a time.
OnePump == /\ pumps \in 0..1
           /\ pumps = 1 => messages = {}
           /\ \A m, n \in messages : m = n
           /\ run \in {"open", "launch", "start"} => pumps = 0 /\ messages = {}

\* The jobs shown come before the one in a message, which comes before those in
\* the channel, which are in the order in which they were found.
InOrder == /\ \A s \in shown, m \in messages : s < m
           /\ \A s \in shown, i \in DOMAIN events : s < events[i]
           /\ \A m \in messages, i \in DOMAIN events : m < events[i]
           /\ \A i, k \in DOMAIN events : i < k => events[i] < events[k]

\* The types that the proof rests on; jobs have the numbers up to that of the
\* last one found.
FlowTypes == /\ found \subseteq Jobs /\ events \in Seq(found)
             /\ messages \subseteq found /\ shown \subseteq found
             /\ \A j \in found : j <= Cardinality(found)
             /\ dropped \in Nat /\ reported \in Nat

\* The inductive invariant of the first part of DropsReported: that the numbers
\* add up needs that no job is in two places, hence the order.
FlowInv == FlowTypes /\ Counted /\ OnePump /\ InOrder

\* Sets of jobs are finite and have a number of elements.
LEMMA JobSets == ASSUME NEW S, S \subseteq Jobs
                 PROVE  IsFiniteSet(S) /\ Cardinality(S) \in Nat
<1>1. IsFiniteSet(Jobs)
  BY BridgeAssumption, FS_Interval DEF Jobs
<1> QED
  BY <1>1, FS_Subset, FS_CardinalityType

\* The initial states satisfy the invariant.
LEMMA InitFlowInv == Init => FlowInv
<1> SUFFICES ASSUME Init PROVE FlowInv
  OBVIOUS
<1>1. Cardinality({}) = 0
  BY FS_EmptySet
<1>2. Len(events) = 0 /\ DOMAIN events = {} /\ events \in Seq(found)
  BY DEF Init
<1>3. Counted
  BY <1>1, <1>2 DEF Init, Counted
<1> QED
  BY <1>2, <1>3 DEF Init, FlowInv, FlowTypes, OnePump, InOrder

\* A job that is found is later than all others.
LEMMA FindFlowInv == FlowInv /\ FindJob => FlowInv'
<1> SUFFICES ASSUME FlowInv, FindJob PROVE FlowInv'
  OBVIOUS
<1> USE DEF FlowInv, FlowTypes
<1> DEFINE j == Cardinality(found) + 1
<1>1. IsFiniteSet(found) /\ Cardinality(found) \in Nat
  BY JobSets
<1>2. j \in Jobs /\ j \notin found /\ found' = found \cup {j}
  BY DEF FindJob, Service!Find
<1>3. Cardinality(found') = j
  BY <1>1, <1>2, FS_AddElement
<1>4. UNCHANGED <<pumps, messages, shown, reported, run>>
  BY DEF FindJob, screenVars, runVars
<1>7. found' \subseteq Jobs /\ \A f \in found' : f <= Cardinality(found')
  <2>1. \A f \in found : f \in Int /\ f <= Cardinality(found)
    BY BridgeAssumption DEF Jobs
  <2>2. \A f \in found' : f \in Int /\ f <= j
    BY <1>1, <1>2, <2>1
  <2> QED
    BY <1>2, <1>3, <2>2
<1>8. \A f \in found : f < j
  BY <1>1 DEF Jobs
<1>5. CASE Len(events) < EventBuffer
  <2>1. events' = Append(events, j) /\ dropped' = dropped
    BY <1>5 DEF FindJob
  <2>2. /\ events' \in Seq(found') /\ Len(events') = Len(events) + 1
        /\ \A i \in DOMAIN events' : events'[i] = IF i = Len(events) + 1 THEN j ELSE events[i]
        /\ \A i \in DOMAIN events' : i \in DOMAIN events \/ i = Len(events) + 1
    <3>1. events \in Seq(found') /\ j \in found'
      BY <1>2
    <3> QED
      BY <2>1, <3>1
  <2>3. FlowTypes'
    BY <1>2, <1>4, <1>7, <2>1, <2>2
  <2>4. Counted'
    <3>1. Len(events) \in Nat
      OBVIOUS
    <3> QED
      BY <1>1, <1>3, <1>4, <2>1, <2>2, <3>1, JobSets DEF Counted
  <2>5. InOrder'
    <3>1. \A i \in DOMAIN events : events[i] \in found
      OBVIOUS
    <3> QED
      BY <1>4, <1>8, <2>2, <3>1 DEF InOrder
  <2> QED
    BY <1>4, <2>3, <2>4, <2>5 DEF OnePump
<1>6. CASE ~(Len(events) < EventBuffer)
  <2>1. events' = events /\ dropped' = dropped + 1
    BY <1>6 DEF FindJob
  <2>2. FlowTypes'
    <3>1. events' \in Seq(found')
      BY <1>2, <2>1
    <3>2. dropped' \in Nat /\ reported' \in Nat
      BY <1>4, <2>1
    <3>3. messages' \subseteq found' /\ shown' \subseteq found'
      BY <1>2, <1>4
    <3> QED
      BY <1>7, <3>1, <3>2, <3>3
  <2>3. Counted'
    BY <1>1, <1>3, <1>4, <2>1, JobSets DEF Counted
  <2> QED
    BY <1>4, <2>1, <2>2, <2>3 DEF InOrder, OnePump
<1> QED
  BY <1>5, <1>6

\* The pump takes the oldest job out of the channel.
LEMMA PumpFlowInv == FlowInv /\ PumpReceives => FlowInv'
<1> SUFFICES ASSUME FlowInv, PumpReceives PROVE FlowInv'
  OBVIOUS
<1> USE DEF FlowInv, FlowTypes
<1> DEFINE j == Head(events)
<1>1. /\ pumps > 0 /\ events # <<>> /\ pumps' = pumps - 1
      /\ messages' = messages \cup {j} /\ events' = Tail(events)
      /\ UNCHANGED <<found, dropped, reported, shown, run>>
  BY DEF PumpReceives, outsideProgram, watcherVars, dropVars, runVars
<1>2. messages = {} /\ messages' = {j} /\ run \notin {"open", "launch", "start"}
  BY <1>1 DEF OnePump
<1>3. /\ Len(events) \in Nat \ {0} /\ j = events[1] /\ j \in found /\ 1 \in DOMAIN events
      /\ events' \in Seq(found) /\ Len(events') = Len(events) - 1
      /\ \A i \in DOMAIN events' : events'[i] = events[i + 1] /\ i + 1 \in DOMAIN events /\ 1 < i + 1
  BY <1>1
<1>4. Cardinality(messages) = 0 /\ Cardinality(messages') = 1
  BY <1>2, FS_EmptySet, FS_Singleton
<1>5. Counted'
  <2>1. Cardinality(found) \in Nat /\ Cardinality(shown) \in Nat
    BY JobSets
  <2> QED
    BY <1>1, <1>3, <1>4, <2>1 DEF Counted
<1>6. InOrder'
  BY <1>1, <1>2, <1>3 DEF InOrder
<1>7. OnePump'
  BY <1>1, <1>2 DEF OnePump
<1> QED
  BY <1>1, <1>2, <1>3, <1>5, <1>6, <1>7

\* The screen gets the only job that is in a message.
LEMMA UpdateFlowInv == ASSUME FlowInv, NEW j \in Jobs, Update(j),
                              run \notin {"open", "launch", "start"}
                       PROVE  FlowInv'
<1> USE DEF FlowInv, FlowTypes
<1>1. /\ j \in messages /\ messages' = messages \ {j} /\ shown' = shown \cup {j}
      /\ pumps' = pumps + 1
      /\ UNCHANGED <<found, events, dropped, reported, run>>
  BY DEF Update, outsideProgram, watcherVars, dropVars, runVars
<1>2. messages = {j} /\ messages' = {} /\ pumps = 0
  BY <1>1 DEF OnePump
<1>3. j \in found /\ j \in Int /\ j \notin shown
  BY <1>1 DEF InOrder, Jobs
<1>4. Cardinality(messages) = 1 /\ Cardinality(messages') = 0
  BY <1>2, FS_EmptySet, FS_Singleton
<1>5. Cardinality(shown') = Cardinality(shown) + 1
  BY <1>1, <1>3, JobSets, FS_AddElement
<1>6. Counted'
  <2>1. Cardinality(shown) \in Nat /\ Len(events) \in Nat
    BY JobSets
  <2>2. Cardinality(found) = Len(events) + 1 + Cardinality(shown) + dropped + reported
    BY <1>4 DEF Counted
  <2>3. Cardinality(found') = Cardinality(found) /\ Len(events') = Len(events)
    BY <1>1
  <2> QED
    BY <1>1, <1>4, <1>5, <2>1, <2>2, <2>3 DEF Counted
<1>7. InOrder'
  BY <1>1, <1>2 DEF InOrder
<1>8. FlowTypes'
  BY <1>1, <1>2, <1>3
<1>9. OnePump'
  BY <1>1, <1>2 DEF OnePump
<1> QED
  BY <1>6, <1>7, <1>8, <1>9

\* Every step preserves the invariant.
LEMMA NextFlowInv == FlowInv /\ ErrorInv /\ [Next]_vars => FlowInv'
<1> SUFFICES ASSUME FlowInv, ErrorInv, [Next]_vars PROVE FlowInv'
  OBVIOUS
<1> DEFINE flow == <<found, events, dropped, reported, pumps, messages, shown>>
<1>1. ASSUME UNCHANGED flow, UNCHANGED run \/ run' \notin {"open", "launch", "start"}
      PROVE  FlowInv'
  BY <1>1 DEF FlowInv, FlowTypes, Counted, OnePump, InOrder
<1>2. CASE UNCHANGED vars
  BY <1>1, <1>2 DEF vars, watcherVars, dropVars, screenVars, runVars
<1>3. CASE Cancel
  BY <1>1, <1>3 DEF Cancel, watcherVars, dropVars, screenVars, runVars
<1>4. CASE Open
  <2>1. UNCHANGED flow /\ run = "open"
    BY <1>4 DEF Open, watcherVars, dropVars
  <2> QED
    BY <2>1 DEF FlowInv, FlowTypes, Counted, OnePump, InOrder
<1>5. CASE Launch \/ StartProgram
  <2>1. /\ UNCHANGED <<found, events, dropped, reported, messages, shown>>
        /\ \/ run = "launch" /\ run' = "start" /\ UNCHANGED pumps
           \/ run = "start" /\ run' = "program" /\ pumps' = 1
    BY <1>5 DEF Launch, StartProgram, outsideLaunch
  <2> QED
    BY <2>1 DEF FlowInv, FlowTypes, Counted, OnePump, InOrder
<1>6. CASE ProgramReturns \/ Join \/ JoinTimeout \/ DrainTimeout \/ Finish
  BY <1>1, <1>6 DEF ProgramReturns, Join, JoinTimeout, DrainTimeout, Finish, outsideRun, dropVars,
                    screenVars
<1>7. CASE WatcherReturns
  BY <1>1, <1>7 DEF WatcherReturns, Service!Return, dropVars, screenVars, runVars
<1>8. CASE WatcherStep \/ QuitterQuits
  BY <1>1, <1>8 DEF WatcherStep, WatcherQuits, WatcherSends, QuitterQuits, watcherVars, dropVars,
                    screenVars, runVars
<1>9. CASE Tick \/ LastReport
  <2>1. /\ UNCHANGED <<found, events, pumps, messages, shown, run>>
        /\ reported' = reported + dropped /\ dropped' = 0
    BY <1>9 DEF Tick, LastReport, ReportDrops, outsideReporter, watcherVars, screenVars, runVars
  <2>2. FlowTypes' /\ OnePump' /\ InOrder'
    BY <2>1 DEF FlowInv, FlowTypes, OnePump, InOrder
  <2>3. Len(events) \in Nat
    BY DEF FlowInv, FlowTypes
  <2>4. Cardinality(messages) \in Nat /\ Cardinality(shown) \in Nat
    BY JobSets DEF FlowInv, FlowTypes
  <2>5. Counted'
    BY <2>1, <2>3, <2>4 DEF FlowInv, FlowTypes, Counted
  <2> QED
    BY <2>2, <2>5 DEF FlowInv
<1>10. CASE PressQuit \/ EndProgram
  BY <1>1, <1>10 DEF PressQuit, EndProgram, outsideProgram, watcherVars, dropVars, screenVars,
                     runVars
<1>11. CASE PumpEnds
  <2>1. /\ UNCHANGED <<found, events, dropped, reported, messages, shown, run>>
        /\ pumps > 0 /\ pumps' = pumps - 1
    BY <1>11 DEF PumpEnds, outsideProgram, watcherVars, dropVars, runVars
  <2> QED
    BY <2>1 DEF FlowInv, FlowTypes, Counted, OnePump, InOrder
<1>12. ASSUME NEW j \in Jobs, Update(j) PROVE FlowInv'
  BY <1>12, UpdateFlowInv DEF Update, ErrorInv
<1> QED
  BY <1>2, <1>3, <1>4, <1>5, <1>6, <1>7, <1>8, <1>9, <1>10, <1>11, <1>12, FindFlowInv, PumpFlowInv
     DEF Next, RunStep

-----------------------------------------------------------------------------
(* Drops *)

\* The order of the shutdown: the reporter ends when Run is at "flush", and by
\* then the watcher is over unless both timers have fired.
DropInv == /\ reporter \in {"off", "ticking", "over"}
           /\ run \in {"open", "launch"} => reporter = "off"
           /\ run = "done" /\ returned # "setup" => reporter = "over"
           /\ returned = "setup" => run = "done" /\ reporter = "off" /\ watcher = "off"
           /\ reporter = "over" => run \in {"flush", "done"}
           /\ run \in {"flush", "done"} /\ timedOut # "drain" => watcher \in {"off", "over"}
           /\ reporter = "over" /\ timedOut # "drain" => dropped = 0

\* Every step preserves the invariant.
LEMMA NextDropInv == DropInv /\ ErrorInv /\ [Next]_vars => DropInv'
<1> SUFFICES ASSUME DropInv, ErrorInv, [Next]_vars PROVE DropInv'
  OBVIOUS
<1> USE DEF DropInv, watcherVars, dropVars, screenVars, programVars, runVars,
            outsideProgram, outsideReporter, outsideRun, outsideLaunch
<1>1. CASE UNCHANGED vars
  BY <1>1 DEF vars
<1>2. CASE Cancel
  BY <1>2 DEF Cancel
<1>3. CASE Open
  BY <1>3 DEF Open, ErrorInv
<1>4. CASE Launch \/ StartProgram
  BY <1>4 DEF Launch, StartProgram, ErrorInv
<1>5. CASE ProgramReturns
  BY <1>5 DEF ProgramReturns
<1>6. CASE Join
  <2>1. /\ run \in {"join", "drain"} /\ run' = "flush" /\ returned' # "setup"
        /\ UNCHANGED <<watcher, reporter, dropped, timedOut>>
    BY <1>6 DEF Join, OwnError
  <2>2. watcher = "over"
    BY <1>6 DEF Join, ErrorInv, SentOnce
  <2> QED
    BY <2>1, <2>2
<1>7. CASE JoinTimeout
  BY <1>7 DEF JoinTimeout
<1>8. CASE DrainTimeout
  <2>1. /\ run = "drain" /\ run' = "flush" /\ returned' # "setup"
        /\ UNCHANGED <<watcher, reporter, dropped>> /\ timedOut' = "drain"
    BY <1>8 DEF DrainTimeout, OwnError
  <2> QED
    BY <2>1
<1>9. CASE Finish
  BY <1>9 DEF Finish
<1>10. CASE FindJob
  <2>1. watcher = "running" /\ UNCHANGED <<watcher, reporter, runVars>>
    BY <1>10 DEF FindJob
  <2>2. ~(reporter = "over" /\ timedOut # "drain")
    BY <2>1
  <2> QED
    BY <2>1, <2>2
<1>11. CASE WatcherReturns
  <2>1. watcher = "running" /\ UNCHANGED <<reporter, dropped, runVars>>
    BY <1>11 DEF WatcherReturns
  <2> QED
    BY <2>1
<1>12. CASE WatcherStep \/ QuitterQuits
  BY <1>12 DEF WatcherStep, WatcherQuits, WatcherSends, QuitterQuits
<1>13. CASE Tick \/ LastReport
  BY <1>13 DEF Tick, LastReport, ReportDrops
<1>14. CASE PressQuit \/ EndProgram
  BY <1>14 DEF PressQuit, EndProgram
<1>15. CASE PumpReceives \/ PumpEnds
  BY <1>15 DEF PumpReceives, PumpEnds
<1>16. ASSUME NEW j \in Jobs, Update(j) PROVE DropInv'
  BY <1>16 DEF Update
<1> QED
  BY <1>1, <1>2, <1>3, <1>4, <1>5, <1>6, <1>7, <1>8, <1>9, <1>10, <1>11, <1>12, <1>13, <1>14,
     <1>15, <1>16 DEF Next, RunStep

\* No job vanishes between OnJobFound and the screen, and no drop goes unreported.
THEOREM DropsCorrect == Spec => []DropsReported
<1>1. Init => DropInv
  BY DEF Init, DropInv
<1>2. FlowInv /\ DropInv /\ ErrorInv => DropsReported
  BY DEF FlowInv, Counted, DropInv, ErrorInv, SentOnce, DropsReported
<1> QED
  BY <1>1, <1>2, InitErrorInv, NextErrorInv, InitFlowInv, NextFlowInv, NextDropInv, PTL DEF Spec

-----------------------------------------------------------------------------
(* The screen *)

\* What is on the screen was shown in this run or comes from an earlier one.
ScreenInv == /\ screen \in Seq(Int) /\ Len(screen) <= ScreenLimit
             /\ \A i \in DOMAIN screen : screen[i] \in shown \/ screen[i] <= 0
             /\ ScreenNewest

\* A job that is put on the screen pushes the others down, and the last one out
\* of a full screen.
LEMMA WithNewestIs ==
  ASSUME screen \in Seq(Int), Len(screen) <= ScreenLimit, NEW j \in Int
  PROVE  /\ WithNewest(j) \in Seq(Int)
         /\ Len(WithNewest(j)) = IF Len(screen) < ScreenLimit THEN Len(screen) + 1 ELSE ScreenLimit
         /\ \A i \in DOMAIN WithNewest(j) :
               WithNewest(j)[i] = IF i = 1 THEN j ELSE screen[i - 1]
<1> DEFINE jobs == <<j>> \o screen
<1>1. /\ jobs \in Seq(Int) /\ Len(jobs) = Len(screen) + 1
      /\ \A i \in 1..Len(jobs) : jobs[i] = IF i = 1 THEN j ELSE screen[i - 1]
  OBVIOUS
<1>2. CASE Len(jobs) > ScreenLimit
  <2>1. WithNewest(j) = SubSeq(jobs, 1, ScreenLimit)
    BY <1>2 DEF WithNewest
  <2> QED
    BY <1>1, <1>2, <2>1, BridgeAssumption
<1>3. CASE ~(Len(jobs) > ScreenLimit)
  <2>1. WithNewest(j) = jobs
    BY <1>3 DEF WithNewest
  <2> QED
    BY <1>1, <1>3, <2>1, BridgeAssumption
<1> QED
  BY <1>2, <1>3

\* Update keeps the newest of what is shown on the screen.
LEMMA UpdateScreenInv == ASSUME ScreenInv, FlowInv, NEW j \in Jobs, Update(j)
                         PROVE  ScreenInv'
<1>1. /\ j \in messages /\ screen' = WithNewest(j) /\ shown' = shown \cup {j}
  BY DEF Update
<1>2. j \in Int /\ 0 < j
  BY BridgeAssumption DEF Jobs
<1>3. \A s \in shown : s < j /\ s \in Int
  BY <1>1, BridgeAssumption DEF FlowInv, FlowTypes, InOrder, Jobs
<1>4. screen \in Seq(Int) /\ Len(screen) <= ScreenLimit
  BY DEF ScreenInv
<1>5. \A i \in DOMAIN screen : screen[i] \in Int /\ screen[i] < j
  BY <1>2, <1>3, <1>4 DEF ScreenInv
<1>6. /\ screen' \in Seq(Int)
      /\ Len(screen') = IF Len(screen) < ScreenLimit THEN Len(screen) + 1 ELSE ScreenLimit
      /\ \A i \in DOMAIN screen' : screen'[i] = IF i = 1 THEN j ELSE screen[i - 1]
  BY <1>1, <1>2, <1>4, WithNewestIs
<1>7. \A i \in DOMAIN screen' : i = 1 \/ i - 1 \in DOMAIN screen
  BY <1>4, <1>6, BridgeAssumption
<1>8. \A i \in DOMAIN screen' : screen'[i] \in shown' \/ screen'[i] <= 0
  BY <1>1, <1>6, <1>7 DEF ScreenInv
<1>9. \A i, k \in DOMAIN screen' : i < k => screen'[i] > screen'[k]
  <2> SUFFICES ASSUME NEW i \in DOMAIN screen', NEW k \in DOMAIN screen', i < k
               PROVE  screen'[i] > screen'[k]
    OBVIOUS
  <2>1. k - 1 \in DOMAIN screen /\ screen'[k] = screen[k - 1]
    BY <1>4, <1>6, <1>7
  <2>2. CASE i = 1
    BY <1>5, <1>6, <2>1, <2>2
  <2>3. CASE i # 1
    <3>1. i - 1 \in DOMAIN screen /\ screen'[i] = screen[i - 1] /\ i - 1 < k - 1
      BY <1>4, <1>6, <1>7, <2>3
    <3> QED
      BY <2>1, <3>1 DEF ScreenInv, ScreenNewest
  <2> QED
    BY <2>2, <2>3
<1>10. ASSUME NEW s \in shown', \A i \in DOMAIN screen' : screen'[i] # s
       PROVE  Len(screen') = ScreenLimit /\ \A i \in DOMAIN screen' : screen'[i] > s
  <2>1. 1 \in DOMAIN screen' /\ screen'[1] = j
    BY <1>4, <1>6, BridgeAssumption
  <2>2. s \in shown /\ s < j /\ s \in Int
    BY <1>1, <1>3, <1>10, <2>1
  <2>3. CASE \A i \in DOMAIN screen : screen[i] # s
    <3>1. Len(screen) = ScreenLimit /\ \A i \in DOMAIN screen : screen[i] > s
      BY <2>2, <2>3 DEF ScreenInv, ScreenNewest
    <3> QED
      BY <1>4, <1>6, <1>7, <2>2, <3>1
  <2>4. ASSUME NEW k \in DOMAIN screen, screen[k] = s
        PROVE  Len(screen') = ScreenLimit /\ \A i \in DOMAIN screen' : screen'[i] > s
    <3>1. k + 1 \notin DOMAIN screen'
      <4> SUFFICES ASSUME k + 1 \in DOMAIN screen' PROVE FALSE
        OBVIOUS
      <4>1. k \in Nat \ {0}
        BY <1>4
      <4>2. screen'[k + 1] = screen[(k + 1) - 1] /\ (k + 1) - 1 = k
        BY <1>6, <4>1
      <4> QED
        BY <1>10, <2>4, <4>2
    <3>2. Len(screen) = ScreenLimit /\ k = Len(screen) /\ Len(screen') = ScreenLimit
      BY <1>4, <1>6, <3>1, BridgeAssumption
    <3>3. \A i \in DOMAIN screen : i < k => screen[i] > s
      BY <2>4 DEF ScreenInv, ScreenNewest
    <3>4. ASSUME NEW i \in DOMAIN screen' PROVE screen'[i] > s
      <4>1. CASE i = 1
        BY <1>2, <2>1, <2>2, <4>1
      <4>2. CASE i # 1
        <5>1. i - 1 \in DOMAIN screen /\ i - 1 < k /\ screen'[i] = screen[i - 1]
          BY <1>4, <1>6, <1>7, <3>2, <4>2
        <5> QED
          BY <3>3, <5>1
      <4> QED
        BY <4>1, <4>2
    <3> QED
      BY <3>2, <3>4
  <2> QED
    BY <2>3, <2>4
<1>11. ScreenNewest'
  BY <1>9, <1>10 DEF ScreenNewest
<1> QED
  BY <1>4, <1>6, <1>8, <1>11, BridgeAssumption DEF ScreenInv

\* Every step preserves the invariant.
LEMMA NextScreenInv == ScreenInv /\ FlowInv /\ ErrorInv /\ [Next]_vars => ScreenInv'
<1> SUFFICES ASSUME ScreenInv, FlowInv, ErrorInv, [Next]_vars PROVE ScreenInv'
  OBVIOUS
<1>1. ASSUME UNCHANGED <<screen, shown>> PROVE ScreenInv'
  BY <1>1 DEF ScreenInv, ScreenNewest
<1>2. CASE Open
  <2>1. UNCHANGED <<screen, shown>> \/ \E n \in {0, ScreenLimit} : screen' = [i \in 1..n |-> 1 - i]
    BY <1>2 DEF Open
  <2>2. shown' = shown
    BY <1>2 DEF Open
  <2>3. CASE \E n \in {0, ScreenLimit} : screen' = [i \in 1..n |-> 1 - i]
    <3>1. PICK n \in {0, ScreenLimit} : screen' = [i \in 1..n |-> 1 - i]
      BY <2>3
    <3>2. n \in Nat /\ n <= ScreenLimit
      BY BridgeAssumption
    <3>3. screen' \in Seq(Int) /\ Len(screen') = n /\ DOMAIN screen' = 1..n
      BY <3>1, <3>2
    <3>4. \A i \in 1..n : screen'[i] = 1 - i /\ screen'[i] <= 0
      BY <3>1, <3>2
    <3>5. shown = {}
      BY <1>2 DEF Open, ErrorInv
    <3> QED
      BY <2>2, <3>2, <3>3, <3>4, <3>5 DEF ScreenInv, ScreenNewest
  <2> QED
    BY <1>1, <2>1, <2>2, <2>3
<1>3. CASE UNCHANGED vars \/ Cancel \/ Launch \/ StartProgram
  BY <1>1, <1>3 DEF vars, Cancel, Launch, StartProgram, outsideLaunch, screenVars
<1>4. CASE ProgramReturns \/ Join \/ JoinTimeout \/ DrainTimeout \/ Finish
  BY <1>1, <1>4 DEF ProgramReturns, Join, JoinTimeout, DrainTimeout, Finish, outsideRun, screenVars
<1>5. CASE FindJob \/ WatcherReturns \/ WatcherStep \/ QuitterQuits
  BY <1>1, <1>5 DEF FindJob, WatcherReturns, WatcherStep, WatcherQuits, WatcherSends, QuitterQuits,
                    screenVars
<1>6. CASE Tick \/ LastReport
  BY <1>1, <1>6 DEF Tick, LastReport, outsideReporter, screenVars
<1>7. CASE PressQuit \/ EndProgram \/ PumpReceives \/ PumpEnds
  BY <1>1, <1>7 DEF PressQuit, EndProgram, PumpReceives, PumpEnds, screenVars
<1>8. ASSUME NEW j \in Jobs, Update(j) PROVE ScreenInv'
  BY <1>8, UpdateScreenInv
<1> QED
  BY <1>2, <1>3, <1>4, <1>5, <1>6, <1>7, <1>8 DEF Next, RunStep

\* The screen is never stale: whatever is dropped, nothing newer is missing.
THEOREM ScreenCorrect == Spec => []ScreenNewest
<1>1. Init => ScreenInv
  BY BridgeAssumption DEF Init, ScreenInv, ScreenNewest
<1>2. ScreenInv => ScreenNewest
  BY DEF ScreenInv
<1> QED
  BY <1>1, <1>2, InitErrorInv, NextErrorInv, InitFlowInv, NextFlowInv, NextScreenInv, PTL DEF Spec
=============================================================================
