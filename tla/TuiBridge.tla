------------------------------ MODULE TuiBridge ------------------------------
(***************************************************************************)
(* internal/ui/tui.go and model.go: ui.Run starts the watcher beside the   *)
(* terminal program, carries jobs from OnJobFound to the recorder and,     *)
(* through a channel that drops when it is full, to the screen, and joins  *)
(* everything when one of them ends.  The watcher is the one of            *)
(* WatcherService; the program is Bubble Tea, of which the code uses Run,  *)
(* Quit and one message loop.                                              *)
(*                                                                         *)
(* Jobs are numbered in the order in which they are found; jobs of earlier *)
(* runs, which the state file brings back, have numbers up to 0.           *)
(***************************************************************************)
EXTENDS Integers, Sequences, FiniteSets

CONSTANTS EventBuffer,  \* tuiEventBuffer
          ScreenLimit,  \* maxJobs
          MaxFound      \* bound on the jobs found in one run

ASSUME BridgeAssumption == /\ EventBuffer \in Nat \ {0}
                           /\ ScreenLimit \in Nat \ {0}
                           /\ MaxFound \in Nat

VARIABLES stop,       \* the caller's context is cancelled
          cancelled,  \* runCtx is cancelled
          found,      \* jobs OnJobFound was called with
          result,     \* what Watcher.Start has returned, or "none"
          watcher,    \* where the goroutine of the watcher is
          watcherErr, \* the content of that channel, or "empty"
          quitter,    \* where the goroutine that waits for runCtx is
          recorder,   \* "none" without a state file, "open" or "closed"
          offered,    \* jobs Record was called with while the recorder was open
          events,     \* the channel to the screen
          dropped,    \* droppedEvents
          reported,   \* the sum of what reportDroppedEvents was called with
          reporter,   \* where the drop reporter is
          program,    \* "off", "running", "quitting" or "ended"
          programErr, \* what program.Run returns
          pumps,      \* commands of waitForJobEventWithDone that wait
          messages,   \* jobs on their way from a pump to Update
          screen,     \* Model.jobs, the newest first
          shown,      \* jobs Update has put on the screen, and Model.stats has counted
          run,        \* where Run is
          timedOut,   \* "join" after the join timer, which is reported, "drain" after both
          returned    \* whose error Run returns, "nil", or "none" yet

watcherVars == <<found, result, watcher, watcherErr>>
dropVars    == <<dropped, reported, reporter>>
screenVars  == <<pumps, messages, screen, shown>>
programVars == <<program, programErr>>
runVars     == <<run, timedOut, returned>>
vars == <<stop, cancelled, watcherVars, quitter, recorder, offered, events, dropVars,
          programVars, screenVars, runVars>>

Jobs == 1..MaxFound

Service == INSTANCE WatcherService WITH stop <- cancelled

TypeOK ==
    /\ stop \in BOOLEAN /\ cancelled \in BOOLEAN /\ timedOut \in {"no", "join", "drain"}
    /\ found \subseteq Jobs /\ result \in {"none", "nil", "error"}
    /\ watcher \in {"off", "running", "quitting", "sending", "over"}
    /\ watcherErr \in {"empty", "nil", "error"}
    /\ quitter \in {"off", "waiting", "over"}
    /\ recorder \in {"none", "open", "closed"}
    /\ offered \subseteq found /\ shown \subseteq found /\ messages \subseteq found
    /\ events \in Seq(Jobs) /\ Len(events) <= EventBuffer
    /\ dropped \in 0..MaxFound /\ reported \in 0..MaxFound /\ pumps \in 0..1
    /\ reporter \in {"off", "ticking", "over"}
    /\ program \in {"off", "running", "quitting", "ended"}
    /\ programErr \in {"nil", "error"}
    /\ Len(screen) <= ScreenLimit
    /\ run \in {"open", "launch", "start", "program", "join", "drain", "flush", "done"}
    /\ returned \in {"none", "nil", "setup", "program", "watcher"}

Init == /\ stop = FALSE /\ cancelled = FALSE
        /\ found = {} /\ result = "none"
        /\ watcher = "off" /\ watcherErr = "empty" /\ quitter = "off"
        /\ recorder = "none" /\ offered = {}
        /\ events = <<>> /\ dropped = 0 /\ reported = 0 /\ reporter = "off"
        /\ program = "off" /\ programErr = "nil"
        /\ pumps = 0 /\ messages = {} /\ screen = <<>> /\ shown = {}
        /\ run = "open" /\ timedOut = "no" /\ returned = "none"

-----------------------------------------------------------------------------
(* Run, up to the program *)

\* The caller's context ends: so does runCtx.
Cancel == /\ ~stop
          /\ stop' = TRUE /\ cancelled' = TRUE
          /\ UNCHANGED <<watcherVars, quitter, recorder, offered, events, dropVars,
                         programVars, screenVars, runVars>>

\* No state file; or its recorder is open and its jobs are on the screen; or
\* the recorder or the watcher cannot be made, and the deferred calls are all
\* that is left to do.
Open == /\ run = "open"
        /\ \/ /\ run' = "launch" /\ UNCHANGED <<cancelled, returned>>
              /\ \/ UNCHANGED <<recorder, screen>>
                 \/ /\ recorder' = "open"
                    /\ \E n \in {0, ScreenLimit} : screen' = [i \in 1..n |-> 1 - i]
           \/ /\ run' = "done" /\ returned' = "setup" /\ cancelled' = TRUE
              /\ recorder' \in {"none", "closed"} /\ UNCHANGED screen
        /\ UNCHANGED <<stop, watcherVars, quitter, offered, events, dropVars, programVars,
                       pumps, messages, shown, timedOut>>

outsideLaunch == <<stop, cancelled, found, result, watcherErr, recorder, offered, events, dropped,
                   reported, programErr, messages, screen, shown, timedOut, returned>>

\* The goroutines; they run on while Run goes to program.Run.
Launch == /\ run = "launch" /\ run' = "start"
          /\ reporter' = "ticking" /\ watcher' = "running" /\ quitter' = "waiting"
          /\ UNCHANGED <<program, pumps, outsideLaunch>>

\* Fault in StartProgram: the pump is started by Init and once more by Run.
StartTwoPumps == /\ run = "start" /\ run' = "program"
                 /\ program' = "running" /\ pumps' = 2
                 /\ UNCHANGED <<reporter, watcher, quitter, outsideLaunch>>

\* program.Run, where Model.Init starts the pump.
StartProgram == /\ run = "start" /\ run' = "program"
                /\ program' = "running" /\ pumps' = 1
                /\ UNCHANGED <<reporter, watcher, quitter, outsideLaunch>>

-----------------------------------------------------------------------------
(* The watcher's goroutine *)

\* OnJobFound: the recorder first (whose queue Recorder models); the screen gets
\* the job unless the channel is full.
FindJob ==
    LET j == Cardinality(found) + 1
    IN /\ watcher = "running"
       /\ Service!Find(j)
       /\ offered' = IF recorder = "open" THEN offered \cup {j} ELSE offered
       /\ IF Len(events) < EventBuffer
          THEN events' = Append(events, j) /\ UNCHANGED dropped
          ELSE dropped' = dropped + 1 /\ UNCHANGED events
       /\ UNCHANGED <<stop, cancelled, watcher, watcherErr, quitter, recorder, reported,
                      reporter, programVars, screenVars, runVars>>

\* Fault in WatcherReturns: an error is only passed on.
WatcherPassesOn == /\ watcher = "running" /\ watcher' = "sending"
                   /\ \E r \in {"nil", "error"} : Service!Return(r)
                   /\ UNCHANGED <<stop, cancelled, watcherErr, quitter, recorder, offered, events,
                                  dropVars, programVars, screenVars, runVars>>

\* An error cancels runCtx, and quits the program next.
WatcherReturns ==
    /\ watcher = "running"
    /\ \/ Service!Return("nil") /\ watcher' = "sending" /\ UNCHANGED cancelled
       \/ Service!Return("error") /\ watcher' = "quitting" /\ cancelled' = TRUE
    /\ UNCHANGED <<stop, watcherErr, quitter, recorder, offered, events, dropVars, programVars,
                   screenVars, runVars>>

\* program.Quit waits for the message loop, called before that runs as well, and
\* does nothing once it is over.
Quit == /\ program # "off"
        /\ program' = "ended"
        /\ UNCHANGED programErr

WatcherQuits == /\ watcher = "quitting" /\ watcher' = "sending"
                /\ Quit
                /\ UNCHANGED <<stop, cancelled, found, result, watcherErr, quitter, recorder,
                               offered, events, dropVars, screenVars, runVars>>

WatcherSends == /\ watcher = "sending" /\ watcher' = "over"
                /\ watcherErr' = result
                /\ UNCHANGED <<stop, cancelled, found, result, quitter, recorder, offered,
                               events, dropVars, programVars, screenVars, runVars>>

\* The goroutine that waits for runCtx.
QuitterQuits == /\ quitter = "waiting" /\ cancelled
                /\ quitter' = "over"
                /\ Quit
                /\ UNCHANGED <<stop, cancelled, watcherVars, recorder, offered, events, dropVars,
                               screenVars, runVars>>

-----------------------------------------------------------------------------
(* The drop reporter *)

\* reportDrops: Swap(0), and a report of what it returned.
ReportDrops == reported' = reported + dropped /\ dropped' = 0

outsideReporter == <<stop, cancelled, watcherVars, quitter, recorder, offered, events,
                     programVars, screenVars, runVars>>

Tick == /\ reporter = "ticking" /\ dropped > 0
        /\ ReportDrops
        /\ UNCHANGED <<reporter, outsideReporter>>

\* Fault in LastReport: the reporter just stops.
StopUnreported == /\ reporter = "ticking" /\ run = "flush"
                  /\ reporter' = "over"
                  /\ UNCHANGED <<dropped, reported, outsideReporter>>

\* stopDropReporter is closed.
LastReport == /\ reporter = "ticking" /\ run = "flush"
              /\ ReportDrops
              /\ reporter' = "over"
              /\ UNCHANGED outsideReporter

-----------------------------------------------------------------------------
(* The program *)

outsideProgram == <<stop, cancelled, watcherVars, quitter, recorder, offered, dropVars, runVars>>

\* The keys q and ctrl+c: tea.Quit is a message of its own.
PressQuit == /\ program = "running" /\ program' = "quitting"
             /\ UNCHANGED <<programErr, events, screenVars, outsideProgram>>

\* The program takes the quit message, or dies of an error of its own.
EndProgram == /\ \/ program = "quitting" /\ UNCHANGED programErr
                 \/ program \in {"running", "quitting"} /\ programErr' = "error"
              /\ program' = "ended"
              /\ UNCHANGED <<events, screenVars, outsideProgram>>

\* waitForJobEventWithDone picks among its ready cases.
PumpReceives == /\ pumps > 0 /\ events # <<>>
                /\ pumps' = pumps - 1
                /\ messages' = messages \cup {Head(events)}
                /\ events' = Tail(events)
                /\ UNCHANGED <<screen, shown, programVars, outsideProgram>>

PumpEnds == /\ pumps > 0 /\ cancelled
            /\ pumps' = pumps - 1
            /\ UNCHANGED <<events, messages, screen, shown, programVars, outsideProgram>>

\* The newest ScreenLimit of the shown jobs, with j in front.
WithNewest(j) == LET jobs == <<j>> \o screen
                 IN IF Len(jobs) > ScreenLimit THEN SubSeq(jobs, 1, ScreenLimit) ELSE jobs

\* Fault in Update: a job does not start the pump again.
UpdateOnce(j) == /\ j \in messages /\ program \in {"running", "quitting"}
                 /\ messages' = messages \ {j}
                 /\ screen' = WithNewest(j)
                 /\ shown' = shown \cup {j}
                 /\ UNCHANGED <<pumps, events, programVars, outsideProgram>>

\* Model.Update with a jobFoundMsg.
Update(j) == /\ j \in messages /\ program \in {"running", "quitting"}
             /\ messages' = messages \ {j}
             /\ screen' = WithNewest(j)
             /\ shown' = shown \cup {j}
             /\ pumps' = pumps + 1
             /\ UNCHANGED <<events, programVars, outsideProgram>>

-----------------------------------------------------------------------------
(* Run, after the program *)

outsideRun == <<stop, found, result, watcher, watcherErr, quitter, offered, events, dropVars,
                programVars, screenVars>>

ProgramReturns == /\ run = "program" /\ program = "ended"
                  /\ run' = "join" /\ cancelled' = TRUE
                  /\ UNCHANGED <<recorder, timedOut, returned, outsideRun>>

\* The program's own error, if it has one.
OwnError == IF programErr = "error" THEN "program" ELSE "nil"

\* Fault in Join: what the watcher returned is thrown away.
JoinForgets == /\ run \in {"join", "drain"} /\ watcherErr # "empty"
               /\ returned' = OwnError
               /\ run' = "flush"
               /\ UNCHANGED <<cancelled, recorder, timedOut, outsideRun>>

\* watcherErr is ready, before the join timer or within the drain window.
Join == /\ run \in {"join", "drain"} /\ watcherErr # "empty"
        /\ returned' = IF programErr = "nil" /\ watcherErr = "error" THEN "watcher" ELSE OwnError
        /\ run' = "flush"
        /\ UNCHANGED <<cancelled, recorder, timedOut, outsideRun>>

JoinTimeout == /\ run = "join" /\ run' = "drain"
               /\ timedOut' = "join"
               /\ UNCHANGED <<cancelled, recorder, returned, outsideRun>>

DrainTimeout == /\ run = "drain" /\ run' = "flush"
                /\ returned' = OwnError /\ timedOut' = "drain"
                /\ UNCHANGED <<cancelled, recorder, outsideRun>>

\* The reporter is over; the deferred calls close the recorder and cancel.
Finish == /\ run = "flush" /\ reporter = "over"
          /\ run' = "done"
          /\ recorder' = IF recorder = "open" THEN "closed" ELSE recorder
          /\ UNCHANGED <<cancelled, timedOut, returned, outsideRun>>

RunStep == \/ Open \/ Launch \/ StartProgram \/ ProgramReturns
           \/ Join \/ JoinTimeout \/ DrainTimeout \/ Finish

WatcherStep == WatcherQuits \/ WatcherSends

Next == \/ Cancel \/ RunStep
        \/ FindJob \/ WatcherReturns \/ WatcherStep
        \/ QuitterQuits
        \/ Tick \/ LastReport
        \/ PressQuit \/ EndProgram \/ PumpReceives \/ PumpEnds
        \/ \E j \in Jobs : Update(j)

Spec == Init /\ [][Next]_vars

\* Goroutines run on and timers fire.  The watcher need not find anything and
\* need not return; nobody need press a key.
Fairness == /\ WF_vars(RunStep) /\ WF_vars(WatcherStep) /\ WF_vars(QuitterQuits)
            /\ WF_vars(LastReport) /\ WF_vars(PumpReceives)
            /\ WF_vars(program = "quitting" /\ EndProgram)
            /\ \A j \in Jobs : WF_vars(Update(j))

FairSpec == Spec /\ Fairness

-----------------------------------------------------------------------------
\* Every job found is on the screen or on its way to it, or is counted as
\* dropped; and when Run returns after its watcher, in time or in the drain window,
\* every drop was reported, those from the time of the shutdown included.
DropsReported ==
    /\ Cardinality(found) =
          Len(events) + Cardinality(messages) + Cardinality(shown) + dropped + reported
    /\ run = "done" /\ returned # "setup" /\ timedOut # "drain" => dropped = 0

\* The screen shows the newest of the shown jobs, the newest first, whatever was
\* dropped in between: there is never a second pump that could overtake.
ScreenNewest ==
    LET onScreen == {screen[i] : i \in DOMAIN screen}
    IN /\ \A i, k \in DOMAIN screen : i < k => screen[i] > screen[k]
       /\ \A j \in shown \ onScreen :
             Len(screen) = ScreenLimit /\ \A s \in onScreen : s > j

\* Run returns nil only if the program ended well, and the watcher did too or was
\* given up after the join timeout, which is reported, and the drain window after
\* it: an error that comes in that window is still returned.
ErrorNotSwallowed ==
    run = "done" /\ returned = "nil" =>
       programErr = "nil" /\ (watcherErr = "nil" \/ timedOut = "drain")

\* A caller that cancels, a key that quits and a watcher that ends each bring
\* Run to its end, in whatever order they come and even if the watcher hangs.
RunReturns == (stop \/ program = "quitting" \/ result # "none") ~> run = "done"

\* A job that got into the channel is shown, unless the program is ending.
EventShown ==
    \A j \in Jobs : (\E i \in DOMAIN events : events[i] = j)
                       ~> (j \in shown \/ cancelled \/ program \in {"quitting", "ended"})
=============================================================================
