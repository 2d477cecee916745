--------------------------- MODULE WatcherPipeline ---------------------------
(***************************************************************************)
(* internal/app/watcher.go with internal/pipeline/router.go: Watcher.Start *)
(* runs one goroutine per enabled monitor, feeds their events through one  *)
(* buffered channel to Router.Handle, and shuts everything down when the   *)
(* caller cancels, a monitor fails or the channel is closed.  Reactions    *)
(* and telemetry run in two AsyncPools that Start does not wait for.       *)
(*                                                                         *)
(* The dedupe window is taken to be longer than the run: DedupeGate says   *)
(* what happens when a key expires or is evicted.  A posting is a job as   *)
(* its author sees it; monitors send reports of it, and the router tells   *)
(* jobs apart by the keys of the reports.                                  *)
(***************************************************************************)
EXTENDS Integers, Sequences, FiniteSets

CONSTANTS Monitors,       \* Deps.Monitors
          Cooperative,    \* the monitors that return once their context ends
          Closers,        \* the monitors that may close the events channel
          Reports,        \* the jobs that monitors send, each in its own words
          JobOf,          \* report -> id, url and facets, see JobKey
          PostingOf,      \* report -> the posting it is about
          Blank, NoUrl, Numerals, \* see JobKey
          Ignored,        \* an event without a job
          EventBuffer,    \* capacity of the events channel
          ReactionSlots,  \* Deps.ReactionInFlight
          TelemetrySlots, \* Deps.TelemetryInFlight
          HasTelemetry,   \* whether Deps.TelemetrySink is set
          ReactionEnds,   \* AsyncPool's Outcomes for Open and Notify
          TelemetryEnds   \* and for the sink, whose panics are not recovered

ASSUME WatcherAssumption == /\ Cooperative \subseteq Monitors
                            /\ Closers \subseteq Monitors
                            /\ "none" \notin Monitors
                            /\ Ignored \notin Reports
                            /\ EventBuffer \in Nat \ {0}
                            /\ ReactionSlots \in Nat \ {0}
                            /\ TelemetrySlots \in Nat \ {0}
                            /\ HasTelemetry \in BOOLEAN
                            /\ ReactionEnds \subseteq {"ending", "failed", "panicked"}
                            /\ TelemetryEnds \subseteq {"ending", "failed"}

VARIABLES stop,       \* the caller's context is cancelled
          cancelled,  \* runCtx is cancelled
          enabled,    \* the monitors Start found enabled
          mon,        \* monitor -> where its goroutine is
          pending,    \* monitor -> the event it is sending
          events,     \* the events channel
          closed,     \* the events channel is closed
          errCh,      \* the monitors whose error is in errCh
          loop,       \* where Start is
          current,    \* the event in Router.Handle
          seen,       \* the keys in the router's gate
          hookCalls,  \* report -> number of calls of OnJobFound (up to 2)
          err,        \* baseErr of finishShutdown, or "none"
          timedOut,   \* finishShutdown gave up on the monitors
          rSlots, rTask, rReports,  \* the reaction executor
          tSlots, tTask, tReports   \* the telemetry writes

monitorVars   == <<mon, pending>>
channelVars   == <<events, closed, errCh>>
routerVars    == <<current, seen, hookCalls>>
resultVars    == <<err, timedOut>>
reactionVars  == <<rSlots, rTask, rReports>>
telemetryVars == <<tSlots, tTask, tReports>>
vars == <<stop, cancelled, enabled, loop, monitorVars, channelVars, routerVars,
          resultVars, reactionVars, telemetryVars>>

INSTANCE JobKey

\* Evaluated once for each report.
KeyOf == [r \in Reports |-> CanonicalKey(JobOf[r])]

Keys     == {KeyOf[r] : r \in Reports} \ {NoKey}
Postings == {PostingOf[r] : r \in {r \in Reports : KeyOf[r] # NoKey}}

Actions == {"open", "notify"}

Reaction == INSTANCE AsyncPool WITH
              Tasks <- Actions \X Keys, MaxInFlight <- ReactionSlots,
              Outcomes <- ReactionEnds,
              slots <- rSlots, task <- rTask, reports <- rReports

\* A panic in a telemetry goroutine would end the process: the sink returns,
\* with or without an error.
Telemetry == INSTANCE AsyncPool WITH
              Tasks <- Keys, MaxInFlight <- TelemetrySlots,
              Outcomes <- TelemetryEnds,
              slots <- tSlots, task <- tTask, reports <- tReports

NoMonitors == "no enabled monitors"
Closed     == "events channel closed"

TypeOK ==
    /\ stop \in BOOLEAN /\ cancelled \in BOOLEAN
    /\ enabled \subseteq Monitors
    /\ mon \in [Monitors -> {"off", "running", "sending", "returned", "failing", "exited"}]
    /\ pending \in [Monitors -> Reports \cup {Ignored}]
    /\ events \in Seq(Reports \cup {Ignored}) /\ Len(events) <= EventBuffer
    /\ closed \in BOOLEAN
    /\ errCh \in Seq(Monitors) /\ Len(errCh) <= Cardinality(Monitors)
    /\ loop \in {"start", "select", "open", "notify", "telemetry", "join", "done"}
    /\ current \in Reports \cup {Ignored}
    /\ seen \subseteq Keys
    /\ hookCalls \in [Reports -> 0..2]
    /\ err \in Monitors \cup {"none", NoMonitors, Closed}
    /\ timedOut \in BOOLEAN
    /\ Reaction!TypeOK
    /\ Telemetry!TypeOK

Init == /\ stop = FALSE /\ cancelled = FALSE
        /\ enabled \in SUBSET Monitors
        /\ mon = [m \in Monitors |-> "off"]
        /\ pending = [m \in Monitors |-> Ignored]
        /\ events = <<>> /\ closed = FALSE /\ errCh = <<>>
        /\ loop = "start"
        /\ current = Ignored /\ seen = {} /\ hookCalls = [r \in Reports |-> 0]
        /\ err = "none" /\ timedOut = FALSE
        /\ Reaction!Init
        /\ Telemetry!Init

-----------------------------------------------------------------------------
(* Start *)

\* The caller cancels: runCtx, derived from its context, is done too.
Cancel == /\ ~stop
          /\ stop' = TRUE
          /\ cancelled' = TRUE
          /\ UNCHANGED <<enabled, loop, monitorVars, channelVars, routerVars,
                         resultVars, reactionVars, telemetryVars>>

StartMonitors ==
    /\ loop = "start"
    /\ IF enabled = {}
       THEN /\ loop' = "done" /\ err' = NoMonitors
            /\ UNCHANGED mon
       ELSE /\ loop' = "select"
            /\ mon' = [m \in Monitors |-> IF m \in enabled THEN "running" ELSE "off"]
            /\ UNCHANGED err
    /\ UNCHANGED <<stop, cancelled, enabled, pending, channelVars, routerVars,
                   timedOut, reactionVars, telemetryVars>>

\* finishShutdown up to its select.
Shutdown(baseErr) == /\ loop' = "join"
                     /\ err' = baseErr
                     /\ cancelled' = TRUE

\* The main select picks one of the ready cases.
ReceiveDone == /\ loop = "select" /\ cancelled
               /\ Shutdown("none")
               /\ UNCHANGED <<stop, enabled, monitorVars, channelVars, routerVars,
                              timedOut, reactionVars, telemetryVars>>

\* Fault in ReceiveError: the error only ends the loop.
ReceiveErrorForgets == /\ loop = "select" /\ errCh # <<>>
                       /\ Shutdown("none")
                       /\ errCh' = Tail(errCh)
                       /\ UNCHANGED <<stop, enabled, monitorVars, events, closed, routerVars,
                                      timedOut, reactionVars, telemetryVars>>

ReceiveError == /\ loop = "select" /\ errCh # <<>>
                /\ Shutdown(Head(errCh))
                /\ errCh' = Tail(errCh)
                /\ UNCHANGED <<stop, enabled, monitorVars, events, closed, routerVars,
                               timedOut, reactionVars, telemetryVars>>

ReceiveClosed == /\ loop = "select" /\ closed /\ events = <<>>
                 /\ Shutdown(Closed)
                 /\ UNCHANGED <<stop, enabled, monitorVars, channelVars, routerVars,
                                timedOut, reactionVars, telemetryVars>>

\* The hook (a panic in it is recovered); Dispatch follows.
FirstSeen(r) == /\ loop' = "open"
                /\ current' = r
                /\ seen' = seen \cup {KeyOf[r]}
                /\ hookCalls' = [hookCalls EXCEPT ![r] = IF @ = 2 THEN 2 ELSE @ + 1]

Dropped == loop' = "select" /\ UNCHANGED routerVars

\* Handle drops what is not a job, what has no key and what the gate has seen.
HandleEvent(ev) == IF ev = Ignored THEN Dropped
                   ELSE IF KeyOf[ev] \in seen \cup {NoKey} THEN Dropped
                   ELSE FirstSeen(ev)

ReceiveEvent == /\ loop = "select" /\ events # <<>>
                /\ events' = Tail(events)
                /\ HandleEvent(Head(events))
                /\ UNCHANGED <<stop, cancelled, enabled, monitorVars, closed, errCh,
                               resultVars, reactionVars, telemetryVars>>

\* Fault in DispatchOpen: Dispatch returns at the first backpressure.
OpenOrReturn == /\ loop = "open"
                /\ Reaction!Dispatch(<<"open", KeyOf[current]>>)
                /\ loop' = IF rSlots < ReactionSlots THEN "notify" ELSE "select"
                /\ UNCHANGED <<stop, cancelled, enabled, monitorVars, channelVars,
                               routerVars, resultVars, telemetryVars>>

\* Executor.Dispatch: the two actions, each with a slot or shed.
DispatchOpen == /\ loop = "open"
                /\ Reaction!Dispatch(<<"open", KeyOf[current]>>)
                /\ loop' = "notify"
                /\ UNCHANGED <<stop, cancelled, enabled, monitorVars, channelVars,
                               routerVars, resultVars, telemetryVars>>

DispatchNotify == /\ loop = "notify"
                  /\ Reaction!Dispatch(<<"notify", KeyOf[current]>>)
                  /\ IF HasTelemetry THEN loop' = "telemetry" /\ UNCHANGED current
                                     ELSE loop' = "select" /\ current' = Ignored
                  /\ UNCHANGED <<stop, cancelled, enabled, monitorVars, channelVars,
                                 seen, hookCalls, resultVars, telemetryVars>>

\* writeTelemetryAsync.
WriteTelemetry == /\ loop = "telemetry"
                  /\ Telemetry!Dispatch(KeyOf[current])
                  /\ loop' = "select" /\ current' = Ignored
                  /\ UNCHANGED <<stop, cancelled, enabled, monitorVars, channelVars,
                                 seen, hookCalls, resultVars, reactionVars>>

\* Fault in Stopped: the first monitor that ends is taken for the last.
StoppedEarly == \E m \in enabled : mon[m] = "exited"

Stopped == \A m \in enabled : mon[m] = "exited"

\* Fault in Join: no shutdown timeout.
JoinForever == /\ loop = "join"
               /\ loop' = "done"
               /\ Stopped /\ timedOut' = FALSE
               /\ UNCHANGED <<stop, cancelled, enabled, monitorVars, channelVars, routerVars,
                              err, reactionVars, telemetryVars>>

\* finishShutdown: the monitors have ended, or the wait has lasted too long.
Join == /\ loop = "join"
        /\ loop' = "done"
        /\ \/ Stopped /\ timedOut' = FALSE
           \/ timedOut' = TRUE
        /\ UNCHANGED <<stop, cancelled, enabled, monitorVars, channelVars, routerVars,
                       err, reactionVars, telemetryVars>>

-----------------------------------------------------------------------------
(* The goroutines of the monitors *)

SetMonitor(m, from, to) == /\ mon[m] = from
                           /\ mon' = [mon EXCEPT ![m] = to]

outsideMonitors == <<stop, cancelled, enabled, loop, routerVars, resultVars,
                     reactionVars, telemetryVars>>

\* A monitor has an event and blocks on the channel.
Emit(m) == /\ SetMonitor(m, "running", "sending")
           /\ ~closed
           /\ \E ev \in Reports \cup {Ignored} : pending' = [pending EXCEPT ![m] = ev]
           /\ UNCHANGED <<outsideMonitors, channelVars>>

\* Fault in Deliver: a full channel drops the event.
DeliverOrDrop(m) == /\ SetMonitor(m, "sending", "running")
                    /\ ~closed
                    /\ events' = IF Len(events) < EventBuffer THEN Append(events, pending[m])
                                                              ELSE events
                    /\ pending' = [pending EXCEPT ![m] = Ignored]
                    /\ UNCHANGED <<outsideMonitors, closed, errCh>>

Deliver(m) == /\ SetMonitor(m, "sending", "running")
              /\ ~closed /\ Len(events) < EventBuffer
              /\ events' = Append(events, pending[m])
              /\ pending' = [pending EXCEPT ![m] = Ignored]
              /\ UNCHANGED <<outsideMonitors, closed, errCh>>

\* The send of a monitor selects on its context as well.
AbandonSend(m) == /\ SetMonitor(m, "sending", "exited")
                  /\ m \in Cooperative /\ cancelled
                  /\ pending' = [pending EXCEPT ![m] = Ignored]
                  /\ UNCHANGED <<outsideMonitors, channelVars>>

\* Start of a monitor returns nil, at its own choice or because of its context.
ReturnNil(m) == /\ SetMonitor(m, "running", "exited")
                /\ UNCHANGED <<outsideMonitors, pending, channelVars>>

\* Start of a monitor returns an error.
Fail(m) == /\ SetMonitor(m, "running", "returned")
           /\ UNCHANGED <<outsideMonitors, pending, channelVars>>

\* A monitor that closes the channel is taken to know that no other one is
\* sending, and none sends afterwards: the panic of a send on a closed channel is
\* outside the model.  No monitor of the program closes it; Start handles the
\* case all the same.
CloseEvents(m) == /\ m \in Closers /\ mon[m] = "running"
                  /\ \A n \in Monitors : mon[n] # "sending"
                  /\ ~closed
                  /\ closed' = TRUE
                  /\ UNCHANGED <<outsideMonitors, monitorVars, events, errCh>>

\* The error is dropped once runCtx is done ...
CheckError(m) == /\ SetMonitor(m, "returned", IF cancelled THEN "exited" ELSE "failing")
                 /\ UNCHANGED <<outsideMonitors, pending, channelVars>>

\* Fault in ReportError: the error is dropped.
ReportNothing(m) == /\ SetMonitor(m, "failing", "exited")
                    /\ UNCHANGED <<outsideMonitors, pending, channelVars>>

\* ... and otherwise sent to errCh unless that is full.
ReportError(m) == /\ SetMonitor(m, "failing", "exited")
                  /\ errCh' = IF Len(errCh) < Cardinality(enabled) THEN Append(errCh, m)
                                                                   ELSE errCh
                  /\ UNCHANGED <<outsideMonitors, pending, events, closed>>

Monitor(m) == \/ Emit(m) \/ Deliver(m) \/ AbandonSend(m) \/ ReturnNil(m) \/ Fail(m)
              \/ CloseEvents(m) \/ CheckError(m) \/ ReportError(m)

-----------------------------------------------------------------------------
outsideReaction == <<stop, cancelled, enabled, loop, monitorVars, channelVars,
                     routerVars, resultVars, telemetryVars>>
outsideTelemetry == <<stop, cancelled, enabled, loop, monitorVars, channelVars,
                      routerVars, resultVars, reactionVars>>

ReactionGoroutine(t) == Reaction!Goroutine(t) /\ UNCHANGED outsideReaction
TelemetryGoroutine(k) == Telemetry!Goroutine(k) /\ UNCHANGED outsideTelemetry

StartStep == \/ StartMonitors \/ ReceiveDone \/ ReceiveError \/ ReceiveClosed
             \/ ReceiveEvent \/ DispatchOpen \/ DispatchNotify \/ WriteTelemetry \/ Join

Next == \/ Cancel
        \/ StartStep
        \/ \E m \in Monitors : Monitor(m)
        \/ \E t \in Actions \X Keys : ReactionGoroutine(t)
        \/ \E k \in Keys : TelemetryGoroutine(k)

Spec == Init /\ [][Next]_vars

\* Go picks among ready select cases at random and serves blocked senders in
\* turn (strong fairness); scheduled code runs on (weak fairness).  A monitor
\* need not report anything, and a reaction need not return.
Fairness ==
    /\ WF_vars(StartMonitors) /\ WF_vars(Join)
    /\ WF_vars(DispatchOpen) /\ WF_vars(DispatchNotify) /\ WF_vars(WriteTelemetry)
    /\ SF_vars(ReceiveDone) /\ SF_vars(ReceiveError)
    /\ SF_vars(ReceiveClosed) /\ SF_vars(ReceiveEvent)
    /\ \A m \in Monitors : /\ WF_vars(CheckError(m)) /\ WF_vars(ReportError(m))
                           /\ SF_vars(Deliver(m))
    /\ \A m \in Cooperative : WF_vars(AbandonSend(m) \/ (cancelled /\ ReturnNil(m)))

FairSpec == Spec /\ Fairness

-----------------------------------------------------------------------------
\* A posting is reacted to once however many monitors report it.
OncePerPosting ==
    \A r, q \in Reports :
       PostingOf[r] = PostingOf[q] /\ hookCalls[r] > 0 /\ hookCalls[q] > 0
          => r = q /\ hookCalls[r] = 1

\* Whenever the loop is between events, each job the gate let through has had
\* one hook call and both reactions and its telemetry, started or shed:
\* backpressure on one of the dispatches never costs the job another one.
OnceAndCompletely ==
    loop \in {"select", "join", "done"} =>
       \A k \in seen :
          /\ \E r \in Reports : /\ {q \in Reports : KeyOf[q] = k /\ hookCalls[q] > 0} = {r}
                               /\ hookCalls[r] = 1
          /\ \A a \in Actions : rTask[<<a, k>>] # "idle"
          /\ HasTelemetry => tTask[k] # "idle"

\* The jobs OnJobFound has heard of.
Found == {k \in Keys : \E r \in Reports : KeyOf[r] = k /\ hookCalls[r] > 0}

\* finishShutdown adds the timeout to the error, if any.
Result == IF loop # "done" THEN "none"
          ELSE IF err = "none" /\ ~timedOut THEN "nil" ELSE "error"

Service == INSTANCE WatcherService WITH Jobs <- Keys, found <- Found, result <- Result

\* What the caller of Start relies on: OnJobFound hears of a job once and only
\* while Start runs, and Start returns nil only to a caller that cancelled, so
\* that a failure of a monitor or a closed channel is never swallowed.
ImplementsService == Service!Spec

\* Unless it reports a timeout, Start returns after its last monitor: nothing
\* touches the events channel any more.
QuietAfterReturn ==
    [][loop = "done" /\ ~timedOut => UNCHANGED <<mon, events, errCh>>]_vars

\* A monitor that failed while the watcher ran brings it down, with an error
\* unless the caller cancelled meanwhile, although other monitors keep the
\* events channel full: its error is not lost in the default branch of the send
\* to errCh.  This is the watcher of the code and of its test
\* TestWatcher_StartReturnsFatalMonitorError; the design document wants another
\* one, see AliveUnlessCancelled.
FailureEndsWatcher ==
    (\E m \in Monitors : mon[m] = "failing") ~> loop = "done" /\ (err # "none" \/ stop)

\* "Monitor-level errors are non-fatal and retried", "Pipeline must remain alive
\* unless context is cancelled" (the design document, lines 112 and 115): an
\* enabled watcher shuts down only because its caller cancelled.  The code ends
\* for a monitor that fails as well.
AliveUnlessCancelled == loop \in {"join", "done"} => stop \/ enabled = {}

\* Once cancelled, Start returns, even when a monitor is stuck.
CancelReturns == stop ~> loop = "done"

ReportsOf(p) == {r \in Reports : PostingOf[r] = p}

\* A posting that a monitor has begun to send is reacted to, or the watcher is
\* shutting down: a full channel delays a job and never drops it.
JobNotDropped == \A p \in Postings :
    (\E m \in Monitors : mon[m] = "sending" /\ pending[m] \in ReportsOf(p))
       ~> ((\E r \in ReportsOf(p) : hookCalls[r] > 0) \/ cancelled)
=============================================================================
