------------------------ MODULE WatcherPipelineProofs ------------------------
(***************************************************************************)
(* The watcher implements WatcherService, reacts to each job once and      *)
(* completely, and leaves no monitor behind when it returns without a      *)
(* timeout; for any monitors, reports, buffers and pools.                  *)
(***************************************************************************)
EXTENDS WatcherPipeline, TLAPS

\* The positions of Start at which Router.Handle is dispatching a job.
Dispatching == {"open", "notify", "telemetry"}

Events == Reports \cup {Ignored}

-----------------------------------------------------------------------------
(* The events *)

\* What is on its way to the router is an event, and what is on its way to
\* Start is the error of a monitor.
EventTypes == /\ enabled \subseteq Monitors
              /\ pending \in [Monitors -> Events]
              /\ events \in Seq(Events)
              /\ errCh \in Seq(Monitors)
              /\ DOMAIN mon = Monitors
              /\ loop \in {"start", "select", "join", "done"} \cup Dispatching

\* Keys are what the reports have.
LEMMA KeyOfReports == /\ \A r \in Reports : KeyOf[r] \in Keys \cup {NoKey}
                      /\ Keys \subseteq {KeyOf[r] : r \in Reports}
                      /\ NoKey \notin Keys
  BY DEF Keys

\* The initial states have these types.
LEMMA InitEventTypes == Init => EventTypes
  BY DEF Init, EventTypes, Events

\* Steps of the monitors keep them.
LEMMA MonitorEventTypes == ASSUME EventTypes, NEW m \in Monitors, Monitor(m)
                           PROVE  EventTypes'
<1> USE DEF EventTypes, Events, SetMonitor, outsideMonitors, channelVars
<1>1. CASE Emit(m)
  BY <1>1 DEF Emit
<1>2. CASE Deliver(m)
  BY <1>2 DEF Deliver
<1>3. CASE AbandonSend(m)
  BY <1>3 DEF AbandonSend
<1>4. CASE ReturnNil(m) \/ Fail(m) \/ CheckError(m)
  BY <1>4 DEF ReturnNil, Fail, CheckError
<1>5. CASE CloseEvents(m)
  BY <1>5 DEF CloseEvents, monitorVars
<1>6. CASE ReportError(m)
  BY <1>6 DEF ReportError
<1> QED
  BY <1>1, <1>2, <1>3, <1>4, <1>5, <1>6 DEF Monitor

\* Steps of Start keep them.
LEMMA StartEventTypes == ASSUME EventTypes, StartStep PROVE EventTypes'
<1> USE DEF EventTypes, Dispatching, monitorVars, channelVars, routerVars, resultVars, Shutdown
<1>1. CASE StartMonitors
  BY <1>1 DEF StartMonitors
<1>2. CASE ReceiveDone \/ ReceiveClosed
  BY <1>2 DEF ReceiveDone, ReceiveClosed
<1>3. CASE ReceiveError
  BY <1>3 DEF ReceiveError
<1>4. CASE ReceiveEvent
  <2>1. loop' \in {"select", "open"}
    BY <1>4 DEF ReceiveEvent, HandleEvent, Dropped, FirstSeen
  <2> QED
    BY <1>4, <2>1 DEF ReceiveEvent
<1>5. CASE DispatchOpen \/ DispatchNotify \/ WriteTelemetry \/ Join
  BY <1>5 DEF DispatchOpen, DispatchNotify, WriteTelemetry, Join
<1> QED
  BY <1>1, <1>2, <1>3, <1>4, <1>5 DEF StartStep

\* What the other steps leave alone: the caller's, and the goroutines that
\* nobody waits for.
LEMMA OtherSteps ==
  ASSUME \/ Cancel \/ UNCHANGED vars
         \/ \E t \in Actions \X Keys : ReactionGoroutine(t)
         \/ \E k \in Keys : TelemetryGoroutine(k)
  PROVE  UNCHANGED <<enabled, loop, monitorVars, channelVars, routerVars, resultVars>>
  BY DEF Cancel, vars, ReactionGoroutine, outsideReaction, TelemetryGoroutine, outsideTelemetry

\* The types hold in every reachable state.
LEMMA NextEventTypes == EventTypes /\ [Next]_vars => EventTypes'
<1> SUFFICES ASSUME EventTypes, [Next]_vars PROVE EventTypes'
  OBVIOUS
<1>1. ASSUME UNCHANGED <<enabled, loop, monitorVars, channelVars>> PROVE EventTypes'
  BY <1>1 DEF EventTypes, monitorVars, channelVars
<1> QED
  BY <1>1, OtherSteps, StartEventTypes, MonitorEventTypes DEF Next

-----------------------------------------------------------------------------
(* The promise of Start *)

\* The router has called the hook for the keys in its gate and for no other.
HookMatchesGate ==
    /\ hookCalls \in [Reports -> {0, 1}]
    /\ seen \subseteq Keys
    /\ \A r \in Reports : hookCalls[r] = 1 => KeyOf[r] \in seen
    /\ \A k \in seen : \E r \in Reports : KeyOf[r] = k /\ hookCalls[r] = 1
    /\ \A r, q \in Reports : KeyOf[r] = KeyOf[q] /\ hookCalls[r] = 1 /\ hookCalls[q] = 1 => r = q

\* Until something else has gone wrong, runCtx is done only if the caller's
\* context is.
OnlyTheCaller ==
    /\ loop \notin {"join", "done"} => err = "none" /\ (cancelled => stop)
    /\ loop \in {"join", "done"} /\ err = "none" => stop

\* The inductive invariant.
ServiceInv == HookMatchesGate /\ OnlyTheCaller

\* The initial states satisfy the invariant.
LEMMA InitServiceInv == Init => ServiceInv
  BY DEF Init, ServiceInv, HookMatchesGate, OnlyTheCaller

\* One call of Handle.
LEMMA HandleOutcome ==
  ASSUME EventTypes, ServiceInv, ReceiveEvent
  PROVE  /\ loop = "select" /\ UNCHANGED <<stop, cancelled, err, timedOut>>
         /\ \/ loop' = "select" /\ UNCHANGED <<current, seen, hookCalls>>
            \/ /\ loop' = "open" /\ current' \in Reports
               /\ KeyOf[current'] \in Keys \ seen
               /\ seen' = seen \cup {KeyOf[current']}
               /\ hookCalls' = [hookCalls EXCEPT ![current'] = 1]
               /\ hookCalls[current'] = 0
<1>1. loop = "select" /\ UNCHANGED <<stop, cancelled, err, timedOut>>
  BY DEF ReceiveEvent, resultVars
<1>2. Head(events) \in Reports \cup {Ignored}
  BY DEF ReceiveEvent, EventTypes, Events
<1>3. CASE Dropped
  BY <1>1, <1>3 DEF Dropped, routerVars
<1>4. CASE Head(events) \in Reports /\ KeyOf[Head(events)] \notin seen \cup {NoKey} /\ FirstSeen(Head(events))
  <2>1. hookCalls[Head(events)] = 0
    BY <1>4 DEF ServiceInv, HookMatchesGate
  <2> QED
    BY <1>1, <1>4, <2>1, KeyOfReports DEF FirstSeen
<1> QED
  BY <1>2, <1>3, <1>4 DEF ReceiveEvent, HandleEvent

\* Every step preserves the invariant.
LEMMA NextServiceInv == EventTypes /\ ServiceInv /\ [Next]_vars => ServiceInv'
<1> SUFFICES ASSUME EventTypes, ServiceInv, [Next]_vars PROVE ServiceInv'
  OBVIOUS
<1> USE DEF ServiceInv, OnlyTheCaller, monitorVars, channelVars, routerVars, resultVars, Shutdown
<1>1. ASSUME UNCHANGED <<seen, hookCalls>> PROVE HookMatchesGate'
  BY <1>1 DEF HookMatchesGate
<1>2. CASE UNCHANGED vars
  BY <1>1, <1>2 DEF vars
<1>3. CASE Cancel
  BY <1>1, <1>3 DEF Cancel
<1>4. CASE StartMonitors
  BY <1>1, <1>4 DEF StartMonitors, NoMonitors
<1>5. CASE ReceiveDone
  BY <1>1, <1>5 DEF ReceiveDone
<1>6. CASE ReceiveError
  <2>1. Head(errCh) \in Monitors /\ Head(errCh) # "none"
    BY <1>6, WatcherAssumption DEF ReceiveError, EventTypes
  <2> QED
    BY <1>1, <1>6, <2>1 DEF ReceiveError
<1>7. CASE ReceiveClosed
  BY <1>1, <1>7 DEF ReceiveClosed, Closed
<1>8. CASE ReceiveEvent
  <2>1. OnlyTheCaller'
    BY <1>8, HandleOutcome
  <2>2. HookMatchesGate'
    BY <1>1, <1>8, HandleOutcome DEF HookMatchesGate
  <2> QED
    BY <2>1, <2>2
<1>9. CASE DispatchOpen \/ DispatchNotify \/ WriteTelemetry
  BY <1>1, <1>9 DEF DispatchOpen, DispatchNotify, WriteTelemetry
<1>10. CASE Join
  BY <1>1, <1>10 DEF Join
<1>11. ASSUME NEW m \in Monitors, Monitor(m) PROVE ServiceInv'
  BY <1>1, <1>11 DEF Monitor, Emit, Deliver, AbandonSend, ReturnNil, Fail, CloseEvents, CheckError,
                     ReportError, outsideMonitors
<1>12. ASSUME NEW t \in Actions \X Keys, ReactionGoroutine(t) PROVE ServiceInv'
  BY <1>1, <1>12 DEF ReactionGoroutine, outsideReaction
<1>13. ASSUME NEW k \in Keys, TelemetryGoroutine(k) PROVE ServiceInv'
  BY <1>1, <1>13 DEF TelemetryGoroutine, outsideTelemetry
<1> QED
  BY <1>2, <1>3, <1>4, <1>5, <1>6, <1>7, <1>8, <1>9, <1>10, <1>11, <1>12, <1>13 DEF Next, StartStep

\* The invariants hold in every reachable state.
LEMMA ServiceInvariance == Spec => [](EventTypes /\ ServiceInv)
  BY InitEventTypes, NextEventTypes, InitServiceInv, NextServiceInv, PTL DEF Spec

\* The keys in the gate are the jobs that OnJobFound has heard of, before a
\* step and after it.
LEMMA FoundIsSeen == /\ HookMatchesGate => Found = seen
                     /\ HookMatchesGate' => Found' = seen'
<1>1. ASSUME HookMatchesGate PROVE Found = seen
  <2>1. \A r \in Reports : hookCalls[r] > 0 <=> hookCalls[r] = 1
    BY <1>1 DEF HookMatchesGate
  <2> QED
    BY <1>1, <2>1 DEF HookMatchesGate, Found
<1>2. ASSUME HookMatchesGate' PROVE Found' = seen'
  <2>1. \A r \in Reports : hookCalls'[r] > 0 <=> hookCalls'[r] = 1
    BY <1>2 DEF HookMatchesGate
  <2> QED
    BY <1>2, <2>1 DEF HookMatchesGate, Found
<1> QED
  BY <1>1, <1>2

\* Every step of the watcher is one of the service, or none the caller sees.
LEMMA StepIsServiceStep ==
  EventTypes /\ ServiceInv /\ ServiceInv' /\ [Next]_vars => [Service!Next]_(Service!vars)
<1> SUFFICES ASSUME EventTypes, ServiceInv, ServiceInv', [Next]_vars
             PROVE  [Service!Next]_(Service!vars)
  OBVIOUS
<1> USE DEF monitorVars, channelVars, routerVars, resultVars, Shutdown
<1>1. Found = seen /\ Found' = seen'
  BY FoundIsSeen DEF ServiceInv
<1>2. ASSUME UNCHANGED <<stop, seen>>, Result' = Result PROVE UNCHANGED Service!vars
  BY <1>1, <1>2 DEF Service!vars
<1>3. ASSUME UNCHANGED <<loop, resultVars>> PROVE Result' = Result
  BY <1>3 DEF Result
<1>4. CASE UNCHANGED vars
  BY <1>2, <1>3, <1>4 DEF vars
<1>5. CASE Cancel
  <2>1. ~stop /\ stop' = TRUE /\ UNCHANGED <<seen, loop, resultVars>>
    BY <1>5 DEF Cancel
  <2>2. Service!Cancel
    BY <1>1, <1>3, <2>1 DEF Service!Cancel
  <2> QED
    BY <2>2 DEF Service!Next
<1>6. CASE StartMonitors
  <2>1. loop = "start" /\ UNCHANGED <<stop, seen>>
    BY <1>6 DEF StartMonitors
  <2>2. CASE loop' = "select"
    BY <1>2, <2>1, <2>2 DEF Result
  <2>3. CASE loop' = "done" /\ err' = NoMonitors
    <3>1. Result = "none" /\ Result' = "error"
      BY <2>1, <2>3 DEF Result, NoMonitors
    <3>2. Service!Return("error") /\ UNCHANGED stop
      BY <1>1, <2>1, <3>1 DEF Service!Return
    <3> QED
      BY <3>2 DEF Service!Next
  <2> QED
    BY <1>6, <2>2, <2>3 DEF StartMonitors
<1>7. CASE ReceiveDone \/ ReceiveError \/ ReceiveClosed
  <2>1. loop = "select" /\ loop' = "join" /\ UNCHANGED <<stop, seen>>
    BY <1>7 DEF ReceiveDone, ReceiveError, ReceiveClosed
  <2> QED
    BY <1>2, <2>1 DEF Result
<1>8. CASE ReceiveEvent
  <2>1. loop = "select" /\ Result = "none" /\ Result' = "none" /\ UNCHANGED stop
    BY <1>8, HandleOutcome DEF Result
  <2>2. CASE UNCHANGED seen
    BY <1>2, <2>1, <2>2
  <2>3. CASE KeyOf[current'] \in Keys \ seen /\ seen' = seen \cup {KeyOf[current']}
    <3>1. Service!Find(KeyOf[current'])
      BY <1>1, <2>1, <2>3 DEF Service!Find
    <3> QED
      BY <2>1, <2>3, <3>1 DEF Service!Next
  <2> QED
    BY <1>8, <2>2, <2>3, HandleOutcome
<1>9. CASE DispatchOpen \/ DispatchNotify \/ WriteTelemetry
  <2>1. loop # "done" /\ loop' # "done" /\ UNCHANGED <<stop, seen>>
    BY <1>9 DEF DispatchOpen, DispatchNotify, WriteTelemetry
  <2> QED
    BY <1>2, <2>1 DEF Result
<1>10. CASE Join
  <2>1. loop = "join" /\ loop' = "done" /\ UNCHANGED <<stop, seen, err>>
    BY <1>10 DEF Join
  <2>2. Result = "none" /\ Result' \in {"nil", "error"} /\ (Result' = "nil" => stop)
    BY <2>1 DEF Result, ServiceInv, OnlyTheCaller
  <2>3. Service!Return(Result') /\ UNCHANGED stop
    BY <1>1, <2>1, <2>2 DEF Service!Return
  <2> QED
    BY <2>2, <2>3 DEF Service!Next
<1>11. ASSUME NEW m \in Monitors, Monitor(m) PROVE UNCHANGED Service!vars
  <2>1. UNCHANGED <<stop, seen, loop, resultVars>>
    BY <1>11 DEF Monitor, Emit, Deliver, AbandonSend, ReturnNil, Fail, CloseEvents, CheckError,
                 ReportError, outsideMonitors
  <2> QED
    BY <1>2, <1>3, <2>1
<1>12. ASSUME NEW t \in Actions \X Keys, ReactionGoroutine(t) PROVE UNCHANGED Service!vars
  BY <1>2, <1>3, <1>12 DEF ReactionGoroutine, outsideReaction
<1>13. ASSUME NEW k \in Keys, TelemetryGoroutine(k) PROVE UNCHANGED Service!vars
  BY <1>2, <1>3, <1>13 DEF TelemetryGoroutine, outsideTelemetry
<1> QED
  BY <1>4, <1>5, <1>6, <1>7, <1>8, <1>9, <1>10, <1>11, <1>12, <1>13 DEF Next, StartStep

\* OnJobFound hears of a job once and only while Start runs, and no failure of
\* a monitor is turned into nil, however many monitors there are.
THEOREM ServiceCorrect == Spec => ImplementsService
<1>1. Init => Service!Init
  BY DEF Init, Service!Init, Found, Result
<1> QED
  BY <1>1, StepIsServiceStep, ServiceInvariance, PTL DEF Spec, ImplementsService, Service!Spec

\* Where the reports of a posting have one key, it is reacted to once: the gate
\* needs nothing but agreement on keys (which cross_source shows missing).
THEOREM OncePerPostingCorrect ==
  ASSUME \A r, q \in Reports : PostingOf[r] = PostingOf[q] => KeyOf[r] = KeyOf[q]
  PROVE  Spec => []OncePerPosting
<1>1. ServiceInv => OncePerPosting
  BY DEF ServiceInv, HookMatchesGate, OncePerPosting
<1> QED
  BY <1>1, ServiceInvariance, PTL

\* A sequence with something put in front of it.
LEMMA Prefixed == ASSUME NEW S, NEW x \in S, NEW s \in Seq(S)
                  PROVE  (<<x>> \o s)[1] = x /\ <<x>> \o s # <<>>
<1>1. <<x>> \in Seq(S) /\ Len(<<x>>) = 1 /\ <<x>>[1] = x
  OBVIOUS
<1>2. Len(<<x>> \o s) = 1 + Len(s) /\ Len(s) \in Nat
  BY <1>1
<1>3. (<<x>> \o s)[1] = x
  BY <1>1
<1> QED
  BY <1>2, <1>3

\* The key of a url names its kind first.
LEMMA UrlKeyKinds ==
  ASSUME NEW url, UrlKey(url) # NoKey
  PROVE  <<"url">> \o UrlKey(url) # NoKey /\ (<<"url">> \o UrlKey(url))[1] = "url"
<1>1. \/ \E n : UrlKey(url) = <<"job", n>>
      \/ \E h, p, q : UrlKey(url) = <<"page", h, p, q>>
  BY DEF UrlKey
<1>2. \E S : UrlKey(url) \in Seq(S) /\ "url" \in S
  <2>1. ASSUME NEW n PROVE <<"job", n>> \in Seq({"url", "job", n})
    OBVIOUS
  <2>2. ASSUME NEW h, NEW p, NEW q
        PROVE  <<"page", h, p, q>> \in Seq({"url", "page", h, p, q})
    OBVIOUS
  <2>3. ASSUME NEW n, UrlKey(url) = <<"job", n>>
        PROVE  \E S : UrlKey(url) \in Seq(S) /\ "url" \in S
    <3>1. UrlKey(url) \in Seq({"url", "job", n}) /\ "url" \in {"url", "job", n}
      BY <2>1, <2>3
    <3> QED
      BY <3>1
  <2>4. ASSUME NEW h, NEW p, NEW q, UrlKey(url) = <<"page", h, p, q>>
        PROVE  \E S : UrlKey(url) \in Seq(S) /\ "url" \in S
    <3>1. UrlKey(url) \in Seq({"url", "page", h, p, q}) /\ "url" \in {"url", "page", h, p, q}
      BY <2>2, <2>4
    <3> QED
      BY <3>1
  <2> QED
    BY <1>1, <2>3, <2>4
<1> QED
  BY <1>2, Prefixed DEF NoKey

\* A job with an id has a key that is made of it and of nothing else.
LEMMA IdKey ==
  ASSUME NEW job, job.id # Blank
  PROVE  CanonicalKey(job) = <<"id", job.id>> /\ CanonicalKey(job) # NoKey
  BY DEF CanonicalKey, NoKey

\* A job without an id has a key of another kind, or none.
LEMMA OtherKey ==
  ASSUME NEW job, job.id = Blank
  PROVE  CanonicalKey(job) = NoKey \/ CanonicalKey(job)[1] \in {"url", "fp"}
<1>1. Fingerprint(job.facets) # NoKey => (<<"fp">> \o Fingerprint(job.facets))[1] = "fp"
  <2>1. <<job.facets>> \in Seq({"fp", job.facets})
    OBVIOUS
  <2>2. (<<"fp">> \o <<job.facets>>)[1] = "fp"
    BY <2>1, Prefixed
  <2> QED
    BY <2>2 DEF Fingerprint
<1>2. CASE UrlKey(job.url) # NoKey
  BY <1>2, UrlKeyKinds DEF CanonicalKey
<1>3. CASE UrlKey(job.url) = NoKey
  BY <1>1, <1>3 DEF CanonicalKey
<1> QED
  BY <1>2, <1>3

\* Two jobs that the gate takes for one have the same id or none: no posting hides
\* another one with an id of its own, and a report with an id is never recognised in
\* one without, however much of it their urls and titles share.
THEOREM KeysTellIds ==
  ASSUME NEW job, NEW other, CanonicalKey(job) = CanonicalKey(other), CanonicalKey(job) # NoKey
  PROVE  job.id = other.id
<1>1. ASSUME NEW j, NEW k, CanonicalKey(j) = CanonicalKey(k), CanonicalKey(j) # NoKey, j.id # Blank
      PROVE  j.id = k.id
  <2>1. CanonicalKey(j) = <<"id", j.id>> /\ CanonicalKey(j)[1] = "id"
    BY <1>1, IdKey
  <2>2. k.id # Blank
    BY <1>1, <2>1, OtherKey
  <2>3. CanonicalKey(k) = <<"id", k.id>>
    BY <2>2, IdKey
  <2>4. <<"id", j.id>> = <<"id", k.id>>
    BY <1>1, <2>1, <2>3
  <2>5. ASSUME NEW a, NEW b, <<"id", a>> = <<"id", b>> PROVE a = b
    BY <2>5
  <2> QED
    BY <2>4, <2>5
<1>2. CASE job.id # Blank \/ other.id # Blank
  BY <1>1, <1>2
<1> QED
  BY <1>2

\* A posting is reacted to once if all its reports carry its id, in whatever else
\* the sources differ.
THEOREM SameIdCorrect ==
  ASSUME \A r, q \in Reports : r # q /\ PostingOf[r] = PostingOf[q]
            => JobOf[r].id = JobOf[q].id /\ JobOf[r].id # Blank
  PROVE  Spec => []OncePerPosting
<1>1. ASSUME NEW r \in Reports, NEW q \in Reports, PostingOf[r] = PostingOf[q]
      PROVE  KeyOf[r] = KeyOf[q]
  <2>1. CASE r = q
    BY <2>1
  <2>2. CASE r # q
    <3>1. JobOf[r].id = JobOf[q].id /\ JobOf[r].id # Blank
      BY <1>1, <2>2
    <3>2. CanonicalKey(JobOf[r]) = CanonicalKey(JobOf[q])
      BY <3>1, IdKey
    <3> QED
      BY <3>2 DEF KeyOf
  <2> QED
    BY <2>1, <2>2
<1> QED
  BY <1>1, OncePerPostingCorrect

-----------------------------------------------------------------------------
(* Reactions *)

\* Everything that a job is owed has been dispatched.
Complete(k) == /\ \A a \in Actions : rTask[<<a, k>>] # "idle"
               /\ HasTelemetry => tTask[k] # "idle"

\* The inductive invariant: between two dispatches of a job, those behind.
CompleteInv ==
    /\ rTask = [t \in Actions \X Keys |-> rTask[t]]
    /\ tTask = [k \in Keys |-> tTask[k]]
    /\ loop \in Dispatching => current \in Reports /\ KeyOf[current] \in Keys
    /\ loop \in {"notify", "telemetry"} => rTask[<<"open", KeyOf[current]>>] # "idle"
    /\ loop = "telemetry" => rTask[<<"notify", KeyOf[current]>>] # "idle"
    /\ \A k \in seen : Complete(k) \/ (loop \in Dispatching /\ k = KeyOf[current])

\* What steps of the pools leave: no task becomes idle again.
ReactionsKept == /\ rTask' = [t \in Actions \X Keys |-> rTask'[t]]
                 /\ \A a \in Actions, k \in Keys :
                       rTask[<<a, k>>] # "idle" => rTask'[<<a, k>>] # "idle"

TelemetryKept == /\ tTask' = [k \in Keys |-> tTask'[k]]
                 /\ \A k \in Keys : tTask[k] # "idle" => tTask'[k] # "idle"

\* A pool starts what is dispatched to it, or sheds it, and takes no task back.
LEMMA TasksStart ==
  ASSUME CompleteInv
  PROVE  /\ \A a \in Actions, k \in Keys :
                Reaction!Dispatch(<<a, k>>) => ReactionsKept /\ rTask'[<<a, k>>] # "idle"
         /\ \A k \in Keys : Telemetry!Dispatch(k) => TelemetryKept /\ tTask'[k] # "idle"
<1>1. ASSUME NEW a \in Actions, NEW k \in Keys, Reaction!Dispatch(<<a, k>>)
      PROVE  ReactionsKept /\ rTask'[<<a, k>>] # "idle"
  <2>1. PICK s \in {"running", "shed"} : rTask' = [rTask EXCEPT ![<<a, k>>] = s]
    BY <1>1 DEF Reaction!Dispatch, Reaction!Start, Reaction!Shed
  <2> QED
    BY <2>1 DEF CompleteInv, ReactionsKept
<1>2. ASSUME NEW k \in Keys, Telemetry!Dispatch(k)
      PROVE  TelemetryKept /\ tTask'[k] # "idle"
  <2>1. PICK s \in {"running", "shed"} : tTask' = [tTask EXCEPT ![k] = s]
    BY <1>2 DEF Telemetry!Dispatch, Telemetry!Start, Telemetry!Shed
  <2> QED
    BY <2>1 DEF CompleteInv, TelemetryKept
<1> QED
  BY <1>1, <1>2

\* Nor does a goroutine take its task back, whatever its outcome.
LEMMA TasksGoOn ==
  ASSUME CompleteInv
  PROVE  /\ \A t \in Actions \X Keys : Reaction!Goroutine(t) => ReactionsKept
         /\ \A k \in Keys : Telemetry!Goroutine(k) => TelemetryKept
<1> DEFINE Ends == {"ending", "failed", "panicked", "done"}
<1>1. ASSUME NEW t \in Actions \X Keys, Reaction!Goroutine(t) PROVE ReactionsKept
  <2>1. PICK s \in Ends : rTask' = [rTask EXCEPT ![t] = s]
    BY <1>1, WatcherAssumption
       DEF Reaction!Goroutine, Reaction!Run, Reaction!Report, Reaction!Release
  <2> QED
    BY <2>1 DEF CompleteInv, ReactionsKept
<1>2. ASSUME NEW k \in Keys, Telemetry!Goroutine(k) PROVE TelemetryKept
  <2>1. PICK s \in Ends : tTask' = [tTask EXCEPT ![k] = s]
    BY <1>2, WatcherAssumption
       DEF Telemetry!Goroutine, Telemetry!Run, Telemetry!Report, Telemetry!Release
  <2> QED
    BY <2>1 DEF CompleteInv, TelemetryKept
<1> QED
  BY <1>1, <1>2

\* Every step preserves the invariant.
LEMMA NextCompleteInv == EventTypes /\ ServiceInv /\ CompleteInv /\ [Next]_vars => CompleteInv'
<1> SUFFICES ASSUME EventTypes, ServiceInv, CompleteInv, [Next]_vars PROVE CompleteInv'
  OBVIOUS
<1> USE DEF monitorVars, channelVars, routerVars, resultVars, reactionVars, telemetryVars,
            Dispatching, Complete, Actions
<1>0. seen \subseteq Keys
  BY DEF ServiceInv, HookMatchesGate
<1>1. ASSUME UNCHANGED <<rTask, tTask, current, seen>>, loop' = loop \/ {loop, loop'} \cap Dispatching = {}
      PROVE  CompleteInv'
  BY <1>1 DEF CompleteInv
<1>2. CASE UNCHANGED vars \/ Cancel
  BY <1>1, <1>2 DEF vars, Cancel
<1>3. CASE StartMonitors \/ ReceiveDone \/ ReceiveError \/ ReceiveClosed \/ Join
  BY <1>1, <1>3 DEF StartMonitors, ReceiveDone, ReceiveError, ReceiveClosed, Join, Shutdown
<1>4. CASE ReceiveEvent
  <2>1. UNCHANGED <<rTask, tTask>>
    BY <1>4 DEF ReceiveEvent
  <2> QED
    BY <1>1, <1>4, <2>1, HandleOutcome DEF CompleteInv
<1>5. CASE DispatchOpen
  <2>1. /\ loop = "open" /\ loop' = "notify" /\ UNCHANGED <<current, seen, tTask>>
        /\ Reaction!Dispatch(<<"open", KeyOf[current]>>)
    BY <1>5 DEF DispatchOpen
  <2>2. ReactionsKept /\ rTask'[<<"open", KeyOf[current]>>] # "idle"
    BY <2>1, TasksStart DEF CompleteInv
  <2> QED
    BY <1>0, <2>1, <2>2 DEF CompleteInv, ReactionsKept
<1>6. CASE DispatchNotify
  <2>1. /\ loop = "notify" /\ UNCHANGED <<seen, tTask>>
        /\ Reaction!Dispatch(<<"notify", KeyOf[current]>>)
        /\ IF HasTelemetry THEN loop' = "telemetry" /\ UNCHANGED current ELSE loop' = "select"
    BY <1>6 DEF DispatchNotify
  <2>2. ReactionsKept /\ rTask'[<<"notify", KeyOf[current]>>] # "idle"
    BY <2>1, TasksStart DEF CompleteInv
  <2> QED
    BY <1>0, <2>1, <2>2 DEF CompleteInv, ReactionsKept
<1>7. CASE WriteTelemetry
  <2>1. /\ loop = "telemetry" /\ loop' = "select" /\ UNCHANGED <<seen, rTask>>
        /\ Telemetry!Dispatch(KeyOf[current])
    BY <1>7 DEF WriteTelemetry
  <2>2. TelemetryKept /\ tTask'[KeyOf[current]] # "idle"
    BY <2>1, TasksStart DEF CompleteInv
  <2> QED
    BY <1>0, <2>1, <2>2 DEF CompleteInv, TelemetryKept
<1>8. ASSUME NEW m \in Monitors, Monitor(m) PROVE CompleteInv'
  BY <1>1, <1>8 DEF Monitor, Emit, Deliver, AbandonSend, ReturnNil, Fail, CloseEvents, CheckError,
                    ReportError, outsideMonitors
<1>9. ASSUME NEW t \in Actions \X Keys, ReactionGoroutine(t) PROVE CompleteInv'
  <2>1. UNCHANGED <<tTask, current, seen, loop>> /\ ReactionsKept
    BY <1>9, TasksGoOn DEF ReactionGoroutine, outsideReaction
  <2> QED
    BY <1>0, <2>1 DEF CompleteInv, ReactionsKept
<1>10. ASSUME NEW k \in Keys, TelemetryGoroutine(k) PROVE CompleteInv'
  <2>1. UNCHANGED <<rTask, current, seen, loop>> /\ TelemetryKept
    BY <1>10, TasksGoOn DEF TelemetryGoroutine, outsideTelemetry
  <2> QED
    BY <1>0, <2>1 DEF CompleteInv, TelemetryKept
<1> QED
  BY <1>2, <1>3, <1>4, <1>5, <1>6, <1>7, <1>8, <1>9, <1>10 DEF Next, StartStep

\* Backpressure on one dispatch never costs a job another one, whatever the
\* sizes of the pools.
THEOREM CompleteCorrect == Spec => []OnceAndCompletely
<1>1. Init => CompleteInv
  BY DEF Init, CompleteInv, Reaction!Init, Telemetry!Init, Dispatching
<1>2. ServiceInv /\ CompleteInv => OnceAndCompletely
  <2> SUFFICES ASSUME ServiceInv, CompleteInv, loop \in {"select", "join", "done"}, NEW k \in seen
               PROVE  /\ \E r \in Reports :
                            /\ {q \in Reports : KeyOf[q] = k /\ hookCalls[q] > 0} = {r}
                            /\ hookCalls[r] = 1
                      /\ Complete(k)
    BY DEF OnceAndCompletely, Complete
  <2>1. PICK r \in Reports : KeyOf[r] = k /\ hookCalls[r] = 1
    BY DEF ServiceInv, HookMatchesGate
  <2>2. {q \in Reports : KeyOf[q] = k /\ hookCalls[q] > 0} = {r}
    BY <2>1 DEF ServiceInv, HookMatchesGate
  <2> QED
    BY <2>1, <2>2 DEF CompleteInv, Dispatching
<1> QED
  BY <1>1, <1>2, ServiceInvariance, NextCompleteInv, PTL DEF Spec

-----------------------------------------------------------------------------
(* The return *)

\* A monitor that was never started, or has ended, does nothing.
Over(m) == mon[m] \in {"off", "exited"}

\* The inductive invariant: without a timeout Start returns after its monitors.
QuietInv == /\ \A m \in Monitors : m \notin enabled \/ loop = "start" => mon[m] = "off"
            /\ loop = "done" /\ ~timedOut => \A m \in Monitors : Over(m)

\* Every step preserves the invariant.
LEMMA NextQuietInv == EventTypes /\ QuietInv /\ [Next]_vars => QuietInv'
<1> SUFFICES ASSUME EventTypes, QuietInv, [Next]_vars PROVE QuietInv'
  OBVIOUS
<1> USE DEF QuietInv, Over, monitorVars, channelVars, routerVars, resultVars, Shutdown
<1>1. CASE StartMonitors
  BY <1>1 DEF StartMonitors
<1>2. CASE ReceiveDone \/ ReceiveError \/ ReceiveClosed
  BY <1>2 DEF ReceiveDone, ReceiveError, ReceiveClosed
<1>3. CASE ReceiveEvent
  <2>1. loop = "select" /\ loop' \in {"select", "open"} /\ UNCHANGED <<mon, enabled>>
    BY <1>3 DEF ReceiveEvent, HandleEvent, Dropped, FirstSeen
  <2> QED
    BY <2>1
<1>4. CASE DispatchOpen \/ DispatchNotify \/ WriteTelemetry
  BY <1>4 DEF DispatchOpen, DispatchNotify, WriteTelemetry
<1>5. CASE Join
  BY <1>5 DEF Join, Stopped
<1>6. ASSUME NEW m \in Monitors, Monitor(m) PROVE QuietInv'
  <2>1. ~Over(m)
    BY <1>6 DEF Monitor, Emit, Deliver, AbandonSend, ReturnNil, Fail, CloseEvents, CheckError,
                ReportError, SetMonitor
  <2>2. UNCHANGED <<enabled, loop, timedOut>> /\ (mon' = mon \/ \E s : mon' = [mon EXCEPT ![m] = s])
    BY <1>6 DEF Monitor, Emit, Deliver, AbandonSend, ReturnNil, Fail, CloseEvents, CheckError,
                ReportError, SetMonitor, outsideMonitors
  <2> QED
    BY <2>1, <2>2 DEF EventTypes
<1>7. CASE UNCHANGED <<enabled, loop, monitorVars, resultVars>>
  BY <1>7
<1> QED
  BY <1>1, <1>2, <1>3, <1>4, <1>5, <1>6, <1>7, OtherSteps DEF Next, StartStep

\* Unless Start reports a timeout, no monitor touches its channels any more.
THEOREM QuietCorrect == Spec => QuietAfterReturn
<1>1. Init => QuietInv
  BY DEF Init, QuietInv
<1>2. QuietInv /\ [Next]_vars => [loop = "done" /\ ~timedOut => UNCHANGED <<mon, events, errCh>>]_vars
  <2> SUFFICES ASSUME QuietInv, Next, loop = "done", ~timedOut
               PROVE  UNCHANGED <<mon, events, errCh>>
    OBVIOUS
  <2>1. ASSUME NEW m \in Monitors PROVE ~Monitor(m)
    BY DEF QuietInv, Over, Monitor, Emit, Deliver, AbandonSend, ReturnNil, Fail, CloseEvents,
           CheckError, ReportError, SetMonitor
  <2>2. ~StartStep
    BY DEF StartStep, StartMonitors, ReceiveDone, ReceiveError, ReceiveClosed, ReceiveEvent,
           DispatchOpen, DispatchNotify, WriteTelemetry, Join
  <2> QED
    BY <2>1, <2>2, OtherSteps DEF Next, monitorVars, channelVars
<1> QED
  BY <1>1, <1>2, ServiceInvariance, NextQuietInv, PTL DEF Spec, QuietAfterReturn
=============================================================================
