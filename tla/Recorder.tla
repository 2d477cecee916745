------------------------------ MODULE Recorder ------------------------------
(***************************************************************************)
(* internal/state/recorder.go: callers Record job events into a bounded    *)
(* channel; one goroutine applies them in batches to the snapshot and      *)
(* saves it; Close stops the recording and waits for that goroutine.       *)
(*                                                                         *)
(* The store is a cell that Save replaces or leaves alone (StateStore has  *)
(* its steps).  Counters wrap at Modulus, as Go's int does at 2^64, which  *)
(* keeps the model finite while the calls go on for ever.  Snapshot() only *)
(* reads, and mu lets it in whenever runner is not "drain".                *)
(***************************************************************************)
EXTENDS Integers, SequencesExt

CONSTANTS Producers, Closers,   \* goroutines that call Record and Close
          Jobs,                 \* events of type EventJobFound that carry a job
          Other,                \* any other event
          Buffer, MaxJobs,      \* RecorderDeps
          Modulus               \* counters wrap here

ASSUME RecorderAssumption == /\ Buffer \in Nat \ {0} /\ MaxJobs \in Nat \ {0}
                             /\ Modulus \in Nat \ {0}
                             /\ Other \notin Jobs

VARIABLES producer,     \* Record's caller -> "idle", "locked" or "checked"
          closer,       \* Close's caller -> "idle", "once", "lock", "wait" or "returned"
          once,         \* closeOnce
          closed,       \* r.closed and r.events are closed
          events,       \* the channel's buffer
          runner,       \* run: "receive", "held", "drain", "save" or "exit"
          held,         \* the event run has received and not yet applied
          changed,      \* applyBatch's changed
          jobs, found,  \* r.snapshot: Jobs, newest first, and Stats.TotalFound
          saved,        \* what the store holds
          saveFailed,   \* the last Save failed
          newest, total \* history: jobs and found if all accepted events were applied

callVars == <<producer, closer, once, closed>>
runVars == <<runner, held, changed>>
snapshot == <<jobs, found>>
storeVars == <<saved, saveFailed>>
acceptVars == <<newest, total>>
vars == <<callVars, events, runVars, snapshot, storeVars, acceptVars>>

Events == Jobs \cup {Other}
IsJob(ev) == ev \in Jobs

\* The events that carry a job, in their order: SelectSeq(list, IsJob), in a form
\* that the provers can unfold.
JobsOf(list) == LET first[i \in 0..Len(list)] ==
                        IF i = 0 THEN <<>>
                        ELSE IF IsJob(list[i]) THEN Append(first[i - 1], list[i])
                        ELSE first[i - 1]
                IN first[Len(list)]

\* The job list cut to its newest MaxJobs entries.
Newest(list) == SubSeq(list, 1, IF Len(list) < MaxJobs THEN Len(list) ELSE MaxJobs)

JobLists == BoundedSeq(Jobs, MaxJobs)

TypeOK == /\ producer \in [Producers -> {"idle", "locked", "checked"}]
          /\ closer \in [Closers -> {"idle", "once", "lock", "wait", "returned"}]
          /\ once \in {"new", "running", "done"} /\ closed \in BOOLEAN
          /\ events \in BoundedSeq(Events, Buffer)
          /\ runner \in {"receive", "held", "drain", "save", "exit"}
          /\ held \in Events /\ changed \in BOOLEAN
          /\ jobs \in JobLists /\ found \in 0..(Modulus - 1)
          /\ saved \in JobLists \X (0..(Modulus - 1)) /\ saveFailed \in BOOLEAN
          /\ newest \in JobLists /\ total \in 0..(Modulus - 1)

\* NewRecorder; what Load returned does not matter to what follows.
Init == /\ producer = [p \in Producers |-> "idle"]
        /\ closer = [c \in Closers |-> "idle"]
        /\ once = "new" /\ closed = FALSE
        /\ events = <<>>
        /\ runner = "receive" /\ held = Other /\ changed = FALSE
        /\ jobs = <<>> /\ found = 0
        /\ saved = <<jobs, found>> /\ saveFailed = FALSE
        /\ newest = jobs /\ total = found

-----------------------------------------------------------------------------
(* Record *)

\* sendMu.RLock: a writer that waits for the lock keeps new readers out.
LockSend(p) == /\ producer[p] = "idle"
               /\ \A c \in Closers : closer[c] # "lock"
               /\ producer' = [producer EXCEPT ![p] = "locked"]
               /\ UNCHANGED <<closer, once, closed, events, runVars, snapshot, storeVars, acceptVars>>

CheckClosed(p) == /\ producer[p] = "locked"
                  /\ producer' = [producer EXCEPT ![p] = IF closed THEN "idle" ELSE "checked"]
                  /\ UNCHANGED <<closer, once, closed, events, runVars, snapshot, storeVars, acceptVars>>

\* The non-blocking send: a full channel refuses the event.
Send(p, ev) == /\ producer[p] = "checked"
               /\ producer' = [producer EXCEPT ![p] = "idle"]
               /\ IF Len(events) < Buffer
                  THEN /\ events' = Append(events, ev)
                       /\ IF IsJob(ev)
                          THEN newest' = Newest(<<ev>> \o newest) /\ total' = (total + 1) % Modulus
                          ELSE UNCHANGED acceptVars
                  ELSE UNCHANGED <<events, acceptVars>>
               /\ UNCHANGED <<closer, once, closed, runVars, snapshot, storeVars>>

-----------------------------------------------------------------------------
(* Close *)

\* closeOnce.Do: the first caller goes for sendMu, the others wait for it.
EnterOnce(c) == /\ closer[c] = "idle"
                /\ closer' = [closer EXCEPT ![c] = CASE once = "new" -> "lock"
                                                     [] once = "running" -> "once"
                                                     [] once = "done" -> "wait"]
                /\ once' = IF once = "new" THEN "running" ELSE once
                /\ UNCHANGED <<producer, closed, events, runVars, snapshot, storeVars, acceptVars>>

\* Fault in CloseChannels: the channels are closed without sendMu.
CloseUnlocked(c) == /\ closer[c] = "lock"
                    /\ closed' = TRUE /\ once' = "done"
                    /\ closer' = [closer EXCEPT ![c] = "wait"]
                    /\ UNCHANGED <<producer, events, runVars, snapshot, storeVars, acceptVars>>

\* sendMu.Lock is granted: both channels are closed under it.
CloseChannels(c) == /\ closer[c] = "lock"
                    /\ \A p \in Producers : producer[p] = "idle"
                    /\ closed' = TRUE /\ once' = "done"
                    /\ closer' = [closer EXCEPT ![c] = "wait"]
                    /\ UNCHANGED <<producer, events, runVars, snapshot, storeVars, acceptVars>>

LeaveOnce(c) == /\ closer[c] = "once" /\ once = "done"
                /\ closer' = [closer EXCEPT ![c] = "wait"]
                /\ UNCHANGED <<producer, once, closed, events, runVars, snapshot, storeVars, acceptVars>>

\* <-r.done
CloseReturn(c) == /\ closer[c] = "wait" /\ runner = "exit"
                  /\ closer' = [closer EXCEPT ![c] = "returned"]
                  /\ UNCHANGED <<producer, once, closed, events, runVars, snapshot, storeVars, acceptVars>>

-----------------------------------------------------------------------------
(* run and applyBatch *)

\* Fault in Apply: the newest job goes to the end of the list.
ApplyAtEnd(ev) == IF IsJob(ev) THEN /\ jobs' = Newest(jobs \o <<ev>>)
                                    /\ found' = (found + 1) % Modulus
                               ELSE UNCHANGED snapshot

\* What applyEventLocked does to the snapshot.
Apply(ev) == IF IsJob(ev) THEN /\ jobs' = Newest(<<ev>> \o jobs)
                               /\ found' = (found + 1) % Modulus
                          ELSE UNCHANGED snapshot

Receive == /\ runner = "receive" /\ events # <<>>
           /\ held' = Head(events) /\ events' = Tail(events)
           /\ runner' = "held"
           /\ UNCHANGED <<callVars, changed, snapshot, storeVars, acceptVars>>

\* Fault in Exit: the goroutine ends as soon as the recorder is closed.
ExitAtOnce == /\ runner = "receive" /\ closed
              /\ runner' = "exit"
              /\ UNCHANGED <<callVars, events, held, changed, snapshot, storeVars, acceptVars>>

\* A closed channel that is empty ends the goroutine, which closes done.
Exit == /\ runner = "receive" /\ events = <<>> /\ closed
        /\ runner' = "exit"
        /\ UNCHANGED <<callVars, events, held, changed, snapshot, storeVars, acceptVars>>

\* applyBatch gets mu and applies the event that run received.
ApplyFirst == /\ runner = "held"
              /\ Apply(held)
              /\ changed' = IsJob(held)
              /\ held' = Other
              /\ runner' = "drain"
              /\ UNCHANGED <<callVars, events, storeVars, acceptVars>>

\* Fault in ApplyNext: changed tells about the last event of the batch only.
ApplyNextForgets == /\ runner = "drain" /\ events # <<>>
                    /\ Apply(Head(events))
                    /\ changed' = IsJob(Head(events))
                    /\ events' = Tail(events)
                    /\ UNCHANGED <<callVars, runner, held, storeVars, acceptVars>>

\* The batch takes whatever arrives while it lasts.
ApplyNext == /\ runner = "drain" /\ events # <<>>
             /\ Apply(Head(events))
             /\ changed' = (changed \/ IsJob(Head(events)))
             /\ events' = Tail(events)
             /\ UNCHANGED <<callVars, runner, held, storeVars, acceptVars>>

\* Fault in EndBatch: a closed channel does not end the batch.
EndOpenBatch == /\ runner = "drain" /\ events = <<>> /\ ~closed
                /\ runner' = IF changed THEN "save" ELSE "receive"
                /\ UNCHANGED <<callVars, events, held, changed, snapshot, storeVars, acceptVars>>

EndBatch == /\ runner = "drain" /\ events = <<>>
            /\ runner' = IF changed THEN "save" ELSE "receive"
            /\ UNCHANGED <<callVars, events, held, changed, snapshot, storeVars, acceptVars>>

\* Save of the copy applyBatch returned; nothing else changes the snapshot.
Save == /\ runner = "save"
        /\ \/ saved' = snapshot /\ saveFailed' = FALSE
           \/ UNCHANGED saved /\ saveFailed' = TRUE
        /\ runner' = "receive"
        /\ UNCHANGED <<callVars, events, held, changed, snapshot, acceptVars>>

-----------------------------------------------------------------------------
Run == Receive \/ Exit \/ ApplyFirst \/ ApplyNext \/ EndBatch \/ Save

Record(p) == CheckClosed(p) \/ \E ev \in Events : Send(p, ev)

Close(c) == CloseChannels(c) \/ LeaveOnce(c) \/ CloseReturn(c)

Next == \/ Run
        \/ \E p \in Producers : LockSend(p) \/ Record(p)
        \/ \E c \in Closers : EnterOnce(c) \/ Close(c)

Spec == Init /\ [][Next]_vars

\* Every goroutine runs on; nobody need call Record or Close.
Fairness == /\ WF_vars(Run)
            /\ \A p \in Producers : WF_vars(Record(p))
            /\ \A c \in Closers : WF_vars(Close(c))

FairSpec == Spec /\ Fairness

-----------------------------------------------------------------------------
\* No event is sent on the closed channel: it would panic in the callback that
\* Record serves and take the program down (sendMu and the check of closed).
NoSendOnClosed == \A p \in Producers : producer[p] = "checked" => ~closed

\* Events accepted and not yet applied, in the order they were accepted.
Pending == (IF runner = "held" THEN <<held>> ELSE <<>>) \o events
PendingJobs == JobsOf(Pending)

\* The snapshot and what is still on its way make up what was accepted, no more
\* and no less: newest first, each once, the list cut at its end and the count
\* moving with the list, at every point where Snapshot() may look.
NothingLostOrReordered ==
    /\ newest = Newest(Reverse(PendingJobs) \o jobs)
    /\ total = (found + Len(PendingJobs)) % Modulus

\* Whenever run goes back to wait, the file holds the snapshot, unless the last
\* Save failed: a batch that ends with another kind of event is saved as well.
SavedUnlessFailed == runner \in {"receive", "exit"} => saved = snapshot \/ saveFailed

\* Close returns only when every accepted event is in the snapshot.
CloseDrains == \A c \in Closers : closer[c] = "returned" =>
                    jobs = newest /\ found = total /\ Pending = <<>>

\* Close returns, however many calls of Record and of Close are going on.
CloseReturns == \A c \in Closers : closer[c] # "idle" ~> closer[c] = "returned"
=============================================================================
