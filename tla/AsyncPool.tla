------------------------------ MODULE AsyncPool ------------------------------
(***************************************************************************)
(* internal/reaction/executor.go: a bounded pool of goroutines.  A task    *)
(* takes a slot without waiting or is shed; its goroutine runs the action, *)
(* reports an error or a recovered panic, and gives the slot back last     *)
(* (the deferred calls run in that order).  Nothing limits how long an     *)
(* action runs.  The telemetry writes of the router go through a pool of   *)
(* the same shape.                                                         *)
(***************************************************************************)
EXTENDS Integers, FiniteSets

CONSTANTS Tasks,       \* the asynchronous actions that may be dispatched
          MaxInFlight, \* capacity of the slots channel
          Outcomes     \* how an action may end: "ending", "failed", "panicked"

ASSUME PoolAssumption == /\ IsFiniteSet(Tasks)
                         /\ MaxInFlight \in Nat \ {0}
                         /\ Outcomes \subseteq {"ending", "failed", "panicked"}

VARIABLES slots,   \* tokens in the slots channel
          task,    \* task -> where its goroutine is
          reports  \* task -> what reportError or reportPanic was called with

vars == <<slots, task, reports>>

Holding == {"running", "failed", "panicked", "ending"}

TypeOK == /\ slots \in 0..MaxInFlight
          /\ task \in [Tasks -> Holding \cup {"idle", "shed", "done"}]
          /\ reports \in [Tasks -> {"none", "backpressure", "error", "panic"}]

Init == /\ slots = 0
        /\ task = [t \in Tasks |-> "idle"]
        /\ reports = [t \in Tasks |-> "none"]

\* dispatchAsync: the select with a default.
Start(t) == /\ slots < MaxInFlight
            /\ slots' = slots + 1
            /\ task' = [task EXCEPT ![t] = "running"]
            /\ UNCHANGED reports

Shed(t) == /\ slots = MaxInFlight
           /\ task' = [task EXCEPT ![t] = "shed"]
           /\ reports' = [reports EXCEPT ![t] = "backpressure"]
           /\ UNCHANGED slots

Dispatch(t) == Start(t) \/ Shed(t)

\* The action returns nil ("ending"), returns an error or panics.
Run(t) == /\ task[t] = "running"
          /\ \E outcome \in Outcomes :
                task' = [task EXCEPT ![t] = outcome]
          /\ UNCHANGED <<slots, reports>>

\* Fault in Report: the error path gives the slot back, and the deferred call again.
ReportReleases(t) == /\ task[t] \in {"failed", "panicked"}
                     /\ task' = [task EXCEPT ![t] = "ending"]
                     /\ reports' = [reports EXCEPT ![t] = "error"]
                     /\ slots' = slots - 1

\* reportError or reportPanic; a panic of the hook itself is swallowed.
Report(t) == /\ task[t] \in {"failed", "panicked"}
             /\ task' = [task EXCEPT ![t] = "ending"]
             /\ reports' = [reports EXCEPT ![t] =
                               IF task[t] = "failed" THEN "error" ELSE "panic"]
             /\ UNCHANGED slots

\* Fault in Release: not deferred, it is skipped after a panic.
ReleaseUnlessPanic(t) == /\ task[t] = "ending" /\ reports[t] # "panic"
                         /\ slots' = slots - 1
                         /\ task' = [task EXCEPT ![t] = "done"]
                         /\ UNCHANGED reports

\* The first deferred call, run last.
Release(t) == /\ task[t] = "ending"
              /\ slots' = slots - 1
              /\ task' = [task EXCEPT ![t] = "done"]
              /\ UNCHANGED reports

\* The steps of the goroutine of t.
Goroutine(t) == Run(t) \/ Report(t) \/ Release(t)

\* Each task is one call of dispatchAsync.
Next == \E t \in Tasks : (task[t] = "idle" /\ Dispatch(t)) \/ Goroutine(t)

Spec == Init /\ [][Next]_vars

\* Started goroutines are scheduled; actions need not return.
Fairness == \A t \in Tasks : WF_vars(Report(t) \/ Release(t))

FairSpec == Spec /\ Fairness

-----------------------------------------------------------------------------
\* The channel holds one token per goroutine that has not ended: no outcome of
\* an action, a panic included, leaks a slot or gives one back twice.
SlotAccounting == slots = Cardinality({t \in Tasks : task[t] \in Holding})

\* A dispatched action is never lost in silence: it ran to its end, holds a
\* slot, or was reported as shed; a failure is reported before the slot is free.
NothingLost == \A t \in Tasks : /\ task[t] = "shed" <=> reports[t] = "backpressure"
                                /\ task[t] \in {"idle", "running", "failed", "panicked"}
                                      => reports[t] = "none"

\* Once an action has returned, however it returned, its slot is given back.
SlotReturned == \A t \in Tasks :
                   task[t] \in {"failed", "panicked", "ending"} ~> task[t] = "done"
=============================================================================
