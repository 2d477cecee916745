-------------------------- MODULE ReactionsProofs --------------------------
(***************************************************************************)
(* No outcome of a task leaks a slot of the pool; the reactions are tasks  *)
(* of it, so that no command, however it ends, leaks one either; and every *)
(* call tries and reports all it was asked for.  All of it for any finite  *)
(* set of tasks, any capacity and any configuration.                       *)
(***************************************************************************)
EXTENDS Reactions, FiniteSetTheorems, TLAPS

-----------------------------------------------------------------------------
(* The pool *)

\* The tasks whose goroutine holds a token.
Holders == {t \in Tasks : task[t] \in Holding}

\* The inductive invariant: the type of slots follows from the guard of Start on
\* one side and from the tokens counted by SlotAccounting on the other.
IInv == TypeOK /\ SlotAccounting /\ NothingLost

\* The holders of slots are finitely many.
LEMMA HoldersFinite == IsFiniteSet(Holders) /\ IsFiniteSet(Holders')
<1>1. Holders \in SUBSET Tasks /\ Holders' \in SUBSET Tasks
  BY DEF Holders
<1> QED
  BY <1>1, FS_Subset, PoolAssumption

\* The initial states satisfy the invariant.
LEMMA InitIInv == Init => IInv
<1> SUFFICES ASSUME Init PROVE IInv
  OBVIOUS
<1>1. TypeOK /\ NothingLost
  BY PoolAssumption DEF Init, TypeOK, NothingLost
<1>2. {t \in Tasks : task[t] \in Holding} = {}
  BY DEF Init, Holding
<1> QED
  BY <1>1, <1>2, FS_EmptySet DEF IInv, SlotAccounting, Init

\* One step of dispatchAsync preserves the invariant.
LEMMA DispatchIInv ==
  ASSUME IInv, NEW t \in Tasks, task[t] = "idle", Dispatch(t)
  PROVE  IInv'
<1>1. CASE Start(t)
  <2>1. TypeOK'
    BY <1>1, PoolAssumption DEF IInv, TypeOK, Start, Holding
  <2>2. Holders' = Holders \cup {t} /\ t \notin Holders
    BY <1>1 DEF IInv, TypeOK, Start, Holders, Holding
  <2>3. Cardinality(Holders') = Cardinality(Holders) + 1
    BY <2>2, HoldersFinite, FS_AddElement
  <2>4. slots = Cardinality(Holders)
    BY DEF IInv, SlotAccounting, Holders
  <2>5. slots' = Cardinality(Holders')
    BY <1>1, <2>3, <2>4 DEF Start
  <2>6. NothingLost'
    BY <1>1 DEF IInv, TypeOK, NothingLost, Start
  <2> QED
    BY <2>1, <2>5, <2>6 DEF IInv, SlotAccounting, Holders
<1>2. CASE Shed(t)
  <2>1. TypeOK' /\ NothingLost'
    BY <1>2 DEF IInv, TypeOK, NothingLost, Shed, Holding
  <2>2. Holders' = Holders /\ slots' = slots
    BY <1>2 DEF IInv, TypeOK, Shed, Holders, Holding
  <2> QED
    BY <2>1, <2>2 DEF IInv, SlotAccounting, Holders
<1> QED
  BY <1>1, <1>2 DEF Dispatch

\* One step of a goroutine preserves the invariant.
LEMMA GoroutineIInv ==
  ASSUME IInv, NEW t \in Tasks, Goroutine(t)
  PROVE  IInv'
<1>1. CASE Run(t)
  <2>1. TypeOK' /\ NothingLost'
    BY <1>1, PoolAssumption DEF IInv, TypeOK, NothingLost, Run, Holding
  <2>2. Holders' = Holders /\ slots' = slots
    BY <1>1, PoolAssumption DEF IInv, TypeOK, Run, Holders, Holding
  <2> QED
    BY <2>1, <2>2 DEF IInv, SlotAccounting, Holders
<1>2. CASE Report(t)
  <2>1. TypeOK' /\ NothingLost'
    BY <1>2 DEF IInv, TypeOK, NothingLost, Report, Holding
  <2>2. Holders' = Holders /\ slots' = slots
    BY <1>2 DEF IInv, TypeOK, Report, Holders, Holding
  <2> QED
    BY <2>1, <2>2 DEF IInv, SlotAccounting, Holders
<1>3. CASE Release(t)
  <2>1. Holders' = Holders \ {t} /\ t \in Holders
    BY <1>3 DEF IInv, TypeOK, Release, Holders, Holding
  <2>2. Cardinality(Holders') = Cardinality(Holders) - 1
    BY <2>1, HoldersFinite, FS_RemoveElement
  <2>3. slots = Cardinality(Holders)
    BY DEF IInv, SlotAccounting, Holders
  <2>4. slots' = Cardinality(Holders')
    BY <1>3, <2>2, <2>3 DEF Release
  <2>5. Cardinality(Holders') \in Nat
    BY HoldersFinite, FS_CardinalityType
  <2>6. slots' \in 0..MaxInFlight
    BY <1>3, <2>4, <2>5, PoolAssumption DEF Release, IInv, TypeOK
  <2>7. TypeOK' /\ NothingLost'
    BY <1>3, <2>6 DEF IInv, TypeOK, NothingLost, Release, Holding
  <2> QED
    BY <2>4, <2>7 DEF IInv, SlotAccounting, Holders
<1> QED
  BY <1>1, <1>2, <1>3 DEF Goroutine

\* The invariant holds in every reachable state.
LEMMA Invariance == Spec => []IInv
<1>1. IInv /\ UNCHANGED vars => IInv'
  BY DEF IInv, TypeOK, SlotAccounting, NothingLost, vars
<1>2. IInv /\ [Next]_vars => IInv'
  BY <1>1, DispatchIInv, GoroutineIInv DEF Next
<1> QED
  BY InitIInv, <1>2, PTL DEF Spec

\* The slots in use are the goroutines alive: backpressure, errors and panics
\* neither leak a slot nor give one back twice.
THEOREM SlotsCorrect == Spec => []SlotAccounting
<1>1. IInv => SlotAccounting
  BY DEF IInv
<1> QED
  BY <1>1, Invariance, PTL

\* What is shed is reported, and reported as nothing else.
THEOREM LossCorrect == Spec => []NothingLost
<1>1. IInv => NothingLost
  BY DEF IInv
<1> QED
  BY <1>1, Invariance, PTL

\* The slots never exceed the capacity of the channel.
THEOREM TypeCorrect == Spec => []TypeOK
<1>1. IInv => TypeOK
  BY DEF IInv
<1> QED
  BY <1>1, Invariance, PTL

-----------------------------------------------------------------------------
(* The reactions are tasks of the pool *)

\* Every step of a call is a step of its task, or none of the pool's.
LEMMA StepIsPoolStep == [ReactionNext]_reactionVars => [Next]_vars
<1> SUFFICES ASSUME [ReactionNext]_reactionVars PROVE [Next]_vars
  OBVIOUS
<1>1. CASE UNCHANGED reactionVars
  BY <1>1 DEF reactionVars
<1>2. CASE Cancel
  BY <1>2 DEF Cancel
<1>3. ASSUME NEW t \in Tasks, BeginCommand(t) \/ EndCommand(t) \/ KillCommand(t)
      PROVE  UNCHANGED vars
  BY <1>3 DEF BeginCommand, EndCommand, KillCommand
<1>4. ASSUME NEW t \in Tasks, EndBody(t) PROVE Run(t)
  BY <1>4, ReactionAssumption DEF EndBody, InBody, Run
<1>5. ASSUME NEW t \in Tasks, Panic(t) PROVE Run(t)
  BY <1>5 DEF Panic, InBody, Run
<1>6. ASSUME NEW t \in Tasks, Pool(t) PROVE Next
  BY <1>6 DEF Pool, Next, Goroutine
<1> QED
  BY <1>1, <1>2, <1>3, <1>4, <1>5, <1>6 DEF ReactionNext, Body, Next, Goroutine

\* Open and Notify keep to what the executor asks of an action: the commands
\* they run are invisible to the pool.
THEOREM PoolCorrect == ReactionSpec => Spec
<1>1. ReactionInit => Init
  BY DEF ReactionInit
<1> QED
  BY <1>1, StepIsPoolStep, PTL DEF ReactionSpec, Spec

\* So the slots in use are the calls alive, whatever their commands do.
THEOREM ReactionSlotsCorrect == ReactionSpec => []SlotAccounting
  BY PoolCorrect, SlotsCorrect, PTL

-----------------------------------------------------------------------------
(* Every call tries and reports everything *)

\* The types that the proof rests on.
CallTypes == /\ task \in [Tasks -> Holding \cup {"idle", "shed", "done"}]
             /\ reports \in [Tasks -> {"none", "backpressure", "error", "panic"}]
             /\ todo = [t \in Tasks |-> todo[t]]
             /\ command = [t \in Tasks |-> command[t]]
             /\ errs = [t \in Tasks |-> errs[t]]

\* A command runs only inside a call; a call that is over has nothing left to
\* do, and the way it ended, or what was reported of it, tells of its errors.
CallInv(t) ==
    /\ command[t] # "none" => task[t] = "running"
    /\ task[t] \in {"idle", "running", "failed", "panicked"} => reports[t] = "none"
    /\ task[t] = "failed" => todo[t] = <<>> /\ errs[t] # {}
    /\ task[t] \in {"ending", "done"} /\ reports[t] # "panic" =>
          todo[t] = <<>> /\ (reports[t] = "error" <=> errs[t] # {})

\* The inductive invariant. AllTried speaks of calls that are done: the errors
\* must be right from the end of the body on, through the report.
CallsInv == CallTypes /\ \A t \in Tasks : CallInv(t)

\* Steps of the body of a call preserve the invariant.
LEMMA BodyCallsInv ==
  ASSUME CallsInv, NEW t \in Tasks, Body(t)
  PROVE  CallsInv'
<1> USE DEF CallsInv, CallTypes, CallInv, Holding, vars, bodyVars
<1>1. CASE BeginCommand(t)
  BY <1>1 DEF BeginCommand, InBody
<1>2. CASE EndCommand(t)
  BY <1>2 DEF EndCommand
<1>3. CASE KillCommand(t)
  BY <1>3 DEF KillCommand
<1>4. CASE EndBody(t)
  BY <1>4 DEF EndBody, InBody
<1>5. CASE Panic(t)
  BY <1>5 DEF Panic, InBody
<1> QED
  BY <1>1, <1>2, <1>3, <1>4, <1>5 DEF Body

\* Steps of the executor preserve the invariant.
LEMMA PoolCallsInv ==
  ASSUME CallsInv, NEW t \in Tasks, Pool(t)
  PROVE  CallsInv'
<1> USE DEF CallsInv, CallTypes, CallInv, Holding, bodyVars
<1>1. CASE task[t] = "idle" /\ Dispatch(t)
  BY <1>1 DEF Pool, Dispatch, Start, Shed
<1>2. CASE Report(t)
  BY <1>2 DEF Pool, Report
<1>3. CASE Release(t)
  BY <1>3 DEF Pool, Release
<1> QED
  BY <1>1, <1>2, <1>3 DEF Pool

\* A notification that fails, is missing or is killed costs the call neither
\* its sound nor its report.
THEOREM CallsCorrect == ReactionSpec => []AllTried
<1>1. ReactionInit => CallsInv
  BY DEF ReactionInit, Init, CallsInv, CallTypes, CallInv
<1>2. CallsInv /\ [ReactionNext]_reactionVars => CallsInv'
  <2> SUFFICES ASSUME CallsInv, [ReactionNext]_reactionVars PROVE CallsInv'
    OBVIOUS
  <2>1. CASE UNCHANGED reactionVars \/ Cancel
    BY <2>1 DEF reactionVars, bodyVars, vars, Cancel, CallsInv, CallTypes, CallInv
  <2> QED
    BY <2>1, BodyCallsInv, PoolCallsInv DEF ReactionNext
<1>3. CallsInv => AllTried
  BY DEF CallsInv, CallInv, AllTried
<1> QED
  BY <1>1, <1>2, <1>3, PTL DEF ReactionSpec
=============================================================================
