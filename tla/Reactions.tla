------------------------------ MODULE Reactions ------------------------------
(***************************************************************************)
(* internal/notify/notify.go in the pool of internal/reaction/executor.go: *)
(* what Open and Notify do between the start of their goroutine and its    *)
(* return.  Both run commands of the system, which may be missing, fail or *)
(* hang, and which the end of the context kills.                           *)
(***************************************************************************)
EXTENDS AsyncPool, Sequences

CONSTANTS Notifies,    \* the tasks that are calls of Notify; the others are Open
          Untitled,    \* those without a title, and the Opens without a url
          OpenBrowser, Desktop, Sound \* config.NotificationsConfig; Sound has a file

ASSUME ReactionAssumption == /\ Notifies \subseteq Tasks /\ Untitled \subseteq Tasks
                             /\ {"ending", "failed"} \subseteq Outcomes
                             /\ {OpenBrowser, Desktop, Sound} \subseteq BOOLEAN

VARIABLES cancelled, \* the context of the reactions has ended
          todo,      \* task -> the commands its call has not come to yet
          command,   \* task -> the command that runs, or "none"
          errs       \* task -> the commands that could not be run or failed

bodyVars == <<todo, command, errs>>
reactionVars == <<cancelled, bodyVars, vars>>

\* What Open and Notify are asked to do, in their order.
Commands(t) ==
    IF t \notin Notifies
    THEN IF OpenBrowser /\ t \notin Untitled THEN <<"browser">> ELSE <<>>
    ELSE (IF Desktop /\ t \notin Untitled THEN <<"desktop">> ELSE <<>>)
           \o (IF Sound THEN <<"sound">> ELSE <<>>)

ReactionInit == /\ Init
                /\ cancelled = FALSE
                /\ todo = [t \in Tasks |-> Commands(t)]
                /\ command = [t \in Tasks |-> "none"]
                /\ errs = [t \in Tasks |-> {}]

-----------------------------------------------------------------------------
Cancel == /\ ~cancelled
          /\ cancelled' = TRUE
          /\ UNCHANGED <<bodyVars, vars>>

InBody(t) == task[t] = "running" /\ command[t] = "none"

\* resolveCommand finds no program, or runner.Run starts the one it found.
BeginCommand(t) ==
    /\ InBody(t) /\ todo[t] # <<>>
    /\ todo' = [todo EXCEPT ![t] = Tail(@)]
    /\ \/ errs' = [errs EXCEPT ![t] = @ \cup {Head(todo[t])}] /\ UNCHANGED command
       \/ command' = [command EXCEPT ![t] = Head(todo[t])] /\ UNCHANGED errs
    /\ UNCHANGED <<cancelled, vars>>

\* The command ends by itself, well or not.
EndCommand(t) ==
    /\ command[t] # "none"
    /\ errs' \in {errs, [errs EXCEPT ![t] = @ \cup {command[t]}]}
    /\ command' = [command EXCEPT ![t] = "none"]
    /\ UNCHANGED <<cancelled, todo, vars>>

\* Fault in KillCommand: a sound is played without the context.
KillNoSound(t) ==
    /\ command[t] \notin {"none", "sound"} /\ cancelled
    /\ errs' = [errs EXCEPT ![t] = @ \cup {command[t]}]
    /\ command' = [command EXCEPT ![t] = "none"]
    /\ UNCHANGED <<cancelled, todo, vars>>

\* exec.CommandContext.
KillCommand(t) ==
    /\ command[t] # "none" /\ cancelled
    /\ errs' = [errs EXCEPT ![t] = @ \cup {command[t]}]
    /\ command' = [command EXCEPT ![t] = "none"]
    /\ UNCHANGED <<cancelled, todo, vars>>

\* Fault in EndBody: Notify returns the first error.
EndBodyEarly(t) == /\ InBody(t) /\ (todo[t] = <<>> \/ errs[t] # {})
                   /\ task' = [task EXCEPT ![t] = IF errs[t] = {} THEN "ending" ELSE "failed"]
                   /\ UNCHANGED <<slots, reports, cancelled, bodyVars>>

\* errors.Join.
EndBody(t) == /\ InBody(t) /\ todo[t] = <<>>
              /\ task' = [task EXCEPT ![t] = IF errs[t] = {} THEN "ending" ELSE "failed"]
              /\ UNCHANGED <<slots, reports, cancelled, bodyVars>>

\* A panic in any of this.
Panic(t) == /\ InBody(t) /\ "panicked" \in Outcomes
            /\ task' = [task EXCEPT ![t] = "panicked"]
            /\ UNCHANGED <<slots, reports, cancelled, bodyVars>>

Body(t) == BeginCommand(t) \/ EndCommand(t) \/ KillCommand(t) \/ EndBody(t) \/ Panic(t)

\* The pool's own steps.
Pool(t) == /\ (task[t] = "idle" /\ Dispatch(t)) \/ Report(t) \/ Release(t)
           /\ UNCHANGED <<cancelled, bodyVars>>

ReactionNext == Cancel \/ \E t \in Tasks : Body(t) \/ Pool(t)

\* Goroutines run on and a killed command ends; others need not.
ReactionSpec == /\ ReactionInit /\ [][ReactionNext]_reactionVars
                /\ \A t \in Tasks : WF_reactionVars(/\ Report(t) \/ Release(t)
                                                    /\ UNCHANGED <<cancelled, bodyVars>>)
                /\ \A t \in Tasks : WF_reactionVars(BeginCommand(t) \/ EndBody(t) \/ KillCommand(t))

-----------------------------------------------------------------------------
\* A notification that fails does not cost the job the sound: what a call was
\* asked to do was tried, all of it, and the call is reported as failed if any
\* of it failed and as nothing if none did, unless it panicked.
AllTried == \A t \in Tasks :
    task[t] = "done" /\ reports[t] # "panic" =>
        /\ todo[t] = <<>> /\ command[t] = "none"
        /\ reports[t] = "error" <=> errs[t] # {}

\* The end of the context ends every reaction, even one that hangs: the watcher
\* does not wait for them and nobody else would.
CancelEndsAll == \A t \in Tasks : cancelled /\ task[t] \in Holding ~> task[t] \notin Holding
=============================================================================
