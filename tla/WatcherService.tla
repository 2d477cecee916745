--------------------------- MODULE WatcherService ---------------------------
(***************************************************************************)
(* What the caller of Watcher.Start (internal/app/watcher.go) may rely on, *)
(* without monitors, channels or reactions: OnJobFound hears of each job   *)
(* once and only while Start runs, and Start returns nil only to a caller  *)
(* that has cancelled.  WatcherPipeline implements this specification,     *)
(* TuiBridge uses it.                                                      *)
(***************************************************************************)
CONSTANT Jobs

VARIABLES stop,   \* the caller's context is cancelled
          found,  \* jobs OnJobFound has been called with
          result  \* what Start has returned, or "none"

vars == <<stop, found, result>>

Init == /\ stop = FALSE
        /\ found = {}
        /\ result = "none"

Cancel == /\ ~stop
          /\ stop' = TRUE
          /\ UNCHANGED <<found, result>>

\* The hook's part of a step and the return's part: the rest is the caller's.
Find(j) == /\ result = "none" /\ j \in Jobs \ found
           /\ found' = found \cup {j}
           /\ UNCHANGED result

Return(r) == /\ result = "none"
             /\ r = "nil" => stop
             /\ result' = r
             /\ UNCHANGED found

Next == \/ Cancel
        \/ \E j \in Jobs : Find(j) /\ UNCHANGED stop
        \/ \E r \in {"nil", "error"} : Return(r) /\ UNCHANGED stop

Spec == Init /\ [][Next]_vars
=============================================================================
