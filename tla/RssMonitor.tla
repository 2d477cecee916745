------------------------------ MODULE RssMonitor ------------------------------
(***************************************************************************)
(* internal/monitor/rss/monitor.go: the monitor against a feed that        *)
(* changes, a server that answers conditional requests, and a consumer of  *)
(* the events channel.  The timing is RssSchedule; the deduplication is    *)
(* that of DedupeGate, whose keys may expire.                              *)
(*                                                                         *)
(* ETag and Last-Modified are one validator, the version of the feed they  *)
(* were sent with.  The order of the items in a feed is left open.         *)
(***************************************************************************)
EXTENDS RssSchedule, FiniteSets

CONSTANTS Items,        \* feed items, by dedupeKey
          Keyless,      \* items without guid, link and title
          NoItem,
          MaxVersion,   \* bound on the changes of the feed
          MayExpire     \* whether keys may outlive the lifetime of the gate

VARIABLES feed,       \* item -> "absent", or present with a "low" or "high" reward
          version,    \* version of the feed
          stop,       \* the context of Start is cancelled
          validator,  \* Monitor.etag and lastModified: a version, or 0
          primed,     \* Monitor.primed
          marked,     \* keys in Monitor.dedupe
          todo,       \* what emitItems has still to look at: <<item, reward>>
          sending,    \* the item being sent, or NoItem
          emitted,    \* item -> events the consumer received (up to MaxCount)
          backlog,    \* the keyed items in the feed when priming ended
          expired,    \* keys the gate has dropped
          unread,     \* the stored validator came with a body that did not parse
          blind       \* the monitor primed itself on "not modified"

\* Where Start is, for the schedule: a fetch lasts until its items are sent, and
\* whoever reports an error, or has returned, waits.
ScheduleAt == CASE at = "emit" -> "fetch"
                [] at \in {"error", "done"} -> "wait"
                [] OTHER -> at

Schedule == INSTANCE RssSchedule WITH at <- ScheduleAt

ASSUME RssAssumption == /\ Keyless \subseteq Items /\ NoItem \notin Items
                        /\ MaxVersion \in Nat \ {0}
                        /\ MayExpire \in BOOLEAN

\* Bound on the events counted for an item.
MaxCount == 3

feedVars == <<feed, version>>
monitorVars == <<validator, primed, marked, todo, sending>>
historyVars == <<emitted, backlog, expired, unread, blind>>
vars == <<feedVars, stop, monitorVars, historyVars, scheduleVars, at>>

TypeOK == /\ feed \in [Items -> {"absent", "low", "high"}]
          /\ version \in 1..MaxVersion
          /\ stop \in BOOLEAN /\ primed \in BOOLEAN
          /\ validator \in 0..version
          /\ marked \subseteq Items \ Keyless
          /\ todo \subseteq Items \X {"low", "high"}
          /\ sending \in Items \cup {NoItem}
          /\ emitted \in [Items -> 0..MaxCount]
          /\ backlog \subseteq Items \ Keyless /\ expired \subseteq Items \ Keyless
          /\ unread \in BOOLEAN /\ blind \in BOOLEAN
          /\ at \in {"start", "invalid", "wait", "fetch", "emit", "error", "done"}
          /\ wait \in 0..MaxInt /\ failureCount \in 0..MaxFailures

Init == /\ feed \in [Items -> {"absent", "low", "high"}]
        /\ version = 1
        /\ stop = FALSE /\ validator = 0 /\ primed = FALSE
        /\ marked = {} /\ todo = {} /\ sending = NoItem
        /\ emitted = [i \in Items |-> 0]
        /\ backlog = {} /\ expired = {} /\ unread = FALSE /\ blind = FALSE
        /\ at = "start" /\ Schedule!ScheduleInit

-----------------------------------------------------------------------------
(* The environment *)

Publish == /\ version < MaxVersion
           /\ version' = version + 1
           /\ feed' \in [Items -> {"absent", "low", "high"}]
           /\ UNCHANGED <<stop, monitorVars, historyVars, scheduleVars, at>>

\* A key outlives its time in the gate.
Expire(i) == /\ MayExpire /\ i \in marked \ expired
             /\ marked' = marked \ {i}
             /\ expired' = expired \cup {i}
             /\ UNCHANGED <<feedVars, stop, validator, primed, todo, sending,
                            emitted, backlog, unread, blind, scheduleVars, at>>

Cancel == /\ ~stop /\ stop' = TRUE
          /\ UNCHANGED <<feedVars, monitorVars, historyVars, scheduleVars, at>>

TogglePause == /\ UNCHANGED <<feedVars, stop, monitorVars, historyVars, at>>
               /\ Schedule!ToggleFile

-----------------------------------------------------------------------------
(* Start's loop *)

Begin == /\ at = "start" /\ at' \in {"wait", "invalid"}
         /\ Schedule!FirstWait
         /\ UNCHANGED <<feedVars, stop, monitorVars, historyVars>>

Wake == /\ at = "wait" /\ at' \in {"wait", "fetch"}
        /\ Schedule!WaitOver
        /\ UNCHANGED <<feedVars, stop, monitorVars, historyVars>>

\* The context ends during a wait; there is no wait before the first fetch.
StopWaiting == /\ at = "wait" /\ wait > 0 /\ stop
               /\ at' = "done"
               /\ UNCHANGED <<feedVars, stop, monitorVars, historyVars, scheduleVars>>

\* What primeOnce and pollOnce do with an error, and Start after them.
Failed == /\ Schedule!Reschedule(FALSE)
          /\ at' = IF stop THEN "done" ELSE "error"
          /\ UNCHANGED <<primed, marked, todo, sending, emitted, backlog, expired, blind>>

\* Fault in FetchFails: the headers of an error response are stored.
FetchFailsStoring == /\ at = "fetch"
                     /\ Failed
                     /\ validator' = version
                     /\ UNCHANGED <<feedVars, stop, unread>>

\* The request fails, times out or is answered with an error status.
FetchFails == /\ at = "fetch"
              /\ Failed
              /\ UNCHANGED <<feedVars, stop, validator, unread>>

\* The headers, when there are any, are stored before the body is parsed, which then fails.
FetchBroken == /\ at = "fetch"
               /\ validator' \in {validator, version}
               /\ unread' = (unread \/ validator' # validator)
               /\ Failed
               /\ UNCHANGED <<feedVars, stop>>

\* Fault in KeyedIn: only what could be emitted is marked.
HighIn(body) == {i \in Items \ Keyless : <<i, "high">> \in body}

KeyedIn(body) == {i \in Items \ Keyless : \E r \in {"low", "high"} : <<i, r>> \in body}

\* primeOnce marks every item; pollOnce goes on to emitItems when there are any.
UseBody(body) ==
    /\ IF ~primed
       THEN /\ marked' = marked \cup KeyedIn(body)
            /\ primed' = TRUE
            /\ backlog' = {i \in Items \ Keyless : feed[i] # "absent"}
            /\ Schedule!Reschedule(TRUE) /\ at' = "wait"
            /\ UNCHANGED todo
       ELSE /\ IF body = {}
               THEN Schedule!Reschedule(TRUE) /\ at' = "wait"
               ELSE UNCHANGED scheduleVars /\ at' = "emit"
            /\ todo' = body
            /\ UNCHANGED <<marked, primed, backlog>>
    /\ UNCHANGED <<sending, emitted, expired>>

\* 304: the feed still has the version the stored validator names.
NotModified == /\ at = "fetch" /\ validator = version
               /\ UseBody({})
               /\ blind' = (blind \/ ~primed)
               /\ UNCHANGED <<feedVars, stop, validator, unread>>

\* 200 with a body, with a validator or without.
FetchOk == /\ at = "fetch"
           /\ validator' \in {validator, version}
           /\ UseBody({<<i, feed[i]>> : i \in {j \in Items : feed[j] # "absent"}})
           /\ unread' = (unread /\ validator' # version)
           /\ UNCHANGED <<feedVars, stop, blind>>

-----------------------------------------------------------------------------
(* emitItems *)

\* Fault in Look: the key is looked up and not inserted.
LookOnly(i, reward) ==
    /\ at = "emit" /\ sending = NoItem /\ <<i, reward>> \in todo
    /\ todo' = todo \ {<<i, reward>>}
    /\ IF reward = "low" \/ i \in marked THEN UNCHANGED sending ELSE sending' = i
    /\ UNCHANGED <<feedVars, stop, validator, primed, marked, historyVars, scheduleVars, at>>

\* shouldEmit: a low reward is skipped unmarked, a marked key is skipped, and
\* FirstSeen marks the key before the event is sent.
Look(i, reward) ==
    /\ at = "emit" /\ sending = NoItem /\ <<i, reward>> \in todo
    /\ todo' = todo \ {<<i, reward>>}
    /\ IF reward = "low" \/ i \in marked
       THEN UNCHANGED <<marked, sending>>
       ELSE /\ sending' = i
            /\ marked' = IF i \in Keyless THEN marked ELSE marked \cup {i}
    /\ UNCHANGED <<feedVars, stop, validator, primed, historyVars, scheduleVars, at>>

Send == /\ at = "emit" /\ sending # NoItem
        /\ emitted' = [emitted EXCEPT ![sending] = IF @ = MaxCount THEN @ ELSE @ + 1]
        /\ sending' = NoItem
        /\ UNCHANGED <<feedVars, stop, validator, primed, marked, todo, backlog, expired,
                       unread, blind, scheduleVars, at>>

\* Fault in AbandonSend: the send is not in a select with the end of the context.
AbandonSendNever == FALSE /\ UNCHANGED vars

\* The context ends while the consumer is not receiving: emitItems returns its
\* error and Start returns nil.
AbandonSend == /\ at = "emit" /\ sending # NoItem /\ stop
               /\ sending' = NoItem /\ todo' = {}
               /\ Schedule!Reschedule(FALSE) /\ at' = "done"
               /\ UNCHANGED <<feedVars, stop, validator, primed, marked, historyVars>>

\* Fault in EmitDone: the wait is not set again after items were sent.
EmitDoneAtOnce == /\ at = "emit" /\ sending = NoItem /\ todo = {}
                  /\ at' = "wait"
                  /\ UNCHANGED <<feedVars, stop, monitorVars, historyVars, scheduleVars>>

EmitDone == /\ at = "emit" /\ sending = NoItem /\ todo = {}
            /\ Schedule!Reschedule(TRUE) /\ at' = "wait"
            /\ UNCHANGED <<feedVars, stop, monitorVars, historyVars>>

\* The error event is received.
ReportError == /\ at = "error"
               /\ at' = "wait"
               /\ UNCHANGED <<feedVars, stop, monitorVars, historyVars, scheduleVars>>

\* The context ends first.
AbandonError == /\ at = "error" /\ stop
                /\ at' = "done"
                /\ UNCHANGED <<feedVars, stop, monitorVars, historyVars, scheduleVars>>

MonitorStep == \/ Begin \/ Wake \/ StopWaiting
               \/ FetchFails \/ FetchBroken \/ NotModified \/ FetchOk
               \/ (\E i \in Items, r \in {"low", "high"} : Look(i, r))
               \/ Send \/ AbandonSend \/ EmitDone
               \/ ReportError \/ AbandonError

Next == \/ Publish \/ Cancel \/ TogglePause \/ MonitorStep
        \/ \E i \in Items : Expire(i)

Spec == Init /\ [][Next]_vars

\* The goroutine runs on, a ready context ends a wait, and a server that is asked
\* again and again answers.  The consumer receives only while the context lasts:
\* after that nobody need take what is sent.
Fairness == /\ WF_vars(Begin) /\ WF_vars(Wake) /\ SF_vars(StopWaiting)
            /\ WF_vars(FetchFails \/ FetchOk) /\ SF_vars(FetchOk \/ NotModified)
            /\ WF_vars(\E i \in Items, r \in {"low", "high"} : Look(i, r))
            /\ WF_vars(~stop /\ Send) /\ WF_vars(AbandonSend)
            /\ WF_vars(~stop /\ ReportError) /\ WF_vars(AbandonError)
            /\ WF_vars(EmitDone)

FairSpec == Spec /\ Fairness

-----------------------------------------------------------------------------
\* Startup priming (README.md, ARCHITECTURE.md): an item that was in the feed
\* when the monitor had primed itself is never reported, whatever happens to its
\* reward or to the feed, until its key has expired.  The code breaks this.
NoStartupBurst == \A i \in backlog : emitted[i] = 0 \/ i \in expired

\* There is no other way to break it: a monitor that primed itself on a body it
\* read never reports an item of that first feed before its key has expired.
NoBurstIfRead == ~blind => NoStartupBurst

\* An item with a key is reported once, and once more at most for an expiry,
\* through all refetches, failures and conditional answers.
ReportedOnce == \A i \in Items \ Keyless :
                   emitted[i] <= (IF i \in expired THEN 2 ELSE 1)

\* Errors, abandoned sends and conditional answers included, the monitor keeps to
\* the schedule: what RssSchedule says of the distance between fetches is true here.
ImplementsSchedule == Schedule!ScheduleSpec

\* An item that stays in the feed with enough reward is noticed, in the first
\* feed or as a job, if the monitor goes on fetching (README.md, continuous
\* monitoring of the feed).  The code breaks this.
ItemNoticed ==
    \A i \in Items \ Keyless :
       (<>[](feed[i] = "high") /\ []<>(at = "fetch")) => <>(i \in marked \cup expired \/ stop)

\* The server says "not modified" of a feed the monitor could not read.
Hidden == unread /\ validator = version

\* Nothing else hides an item for good: neither a failed fetch, nor a broken body
\* of an earlier version, nor "not modified" after a body that was read.
NoticedUnlessHidden ==
    \A i \in Items \ Keyless :
       (<>[](feed[i] = "high") /\ []<>(at = "fetch"))
          => <>(i \in marked \cup expired \/ stop) \/ <>[]Hidden

\* Once its context ends, Start returns, from a wait, a pause, a fetch, or a send
\* or an error report that nobody receives.
StopReturns == stop ~> at \in {"done", "invalid"}
=============================================================================
