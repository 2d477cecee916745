-------------------------- MODULE WebSocketMonitor --------------------------
(***************************************************************************)
(* internal/monitor/websocket/monitor.go in discrete time: the connection  *)
(* and its read deadline, the two goroutines that help it, and the paced   *)
(* reconnection, against a server that answers pings, falls silent or      *)
(* hangs up and a consumer that takes events when it likes.                *)
(*                                                                         *)
(* Time passes only when no goroutine has anything to do.  A dial stands   *)
(* for both attempts of dialWithFallback and the write of the credentials. *)
(***************************************************************************)
EXTENDS Integers, Sequences

CONSTANTS Heartbeat,        \* effectiveHeartbeatInterval
          PongWait,         \* effectivePongWait
          Latency,          \* a server that is up answers a ping within this time
          MinWait, MaxWait, \* reconnectMinWait and reconnectMaxWait
          Jitter,           \* reconnectJitterFraction, in percent
          MaxFrames,        \* bound on the frames that wait to be read
          MaxRow            \* bound on the failures that are counted

\* Powers of two, as a function: 2^n is more than the provers know.
Pow2[n \in 0..MaxRow] == IF n = 0 THEN 1 ELSE 2 * Pow2[n - 1]

ASSUME SocketAssumption == /\ Heartbeat \in Nat \ {0} /\ PongWait \in Nat \ {0}
                           /\ Latency \in Nat /\ Latency < Heartbeat
                           /\ MinWait \in Nat \ {0} /\ MaxWait \in Nat /\ MinWait <= MaxWait
                           /\ Jitter \in 0..100
                           /\ MaxFrames \in Nat \ {0}
                           /\ MaxRow \in Nat \ {0} /\ MaxWait <= MinWait * Pow2[MaxRow - 1]

VARIABLES at,         \* where Start is
          stop,       \* its context is cancelled
          backoff,    \* Start's backoff
          pause,      \* time left to sleep
          server,     \* "up", "silent" or "gone", as seen from this connection
          inbox,      \* frames that wait to be read
          quiet,      \* time since the read deadline was set
          beat,       \* time since the heartbeat's ticker fired
          answer,     \* time until the pong arrives, or NoPong
          broken,     \* the connection has been closed on this side
          conn,       \* the current connection, 0 or 1
          beating,    \* connections whose heartbeat goroutine lives
          watching,   \* connections whose goroutine that waits for the context lives
          heldUp,     \* history: the consumer has left the last event waiting for PongWait
          silence,    \* history: time the reader has listened to a silent server
          row,        \* history: failures since a connection was last made
          slept       \* history: length of the last sleep between two dials

socketVars == <<server, inbox, quiet, beat, answer, broken>>
helperVars == <<beating, watching>>
listenVars == <<heldUp, silence>>
paceVars == <<backoff, pause, row, slept>>
vars == <<at, stop, conn, socketVars, helperVars, listenVars, paceVars>>

NoPong == -1
Smaller(a, b) == IF a < b THEN a ELSE b
Connected == at \in {"read", "deliver"}

TypeOK == /\ at \in {"dial", "read", "deliver", "report", "sleep", "done"}
          /\ stop \in BOOLEAN /\ broken \in BOOLEAN /\ heldUp \in BOOLEAN
          /\ backoff \in MinWait..MaxWait /\ pause \in 0..(2 * MaxWait)
          /\ server \in {"up", "silent", "gone"}
          /\ inbox \in Seq({"pong", "job", "other"}) /\ Len(inbox) <= 2 * MaxFrames + 1
          /\ quiet \in 0..PongWait /\ beat \in 0..Heartbeat
          /\ answer \in {NoPong} \cup 0..Latency
          /\ conn \in {0, 1} /\ beating \subseteq {0, 1} /\ watching \subseteq {0, 1}
          /\ silence \in 0..(PongWait + 1)
          /\ row \in 0..MaxRow /\ slept \in 0..(2 * MaxWait)

Init == /\ at = "dial" /\ stop = FALSE /\ conn = 0
        /\ server = "gone" /\ inbox = <<>> /\ quiet = 0 /\ beat = 0
        /\ answer = NoPong /\ broken = FALSE
        /\ beating = {} /\ watching = {}
        /\ heldUp = FALSE /\ silence = 0
        /\ backoff = MinWait /\ pause = 0 /\ row = 0 /\ slept = 0

-----------------------------------------------------------------------------
(* Start *)

\* Fault in Lost: the wait is not reset after a connection that worked.
LostUnreset(reset) == IF stop
                      THEN at' = "done" /\ UNCHANGED paceVars
                      ELSE /\ at' = "report"
                           /\ row' = IF reset THEN 1 ELSE Smaller(row + 1, MaxRow)
                           /\ UNCHANGED <<backoff, pause, slept>>

\* Start after runConnection has returned an error, which reset says came from
\* a connection that had been made.
Lost(reset) == IF stop
               THEN at' = "done" /\ UNCHANGED paceVars
               ELSE /\ at' = "report"
                    /\ backoff' = IF reset THEN MinWait ELSE backoff
                    /\ row' = IF reset THEN 1 ELSE Smaller(row + 1, MaxRow)
                    /\ UNCHANGED <<pause, slept>>

DialFails == /\ at = "dial"
             /\ Lost(FALSE)
             /\ UNCHANGED <<stop, conn, socketVars, helperVars, listenVars>>

\* The helpers of the connection before the last one have ended by now.
Connect == /\ at = "dial"
           /\ 1 - conn \notin beating \cup watching
           /\ at' = "read" /\ conn' = 1 - conn
           /\ server' = "up"
           /\ beating' = beating \cup {1 - conn} /\ watching' = watching \cup {1 - conn}
           /\ row' = 0 /\ slept' = 0
           /\ UNCHANGED <<stop, inbox, quiet, beat, answer, broken, listenVars, backoff, pause>>

\* applyReconnectJitter: what the random number may make of a wait; a result of
\* zero is replaced by the wait itself.
Jittered(base) == (IF base * (100 - Jitter) < 100 THEN 1 ELSE (base * (100 - Jitter)) \div 100)
                     ..((base * (100 + Jitter)) \div 100)

\* The error event is received and the wait is drawn; the next one is longer.
Report == /\ at = "report"
          /\ at' = "sleep"
          /\ pause' \in Jittered(backoff)
          /\ slept' = pause'
          /\ backoff' = Smaller(2 * backoff, MaxWait)
          /\ UNCHANGED <<stop, conn, row, socketVars, helperVars, listenVars>>

Redial == /\ at = "sleep" /\ pause = 0
          /\ at' = "dial"
          /\ UNCHANGED <<stop, conn, socketVars, helperVars, listenVars, paceVars>>

\* The context ends while the error event or the sleep waits.
GiveUp == /\ at \in {"report", "sleep"} /\ stop
          /\ at' = "done"
          /\ UNCHANGED <<stop, conn, socketVars, helperVars, listenVars, paceVars>>

-----------------------------------------------------------------------------
(* runConnection *)

\* The connection is closed and with it goes what was still to be read.
Hangup == /\ server' = "gone" /\ inbox' = <<>> /\ quiet' = 0 /\ beat' = 0
          /\ answer' = NoPong /\ broken' = FALSE
          /\ heldUp' = FALSE /\ silence' = 0

\* Fault in ReadFrame: a pong does not move the deadline.
ReadFrameOnly == /\ at = "read" /\ inbox # <<>> /\ ~broken
                 /\ inbox' = Tail(inbox)
                 /\ quiet' = IF Head(inbox) = "pong" THEN quiet ELSE 0
                 /\ IF Head(inbox) = "job" THEN at' = "deliver" ELSE UNCHANGED at
                 /\ heldUp' = FALSE
                 /\ UNCHANGED <<stop, conn, server, beat, answer, broken, helperVars,
                                silence, paceVars>>

\* A frame that is there may be read even after the deadline, from the buffer.  A
\* pong moves the deadline, and so does every message; a job goes to the consumer.
\* On a connection closed here the deadline cannot be set: the frame is dropped.
ReadFrame == /\ at = "read" /\ inbox # <<>> /\ ~broken
             /\ inbox' = Tail(inbox)
             /\ quiet' = 0
             /\ IF Head(inbox) = "job" THEN at' = "deliver" ELSE UNCHANGED at
             /\ heldUp' = FALSE
             /\ UNCHANGED <<stop, conn, server, beat, answer, broken, helperVars,
                            silence, paceVars>>

\* ReadMessage fails, and the deferred calls end the helpers.
ReadFails == /\ at = "read"
             /\ \/ quiet = PongWait
                \/ broken
                \/ server = "gone" /\ inbox = <<>>
             /\ Lost(TRUE)
             /\ Hangup
             /\ UNCHANGED <<stop, conn, helperVars>>

Deliver == /\ at = "deliver"
           /\ at' = "read"
           /\ UNCHANGED <<stop, conn, socketVars, helperVars, listenVars, paceVars>>

AbandonDeliver == /\ at = "deliver" /\ stop
                  /\ at' = "done"
                  /\ Hangup
                  /\ UNCHANGED <<stop, conn, helperVars, paceVars>>

-----------------------------------------------------------------------------
(* The helpers of a connection *)

\* Fault in Ping: sending a ping moves the deadline.
PingExtends == /\ conn \in beating /\ Connected /\ beat = Heartbeat /\ ~broken
               /\ beat' = 0 /\ quiet' = 0
               /\ IF server = "up" /\ answer = NoPong THEN answer' \in 0..Latency
                                                      ELSE UNCHANGED answer
               /\ UNCHANGED <<at, stop, conn, server, inbox, broken, helperVars,
                              listenVars, paceVars>>

\* The ticker fires and the ping is written: a server that is up will answer it.
Ping == /\ conn \in beating /\ Connected /\ beat = Heartbeat /\ ~broken
        /\ beat' = 0
        /\ IF server = "up" /\ answer = NoPong THEN answer' \in 0..Latency
                                               ELSE UNCHANGED answer
        /\ UNCHANGED <<at, stop, conn, server, inbox, quiet, broken, helperVars,
                       listenVars, paceVars>>

\* The ping cannot be written: the goroutine closes the connection and ends.
PingFails == /\ conn \in beating /\ Connected /\ beat = Heartbeat
             /\ broken \/ server # "up"
             /\ broken' = TRUE /\ beating' = beating \ {conn}
             /\ UNCHANGED <<at, stop, conn, server, inbox, quiet, beat, answer, watching,
                            listenVars, paceVars>>

\* Fault in HeartbeatEnds: cancelHeartbeat is not called.
HeartbeatOutlives(c) == /\ c \in beating /\ stop
                        /\ beating' = beating \ {c}
                        /\ UNCHANGED <<at, stop, conn, socketVars, watching, listenVars,
                                       paceVars>>

\* cancelHeartbeat has been called, or the context of Start is done.
HeartbeatEnds(c) == /\ c \in beating
                    /\ stop \/ ~Connected \/ c # conn
                    /\ beating' = beating \ {c}
                    /\ UNCHANGED <<at, stop, conn, socketVars, watching, listenVars,
                                   paceVars>>

\* Fault in WatcherEnds: the connection is left open.
WatcherIdles(c) == /\ c \in watching
                   /\ stop \/ ~Connected \/ c # conn
                   /\ watching' = watching \ {c}
                   /\ UNCHANGED <<at, stop, conn, socketVars, beating, listenVars, paceVars>>

\* The goroutine that closes the connection once the context is done, unless
\* done was closed before.
WatcherEnds(c) == /\ c \in watching
                  /\ stop \/ ~Connected \/ c # conn
                  /\ watching' = watching \ {c}
                  /\ broken' = (broken \/ (stop /\ Connected /\ c = conn))
                  /\ UNCHANGED <<at, stop, conn, server, inbox, quiet, beat, answer,
                                 beating, listenVars, paceVars>>

-----------------------------------------------------------------------------
(* The server, the caller and time *)

Frame(f) == IF f = "pong" /\ inbox # <<>> /\ inbox[Len(inbox)] = "pong"
            THEN inbox ELSE Append(inbox, f)

\* Pongs that wait next to each other count as one: they do the same.
Pong == /\ Connected /\ answer = 0 /\ ~broken
        /\ answer' = NoPong
        /\ inbox' = Frame("pong")
        /\ UNCHANGED <<at, stop, conn, server, quiet, beat, broken, helperVars,
                       listenVars, paceVars>>

Publish(f) == /\ Connected /\ server = "up" /\ ~broken
              /\ Len(SelectSeq(inbox, LAMBDA g : g # "pong")) < MaxFrames
              /\ inbox' = Frame(f)
              /\ UNCHANGED <<at, stop, conn, server, quiet, beat, answer, broken,
                             helperVars, listenVars, paceVars>>

ServerFails == /\ Connected /\ server = "up"
               /\ server' \in {"silent", "gone"}
               /\ answer' = NoPong
               /\ UNCHANGED <<at, stop, conn, inbox, quiet, beat, broken, helperVars,
                              listenVars, paceVars>>

Cancel == /\ ~stop /\ stop' = TRUE
          /\ UNCHANGED <<at, conn, socketVars, helperVars, listenVars, paceVars>>

\* Nothing is due: the reader has nothing to read and no deadline or ticker has fired.
Idle == /\ at = "read" => inbox = <<>> /\ quiet < PongWait /\ ~broken /\ server # "gone"
        /\ at = "sleep" => pause > 0
        /\ Connected => answer # 0
        /\ conn \in beating /\ Connected => beat < Heartbeat

Older(n, max) == Smaller(n + 1, max)

Tick == /\ at \in {"read", "deliver", "sleep"} /\ Idle
        /\ IF Connected
           THEN /\ quiet' = Older(quiet, PongWait)
                /\ beat' = IF conn \in beating THEN beat + 1 ELSE beat
                /\ answer' = IF answer > 0 THEN answer - 1 ELSE answer
                /\ heldUp' = (heldUp \/ (at = "deliver" /\ quiet' = PongWait))
                /\ silence' = IF at = "read" /\ server = "silent"
                              THEN Older(silence, PongWait + 1) ELSE silence
                /\ UNCHANGED pause
           ELSE /\ pause' = pause - 1
                /\ UNCHANGED <<quiet, beat, answer, listenVars>>
        /\ UNCHANGED <<at, stop, conn, server, inbox, broken, helperVars, backoff, row,
                       slept>>

-----------------------------------------------------------------------------
StartStep == \/ DialFails \/ Connect \/ Report \/ Redial \/ GiveUp
             \/ ReadFrame \/ ReadFails \/ Deliver \/ AbandonDeliver

HelperStep == \/ Ping \/ PingFails
              \/ \E c \in {0, 1} : HeartbeatEnds(c) \/ WatcherEnds(c)

Next == \/ StartStep \/ HelperStep \/ Cancel
        \/ Pong \/ ServerFails \/ (\E f \in {"job", "other"} : Publish(f)) \/ Tick

Spec == Init /\ [][Next]_vars

\* Goroutines run on and a select looks at a context that is done.  Nothing is
\* said of time: a property under this fairness holds without waiting for a
\* deadline, a ticker or the consumer.
Fairness == /\ WF_vars(DialFails \/ Connect) /\ WF_vars(GiveUp) /\ WF_vars(AbandonDeliver)
            /\ WF_vars(ReadFrame \/ ReadFails)
            /\ \A c \in {0, 1} : WF_vars(HeartbeatEnds(c)) /\ WF_vars(WatcherEnds(c))

FairSpec == Spec /\ Fairness

-----------------------------------------------------------------------------
\* A connection to a server that answers its pings in time is lost only when the
\* consumer has left one event waiting for all of PongWait: with nobody reading,
\* the pongs that would move the deadline stay unread.
LiveServerKept ==
    [][Heartbeat + Latency < PongWait /\ Connected /\ at' = "report" /\ server = "up" => heldUp]_vars

\* A server that has fallen silent without hanging up is given up when the
\* reader has listened for PongWait: no ping of ours moves the deadline.
SilenceEnds == silence <= PongWait

\* Between two dials the monitor sleeps the jittered wait for the number of
\* failures since a connection was last made: MinWait doubled for each, up to MaxWait.
DialsPaced == at = "dial" /\ row > 0 =>
                 slept \in Jittered(Smaller(MinWait * Pow2[row - 1], MaxWait))

\* Cancelling ends Start from wherever it waits, without waiting for a deadline.
StopReturns == stop ~> at = "done"

\* The goroutines of a connection end with it: none is left behind by a reconnection.
HelpersEnd == \A c \in {0, 1} :
                 (c \in beating \cup watching /\ c # conn) ~> c \notin beating \cup watching
=============================================================================
