------------------------------ MODULE MhdStream ------------------------------
(***************************************************************************)
(* The WebSocket side of the MHD preprocessor (ws_source.go): the loop     *)
(* over the configured endpoints and, for every connection, the goroutine  *)
(* that reads it, the watchdog that closes a stream without payload and    *)
(* the one that sends pings.  They share the connection and three Go       *)
(* channels.  What a record does is module MhdRuntime; here it only takes  *)
(* time.  Timers count down, so the clock needs no bound.                  *)
(***************************************************************************)
EXTENDS Integers, Sequences

CONSTANTS
  URLs,         \* number of configured endpoints
  IdleTimeout,  \* config.go: 45 s without payload
  PongWait,     \* ws_source.go: 75 s without any frame read
  PingInterval, \* ws_source.go: 25 s
  MaxConns      \* bound: connections whose goroutines still run; a slot is used again

ASSUME ConstantsAssumption ==
  /\ {URLs, IdleTimeout, PongWait, PingInterval} \subseteq Nat \ {0}
  /\ MaxConns \in Nat \ {0}

VARIABLES
  reader,  \* runWebSocketLoop: pc, the endpoint and the connection it reads
  conns    \* per connection: its state, its channels, its goroutines' timers

vars == <<reader, conns>>

-----------------------------------------------------------------------------
Slots == 1 .. MaxConns

\* "payload" parses, "junk" does not.
Frames == {"payload", "junk", "pong"}

Conn == [state : {"none", "open", "closed"}, closedBy : {"none", "watchdog", "peer", "reader"},
         frames : Seq(Frames), deadline : 0 .. PongWait,
         done : BOOLEAN, activity : BOOLEAN, idleSignal : BOOLEAN,
         watch : {"off", "select", "signal", "close"}, timer : 0 .. IdleTimeout, tick : BOOLEAN,
         keep : {"off", "wait"}, ping : 0 .. PingInterval,
         quiet : 0 .. IdleTimeout,                   \* history: time since a payload
         result : {"none", "idle", "error"}]

NotDialled ==
  [state |-> "none", closedBy |-> "none", frames |-> <<>>, deadline |-> 0,
   done |-> FALSE, activity |-> FALSE, idleSignal |-> FALSE, watch |-> "off", timer |-> 0,
   tick |-> FALSE, keep |-> "off", ping |-> 0, quiet |-> 0, result |-> "none"]

Dialled ==
  [NotDialled EXCEPT !.state = "open", !.deadline = PongWait, !.watch = "select",
                     !.timer = IdleTimeout, !.keep = "wait", !.ping = PingInterval]

Init ==
  /\ reader = [pc |-> "dial", url |-> 1, slot |-> 1]
  /\ conns = [g \in Slots |-> NotDialled]

\* conn.Close: the first to close it is remembered.
Closed(c, who) ==
  IF c.state = "open" THEN [c EXCEPT !.state = "closed", !.closedBy = who] ELSE c

-----------------------------------------------------------------------------
(* runWebSocketLoop, consumeAnyWebSocket, consumeWebSocket *)

\* Mutant: after an error the first endpoint is tried again.
FirstEndpoint == [reader EXCEPT !.pc = "dial", !.url = 1]

\* An endpoint that ended is followed by the next; the last one by the sleep.
NextEndpoint ==
  IF reader.url < URLs THEN [reader EXCEPT !.pc = "dial", !.url = @ + 1]
                       ELSE [reader EXCEPT !.pc = "sleep"]

Dial(g) ==
  /\ reader.pc = "dial"
  /\ conns[g].watch = "off" /\ conns[g].keep = "off"
  /\ reader' = [reader EXCEPT !.pc = "read", !.slot = g]
  /\ conns' = [conns EXCEPT ![g] = Dialled]

DialFails ==
  /\ reader.pc = "dial"
  /\ reader' = NextEndpoint
  /\ UNCHANGED conns

Sleep ==
  /\ reader.pc = "sleep"
  /\ reader' = [reader EXCEPT !.pc = "dial", !.url = 1]
  /\ UNCHANGED conns

\* ReadMessage returns a message: the deadline is set anew; a payload that
\* parses leaves its mark in activity, unless there is one.
ReadMessage(g) ==
  LET c == conns[g] IN
  /\ reader.pc = "read" /\ reader.slot = g
  /\ c.frames # <<>> /\ Head(c.frames) # "pong"
  /\ IF Head(c.frames) = "payload"
     THEN /\ conns' = [conns EXCEPT ![g].frames = Tail(@), ![g].deadline = PongWait,
                                    ![g].activity = TRUE, ![g].quiet = 0]
          /\ reader' = [reader EXCEPT !.pc = "process"]
     ELSE /\ conns' = [conns EXCEPT ![g].frames = Tail(@), ![g].deadline = PongWait]
          /\ UNCHANGED reader

\* ReadMessage meets a pong and reads on.
ReadPong(g) ==
  LET c == conns[g] IN
  /\ reader.pc = "read" /\ reader.slot = g
  /\ c.frames # <<>> /\ Head(c.frames) = "pong"
  /\ conns' = [conns EXCEPT ![g].frames = Tail(@), ![g].deadline = PongWait]
  /\ UNCHANGED reader

\* processLiveRecord returns, after however long its publications took.
Processed ==
  /\ reader.pc = "process"
  /\ reader' = [reader EXCEPT !.pc = "read"]
  /\ UNCHANGED conns

\* ReadMessage fails: closed by anyone (what the peer sent before it closed is
\* read first), or the deadline passed.  The idle signal decides what is returned;
\* the deferred close(done) and conn.Close follow.
ReadFails(g) ==
  LET c == conns[g] IN
  /\ reader.pc = "read" /\ reader.slot = g
  /\ \/ c.state = "closed" /\ (c.closedBy = "peer" => c.frames = <<>>)
     \/ c.deadline = 0
  /\ conns' = [conns EXCEPT ![g] =
       [Closed(c, "reader") EXCEPT !.result = IF c.idleSignal THEN "idle" ELSE "error",
                                   !.idleSignal = FALSE, !.done = TRUE,
                                   !.frames = <<>>, !.deadline = 0, !.quiet = 0]]
  /\ reader' = NextEndpoint

Reader == \/ DialFails \/ Sleep \/ Processed
          \/ \E g \in Slots : Dial(g) \/ ReadMessage(g) \/ ReadPong(g) \/ ReadFails(g)

-----------------------------------------------------------------------------
(* closeQuietStream: select takes any of its cases that is ready *)

WatchDone(g) ==
  /\ conns[g].watch = "select"
  /\ conns[g].done
  /\ conns' = [conns EXCEPT ![g].watch = "off"]
  /\ UNCHANGED reader

\* Mutant: the timer is reset and an expiry it had already sent is left.
ResetOnly(g) ==
  /\ conns[g].watch = "select"
  /\ conns[g].activity
  /\ conns' = [conns EXCEPT ![g].activity = FALSE, ![g].timer = IdleTimeout]
  /\ UNCHANGED reader

\* The timer is stopped, its channel drained, and reset.
WatchActivity(g) ==
  /\ conns[g].watch = "select"
  /\ conns[g].activity
  /\ conns' = [conns EXCEPT ![g].activity = FALSE, ![g].timer = IdleTimeout,
                            ![g].tick = FALSE]
  /\ UNCHANGED reader

WatchFires(g) ==
  /\ conns[g].watch = "select"
  /\ conns[g].tick
  /\ conns' = [conns EXCEPT ![g].tick = FALSE, ![g].watch = "signal"]
  /\ UNCHANGED reader

\* Mutant: the watchdog closes without having signalled.
CloseUnsignalled(g) ==
  /\ conns[g].watch = "signal"
  /\ conns' = [conns EXCEPT ![g] = [Closed(@, "watchdog") EXCEPT !.watch = "close"]]
  /\ UNCHANGED reader

WatchSignals(g) ==
  /\ conns[g].watch = "signal"
  /\ conns' = [conns EXCEPT ![g].idleSignal = TRUE, ![g].watch = "close"]
  /\ UNCHANGED reader

\* Mutant: the watchdog ends without closing.
WatchGivesUp(g) ==
  /\ conns[g].watch = "close"
  /\ conns' = [conns EXCEPT ![g].watch = "off"]
  /\ UNCHANGED reader

WatchCloses(g) ==
  /\ conns[g].watch = "close"
  /\ conns' = [conns EXCEPT ![g] = [Closed(@, "watchdog") EXCEPT !.watch = "off"]]
  /\ UNCHANGED reader

Watchdog(g) ==
  WatchDone(g) \/ WatchActivity(g) \/ WatchFires(g) \/ WatchSignals(g) \/ WatchCloses(g)

-----------------------------------------------------------------------------
(* keepWebSocketAlive and the peer *)

\* A ping is due: writing it fails on a closed connection; an open peer may
\* answer it.
KeepAlive(g) ==
  LET c == conns[g] IN
  /\ c.keep = "wait"
  /\ \/ /\ c.ping = 0 /\ c.state = "open"
        /\ \E answer \in {<<>>, <<"pong">>} :
             /\ Len(c.frames) + Len(answer) <= 1
             /\ conns' = [conns EXCEPT ![g].ping = PingInterval, ![g].frames = @ \o answer]
     \/ /\ c.done \/ (c.ping = 0 /\ c.state = "closed")
        /\ conns' = [conns EXCEPT ![g].keep = "off"]
  /\ UNCHANGED reader

PeerSends(g, f) ==
  /\ conns[g].state = "open"
  /\ conns[g].frames = <<>>
  /\ conns' = [conns EXCEPT ![g].frames = <<f>>]
  /\ UNCHANGED reader

PeerCloses(g) ==
  /\ conns[g].state = "open"
  /\ conns' = [conns EXCEPT ![g] = Closed(@, "peer")]
  /\ UNCHANGED reader

Peer(g) == PeerCloses(g) \/ \E f \in {"payload", "junk"} : PeerSends(g, f)

\* Time passes for every timer; the watchdog's leaves its tick when it expires.
Less(n) == IF n = 0 THEN 0 ELSE n - 1
Tick ==
  /\ conns' = [g \in Slots |->
       [conns[g] EXCEPT !.deadline = Less(@), !.ping = Less(@), !.timer = Less(@),
          !.tick = @ \/ (conns[g].timer = 1 /\ conns[g].watch = "select"),
          !.quiet = IF @ < IdleTimeout /\ conns[g].state = "open" THEN @ + 1 ELSE @]]
  /\ UNCHANGED reader

Next == \/ Reader \/ Tick
        \/ \E g \in Slots : Watchdog(g) \/ KeepAlive(g) \/ Peer(g)

Spec == Init /\ [][Next]_vars

\* Goroutines run, time passes, and a record is processed in finite time: the
\* publications it waits for return (RabbitClient!PublishersReturn).
FairSpec == /\ Spec
            /\ WF_vars(Reader) /\ WF_vars(Tick)
            /\ \A g \in Slots : WF_vars(Watchdog(g)) /\ WF_vars(KeepAlive(g))
-----------------------------------------------------------------------------
(* Properties *)

\* A stream the watchdog closed is reported as idle, never as a broken one,
\* although the two goroutines only meet at the closed connection.
IdleIsReported ==
  \A g \in Slots : conns[g].closedBy = "watchdog" => conns[g].result # "error"

\* The watchdog gives up on a stream only after IdleTimeout without a payload, or
\* when the notice of the last payload still waits in activity: the expiry of a
\* timer that was reset meanwhile is never taken for a new one.
OnlyQuietStreamsExpire ==
  \A g \in Slots :
    conns[g].state = "open" /\ conns[g].watch = "select" /\ conns[g].tick =>
      conns[g].quiet = IdleTimeout \/ conns[g].activity

\* A stream that stays open goes on delivering payload: the peer may answer pings
\* for ever, send what does not parse, or vanish without closing, but such a
\* stream is given up.
QuietStreamsEnd ==
  \A g \in Slots : <>[](conns[g].state = "open") => []<>(conns[g].quiet = 0)

\* Unless a stream lasts for ever, every configured endpoint is tried again and
\* again, whatever happens to the others.
EveryEndpointTried ==
  (\A g \in Slots : []<>(conns[g].state # "open")) =>
    \A u \in 1 .. URLs : []<>(reader.pc = "dial" /\ reader.url = u)
=============================================================================
