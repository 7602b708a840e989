----------------------------- MODULE MhdRuntime -----------------------------
(***************************************************************************)
(* The runtime of the MHD (public transport) preprocessor.  Four           *)
(* goroutines share the tables of runtime.go and the GTFS store:           *)
(*                                                                         *)
(*   ws       handles one live record at a time (processMatchedRecord),    *)
(*   closing  switches trips off once their reserve ran out                *)
(*            (closeExpiredInstances, one pass per tick),                  *)
(*   refresh  announces the trips of the current week (main, then          *)
(*            refreshGTFSPolling; registerCurrentWeekInstances),           *)
(*   updates  replaces sdInstances by what the Backend Core sent           *)
(*            (checkForSetOfSDInstancesUpdates).                           *)
(*                                                                         *)
(* Each critical section is one action, and so is each publication: the    *)
(* code publishes outside of every mutex.  Which trip a record matches is  *)
(* left open here (module MhdTimetable chooses it); a match always lies in *)
(* the matching window.                                                    *)
(***************************************************************************)
EXTENDS Integers, Sequences, FiniteSets

CONSTANTS
  UIDs,             \* trip instances
  Occurrences,      \* [UIDs -> sets of [start, end]]: the timetable
  StartedAt,        \* preprocessorStartedAt
  TripEndReserve,   \* config.go: 10 min after the scheduled end
  MatchingWindow,   \* config.go: 30 min around the scheduled trip
  StartupGrace,     \* config.go: 60 s without synthetic starts
  Jitter,           \* config.go: synthetic times are +- 500 ms
  OrderedSource,    \* TRUE: the source never sends an older record of a trip
  MaxTime,          \* bound: the clock stops here
  MaxRecords,       \* bound: live records handled
  MaxRefreshes,     \* bound: passes of the GTFS refresh, the first included
  MaxFailures,      \* bound: publications that fail
  MaxUpdates        \* bound: configuration updates the core sends

ASSUME ConstantsAssumption ==
  /\ {StartedAt, TripEndReserve, MatchingWindow, StartupGrace, Jitter} \subseteq Nat
  /\ {MaxTime, MaxRecords, MaxRefreshes, MaxFailures, MaxUpdates} \subseteq Nat
  /\ OrderedSource \in BOOLEAN
  /\ UIDs # {}

ASSUME ScheduleAssumption ==
  \A u \in UIDs : Occurrences[u] \subseteq [start : Nat, end : Nat]

\* The reserve (10 min) exceeds the jitter (500 ms).
ASSUME ReserveAssumption == Jitter < TripEndReserve

VARIABLES
  now,                 \* wall clock, UTC
  instanceStates,      \* the map of runtimeInstanceState; ~seen means no entry
  ws,                  \* locals of the WebSocket goroutine
  toClose,             \* locals of closeExpiredInstances: messages still to send
  week,                \* store.definitionsByUID
  refresh,             \* locals of registerCurrentWeekInstances
  registeredWeekUIDs,  \* store.registeredWeekUIDs
  sdInstances,         \* uids of the set, confirmed or not
  kpi,                 \* per trip, the state messages published, in order
  requests,            \* registration requests the core has yet to handle
  requested,           \* per trip, the registration requests published so far
  lost,                \* trips with a registration request that failed to publish
  coreKnown,           \* trips the Backend Core knows
  updates,             \* messages in set-of-sd-instances-updates
  used                 \* how much of each bound is used up

stateVars == <<now, instanceStates>>
regVars   == <<week, refresh, registeredWeekUIDs>>
coreVars  == <<requests, requested, lost, coreKnown, updates>>
vars == <<stateVars, ws, toClose, regVars, sdInstances, kpi, coreVars, used>>

-----------------------------------------------------------------------------
(* Values *)

Kinds  == {"start", "active", "inactive", "close"}
Message == [kind : Kinds, time : Int]
Messages  == Seq(Message)                 \* state messages of one trip
Snapshots == Seq(SUBSET UIDs)             \* updates in the queue
Offsets == -Jitter .. Jitter              \* what jitterTime may add

WsPCs == {"read", "check", "request", "mark", "update", "start", "report"}

\* What time and occurrence of uid a record may be matched to (matchLiveRecord).
InWindow(o, ts) == ts \in (o.start - MatchingWindow) .. (o.end + MatchingWindow)

AnyUID   == CHOOSE u \in UIDs : TRUE      \* the locals of an idle goroutine
Reading  == [pc |-> "read", uid |-> AnyUID, closeAt |-> 0, ts |-> 0,
             inactive |-> FALSE, wasActive |-> FALSE]
NoState  == [active |-> FALSE, seen |-> FALSE, source |-> 0, closeAt |-> 0]
NotDue   == [due |-> FALSE, time |-> 0]
Bounds   == [records : 0 .. MaxRecords, refreshes : 0 .. MaxRefreshes,
             failures : 0 .. MaxFailures, sent : 0 .. MaxUpdates, applied : Nat]

InstanceState == [active : BOOLEAN, seen : BOOLEAN, source : Int, closeAt : Int]
WsLocals      == [pc : WsPCs, uid : UIDs, closeAt : Int, ts : Int, inactive : BOOLEAN,
                  wasActive : BOOLEAN]
Closing       == [due : BOOLEAN, time : Int]

\* kpi with m appended to u's messages
Appended(u, m) == [kpi EXCEPT ![u] = Append(@, m)]

Fail == /\ used.failures < MaxFailures
        /\ used' = [used EXCEPT !.failures = @ + 1]

\* publishStates with one message: it is published, or the error is logged.
PublishState(u, m) ==
  \/ kpi' = Appended(u, m) /\ UNCHANGED used
  \/ Fail /\ UNCHANGED kpi

\* publishSDInstanceRegistrations: on an error the batches before the failing
\* one are out already.
PublishRegistrations(S) ==
  \/ /\ requests' = requests \cup S
     /\ requested' = [u \in UIDs |-> IF u \in S THEN requested[u] + 1 ELSE requested[u]]
     /\ UNCHANGED <<lost, used>>
  \/ /\ S # {}
     /\ Fail
     /\ \E done \in SUBSET S :
          /\ done # S
          /\ requests' = requests \cup done
          /\ requested' = [u \in UIDs |-> IF u \in done THEN requested[u] + 1
                                                        ELSE requested[u]]
          /\ lost' = lost \cup (S \ done)

-----------------------------------------------------------------------------
(* Initial state: main has registered the type; the first refresh is next *)

Init ==
  /\ now = StartedAt
  /\ instanceStates = [u \in UIDs |-> NoState]
  /\ ws = Reading
  /\ toClose = [u \in UIDs |-> NotDue]
  /\ week = {}
  /\ refresh = [pc |-> "wait", uid |-> AnyUID, todo |-> {}, batch |-> {}]
  /\ registeredWeekUIDs = {}
  /\ sdInstances = {}
  /\ kpi = [u \in UIDs |-> <<>>]
  /\ requests = {}
  /\ requested = [u \in UIDs |-> 0]
  /\ lost = {}
  /\ coreKnown \in SUBSET UIDs         \* from earlier runs of the preprocessor
  /\ updates = <<>>
  /\ used = [records |-> 0, refreshes |-> 0, failures |-> 0, sent |-> 0, applied |-> 0]

-----------------------------------------------------------------------------
(* The WebSocket goroutine *)

\* main starts the closing loop and the WebSocket loop after the first pass of
\* registerCurrentWeekInstances.
Started == used.refreshes > 1 \/ (used.refreshes = 1 /\ refresh.pc = "wait")

\* processLiveRecord: a record arrives and matches an occurrence of u.
ReceiveRecord(u, o, ts, inactive) ==
  /\ Started
  /\ ws.pc = "read"
  /\ used.records < MaxRecords
  /\ u \in week
  /\ InWindow(o, ts)
  /\ OrderedSource => ts >= instanceStates[u].source
  /\ ws' = [ws EXCEPT !.pc = "check", !.uid = u, !.closeAt = o.end + TripEndReserve,
                      !.ts = ts, !.inactive = inactive]
  /\ used' = [used EXCEPT !.records = @ + 1]
  /\ UNCHANGED <<stateVars, toClose, regVars, sdInstances, kpi, coreVars>>

\* registerInstanceIfNeeded: shouldRegisterInstance under sdInstancesMutex.
CheckRegistered ==
  /\ ws.pc = "check"
  /\ ws' = [ws EXCEPT !.pc = IF ws.uid \in sdInstances THEN "update" ELSE "request"]
  /\ UNCHANGED <<stateVars, toClose, regVars, sdInstances, kpi, coreVars, used>>

\* Mutant: the request is built and never handed over.
RequestForgotten ==
  /\ ws.pc = "request"
  /\ ws' = [ws EXCEPT !.pc = "mark"]
  /\ UNCHANGED <<stateVars, toClose, regVars, sdInstances, kpi, coreVars, used>>

\* registerInstanceIfNeeded: the request, its error only logged.
RequestRegistration ==
  /\ ws.pc = "request"
  /\ PublishRegistrations({ws.uid})
  /\ ws' = [ws EXCEPT !.pc = "mark"]
  /\ UNCHANGED <<stateVars, toClose, regVars, sdInstances, kpi, coreKnown, updates>>

\* Mutant: the record path forgets what it has requested.
MarkForgotten ==
  /\ ws.pc = "mark"
  /\ ws' = [ws EXCEPT !.pc = "update"]
  /\ UNCHANGED <<stateVars, toClose, regVars, sdInstances, kpi, coreVars, used>>

\* markInstanceRegistered
MarkRegistered ==
  /\ ws.pc = "mark"
  /\ sdInstances' = sdInstances \cup {ws.uid}
  /\ ws' = [ws EXCEPT !.pc = "update"]
  /\ UNCHANGED <<stateVars, toClose, regVars, kpi, coreVars, used>>

\* needsSyntheticStart, and its mutant that forgets SeenSinceStart.
StartsEveryTime(s) == now - StartedAt > StartupGrace
NeedsStart(s) == ~s.seen /\ now - StartedAt > StartupGrace

\* An inactive record is published only when it ends something; its mutant
\* publishes active records only.
ReportsActive(wasActive) == ~ws.inactive
Reports(wasActive) == ~ws.inactive \/ wasActive

\* processMatchedRecord under instanceStatesMutex.
UpdateState ==
  LET s == instanceStates[ws.uid]
  IN /\ ws.pc = "update"
     /\ instanceStates' = [instanceStates EXCEPT ![ws.uid] =
          [active |-> ~ws.inactive, seen |-> TRUE, source |-> ws.ts, closeAt |-> ws.closeAt]]
     /\ ws' = IF NeedsStart(s) \/ Reports(s.active)
              THEN [ws EXCEPT !.pc = IF NeedsStart(s) THEN "start" ELSE "report",
                              !.wasActive = s.active]
              ELSE Reading
     /\ UNCHANGED <<now, toClose, regVars, sdInstances, kpi, coreVars, used>>

\* The synthetic inactive message around the time the process was started.
PublishStart ==
  /\ ws.pc = "start"
  /\ \E d \in Offsets :
       PublishState(ws.uid, [kind |-> "start", time |-> StartedAt + d])
  /\ ws' = IF Reports(ws.wasActive) THEN [ws EXCEPT !.pc = "report"] ELSE Reading
  /\ UNCHANGED <<stateVars, toClose, regVars, sdInstances, coreVars>>

\* The record's own state, at the source's time.
PublishReport ==
  /\ ws.pc = "report"
  /\ PublishState(ws.uid, [kind |-> IF ws.inactive THEN "inactive" ELSE "active",
                           time |-> ws.ts])
  /\ ws' = Reading
  /\ UNCHANGED <<stateVars, toClose, regVars, sdInstances, coreVars>>

WebSocket ==
  \/ \E u \in UIDs : \E o \in Occurrences[u], ts \in 0 .. now, i \in BOOLEAN :
        ReceiveRecord(u, o, ts, i)
  \/ CheckRegistered \/ RequestRegistration \/ MarkRegistered
  \/ UpdateState \/ PublishStart \/ PublishReport

-----------------------------------------------------------------------------
(* The closing loop *)

\* Mutants: closing at once; closing only on the very tick of CloseAt.
ExpiredAtOnce == {u \in UIDs : instanceStates[u].active}
ExpiredOnTick == {u \in UIDs : instanceStates[u].active /\ instanceStates[u].closeAt = now}

\* The active trips whose CloseAt has come.
Expired == {u \in UIDs : instanceStates[u].active /\ instanceStates[u].closeAt <= now}

\* closeExpiredInstances under instanceStatesMutex, on a tick of the loop.
CloseExpired ==
  /\ Started
  /\ \A u \in UIDs : ~toClose[u].due
  /\ Expired # {}
  /\ instanceStates' = [u \in UIDs |-> IF u \in Expired
                                       THEN [instanceStates[u] EXCEPT !.active = FALSE]
                                       ELSE instanceStates[u]]
  /\ \E d \in [UIDs -> Offsets] :
       /\ \A u \in UIDs \ Expired : d[u] = 0
       /\ toClose' = [u \in UIDs |-> IF u \in Expired
                        THEN [due |-> TRUE, time |-> instanceStates[u].closeAt + d[u]]
                        ELSE NotDue]
  /\ UNCHANGED <<now, ws, regVars, sdInstances, kpi, coreVars, used>>

\* Mutant: the entry is taken off the list without a message.
CloseSilently(u) ==
  /\ toClose[u].due
  /\ toClose' = [toClose EXCEPT ![u] = NotDue]
  /\ UNCHANGED <<stateVars, ws, regVars, sdInstances, kpi, coreVars, used>>

\* closeExpiredInstances after the unlock, in the order of the map's iteration.
PublishClose(u) ==
  /\ toClose[u].due
  /\ PublishState(u, [kind |-> "close", time |-> toClose[u].time])
  /\ toClose' = [toClose EXCEPT ![u] = NotDue]
  /\ UNCHANGED <<stateVars, ws, regVars, sdInstances, coreVars>>

ClosingLoop == CloseExpired \/ \E u \in UIDs : PublishClose(u)

-----------------------------------------------------------------------------
(* The GTFS refresh *)

\* store.refresh: the definitions of the current week replace the old ones.
RefreshWeek ==
  /\ refresh.pc = "wait"
  /\ used.refreshes < MaxRefreshes
  /\ used' = [used EXCEPT !.refreshes = @ + 1]
  /\ \E S \in SUBSET UIDs :
       /\ week' = S
       /\ refresh' = [refresh EXCEPT !.pc = "scan", !.todo = S, !.batch = {}]
  /\ UNCHANGED <<stateVars, ws, toClose, registeredWeekUIDs, sdInstances, kpi, coreVars>>

\* One round of the loop up to shouldRegisterInstance; the uids come sorted, in
\* an order that says nothing about the trips.
ScanWeekUID(u) ==
  LET skip == u \in registeredWeekUIDs IN
  /\ refresh.pc = "scan"
  /\ u \in refresh.todo
  /\ refresh' = IF skip \/ u \in sdInstances
                THEN [refresh EXCEPT !.todo = @ \ {u}]
                ELSE [refresh EXCEPT !.todo = @ \ {u}, !.pc = "mark", !.uid = u]
  /\ registeredWeekUIDs' = IF ~skip /\ u \in sdInstances
                           THEN registeredWeekUIDs \cup {u} ELSE registeredWeekUIDs
  /\ UNCHANGED <<stateVars, ws, toClose, week, sdInstances, kpi, coreVars, used>>

\* The message is queued in the batch and the instance marked before anything
\* is published.
MarkWeekUID ==
  /\ refresh.pc = "mark"
  /\ refresh' = [refresh EXCEPT !.pc = "scan", !.uid = AnyUID, !.batch = @ \cup {refresh.uid}]
  /\ sdInstances' = sdInstances \cup {refresh.uid}
  /\ registeredWeekUIDs' = registeredWeekUIDs \cup {refresh.uid}
  /\ UNCHANGED <<stateVars, ws, toClose, week, kpi, coreVars, used>>

\* Mutant: the list of messages is not made anew for the next pass.
BatchKept ==
  /\ refresh.pc = "scan"
  /\ refresh.todo = {}
  /\ PublishRegistrations(refresh.batch)
  /\ refresh' = [refresh EXCEPT !.pc = "wait"]
  /\ UNCHANGED <<stateVars, ws, toClose, week, registeredWeekUIDs, sdInstances, kpi,
                 coreKnown, updates>>

\* publishSDInstanceRegistrations with what the pass collected.
PublishBatch ==
  /\ refresh.pc = "scan"
  /\ refresh.todo = {}
  /\ PublishRegistrations(refresh.batch)
  /\ refresh' = [refresh EXCEPT !.pc = "wait", !.batch = {}]
  /\ UNCHANGED <<stateVars, ws, toClose, week, registeredWeekUIDs, sdInstances, kpi,
                 coreKnown, updates>>

Refresh == RefreshWeek \/ (\E u \in UIDs : ScanWeekUID(u)) \/ MarkWeekUID \/ PublishBatch

-----------------------------------------------------------------------------
(* The set of known instances *)

\* checkForSetOfSDInstancesUpdates: the message's set replaces the whole set.
ApplyUpdate ==
  /\ updates # <<>>
  /\ sdInstances' = Head(updates)
  /\ updates' = Tail(updates)
  /\ used' = [used EXCEPT !.applied = @ + 1]
  /\ UNCHANGED <<stateVars, ws, toClose, regVars, kpi, requests, requested, lost, coreKnown>>

\* The three preprocessors consume from the one queue: another process takes it.
UpdateTakenElsewhere ==
  /\ updates # <<>>
  /\ updates' = Tail(updates)
  /\ UNCHANGED <<stateVars, ws, toClose, regVars, sdInstances, kpi, requests, requested, lost,
                 coreKnown, used>>

\* The Backend Core (not in this repository) handles a request and sends all
\* the instances it knows.
CoreRegister(u) ==
  /\ u \in requests
  /\ used.sent < MaxUpdates
  /\ requests' = requests \ {u}
  /\ coreKnown' = coreKnown \cup {u}
  /\ updates' = Append(updates, coreKnown')
  /\ used' = [used EXCEPT !.sent = @ + 1]
  /\ UNCHANGED <<stateVars, ws, toClose, regVars, sdInstances, kpi, requested, lost>>

Instances == ApplyUpdate \/ UpdateTakenElsewhere \/ \E u \in UIDs : CoreRegister(u)

-----------------------------------------------------------------------------

Tick ==
  /\ now < MaxTime
  /\ now' = now + 1
  /\ UNCHANGED <<instanceStates, ws, toClose, regVars, sdInstances, kpi, coreVars, used>>

Next == WebSocket \/ ClosingLoop \/ Refresh \/ Instances \/ Tick

Spec == Init /\ [][Next]_vars

\* Every goroutine that can take a step takes one: each is its own thread, and
\* the mutexes are held for a few assignments only.  Nothing is assumed of the
\* record source, of the core or of the queue.
WsStep == WebSocket /\ ws.pc # "read"
FairSpec == /\ Spec
            /\ WF_vars(Tick)
            /\ WF_vars(ClosingLoop)
            /\ WF_vars(WsStep)
            /\ WF_vars(Refresh /\ refresh.pc # "wait")
-----------------------------------------------------------------------------
(* Properties *)

TypeOK ==
  /\ now \in Nat
  /\ instanceStates \in [UIDs -> InstanceState]
  /\ ws \in WsLocals
  /\ toClose \in [UIDs -> Closing]
  /\ week \in SUBSET UIDs
  /\ refresh \in [pc : {"wait", "scan", "mark"}, uid : UIDs, todo : SUBSET UIDs,
                  batch : SUBSET UIDs]
  /\ refresh.pc = "wait" => refresh.batch = {}
  /\ registeredWeekUIDs \in SUBSET UIDs
  /\ sdInstances \in SUBSET UIDs
  /\ kpi \in [UIDs -> Messages]
  /\ requests \in SUBSET UIDs
  /\ requested \in [UIDs -> Nat]
  /\ lost \in SUBSET UIDs
  /\ coreKnown \in SUBSET UIDs
  /\ updates \in Snapshots
  /\ used \in Bounds

Sent(u, k) == {i \in DOMAIN kpi[u] : kpi[u][i].kind = k}

\* Nothing decided for u waits to be published.
Settled(u) == ~toClose[u].due /\ ~(ws.uid = u /\ ws.pc \in {"start", "report"})

\* The closing loop never dates the end of a trip before the trip's timetable
\* says it is over, and never in a future beyond the jitter, however records,
\* ticks and the two goroutines interleave.
CloseDatedAfterTrip ==
  \A u \in UIDs : \A i \in Sent(u, "close") :
    LET t == kpi[u][i].time IN
    /\ \E o \in Occurrences[u] : o.end < t
    /\ t - Jitter <= now

\* The synthetic start is published at most once per trip and run, and before
\* any state taken from a record: downstream, the trip begins inactive.  Only a
\* closing message of the other goroutine may overtake it.
StartComesFirst ==
  \A u \in UIDs : \A i \in Sent(u, "start") :
    \A j \in DOMAIN kpi[u] : j < i => kpi[u][j].kind = "close"

\* The core hears of a trip before its states do: a state is only published for
\* a trip the core knew, or whose registration request is published, queued in
\* the batch of the refresh, or was lost to a failure.
Announced(u) ==
  u \in coreKnown \/ requested[u] > 0 \/ u \in refresh.batch \/ u \in lost
StatesAreAnnounced == \A u \in UIDs : kpi[u] # <<>> => Announced(u)

\* shouldRegisterInstance and markInstanceRegistered are two critical sections,
\* run by two goroutines, and an update may drop what was marked in between.
\* Still a trip is requested at most once by the refresh, and once by the
\* records for every content sdInstances had.
RequestsBounded == \A u \in UIDs : requested[u] <= 2 + used.applied

\* For a trip at rest, an active report is followed in event time by the
\* inactive state that ends it, unless the report came so late that the closing
\* message is dated before it, or publishing failed.
EndVisibleUnlessLate ==
  \A u \in UIDs :
    Settled(u) /\ ~instanceStates[u].active /\ used.failures = 0 =>
      \A i \in Sent(u, "active") :
        \/ \E j \in DOMAIN kpi[u] \ Sent(u, "active") :
             kpi[u][j].kind # "start" /\ kpi[u][j].time >= kpi[u][i].time
        \/ \E o \in Occurrences[u] : o.end + TripEndReserve - Jitter < kpi[u][i].time

\* mhd-preprocessor/README.md:5: once the planned interval of a trip ran out an
\* inactive state is sent so that the processing downstream can record the end
\* of the trip: in event time nothing active stays the latest state.
FinishedTripsEndInactive ==
  \A u \in UIDs :
    Settled(u) /\ ~instanceStates[u].active /\ used.failures = 0 =>
      \A i \in Sent(u, "active") :
        \E j \in DOMAIN kpi[u] \ Sent(u, "active") : kpi[u][j].time >= kpi[u][i].time

\* A closing message is the last one before message n of log, but for a start.
ClosedBefore(log, n) ==
  \/ n > 1 /\ log[n - 1].kind = "close"
  \/ n > 2 /\ log[n - 1].kind = "start" /\ log[n - 2].kind = "close"

\* The last message of a trip at rest says whether the trip is active.  The two
\* goroutines can overtake each other in two ways only, each time around the one
\* closing message next to it: the timetable switched the trip off while its active
\* report was on the way, and the report came out behind the end; or a report
\* switched the trip on again while the end of before was on the way, and the end
\* came out behind the report.
OvertakenOnlyByClosing ==
  \A u \in UIDs :
    Settled(u) /\ used.failures = 0 /\ kpi[u] # <<>> =>
      LET n    == Len(kpi[u])
          last == kpi[u][n].kind
          on   == instanceStates[u].active
      IN \/ (last = "active") = on
         \/ last = "active" /\ ~on /\ ClosedBefore(kpi[u], n)
         \/ last = "close" /\ on /\ n > 1 /\ kpi[u][n - 1].kind = "active"

\* Every active trip is switched off: by the time the clock passed its reserve,
\* even when no record of it arrives any more and its timetable is gone.
TripsClose == \A u \in UIDs : instanceStates[u].active ~> ~instanceStates[u].active

\* An active trip is followed by one more inactive message than it began with,
\* unless publishing failed.
Ended(u) == Cardinality(Sent(u, "close") \cup Sent(u, "inactive"))
EndsArePublished ==
  \A u \in UIDs : \A n \in 0 .. MaxRecords :
    instanceStates[u].active /\ Ended(u) = n ~> Ended(u) > n \/ used.failures > 0

\* What the runtime promises of its instances is InstanceFeed's promise.
Pending(u, k) ==
  (IF toClose[u].due /\ k = "close" THEN 1 ELSE 0)
  + (IF /\ ws.uid = u
        /\ \/ ws.pc = "start" /\ k = "start"
           \/ /\ ws.pc = "report" \/ (ws.pc = "start" /\ Reports(ws.wasActive))
              /\ k = IF ws.inactive THEN "inactive" ELSE "active"
     THEN 1 ELSE 0)

Feed == INSTANCE InstanceFeed WITH
  active <- [u \in UIDs |-> instanceStates[u].active],
  outbox <- [u \in UIDs |-> [k \in Kinds |-> Pending(u, k)]],
  feed   <- [u \in UIDs |-> [i \in DOMAIN kpi[u] |-> kpi[u][i].kind]]

\* Every change of activity is announced by one message of its own.
ImplementsFeed == Feed!Spec
=============================================================================
