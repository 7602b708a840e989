---------------------------- MODULE WazeLifecycle ----------------------------
(***************************************************************************)
(* The lifecycle of the Waze jam preprocessor.  main's loop downloads the  *)
(* feed, aggregates its jams by segment, compares them with the segments   *)
(* of the last feed and publishes registrations, then states, as lists cut *)
(* into batches; a second goroutine replaces sdInstances by what the       *)
(* Backend Core sent.  activeDevices is only written by the loop.  Of the  *)
(* aggregation only the event time is kept: a segment has that of its      *)
(* newest jam.                                                             *)
(***************************************************************************)
EXTENDS Integers, Sequences, FiniteSets, SequencesExt, Batches

CONSTANTS
  UIDs,            \* segments with a direction
  StartedAt,       \* preprocessorStartedAt
  Offset,          \* buildStartupZeroDelayEventTime: 1 .. 500 ms, per uid
  BatchLimit,      \* publishBatchLimit
  Clear,           \* no jam on a segment
  MaxTime,         \* bound: the clock stops here
  MaxFetches,      \* bound: rounds of the loop
  MaxFailures,     \* bound: downloads and publications that fail
  MaxErrorPages,   \* bound: error answers whose body is a JSON object
  MaxUpdates       \* bound: configuration updates the core sends

ASSUME ConstantsAssumption ==
  /\ {StartedAt, MaxTime, MaxFetches, MaxFailures, MaxErrorPages, MaxUpdates} \subseteq Nat
  /\ BatchLimit \in Nat \ {0}
  /\ Offset \in [UIDs -> Nat \ {0}]
  /\ Clear \notin Nat
  /\ IsFiniteSet(UIDs) /\ UIDs # {}

VARIABLES
  now,             \* wall clock, UTC
  jams,            \* the source's jams: [UIDs -> times of the newest jam, or Clear]
  activeDevices,   \* uids of the map
  loop,            \* main's goroutine and the locals of fetchAndProcessWazeData
  sdInstances,     \* uids of the set, confirmed or not
  kpi,             \* per segment, the state messages published, in order
  requests,        \* registration requests the core has yet to handle
  requested,       \* per segment, the requests published so far
  coreKnown,       \* segments the Backend Core knows
  updates,         \* messages in set-of-sd-instances-updates
  history,         \* of the last answer: what was decoded, and the source's jams then
  used             \* how much of each bound is used up

coreVars == <<requests, requested, coreKnown, updates>>
vars == <<now, jams, activeDevices, loop, sdInstances, kpi, coreVars, history, used>>

-----------------------------------------------------------------------------
(* Values *)

Kinds   == {"start", "active", "close"}   \* zero delay, delay, zero delay
Message == [uid : UIDs, kind : Kinds, time : Int]
JamSets == [UIDs -> {Clear} \cup 1 .. MaxTime]
AllClear == [u \in UIDs |-> Clear]
Jammed(f) == {u \in UIDs : f[u] # Clear}

Sleeping == [pc |-> "sleep", feed |-> AllClear, todo |-> {}, registrations |-> {},
             states |-> <<>>]

Fail == /\ used.failures < MaxFailures
        /\ used' = [used EXCEPT !.failures = @ + 1]

Init ==
  /\ now = StartedAt
  /\ jams \in {f \in JamSets : \A u \in Jammed(f) : f[u] <= now}
  /\ activeDevices = {}
  /\ loop = Sleeping
  /\ sdInstances = {}
  /\ kpi = [u \in UIDs |-> <<>>]
  /\ requests = {}
  /\ requested = [u \in UIDs |-> 0]
  /\ coreKnown \in SUBSET UIDs         \* from earlier runs of the preprocessor
  /\ updates = <<>>
  /\ history = [shown |-> AllClear, real |-> AllClear]
  /\ used = [fetches |-> 0, failures |-> 0, errors |-> 0, sent |-> 0, applied |-> 0]

-----------------------------------------------------------------------------
(* main's loop *)

Awake == loop.pc = "sleep" /\ used.fetches < MaxFetches

\* The request, the body or the JSON fails: the round ends.
FetchFails ==
  /\ Awake
  /\ used.failures < MaxFailures
  /\ used' = [used EXCEPT !.fetches = @ + 1, !.failures = @ + 1]
  /\ UNCHANGED <<now, jams, activeDevices, loop, sdInstances, kpi, coreVars, history>>

Process(f) ==
  /\ loop' = [loop EXCEPT !.pc = "build", !.feed = f, !.todo = Jammed(f)]
  /\ history' = [shown |-> f, real |-> jams]

\* The feed is decoded and aggregated by segment (buildAggregatesFromJam,
\* mergeAggregate).
Fetch ==
  /\ Awake
  /\ Process(jams)
  /\ used' = [used EXCEPT !.fetches = @ + 1]
  /\ UNCHANGED <<now, jams, activeDevices, sdInstances, kpi, coreVars>>

\* Nobody looks at the status code: an error whose body is a JSON object
\* decodes to a feed without jams.
FetchErrorPage ==
  /\ Awake
  /\ used.errors < MaxErrorPages
  /\ Process(AllClear)
  /\ used' = [used EXCEPT !.fetches = @ + 1, !.errors = @ + 1]
  /\ UNCHANGED <<now, jams, activeDevices, sdInstances, kpi, coreVars>>

\* The zero-delay message before an active state: for a segment that was not
\* active, when the jam is not older than the process.  Mutant: also for an active one.
NeedsStartAlways(u) == loop.feed[u] >= StartedAt
NeedsStart(u) == u \notin activeDevices /\ loop.feed[u] >= StartedAt

StartTime(u) == loop.feed[u] - Offset[u]

\* One aggregate, in the order of the map's iteration: its scenario under
\* sdInstancesMutex, its messages appended.
BuildMessages(u) ==
  /\ loop.pc = "build"
  /\ u \in loop.todo
  /\ loop' = [loop EXCEPT !.todo = @ \ {u},
       !.registrations = IF u \in sdInstances THEN @ ELSE @ \cup {u},
       !.states = @
         \o (IF NeedsStart(u)
             THEN <<[uid |-> u, kind |-> "start", time |-> StartTime(u)]>> ELSE <<>>)
         \o <<[uid |-> u, kind |-> "active", time |-> loop.feed[u]]>>]
  /\ UNCHANGED <<now, jams, activeDevices, sdInstances, kpi, coreVars, history, used>>

\* The devices of the old map that are gone.
Missing == activeDevices \ Jammed(loop.feed)

\* Mutants: a gone segment is closed at the time of the process's start; the
\* map is replaced without looking at the old one.
CloseTimeAtStart == StartedAt
CloseTime == now
SwapOnly ==
  /\ loop.pc = "build"
  /\ loop.todo = {}
  /\ activeDevices' = Jammed(loop.feed)
  /\ loop' = [loop EXCEPT !.pc = "register"]
  /\ UNCHANGED <<now, jams, sdInstances, kpi, coreVars, history, used>>

\* activeDevices becomes currentDevices under activeDevicesMu; every device of
\* the old map that is gone gets a zero-delay message, in the map's order.
SwapDevices ==
  /\ loop.pc = "build"
  /\ loop.todo = {}
  /\ activeDevices' = Jammed(loop.feed)
  /\ \E order \in SetToSeqs(Missing) :
       loop' = [loop EXCEPT !.pc = "register", !.states = @ \o
                  [i \in DOMAIN order |-> [uid |-> order[i], kind |-> "close",
                                           time |-> CloseTime]]]
  /\ UNCHANGED <<now, jams, sdInstances, kpi, coreVars, history, used>>

Request(S) ==
  /\ requests' = requests \cup S
  /\ requested' = [u \in UIDs |-> IF u \in S THEN requested[u] + 1 ELSE requested[u]]

\* publishSDInstanceRegistrations, before any state is published.
PublishRegistrations ==
  LET all == loop.registrations IN
  /\ loop.pc = "register"
  /\ loop' = [loop EXCEPT !.pc = "add"]
  /\ \/ Request(all) /\ UNCHANGED used
     \/ /\ Fail
        /\ \E done \in SUBSET all :
             /\ Cardinality(done) \in FailedPrefixes(Cardinality(all), BatchLimit)
             /\ Request(done)
  /\ UNCHANGED <<now, jams, activeDevices, sdInstances, kpi, coreKnown, updates, history>>

\* Mutant: the requested instances are not added.
AddNothing ==
  /\ loop.pc = "add"
  /\ loop' = [loop EXCEPT !.pc = "publish", !.registrations = {}]
  /\ UNCHANGED <<now, jams, activeDevices, sdInstances, kpi, coreVars, history, used>>

\* The requested instances are added, published or not, to whatever the set has
\* become meanwhile.
AddInstances ==
  /\ loop.pc = "add"
  /\ sdInstances' = sdInstances \cup loop.registrations
  /\ loop' = [loop EXCEPT !.pc = "publish", !.registrations = {}]
  /\ UNCHANGED <<now, jams, activeDevices, kpi, coreVars, history, used>>

\* The first n messages of the list, each to its segment's consumers.
Published(n) == Delivered(kpi, SubSeq(loop.states, 1, n))

\* publishStates, then main sleeps for fetchDelay.
PublishStates ==
  /\ loop.pc = "publish"
  /\ \/ kpi' = Published(Len(loop.states)) /\ UNCHANGED used
     \/ Fail /\ \E n \in FailedPrefixes(Len(loop.states), BatchLimit) : kpi' = Published(n)
  /\ loop' = Sleeping
  /\ UNCHANGED <<now, jams, activeDevices, sdInstances, coreVars, history>>

Loop == \/ FetchFails \/ Fetch \/ FetchErrorPage
        \/ \E u \in UIDs : BuildMessages(u)
        \/ SwapDevices \/ PublishRegistrations \/ AddInstances \/ PublishStates

-----------------------------------------------------------------------------
(* The set of known instances *)

\* checkForSetOfSDInstancesUpdates: the message's set replaces the whole set.
ApplyUpdate ==
  /\ updates # <<>>
  /\ sdInstances' = Head(updates)
  /\ updates' = Tail(updates)
  /\ used' = [used EXCEPT !.applied = @ + 1]
  /\ UNCHANGED <<now, jams, activeDevices, loop, kpi, requests, requested, coreKnown,
                 history>>

\* The three preprocessors consume from the one queue: another process takes it.
UpdateTakenElsewhere ==
  /\ updates # <<>>
  /\ updates' = Tail(updates)
  /\ UNCHANGED <<now, jams, activeDevices, loop, sdInstances, kpi, requests, requested,
                 coreKnown, history, used>>

\* The Backend Core (not in this repository) handles a request, or something
\* else changes its instances, and it sends all of those it knows.
CoreSends(S) ==
  /\ S \subseteq requests
  /\ used.sent < MaxUpdates
  /\ requests' = requests \ S
  /\ coreKnown' = coreKnown \cup S
  /\ updates' = Append(updates, coreKnown')
  /\ used' = [used EXCEPT !.sent = @ + 1]
  /\ UNCHANGED <<now, jams, activeDevices, loop, sdInstances, kpi, requested, history>>

Instances == ApplyUpdate \/ UpdateTakenElsewhere \/ \E S \in SUBSET UIDs : CoreSends(S)

-----------------------------------------------------------------------------
(* The source and the clock *)

\* The source's jam of u appears, gets a newer or an older newest report, or
\* clears; no report is younger than the clock.
JamChanges(u, t) ==
  /\ t \in ({Clear} \cup 1 .. now) \ {jams[u]}
  /\ jams' = [jams EXCEPT ![u] = t]
  /\ UNCHANGED <<now, activeDevices, loop, sdInstances, kpi, coreVars, history, used>>

Tick ==
  /\ now < MaxTime
  /\ now' = now + 1
  /\ UNCHANGED <<jams, activeDevices, loop, sdInstances, kpi, coreVars, history, used>>

Next == \/ Loop \/ Instances \/ Tick
        \/ \E u \in UIDs, t \in {Clear} \cup 1 .. MaxTime : JamChanges(u, t)

Spec == Init /\ [][Next]_vars
-----------------------------------------------------------------------------
(* Properties *)

Sent(u, k) == {i \in DOMAIN kpi[u] : kpi[u][i].kind = k}
Quiet == loop.pc = "sleep" /\ used.failures = 0

\* Between two rounds the consumers see the feed last processed: the segments
\* whose latest message carries a delay are exactly the jammed ones.
ConsumersMirrorFeed ==
  Quiet => \A u \in UIDs :
    u \in Jammed(history.shown) <=> kpi[u] # <<>> /\ kpi[u][Len(kpi[u])].kind = "active"

\* In event time too: the end of a jam is dated after all its reports,
\* because the reports carry the source's past times.
EndsVisibleInEventTime ==
  Quiet => \A u \in UIDs \ Jammed(history.shown) : \A i \in Sent(u, "active") :
    \E j \in Sent(u, "close") : j > i /\ kpi[u][j].time >= kpi[u][i].time

\* A zero-delay start belongs to the beginning of a jam: it comes after an end or
\* first of all, never between two active states however often the jam is merged
\* or re-dated, and the next message of the segment is that jam, later in event
\* time. Lists cut by a failure are excepted.
StartsBelongToBeginnings ==
  used.failures = 0 =>
    \A u \in UIDs : \A i \in Sent(u, "start") :
      /\ i = 1 \/ i - 1 \in Sent(u, "close")
      /\ i + 1 \in Sent(u, "active") /\ kpi[u][i].time < kpi[u][i + 1].time

\* A segment is requested once for every content sdInstances had, although the
\* scenario, the publication and the marking are separate steps that updates
\* come between.
RequestsBounded == \A u \in UIDs : requested[u] <= 1 + used.applied

\* wazejam-preprocessor/README.md:5: the zero state is sent when the segment
\* vanished from the feed.
OnlyVanishedEnd ==
  [][\A u \in activeDevices \ activeDevices' : u \notin Jammed(history.real)]_vars

\* Every change of activity is announced by one message of its own.
Pending(u, k) ==
  IF loop.pc = "build" THEN 0
  ELSE Cardinality({i \in DOMAIN loop.states :
                      loop.states[i].uid = u /\ loop.states[i].kind = k})

Feed == INSTANCE InstanceFeed WITH
  active <- [u \in UIDs |-> u \in activeDevices],
  outbox <- [u \in UIDs |-> [k \in Kinds \cup {"inactive"} |-> Pending(u, k)]],
  feed   <- [u \in UIDs |-> [i \in DOMAIN kpi[u] |-> kpi[u][i].kind]]

ImplementsFeed == Feed!Spec
=============================================================================
