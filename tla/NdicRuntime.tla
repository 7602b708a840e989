---------------------------- MODULE NdicRuntime ----------------------------
(***************************************************************************)
(* The runtime of the NDIC (DATEX II) preprocessor.  main's loop fetches a *)
(* publication, turns its segments into messages one at a time, closes the *)
(* segments the publication no longer has and publishes everything as one  *)
(* list cut into batches; a second goroutine replaces sdInstances by what  *)
(* the Backend Core sent.  The loop takes sdInstancesMutex twice per       *)
(* segment, so an update may come between its check and its mark.          *)
(***************************************************************************)
EXTENDS Integers, Sequences, FiniteSets, SequencesExt, Batches

CONSTANTS
  UIDs,            \* road segments
  StartedAt,       \* preprocessorStartedAt
  FetchDelay,      \* config.go: 310 s
  StartupGrace,    \* config.go: 60 s without synthetic starts
  Jitter,          \* config.go: synthetic times are +- 500 ms
  BatchLimit,      \* publishBatchLimit
  Lags,            \* how far measurements may lie behind their publication
  NoPublication,   \* the source has nothing to serve
  MaxTime,         \* bound: the clock stops here
  MaxFetches,      \* bound: rounds of the loop
  MaxFailures,     \* bound: fetches and publications that fail
  MaxUpdates       \* bound: configuration updates the core sends

ASSUME ConstantsAssumption ==
  /\ {StartedAt, FetchDelay, StartupGrace, Jitter} \subseteq Nat
  /\ {MaxTime, MaxFetches, MaxFailures, MaxUpdates} \subseteq Nat
  /\ BatchLimit \in Nat \ {0}
  /\ Lags \subseteq Nat                \* no measurement is from the future
  /\ IsFiniteSet(UIDs) /\ UIDs # {}

VARIABLES
  now,             \* wall clock, UTC
  source,          \* what the DATEX downloader serves
  instanceStates,  \* the map of runtimeInstanceState; ~seen means no entry
  loop,            \* main's goroutine and the locals of processFetchResult
  sdInstances,     \* uids of the set, confirmed or not
  kpi,             \* per segment, the state messages published, in order
  requests,        \* registration requests the core has yet to handle
  requested,       \* per segment, the requests published so far
  lost,            \* segments with a request that failed to publish
  coreKnown,       \* segments the Backend Core knows
  updates,         \* messages in set-of-sd-instances-updates
  history,         \* of the rounds: segments of the last one (last) and, per publication
                   \* time, the rounds before FetchDelay had passed (early)
  used             \* how much of each bound is used up

coreVars == <<requests, requested, lost, coreKnown, updates>>
vars == <<now, source, instanceStates, loop, sdInstances, kpi, coreVars, history, used>>

-----------------------------------------------------------------------------
(* Values *)

Kinds   == {"start", "active", "close"}
Message == [uid : UIDs, kind : Kinds, time : Int]
Offsets == -Jitter .. Jitter              \* what jitterTime may add

\* parsedFetch: event[u] = 0 stands for a segment without a measurement time; a
\* measurement lies some lag behind the publication it is in.
Publication ==
  {p \in [time : 1 .. MaxTime, segments : SUBSET UIDs, event : [UIDs -> 0 .. MaxTime]] :
     /\ \A u \in p.segments : p.event[u] = 0 \/ p.time - p.event[u] \in Lags
     /\ \A u \in UIDs \ p.segments : p.event[u] = 0}

ASSUME NoPublicationAssumption == NoPublication \notin Publication

AnyUID == CHOOSE u \in UIDs : TRUE
Sleeping(wake) == [pc |-> "sleep", wake |-> wake, pub |-> NoPublication, todo |-> {},
                   uid |-> AnyUID, registrations |-> {}, states |-> <<>>]
InstanceState == [active : BOOLEAN, seen : BOOLEAN]

Fail == /\ used.failures < MaxFailures
        /\ used' = [used EXCEPT !.failures = @ + 1]

Init ==
  /\ now = StartedAt
  /\ source = NoPublication
  /\ instanceStates = [u \in UIDs |-> [active |-> FALSE, seen |-> FALSE]]
  /\ loop = Sleeping(StartedAt)
  /\ sdInstances = {}
  /\ kpi = [u \in UIDs |-> <<>>]
  /\ requests = {}
  /\ requested = [u \in UIDs |-> 0]
  /\ lost = {}
  /\ coreKnown \in SUBSET UIDs         \* from earlier runs of the preprocessor
  /\ updates = <<>>
  /\ history = [last |-> {}, early |-> [t \in 1 .. MaxTime |-> 0]]
  /\ used = [fetches |-> 0, failures |-> 0, sent |-> 0, applied |-> 0]

-----------------------------------------------------------------------------
(* main's loop *)

\* nextFetchDelay: FetchDelay after the publication, at once when that has
\* passed; FetchDelay from now after an error (the zero time).
WakeAtOnce(p) == now
Wake(p) ==
  IF p = NoPublication THEN now + FetchDelay
  ELSE IF p.time + FetchDelay < now THEN now ELSE p.time + FetchDelay

Awake == loop.pc = "sleep" /\ loop.wake <= now /\ used.fetches < MaxFetches

\* fetchAndProcessNDICData: the download, its status, its body or its XML fails;
\* a source with nothing to serve answers 404.
FetchFails ==
  /\ Awake
  /\ used' = [used EXCEPT !.fetches = @ + 1,
                          !.failures = IF source = NoPublication THEN @ ELSE @ + 1]
  /\ used'.failures <= MaxFailures
  /\ loop' = Sleeping(Wake(NoPublication))
  /\ UNCHANGED <<now, source, instanceStates, sdInstances, kpi, coreVars, history>>

Fetch ==
  /\ Awake
  /\ source # NoPublication
  /\ loop' = [loop EXCEPT !.pc = "next", !.pub = source, !.todo = source.segments]
  /\ history' = [history EXCEPT !.last = source.segments, !.early[source.time] =
                   IF now < source.time + FetchDelay THEN @ + 1 ELSE @]
  /\ used' = [used EXCEPT !.fetches = @ + 1]
  /\ UNCHANGED <<now, source, instanceStates, sdInstances, kpi, coreVars>>

\* processFetchResult takes the snapshots in the order of the map's iteration;
\* shouldRegisterInstance under sdInstancesMutex.
CheckSegment(u) ==
  /\ loop.pc = "next"
  /\ u \in loop.todo
  /\ loop' = [loop EXCEPT !.uid = u, !.todo = @ \ {u},
                          !.pc = IF u \in sdInstances THEN "update" ELSE "mark",
                          !.registrations = IF u \in sdInstances THEN @ ELSE @ \cup {u}]
  /\ UNCHANGED <<now, source, instanceStates, sdInstances, kpi, coreVars, history, used>>

\* markInstanceRegistered
MarkRegistered ==
  /\ loop.pc = "mark"
  /\ sdInstances' = sdInstances \cup {loop.uid}
  /\ loop' = [loop EXCEPT !.pc = "update"]
  /\ UNCHANGED <<now, source, instanceStates, kpi, coreVars, history, used>>

\* needsSyntheticStart, and its mutant that forgets SeenSinceStart.
StartsAfterEveryGap(u) ==
  /\ ~instanceStates[u].active
  /\ loop.pub.time > StartedAt
  /\ now - StartedAt > StartupGrace
NeedsStart(u) ==
  /\ ~instanceStates[u].seen
  /\ loop.pub.time > StartedAt
  /\ now - StartedAt > StartupGrace

EventTime(p, u) == IF p.event[u] = 0 THEN p.time ELSE p.event[u]

\* The instance's state under instanceStatesMutex, and its messages appended.
UpdateSegment ==
  LET u == loop.uid IN
  /\ loop.pc = "update"
  /\ instanceStates' = [instanceStates EXCEPT ![u] = [active |-> TRUE, seen |-> TRUE]]
  /\ \E d \in IF NeedsStart(u) THEN Offsets ELSE {0} :
       loop' = [loop EXCEPT !.pc = "next", !.states = @
         \o (IF NeedsStart(u)
             THEN <<[uid |-> u, kind |-> "start", time |-> StartedAt + d]>> ELSE <<>>)
         \o <<[uid |-> u, kind |-> "active", time |-> EventTime(loop.pub, u)]>>]
  /\ UNCHANGED <<now, source, sdInstances, kpi, coreVars, history, used>>

Request(S) ==
  /\ requests' = requests \cup S
  /\ requested' = [u \in UIDs |-> IF u \in S THEN requested[u] + 1 ELSE requested[u]]

\* Mutant: no registration leaves the process.
RegistrationsForgotten ==
  /\ loop.pc = "next"
  /\ loop.todo = {}
  /\ loop' = [loop EXCEPT !.pc = "close", !.registrations = {}]
  /\ UNCHANGED <<now, source, instanceStates, sdInstances, kpi, coreVars, history, used>>

\* publishSDInstanceRegistrations, before any state is published.
PublishRegistrations ==
  LET all == loop.registrations IN
  /\ loop.pc = "next"
  /\ loop.todo = {}
  /\ loop' = [loop EXCEPT !.pc = "close", !.registrations = {}]
  /\ \/ Request(all) /\ UNCHANGED <<lost, used>>
     \/ /\ Fail
        /\ \E done \in SUBSET all :
             /\ Cardinality(done) \in FailedPrefixes(Cardinality(all), BatchLimit)
             /\ Request(done)
             /\ lost' = lost \cup (all \ done)
  /\ UNCHANGED <<now, source, instanceStates, sdInstances, kpi, coreKnown, updates, history>>

\* The active instances the publication does not have.
Missing == {u \in UIDs : instanceStates[u].active /\ u \notin loop.pub.segments}

\* Mutants: the closing messages date from the start; they are not appended.
CloseTimeAtStart == StartedAt
CloseTime == loop.pub.time
CloseUnannounced ==
  /\ loop.pc = "close"
  /\ instanceStates' = [u \in UIDs |-> IF u \in Missing
                          THEN [instanceStates[u] EXCEPT !.active = FALSE]
                          ELSE instanceStates[u]]
  /\ loop' = [loop EXCEPT !.pc = "publish"]
  /\ UNCHANGED <<now, source, sdInstances, kpi, coreVars, history, used>>

\* closeMissingInstances, in the order of the map's iteration.
CloseMissing ==
  /\ loop.pc = "close"
  /\ instanceStates' = [u \in UIDs |-> IF u \in Missing
                          THEN [instanceStates[u] EXCEPT !.active = FALSE]
                          ELSE instanceStates[u]]
  /\ \E order \in SetToSeqs(Missing), d \in [Missing -> Offsets] :
       loop' = [loop EXCEPT !.pc = "publish", !.states = @ \o
                  [i \in DOMAIN order |-> [uid |-> order[i], kind |-> "close",
                                           time |-> CloseTime + d[order[i]]]]]
  /\ UNCHANGED <<now, source, sdInstances, kpi, coreVars, history, used>>

\* The first n messages of the list, each to its segment's consumers.
Published(n) == Delivered(kpi, SubSeq(loop.states, 1, n))

\* publishStates, then main sleeps until the next round.
PublishStates ==
  /\ loop.pc = "publish"
  /\ \/ kpi' = Published(Len(loop.states)) /\ UNCHANGED used
     \/ Fail /\ \E n \in FailedPrefixes(Len(loop.states), BatchLimit) : kpi' = Published(n)
  /\ loop' = Sleeping(Wake(loop.pub))
  /\ UNCHANGED <<now, source, instanceStates, sdInstances, coreVars, history>>

Loop == \/ FetchFails \/ Fetch
        \/ \E u \in UIDs : CheckSegment(u)
        \/ MarkRegistered \/ UpdateSegment \/ PublishRegistrations
        \/ CloseMissing \/ PublishStates

-----------------------------------------------------------------------------
(* The set of known instances *)

\* checkForSetOfSDInstancesUpdates: the message's set replaces the whole set.
ApplyUpdate ==
  /\ updates # <<>>
  /\ sdInstances' = Head(updates)
  /\ updates' = Tail(updates)
  /\ used' = [used EXCEPT !.applied = @ + 1]
  /\ UNCHANGED <<now, source, instanceStates, loop, kpi, requests, requested, lost,
                 coreKnown, history>>

\* The three preprocessors consume from the one queue: another process takes it.
UpdateTakenElsewhere ==
  /\ updates # <<>>
  /\ updates' = Tail(updates)
  /\ UNCHANGED <<now, source, instanceStates, loop, sdInstances, kpi, requests, requested,
                 lost, coreKnown, history, used>>

\* The Backend Core (not in this repository) handles a request, or something
\* else changes its instances, and it sends all of those it knows.
CoreSends(S) ==
  /\ S \subseteq requests
  /\ used.sent < MaxUpdates
  /\ requests' = requests \ S
  /\ coreKnown' = coreKnown \cup S
  /\ updates' = Append(updates, coreKnown')
  /\ used' = [used EXCEPT !.sent = @ + 1]
  /\ UNCHANGED <<now, source, instanceStates, loop, sdInstances, kpi, requested, lost,
                 history>>

Instances == ApplyUpdate \/ UpdateTakenElsewhere \/ \E S \in SUBSET UIDs : CoreSends(S)

-----------------------------------------------------------------------------
(* The source and the clock *)

\* A newer publication; publications are minutes apart, the jitter is half a
\* second.
NewPublication(p) ==
  /\ p.time <= now
  /\ source # NoPublication => p.time > source.time + Jitter
  /\ source' = p
  /\ UNCHANGED <<now, instanceStates, loop, sdInstances, kpi, coreVars, history, used>>

Tick ==
  /\ now < MaxTime
  /\ now' = now + 1
  /\ UNCHANGED <<source, instanceStates, loop, sdInstances, kpi, coreVars, history, used>>

Next == Loop \/ Instances \/ (\E p \in Publication : NewPublication(p)) \/ Tick

Spec == Init /\ [][Next]_vars
-----------------------------------------------------------------------------
(* Properties *)

Sent(u, k) == {i \in DOMAIN kpi[u] : kpi[u][i].kind = k}
Quiet == loop.pc = "sleep" /\ used.failures = 0

\* Between two rounds the consumers see the publication last processed: the
\* segments whose latest message is active are exactly its segments, whatever
\* vanished and came back before and however the updates interleave.
ConsumersMirrorPublication ==
  Quiet => \A u \in UIDs :
    u \in history.last <=> kpi[u] # <<>> /\ kpi[u][Len(kpi[u])].kind = "active"

\* In event time too: no active state of a segment that is gone is younger than
\* the closing message, though its measurement time is the source's own.
EndsVisibleInEventTime ==
  Quiet => \A u \in UIDs :
    ~instanceStates[u].active =>
      \A i \in Sent(u, "active") :
        \E j \in Sent(u, "close") : j > i /\ kpi[u][j].time >= kpi[u][i].time

\* The synthetic start is the first message of its segment in the run: it is
\* not repeated when the segment vanishes and returns, nor sent after a state.
StartComesFirst == \A u \in UIDs : Sent(u, "start") \subseteq {1}

\* The core hears of a segment before its states do, unless the request was
\* lost to a failure: although updates may take the segment out of sdInstances
\* between its check, its mark and the publications.
StatesAreAnnounced ==
  \A u \in UIDs :
    kpi[u] # <<>> => u \in coreKnown \/ requested[u] > 0 \/ u \in lost

\* A publication is processed at most once while it is younger than the fetch
\* delay; a stale one is fetched again without a pause.
FreshProcessedOnce == \A t \in 1 .. MaxTime : history.early[t] <= 1

\* Every change of activity is announced by one message of its own, published
\* in the same round or lost with it.
Pending(u, k) == Cardinality({i \in DOMAIN loop.states :
                                loop.states[i].uid = u /\ loop.states[i].kind = k})

Feed == INSTANCE InstanceFeed WITH
  active <- [u \in UIDs |-> instanceStates[u].active],
  outbox <- [u \in UIDs |-> [k \in Kinds \cup {"inactive"} |-> Pending(u, k)]],
  feed   <- [u \in UIDs |-> [i \in DOMAIN kpi[u] |-> kpi[u][i].kind]]

ImplementsFeed == Feed!Spec
=============================================================================
