# TLA+ models of the RIoT preprocessors

The repository holds three Go programs that turn public traffic sources of Brno into
messages for the RIoT platform, the shared Go library they are built on, and one Python
service that receives pushes for one of them. This directory models their control:
which messages they send, in which order, and what they do when goroutines interleave,
publications fail, connections break or a process dies. TLC checks the models on small
instances; TLAPS proves, for every instance, all the safety properties these checks find to
hold, and that the three preprocessors implement one abstract specification.

```
tlc -workers 2 -config MhdRuntime_trip.cfg MCMhdRuntime     # one run; the others are alike
tlapm MhdRuntimeProofs.tla                                  # the proofs
```

## 1. Inventory

### The system

```
 WebSocket (MHD) ──> mhd-preprocessor ──┐
 GTFS archive   ───>                    │   kpi-fulfillment-check-requests (states)
 NDIC push ──> datex-downloader ──HTTP─>│   sd-instance-registration-requests
                 ndic-preprocessor ─────┼─> RabbitMQ ──> Backend Core, time series, ...
 Waze feed ────> wazejam-preprocessor ──┘        └── set-of-sd-instances-updates ──> the three
```

All three preprocessors have the same frame. They register their type once, tell the core
of an *instance* (a trip, a road segment) before its first state, and publish states of
instances: parameters, a time (event time: the source's, not the clock's) and whether it is
a start, an active or an ending state. The Backend Core sends back the set of instances it
knows (`set-of-sd-instances-updates`), which replaces `sdInstances`. The consumers
downstream record in event time what begins and what ends, so a preprocessor is right when
each activity begins once, ends once, and its end is not older than what it ends.

### Components

| Component (sources) | State | Operations | What makes it right |
|---|---|---|---|
| **MHD runtime** (`mhd-preprocessor/src/main.go`, `runtime.go`, `publish.go`) | `instanceStates`, `sdInstances`, `registeredWeekUIDs`, locals of four goroutines | a live record, a closing pass, a refresh pass, an update of the core | ends of trips are published and dated after the trip; states never precede the registration; requests do not multiply |
| **MHD stream** (`ws_source.go`) | endpoint, connection, three Go channels, timers | dial, read, watchdog, ping, close | quiet streams end, live ones do not; every endpoint gets its turn |
| **MHD timetable** (`gtfs_store.go`, `matching.go`, `helpers.go`) | `definitionsByUID`, `lineRouteIndex` | refresh, match a record | the store holds the runs of its week; running trips are found |
| **MHD records and segments** (`ws_source.go`, `helpers.go`, `segment.go`) | none; the segment last published is the reader's memory | read a report, place it between two stops | a report is placed where it says, the segment does not fall back without need; a driving vehicle counts as driving |
| **NDIC runtime** (`ndic-preprocessor/src/main.go`, `runtime.go`, `publish.go`) | `instanceStates`, `sdInstances`, locals of the fetch loop | a round, an update | consumers mirror the last publication |
| **NDIC parser, TMC tables** (`fetch.go`, `parser.go`, `tmc.go`) | the table loaded at the start; snapshots of one document | fetch, an element, the end of a document, the metadata | snapshots say what the document says |
| **Waze lifecycle** (`wazejam-preprocessor/src/lifecycle.go`, `publish.go`) | `activeDevices`, `sdInstances` | a round, an update | consumers mirror the feed |
| **Waze aggregation** (`parsing.go`, `aggregation.go`) | the aggregates of one feed | one jam | independence of the order of jams |
| **RabbitMQ client** (`commons/src/rabbitmq`) | connection, one channel, `c.mu` | publish a list, consume, reopen | one channel, no duplicates, no loss of updates |
| **DATEX downloader** (`external/datex-downloader/app`) | last message, files | upload, prune, load at start | acknowledged messages survive |
| Type registration, configuration, shared models | constants | - | - |

`PROJECT.json` lists them with their sources and status.

### Interactions and what is hard

* **Shared tables, many goroutines.** In the MHD preprocessor the WebSocket goroutine, the
  closing loop, the GTFS refresh and the consumer of updates share `instanceStates` and
  `sdInstances`. Each critical section is short; the decision made in one is published
  after the mutex is released, and may be overtaken.
* **Check, act, mark.** `shouldRegisterInstance` and `markInstanceRegistered` are two
  critical sections with a publication between them, run by two goroutines, while an update
  may replace the set.
* **Two orders.** States are delivered in one order and carry times of another: synthetic
  starts are dated in the past, MHD closings at the end of the reserve, NDIC closings at the
  publication's time, all with a jitter.
* **Failures in the middle of a list.** Lists are cut into batches; an error leaves a prefix
  published. Tables were changed before the list was published.
* **The client** lets several goroutines find the same broken channel, reopens it under a
  mutex and tries a publication again.
* **Timers** of the WebSocket side: a read deadline every frame moves, a watchdog only
  payload moves, a timer that may fire while it is being reset.
* **Restarts** of the downloader: the newest file is served whatever it contains.
* **Inputs nobody promised.** Feeds list jams in any order, with parts missing and with
  numbers that are not numbers; documents name one segment many times; vehicles spell their
  keys in several ways, let their last stop lag or leave it out.

`PROJECT.json` lists each of these at its line under `hazards` with the properties that
cover it, or why none does yet.

## 2. Modules

| Module | Stands for | Composition |
|---|---|---|
| `InstanceFeed` | what every preprocessor promises about activity | abstract; refined by the three below |
| `MhdRuntime` | the four goroutines of the MHD preprocessor | `Feed == INSTANCE InstanceFeed WITH ...` |
| `NdicRuntime` | fetch loop and updates of the NDIC preprocessor | refines `InstanceFeed` |
| `WazeLifecycle` | fetch loop and updates of the Waze preprocessor | refines `InstanceFeed` |
| `RabbitClient` | one client, the connection manager, its users | broker, wire and amqp library external |
| `Batches` | a list of states on its way: what is out after it, or after a failure | extended by the two above |
| `MhdStream` | WebSocket loop, watchdog, keep-alive | handles records as one step that takes time |
| `MhdTimetable` | GTFS store and matching | its choice of trip is the input of `MhdRuntime` |
| `DatexDownloader` | uploads, files, restarts | its latest message is the `source` of `NdicRuntime` |
| `WazeAggregation` | the jams of a feed merged into devices | its devices are the segments of `WazeLifecycle` |
| `NdicParser` | answer, document, snapshots, metadata | its snapshots are the segments of `NdicRuntime` |
| `MhdRecord` | reports of a vehicle, its place between stops | its records are those of `MhdTimetable` and `MhdRuntime` |
| `MCInputs` | what comes in: `DatexDownloader` and the three above, one at a time | extends all four |
| other `MC*` | constants for TLC | extend the module they are named after |
| `BatchesProofs` | lemmas: induction over numbers and lists, folds, greatest and least elements, lists and the logs they are appended to | extended by the proofs that need them |
| `SourcesProofs` | theorems about what comes in: `NdicParser`, `WazeAggregation`, `MhdRecord`, `MhdStream` | extends the four and `BatchesProofs` |
| other `*Proofs` | theorems | extend the module they are named after and `TLAPS` |

The modules meet at narrow places. `MhdRuntime` takes any match that lies in the matching
window; `MhdTimetable` shows which match is made. `MhdRuntime`, `NdicRuntime` and
`WazeLifecycle` take a publication that succeeds or fails; `RabbitClient` shows that it
does return, once, and that a failed list leaves a prefix of whole batches, which is what
`FailedPrefixes` of `Batches` admits. The three transformations of inputs stand before
the lifecycles: what they are shown to deliver (one snapshot or aggregate per segment, a
record that says whether the vehicle drives) is what the lifecycles take as given.

### Correspondence

`InstanceFeed`. `active` is the recorded activity, `outbox` the messages decided and not
yet published, `feed` the messages published. `Change` decides messages together with the
change of activity they stand for; `Dispatch` publishes them, once each, or drops them.

`MhdRuntime`. `ws` are the locals of `processMatchedRecord`: `ReceiveRecord` (a record and
its match), `CheckRegistered`, `RequestRegistration`, `MarkRegistered`, `UpdateState` (the
section under `instanceStatesMutex`), `PublishStart`, `PublishReport`. `CloseExpired` is a
pass of `closeExpiredInstances` under the mutex and leaves the messages in `toClose`;
`PublishClose` sends them in any order, that of the Go map. The refresh rebuilds the store,
then `registerCurrentWeekInstances` scans it, marks instance and week UID, and publishes
the batch. `ApplyUpdate` is the consumer of updates; `UpdateTakenElsewhere` exists because
the three preprocessors read one queue. `CoreRegister` is the core, external.

`NdicRuntime`. `loop` holds the pc and locals of `processFetchResult`: segments are handled
one at a time in any order, with the two sections over `sdInstances` apart, so that updates
come in between; then the closings; then the two lists, each published whole or cut at a
batch. `source` is what the downloader serves and changes at any time.

`WazeLifecycle`. Likewise: fetch, build the messages of each segment, swap `activeDevices`
and append the zero states of those that are gone, publish the requests, add them to
`sdInstances`, publish the states. An error page in JSON decodes to a feed without jams.

`RabbitClient`. `threads` are publishers in `PublishJSONBatches` and the consumer in
`SetupMessageConsumption`/`ConsumeJSONMessages`. Taking `c.mu`, testing the channel, opening
it, publishing, and the test for a second try are separate steps. A publication goes to the
wire and is received later or lost with the connection.

`MhdStream`. A connection has its state, the frames not yet read, the read deadline, the
channels `done`, `activity` and `idleSignal` as flags (each has room for one), and the
timers of its two helper goroutines, which count down.

`MhdTimetable`. A refresh goes over the trips in any order. Times are minutes; `Local` is
what the clocks of the zone show at an instant and `Instant` the instant `time.Date` makes
of a reading, so `Clock` is `parseGTFSClock` with its `Date` and its `AddDate`. A stop time
has its minutes and, in `text`, the place of its string in the order of strings: `9:50:00`
is earlier than `10:10:00` and stands behind it. Occurrences are compared by their minutes,
the candidates of a line are sorted by the texts, as `definitionsFor` and `buildDefinitions`
do. The candidates of a match are scored as `matchLiveRecord` and `matchingBonus` do.

`DatexDownloader`. The upload between `storage.save` and its answer is `busy`: write,
prune, answer, with a crash or a failing write at each stage. `Start` loads the newest
file as it is; when that cannot be decoded the process does not come up.

`WazeAggregation`. `MergeJam` is one round of the loop over `feed.Jams` in
`fetchAndProcessWazeData`, for any jam not merged yet: its segments are read, dropped or
sorted (`Segments`), each gives an aggregate (`Aggregate`) that is stored or merged
(`Merged`). Missing values and values that are no numbers are `NoNumber`.

`NdicParser`. `FetchNdic` looks at status and wrapper, `ReadElement` is one round of the
decoder's loop, `EndDocument` its end, `EnrichFetch` the loop of `enrichFetch`. An element is the
sequence of the parts the decoder looks at, in the order of the document. A speed that is
not a number fails the whole document, a level that is not one is 0. A document is whole,
breaks off within an element (`open`), which the decoder reports, or ends before any element
begins (`blank`), which is `io.EOF` and ends the loop without an error.

`MhdRecord`. A vehicle reports the positions of its drive one after the other (`Drive`), each
any point or an unknown one, while it drives the leg noted with it; the source notices the
stops behind it, sooner or later (`NoticeStop`), the trip ends (`StopDriving`), and at any time a report
is sent in the vehicle's dialect and read (`Report`): keys are looked up as
`lookupAttribute` does, values converted as the extract functions do, and the record is
placed by its last stop or by the nearest of the legs. Coordinates are integers, of any
unit; legs run in any direction, and squared distances are fractions, so the comparison
is exact.

Abstracted everywhere: names, tags, parameter values, logging, the text of messages. A
message is its instance, its kind and its time.

## 3. Runs

| Run | Properties | What it shows |
|---|---|---|
| `mhd_trip` | `CloseDatedAfterTrip`, `StartComesFirst`, `EndVisibleUnlessLate`, `OvertakenOnlyByClosing`, `TripsClose`, `EndsArePublished`, `ImplementsFeed` | one trip before, during and after its timetable, every interleaving of its records with the closing loop; liveness, and the refinement of `InstanceFeed` |
| `mhd_register` | `TypeOK`, `StatesAreAnnounced`, `RequestsBounded` | both registering goroutines, two updates, a failing publication |
| `mhd_late` (violation) | `FinishedTripsEndInactive` | see Findings |
| `ndic` | `ConsumersMirrorPublication`, `EndsVisibleInEventTime`, `StartComesFirst`, `StatesAreAnnounced`, `FreshProcessedOnce`, `ImplementsFeed` | segments vanish and return over three rounds |
| `waze` | `ConsumersMirrorFeed`, `EndsVisibleInEventTime`, `StartsBelongToBeginnings`, `RequestsBounded`, `ImplementsFeed` | jams appear, are re-dated, vanish and return |
| `waze_status` (violation) | `OnlyVanishedEnd` | see Findings |
| `rabbit` | `OneChannelOpen`, `StoredOnceInOrder`, `UpdatesKeptUntilHandled`, `PublishersReturn` | two publishers and the consumer on one channel that breaks |
| `stream` | `IdleIsReported`, `OnlyQuietStreamsExpire`, `QuietStreamsEnd`, `EveryEndpointTried` | two endpoints without end |
| `timetable` | `OccurrencesComplete`, `FoundUnlessTwin`, `RunningTripsAreMatched`, `BestUnlessSaturated` | refreshes in any order, records around a Sunday midnight and the time shifts of a Sunday |
| `inputs` | `AggregatesMatchJams`, `SnapshotsMatchDocument`, `PlacedWhereReported`, `FallsBackOnlyInDoubt`, `NeverBehindAccepted`, `AcceptedKept`, `CutWasNotAcknowledged` | feeds in any order, documents of up to three elements, vehicles on seven routes in 144 dialects; four uploads, three crashes, a failing write |
| `mhd_state` (violation) | `RunningVehiclesAreActive` | see Findings |
| `ndic_blank` (violation) | `OnlySnapshotsEndSegments` | see Findings |

Each property is stated in words before its definition. Seven of them say exactly how far a
promise goes where the obvious one does not hold:

* `EndVisibleUnlessLate`: a late report is excepted.
* `OvertakenOnlyByClosing`: delivery may go wrong around one closing message of the other
  goroutine, in two ways. The closing loop switches the trip off while its record is on the
  way, and the record's active state comes right after the closing message; or a record
  switches the trip on while the closing message is on the way, and that comes right after
  the active state. Nothing else is admitted; only in the first way may a start lie between
  the two.
* `FoundUnlessTwin`: trips with one UID share the first one's line and route, and the random
  order of a Go map decides which is first.
* `BestUnlessSaturated`: scores are cut at zero. Then the departure wins whose text sorts
  first, which need not be the earlier one where an hour is written with one digit.
* `RunningTripsAreMatched`: trips whose own clocks lie in a time shift are excepted.
* `CutWasNotAcknowledged`: after a crash the newest file is served even when it was cut, but
  then its upload was never answered.
* `FallsBackOnlyInDoubt`: the published segment of a vehicle may fall back where the last stop
  it names is one the route comes to again, and where the last stop does not decide (it is
  not told, or it is the final one) and the position is ambiguous: the leg driven has no
  known ends, a leg driven before comes as near to it, or one ahead comes nearer. Every one
  of these is needed by some route of the run. `PlacedWhereReported` says of each single
  report where it is placed, on every route.

Two properties except what the code is known to lose or not to do, so they do not show that
it is right there (the hazards in `PROJECT.json` say so): `StatesAreAnnounced` requests lost
to a failure, `FreshProcessedOnce` publications older than the delay. Nothing is asked of the
consumer of updates after a break or an unusable update, for it is not started again. The
timetable is that of the week the store was built for.

Three are reference definitions: `AggregatesMatchJams` and `SnapshotsMatchDocument` say of
all the input at once what the code reaches item by item, and `OccurrencesComplete` does so
for the store. `PlacedWhereReported` compares legs point by point, without the
perpendiculars and cases of `pointToSegmentDistanceSquared`.

### Bounds

Units of time are abstract; what matters is their order, and each cfg keeps that of the
code where the property depends on it.

* `mhd_trip`: the trip runs from 2 to 3, the reserve is 2, the window 3, the clock goes
  from 1 to 6. So there are records before the trip, in it, within the reserve and after it,
  and with a jitter of 1 a closing message falls on either side of its date. Two records are
  enough to switch a trip on, and on again after it was closed, or off by the source. One
  failure: the end is published or was the publication that failed; the properties that
  need a complete feed exclude it. The run ends with the clock, which is past the trip's
  window and its reserve. The source is ordered; with `OrderedSource = FALSE` the module
  admits records that overtake each other, and `EndVisibleUnlessLate` does not hold then:
  the code dates what it sends by the record at hand and makes no promise about older ones.
  The other properties hold for any order, as the proofs show.
* `mhd_register`: two trips, so that a batch has more than one; two refreshes and two
  updates, so that the second pass meets a set the core has replaced; one failure.
  Time hardly passes: registration does not depend on it.
* `ndic`, `waze`: one segment, three rounds, one failure, one update. Segments share no state
  but the lists, and `BatchLimit = 1` cuts even the list of one segment's start and active
  state. Three rounds let a segment vanish and return. `Lags = {1}` puts the measurement
  before its publication.
* `rabbit`: two publishers, as the closing loop and the record path, with two batches each;
  one break and one dial that fails; a good and an unusable update. A second break only
  repeats what the reopened channel may meet, the goroutines being in the same states.
* `stream`: the order `PingInterval < IdleTimeout < PongWait` is that of 25, 45 and 75 s.
  One slot: the goroutines of a connection are gone before the next is dialled in it. Timers
  count down and the run has no other bound, so its behaviours are infinite.
* `timetable`: four trips (two that share a UID, one over a Sunday midnight, one whose stop
  times may be too few or unreadable); 30 archives. 27 of them combine three forms of the
  trips, of the exceptions and of the live data's lines, with times before and after a Sunday
  midnight, so that the store is of this week or of the last. Two more archives meet the
  shifts of a Sunday, to summer time and back: a trip across the shift, one within its hour,
  one over the midnight after it and one a day later by the same clock. In the last one trips
  leave at 9:50 and at 10:10.
* `inputs`: feeds of up to four of seven jams, which between them have each field missing,
  equal and different, a closed road, a segment named twice and one that cannot be read;
  documents of up to three of nine elements, which between them have each part missing, twice
  and of another kind, and one that fails, whole, broken off within an element, or ending
  before the first; seven routes (along the axes with the last leg across the line of the
  first, slanted legs that turn back sharply, a stop without a place and two at one place,
  around a block and on, there and back, a final stop without a place, one stop), with
  positions on the legs, beside them, far off and unknown, in 144 dialects: three spellings,
  texts or numbers, with or without the wrapper and each part.
  Of the downloader: two files may stay, four messages, so pruning happens and a name can be taken
  twice in a second (six ticks). Messages are symmetric: nothing orders them.

`CHECK_DEADLOCK FALSE` stands where the bounds end the run: when the clock, the records or
the messages are used up there is nothing left to do. `stream` and `timetable` have no such
end, and TLC checks that they cannot stop.

### Fairness

* `MhdRuntime!FairSpec`: time passes, the closing loop, the record being handled and a pass
  of the refresh go on. Each is a goroutine of its own that waits for nothing but mutexes held
  for a few assignments, and for publications, which return (`PublishersReturn`). Nothing is
  assumed of the source, the core or the queue.
* `RabbitClient!FairSpec`: goroutines run; taking `c.mu` is strongly fair, because a Go mutex
  passes to a waiter after a millisecond; the library notices a dead connection (heartbeats)
  and a live one delivers. Breaks and failing dials are finitely many.
* `MhdStream!FairSpec`: goroutines run, time passes, a record is handled in finite time. The
  peer may send, stay silent or vanish as it likes. `EveryEndpointTried` assumes in its own
  statement that streams do not last for ever; `QuietStreamsEnd` says when they do.
* The other modules have no liveness property and no fairness.

## 4. Proofs

Each theorem holds for every value of the constants that satisfies the named assumptions:
any number of trips, segments, publishers, uploads or connections, any timetable, any
bound on clocks and failures. TLC evaluates the assumptions in the runs.

| Module | Theorem | Property | Rests on |
|---|---|---|---|
| `MhdRuntimeProofs` | `TypeCorrect` | `TypeOK` | inductive as it stands; one lemma per goroutine |
| | `AnnouncedBeforeStates` | `StatesAreAnnounced` | `AnnouncedInv` |
| | `RequestsAreBounded` | `RequestsBounded` | `RequestsInv` |
| | `ClosesAreDatedAfterTrips` | `CloseDatedAfterTrip` | `CloseInv` |
| | `StartsComeFirst` | `StartComesFirst` | `StartInv` |
| | `OvertakenByClosing` | `OvertakenOnlyByClosing` | `OvertakeInv` |
| | `EndsVisible` | `EndVisibleUnlessLate`, if `OrderedSource` | the four above, `SourceInv`, `EndDateInv` |
| | `FeedImplemented` | `ImplementsFeed` | `TypeOK` |
| `NdicRuntimeProofs` | `TypeCorrect` | its `TypeOK` | inductive |
| | `Announcements` | `StatesAreAnnounced` | `AnnounceInv` |
| | `StartFirst` | `StartComesFirst` | `StartInv` |
| | `FreshOnce` | `FreshProcessedOnce` | `FreshInv` |
| | `MirrorsPublication` | `ConsumersMirrorPublication` | `RoundInv`, `MirrorInv` |
| | `EndsVisible` | `EndsVisibleInEventTime` | `RoundInv`, `SourceTimes`, `RoundTimes`, `EndTimes` |
| | `FeedImplemented` | `ImplementsFeed` | `TypeOK` |
| `WazeLifecycleProofs` | `TypeCorrect` | its `TypeOK` | inductive |
| | `OncePerContent` | `RequestsBounded` | `RequestInv` |
| | `MirrorsFeed` | `ConsumersMirrorFeed` | `RoundInv`, `MirrorInv` |
| | `StartsAtBeginnings` | `StartsBelongToBeginnings` | `RoundInv`, `ClockInv`, `MirrorInv`, `StartInv` |
| | `EndsVisible` | `EndsVisibleInEventTime` | `RoundInv`, `ClockInv`, `EndInv` |
| | `FeedImplemented` | `ImplementsFeed` | `BuildInv` |
| `RabbitClientProofs` | `TypeCorrect` | its `TypeOK` | inductive |
| | `OneChannel` | `OneChannelOpen` | `LockInv` |
| | `OnceInOrder` | `StoredOnceInOrder` | `PublishInv` |
| | `KeptUntilHandled` | `UpdatesKeptUntilHandled` | `ConsumerInv` |
| `SourcesProofs` | `SnapshotsCorrect` | `SnapshotsMatchDocument` | `NdicInv` |
| | `AggregatesCorrect` | `AggregatesMatchJams` | `JamsInv` |
| | `PlacementIsRight` | `PlacedWhereReported` | `OnDrive` |
| | `FallingBack` | `FallsBackOnlyInDoubt` | `NoneAhead` |
| | `TypeCorrect` | `TypeOK` of `MhdStream` | inductive |
| | `IdleReported` | `IdleIsReported` | `StreamInv` |
| | `OnlyQuietExpire` | `OnlyQuietStreamsExpire` | `StreamInv` |
| `MhdTimetableProofs` | `StoreComplete` | `OccurrencesComplete` | `TypeOK`, `TablesInv` |
| | `Found` | `FoundUnlessTwin` | `TablesInv` |
| | `RunningMatched` | `RunningTripsAreMatched` | `TablesInv`, `MatchInv` |
| | `BestMatch` | `BestUnlessSaturated` | `TablesInv`, `MatchInv` |
| `DatexDownloaderProofs` | `TypeCorrect` | its `TypeOK` | `DiskInv`, proved together |
| | `CutNotAcknowledged` | `CutWasNotAcknowledged` | `CutInv`, `BusyInv` |
| | `NeverBehind` | `NeverBehindAccepted` | `BehindInv` and the rest of `DiskInv` |
| | `KeptOnDisk` | `AcceptedKept` | `AcceptedInv` and the rest of `DiskInv` |

### Assumptions

`ConstantsAssumption` of each module gives the constants their types. What is more than a
type: there is a trip or a segment at all; `BatchLimit` and the number of batches are not
zero; `Lags` are natural numbers, so no measurement lies in the future; `None`, `Nobody`,
`NoPublication` are none of the values they stand beside. `FeedsAssumption` and
`RecordsAssumption` say what the tables of an archive and a live record are made of:
finitely many rows, whole numbers, an unreadable stop time as `NoClock`, the texts of
departures in any order, whatever their minutes.
`NdicParserAssumption` and `WazeAssumption` do the same for documents and feeds: any sequence of
elements, any finite set of jams, `NoText`, `Unreadable` and `NoNumber` beside the values they
stand for. Speeds of jams are not negative, which the code does not check: of two negative
speeds the first would stay instead of the lower. A `blank` answer has neither elements nor a publication time. `RoutesAssumption` and
`DialectsAssumption`: any number of stops, each with a number in its id and coordinates that
are not negative (the source is in Brno), anywhere and as often as a trip comes to them; any
positions, of which only the leg driven is taken to grow; one spelling for each key of a
source. `ReserveAssumption`: the jitter
(500 ms) is below the reserve (10 min). `EndsVisible` of the MHD preprocessor has
`OrderedSource` as its hypothesis, for without it the property is false.

### Why the strengthenings are needed

*Announcements.* A state is published long after the decision to publish it. `AnnouncedInv`
and `AnnounceInv` follow it back: whatever is in `sdInstances`, in an update under way, past
the check, active, or waiting to be sent is announced already. An update can only name what
the core knows.

*Bounds.* `RequestsBounded` bounds a counter, and a bound is inductive only with an account
of what pays for each step: every request, sent or about to be, is paid by the refresh (once,
`registeredWeekUIDs`), by an update that was applied, or by presence in the present set. An
update that takes a trip out of the set adds one to the right-hand side as it takes one away.

*Dates.* `CloseDatedAfterTrip` is about messages sent; `CloseInv` says that an active trip
carries the reserve's end of one of its own occurrences, that the record being handled does
too, and that what waits in `toClose` was due when it was taken. `EndVisibleUnlessLate` needs
to know of every active report of a trip at rest which later message answers it. It adds
that no report sent is younger than the trip's `source` (`SourceInv`, where the order of the
source enters) and that every closing message carries the end of one occurrence
(`EndDateInv`); the late report, excepted in the property, is the only case left.

*Starts.* `StartInv`: before `seen` is set a trip has no message, so what the record path
sends after it set `seen` finds only closing messages before it.

*Overtaking.* `OvertakeInv` says of the state between the section under the mutex and the
publication what may have happened to it: the trip is still as the record left it, or the
closing loop has its end in hand, or has sent it. The other way round it says of a closing
message that waits in `toClose` for a trip that is on again that the active state is still
with the record path or was published last. Each case is carried up to the message that ends
it, which is how the property can name the two messages that changed places and nothing
between them.

*Rounds.* The mirrors of NDIC and Waze hold between rounds; in a round half of the segments
are from this publication and half from the last. `RoundInv` says which, and the other
invariants speak of `Log`, what the consumers have together with what the loop still has to
send, so publishing a list in order changes nothing they say unless it is cut.

*The channel.* `OneChannelOpen` needs the mutex: who is between taking `c.mu` and
releasing it holds it, and reopens only a channel that is closed (`LockInv`).
`PublishInv` speaks of `stored` and the wire as one sequence, which receiving does not
change: a publisher's batches come in it in order, and the batch at hand only once its
publication returned without an error. So what is tried a second time is not there yet, and
what came before it has succeeded. `ConsumerInv` adds that channels are numbered upwards,
so that one opened later is never taken for the one the consumer listens to, and that the
consumer holds at most one delivery, the one the broker waits for.

*The watchdog.* `OnlyQuietStreamsExpire` bounds `timer + quiet` from below: what is gone from
the timer has been quiet, unless the notice of a payload still waits (`GoodConn`).

*The timetable.* `StoreInv(S, done)` describes the store being built by the *set* of trips
added so far, and not by their order: its UIDs are those of the trips listed so far, each
has the occurrences of all of them, and the pair of one of them, under which it is
indexed. Adding a trip adds it to the set (`TripAdded`), so the finished store is what all
trips make of the feed. What the loop over the exceptions of a service leaves is the last
one of the day (`ActiveRuns`, by induction). That a reading shown once by the clocks splits
time into before and after (`ShownOnce`) and that `Clock` meets it (`ClockInstant`) hold for
any shift in either direction, which is why `RunningMatched` needs to except the shift's own
hour only.

*The disk.* `DiskInv` relates `memory`, the files, the order of `saves` and the answers.
The file being written is the newest and its upload the last saved (`BusyInv`, `FilesInv`,
`SavesInv`); so when pruning keeps the newest files it can only drop an accepted one behind
enough others (`AcceptedInv`), and a start that loads the newest file cannot serve one saved
before the last accepted (`BehindInv`). Pruning keeps the newest because file names carry a time: that a set of
files has a newest `MaxStoredFiles`, and that taking away the rest leaves exactly these, are
lemmas on finite sets in the same module.

*The document.* The property says of a finished fetch what all its elements give; `NdicInv`
says the same of the elements read so far (`Gathered`), whose places are `1 .. readElements`. An
element read adds one place to that set: the first code stays the first (`FirstAdded`), the
newest time is the newer of two, the last value is the one just read. The same step one level
down gives what an element says from its items (`ElementSays`, `ElementIs`). The property
finds the measuring items of a document directly, and `FollowsSays` shows that it means the
same. After the loop `enrichFetch` must find the point of the first codes (`EnrichedIs`).

*The jams.* `AggregatesMatchJams` compares each device with all the mentions of it, so `JamsInv`
must not speak of an order: `TableMatches` relates the table to the *set* of mentions of the
jams merged so far. A merge adds one mention (`Merged`): greatest delay, slowest known speed
and latest time are those of the larger set, a sum does not depend on the order of what is
added (`SumsAnyOrder`), and the raw jams stay sorted, with the new one in its place as often
as there are mentions of it (`Inserted`, `RankSplits`, `InsertedCounts`). One jam may mention
a device twice, so between two segments of a jam the set holds some of its mentions.

*The position.* `PlacementIsRight` needs little of the state (`OnDrive`: places and last stops
lie on the route) and much arithmetic. The code measures the distance to a leg by the foot of
the perpendicular, the property by the points of the leg. Divided into as many parts as the
square of its length, a leg has the foot among its points, so the distance the code computes
is that of one of them and no other is less; from this `AsNear` is the comparison of the
code's fractions (`NearestPlaces`). `CoordinatesRead` and `LastStopRead` show that every record
made of a report has the vehicle's position and last stop, wherever the dialect puts them and
however it spells them.

*Falling back.* `NoneAhead` says that the segment last published is not ahead of what is
known: with last stops, while the route comes to none again, it does not exceed the last stop
told; without them, while no position left the leg in doubt, it does not exceed the leg driven.
Both only grow. So a segment that falls back was ahead, or this report leaves the leg in doubt,
or the vehicle is at the final stop, where its last stop begins no leg and the position
decides.

### Lists

`Delivered` is a recursion over a list, and so are the messages of NDIC and Waze.
`BatchesProofs` proves the rule of induction it needs about *sets* (`NatSetInduction`,
`SeqSetInduction`): from a set of sequences that contains the empty one and is closed under
`Append`, to all of them, by way of the least element of a set of numbers. From it follow
`DeliveredAppend`, what a beginning of a list leaves in the logs (`DeliveredBegins`), what a
list with one message for each instance adds to them (`DeliveredOnce`), and that every
message of a list becomes one in the log of its instance (`DeliveredCounts`).

The folds of the community modules are recursive functions on the subsets of a list's places.
`FoldExists` shows that there is such a function, which no backend would find, and
`ListFoldExists` reads it as a sequence of partial results: nothing at first, then each
element's step. `UptoInduction` carries a fact along that sequence. Items of an element
and segments of a jam are treated so.

### The abstract specification

`FeedImplemented` shows for each preprocessor that `Init` implies `Feed!Init` and each step
is a `Change`, a `Dispatch` or a stutter of `InstanceFeed`: messages are decided together
with the change of activity they stand for, and sent once or dropped. For NDIC and Waze
the outbox counts the messages in a list; publishing it moves them to the logs, a failure
drops those behind the batches that are out (`DeliveredCounts`, `CutCounts`). For Waze this needs `BuildInv`: the list being built has the
messages of the segments handled so far, once each.

### Only model-checked

* Liveness: `TripsClose`, `EndsArePublished`, `PublishersReturn`,
  `QuietStreamsEnd`, `EveryEndpointTried`. Fairness and ENABLED are out of the prover's reach.
* That the assumptions can be met and the interesting cases happen: TLC evaluates the
  assumptions in the runs and reaches these states.

## 5. Findings

* **A late trip stays active in event time** (`mhd_late`). Records are matched until 30 min
  after the scheduled end, but the closing message is dated 10 min after it. The README of
  the preprocessor says the inactive state lets the processing downstream record the end.
* **An error page in JSON ends jams** (`waze_status`). The status of the answer is not looked
  at, so `{"error": ...}` is a feed without jams. The README says the zero state is for
  segments that vanished from the feed.
* **A vehicle without a State is inactive** (`mhd_state`). `extractString` turns what is
  missing into the text `<nil>`, and a State that is neither empty nor `0` makes a record
  inactive. The run's vehicle says `isinactive = false` in reports without a State and is
  switched off. The README says the inactive state is for trips that stop being active. It
  depends on the source always sending a State.
* **An answer without a document ends all segments** (`ndic_blank`). The end of the data
  before any element is no error to the decoder's loop, so an empty answer, a prolog alone
  or a wrapper without `latest_raw` is a publication of this moment without segments. The
  downloader can serve one: a crash in `write_text` leaves an empty file, and the restarted
  process loads it as its latest message. The README says the inactive state is for segments
  that do not appear in a new snapshot.

Smaller things seen on the way, none of them against a promise of the repository: a clock
such as 26:30 on the Sunday of the shift to summer time is read as 2:30 of that Sunday,
which does not exist, and only then moved on by a day, so its trip lies an hour late on
Monday and is not matched when it starts (`InShift` excepts it); fallbacks
behind `extractString` (`LowFloor` for `IsBarrierLess`, the line's other keys) are never
taken, because `<nil>` is not empty; a downloader that dies while it writes serves a cut
message until the next upload (`CutWasNotAcknowledged` says that nobody was told otherwise); a closing
message decided before a trip is switched on again may be delivered after the new active state,
and is then the last the consumers hear although the trip is on (`OvertakenOnlyByClosing`
admits it; when the record is of the same run of the trip, its reserve is over and the next
pass of the closing loop switches the trip off again); among trips that evidence does not
tell apart, one at `9:50:00` loses to one at `10:10:00`, because departures are sorted as
strings; a vehicle
at the final stop of a route whose last two stops lie at one place, or one of them nowhere,
falls back to the leg before, because the final stop begins no segment and the position
then decides; a vehicle that tells its last stop on a route that comes to the stop twice is
placed on the later leg from the start, and back again at the next stop; where a stop
without a place hides a bend, the nearest leg may be one beyond it, and the position jumps
ahead and back again; of several negative speeds of jams on one
segment the first one stays, not the lowest.

## 6. Not modelled

* **Formatting and fields that are handed on**: labels, names, colours, line ids and the
  other parameters of a state, which nothing decides on. Of parsing, what decides is
  modelled: which keys and parts are found, what a value is that cannot be read.
* **Floating point**: coordinates are integers (of a unit as small as one likes) and distances
  exact fractions. Positions as near to two legs as a rounding error are told apart here and
  may not be by the code. The progress within a segment is a parameter.
* **Times of records**: `extractTime` and the fallbacks of `source_time` are inputs of
  `MhdRuntime`.
* **Weeks passing**: `registeredWeekUIDs` is never cleared, so a trip whose request was lost
  is not requested again by the refresh; the record path does so. One pass of a process's
  weeks is modelled, not its growth.
* **Registration of the types and configuration**: one request at the start, environment
  variables, no state after it. The KPI and time series models of the shared library are
  used by no preprocessor.
* **The order of pushes**: the upload whose body is complete last is served, although it may
  have been begun first. The downloader makes no claim about that order, and a handler runs
  whole once its body is there.
* **RPC and correlation ids** of the client: no preprocessor calls them. `Dispose` runs at
  exit.
* **Restarts of the preprocessors**: they keep nothing; a restart is `Init` again. What the
  core then does with the states it has is not in the repository.
* **The Backend Core, RabbitMQ, the amqp and WebSocket libraries**: external, modelled by
  what the code here relies on.

## 7. Plan

Done: the modules of section 2 and the theorems of section 4. Every safety property of the
passing runs is a theorem.

To extend: several clients on one queue of updates, composed of `RabbitClient` and a
registry.
