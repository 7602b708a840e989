---------------------------- MODULE MhdTimetable ----------------------------
(***************************************************************************)
(* The GTFS store of the MHD preprocessor (gtfs_store.go) and the matching *)
(* of live records to it (matching.go).  A refresh expands the tables of   *)
(* the archive into the trips of the current week; it goes over the trips  *)
(* in the random order of a Go map, and several trips may share a UID.     *)
(* Records are matched to the store all the while.                         *)
(*                                                                         *)
(* Instants are minutes since the midnight before day 0, a Monday; they    *)
(* are what the clocks of the zone show, until a time shift.               *)
(***************************************************************************)
EXTENDS Integers, Sequences, FiniteSets, SequencesExt, FiniteSetsExt

CONSTANTS
  Trips,           \* trip_id of trips.txt
  Feeds,           \* the archives that may be downloaded, see below
  NoFeed,          \* none yet
  Records,         \* the live records, see below
  None,            \* an attribute a record or a trip does not have
  DayLength,       \* 1440 minutes
  MatchingWindow,  \* config.go: 30 minutes
  Times,           \* when the clock is looked at
  Zones,           \* time shifts of GTFSLocation: by how much, from which instant on
  NoClock          \* a stop time that does not parse

(* A feed is a record of                                                    *)
(*   trips      [Trips -> [route, direction, service, rows]], rows a set of *)
(*              [seq, stop, arrival, departure, text], clocks in minutes,   *)
(*              text the place of departure_time in the order of strings:   *)
(*              hours may have one digit, and "9:50:00" comes behind        *)
(*              "10:10:00"                                                  *)
(*   calendar   the rows of calendar.txt: [service, first, last, days]      *)
(*   exceptions the rows of calendar_dates.txt: [service, date, type]       *)
(*   api        [Trips -> line and route of the live data, or None].        *)
(* A record has pair, ts, service, departure, finalStop, lastStop, and      *)
(* running: the UID its vehicle is active on in instanceStates, or None.    *)

ASSUME ConstantsAssumption ==
  /\ {DayLength, MatchingWindow} \subseteq Nat
  /\ DayLength # 0
  /\ Times \subseteq Nat
  /\ Zones \subseteq [at : Nat, by : -120 .. 120]
  /\ NoFeed \notin Feeds
  /\ NoClock \notin Nat

ASSUME FeedsAssumption ==
  \A feed \in Feeds :
    /\ \A t \in Trips :
         /\ IsFiniteSet(feed.trips[t].rows)
         /\ \A row \in feed.trips[t].rows :
              /\ row.seq \in Int /\ row.text \in Nat
              /\ {row.arrival, row.departure} \subseteq Nat \cup {NoClock}
    /\ feed.exceptions \in Seq(ToSet(feed.exceptions))

ASSUME RecordsAssumption ==
  \A r \in Records : r.ts \in Nat /\ r.departure \in Nat \cup {None}

VARIABLES
  zone,     \* the time shift, if there is one these weeks
  now,      \* the instant
  archive,  \* what MHD_GTFS_URL serves; every refresh builds anew from it
  build,    \* locals of refresh and buildDefinitions
  store,    \* definitionsByUID, lineRouteIndex; history: the feed, its week
  match     \* the record last handled and what matchLiveRecord returned

vars == <<zone, now, archive, build, store, match>>

-----------------------------------------------------------------------------
(* The tables *)

\* parseStopTimesCSV: the rows of a trip by their stop_sequence.
StopsOf(trip) ==
  CHOOSE s \in [1 .. Cardinality(trip.rows) -> trip.rows] :
    \A i, j \in DOMAIN s : i < j => s[i] # s[j] /\ s[i].seq <= s[j].seq

\* buildTripInstanceUID: the departure enters as the text it is.  No two trips are
\* taken to have the same hash.
UIDOf(trip) ==
  LET stops == StopsOf(trip) IN
  <<trip.route, stops[1].text, [i \in DOMAIN stops |-> stops[i].stop], trip.direction>>

\* parseCalendarCSV: a later row of a service replaces an earlier one.
InCalendar(feed, service, day) ==
  LET rows == SelectSeq(feed.calendar, LAMBDA r : r.service = service) IN
  /\ rows # <<>>
  /\ day \in rows[Len(rows)].first .. rows[Len(rows)].last
  /\ day % 7 \in rows[Len(rows)].days

\* What the clocks of the zone show at an instant: time.In.
Local(t) == IF t >= zone.at THEN t + zone.by ELSE t

\* The instant of a reading of the clocks: time.Date, as it decides east of
\* Greenwich. Of a doubled hour it takes the second; an hour that is skipped is
\* counted on from the shift.
Instant(reading) == IF reading - zone.by >= zone.at THEN reading - zone.by ELSE reading

DayOf(t) == Local(t) \div DayLength

\* weekBounds: the Monday of the day the clock shows.
WeekStart(t) == DayOf(t) - (DayOf(t) % 7)

\* Mutant: only dates of the calendar are looked up in calendar_dates.txt.
ServiceDatesOfCalendar(feed, service, week) ==
  {day \in week .. week + 6 : InCalendar(feed, service, day) /\
     FoldLeft(LAMBDA on, e : IF e.service = service /\ e.date = day THEN e.type = 1 ELSE on,
              TRUE, feed.exceptions)}

\* activeServiceDates: an exception of the date overrides the calendar, and a
\* later exception an earlier one.  active[n] is the loop's after n exceptions.
ActiveOn(feed, service, day) ==
  LET active[n \in 0 .. Len(feed.exceptions)] ==
        IF n = 0 THEN InCalendar(feed, service, day)
        ELSE LET e == feed.exceptions[n] IN
             IF e.service = service /\ e.date = day THEN e.type = 1 ELSE active[n - 1]
  IN active[Len(feed.exceptions)]
ServiceDates(feed, service, week) == {day \in week .. week + 6 : ActiveOn(feed, service, day)}

\* Mutant: the clock is counted from the midnight of the service date.
ClockSinceMidnight(day, clock) == Instant(day * DayLength) + clock
\* parseGTFSClock: the time of the service date, moved on to the days after it
\* (AddDate) for the clocks from 24:00 on.
Clock(day, clock) ==
  LET onServiceDate == Instant(day * DayLength + (clock % DayLength))
  IN Instant(Local(onServiceDate) + (clock \div DayLength) * DayLength)

\* The occurrences of one trip; a clock that does not parse gives none.
OccurrencesOf(t, trip, dates) ==
  LET stops == StopsOf(trip)
      from  == stops[1].departure
      to    == stops[Len(stops)].arrival
  IN {[trip |-> t, service |-> trip.service, date |-> day,
       start |-> Clock(day, from), end |-> Clock(day, to)] :
        day \in IF NoClock \in {from, to} THEN {} ELSE dates}

-----------------------------------------------------------------------------
(* refresh *)

EmptyStore == [feed |-> NoFeed, week |-> 0, definitions |-> <<>>, index |-> {}]
Idle == [pc |-> "idle", store |-> EmptyStore, todo |-> {}]
NoMatch == [record |-> None, found |-> FALSE]

Init ==
  /\ zone \in Zones
  /\ now \in Times
  /\ archive \in Feeds
  /\ build = Idle
  /\ store = EmptyStore
  /\ match = NoMatch

\* The archive is downloaded and parsed.  A failure leaves everything as it was.
StartRefresh ==
  /\ build.pc = "idle"
  /\ build' = [pc |-> "build", todo |-> Trips,
               store |-> [EmptyStore EXCEPT !.feed = archive, !.week = WeekStart(now)]]
  /\ UNCHANGED <<zone, now, archive, store, match>>

\* A definition is made for the first trip of a UID, with that trip's pair.
Definition(trip, pair) ==
  LET stops == StopsOf(trip) IN
  [departure |-> stops[1].text, pair |-> pair,
   stops |-> [i \in DOMAIN stops |-> stops[i].stop], occurrences |-> {}]

\* Mutant: index[key] is set to the new definition alone.
IndexedAlone(index, pair, uid) == {e \in index : e[1] # pair} \cup {<<pair, uid>>}
\* index[key] = append(index[key], definition)
Indexed(index, pair, uid) == index \cup {<<pair, uid>>}

\* One round of buildDefinitions' loop.
AddTrip(t) ==
  LET b == build.store
      trip == b.feed.trips[t]
      dates == ServiceDates(b.feed, trip.service, b.week)
      uid == UIDOf(trip)
      known == uid \in DOMAIN b.definitions
      old == IF known THEN b.definitions[uid] ELSE Definition(trip, b.feed.api[t])
      new == [old EXCEPT !.occurrences = @ \cup OccurrencesOf(t, trip, dates)]
  IN
  /\ build.pc = "build"
  /\ t \in build.todo
  /\ IF Cardinality(trip.rows) < 2 \/ dates = {}
     THEN build' = [build EXCEPT !.todo = @ \ {t}]
     ELSE build' = [build EXCEPT !.todo = @ \ {t},
            !.store.definitions =
               [u \in DOMAIN @ \cup {uid} |-> IF u = uid THEN new ELSE @[u]],
            !.store.index = IF known \/ new.pair = None THEN @
                            ELSE Indexed(@, new.pair, uid)]
  /\ UNCHANGED <<zone, now, archive, store, match>>

\* The new maps replace the old ones under store.mu.
FinishRefresh ==
  /\ build.pc = "build"
  /\ build.todo = {}
  /\ store' = build.store
  /\ build' = Idle
  /\ match' = NoMatch
  /\ UNCHANGED <<zone, now, archive>>

-----------------------------------------------------------------------------
(* matchLiveRecord *)

\* definitionsFor, and every occurrence of the candidates in the window.
Candidates(r) ==
  {c \in UNION {{[uid |-> u, occ |-> o] : o \in store.definitions[u].occurrences} :
                  u \in {u \in DOMAIN store.definitions : <<r.pair, u>> \in store.index}} :
     r.ts \in (c.occ.start - MatchingWindow) .. (c.occ.end + MatchingWindow)}

Distance(a, b) == IF a < b THEN b - a ELSE a - b

\* matchingBonus, in minutes.
Bonus(r, c) ==
  LET d == store.definitions[c.uid]
      drift == IF r.departure = None THEN 11 ELSE Distance(c.occ.start, r.departure)
      ends == {d.stops[1], d.stops[Len(d.stops)]}
  IN (IF c.occ.date = DayOf(r.ts) THEN 30 ELSE 0)
     + (IF r.service # None /\ r.service = c.occ.service THEN 45 ELSE 0)
     + (IF drift <= 2 THEN 60 ELSE IF drift <= 5 THEN 40 ELSE IF drift <= 10 THEN 20 ELSE 0)
     + (IF r.finalStop = d.stops[Len(d.stops)] THEN 20 ELSE 0)
     + (IF r.lastStop \in ToSet(d.stops) THEN 10 ELSE 0)
     + (IF r.lastStop \in ends THEN 5 ELSE 0)
     + (IF r.running = c.uid THEN 25 ELSE 0)

\* Mutant: the distance keeps its sign.
ScoreSigned(r, c) ==
  LET score == c.occ.start - r.ts - Bonus(r, c) IN IF score < 0 THEN 0 ELSE score
Score(r, c) ==
  LET score == Distance(c.occ.start, r.ts) - Bonus(r, c) IN IF score < 0 THEN 0 ELSE score

\* The first of the least score: candidates come by the text of their departure,
\* those of one text in any order, and the occurrences of a candidate by their start.
BestMatches(r) ==
  LET least == {c \in Candidates(r) : \A e \in Candidates(r) : Score(r, c) <= Score(r, e)}
      Departure(c) == store.definitions[c.uid].departure
  IN {c \in least : \A e \in least :
        /\ Departure(c) <= Departure(e)
        /\ c.uid = e.uid => c.occ.start <= e.occ.start}

MatchRecord(r) ==
  /\ store.feed # NoFeed                  \* main refreshes before it reads the stream
  /\ \/ /\ Candidates(r) = {}
        /\ match' = [record |-> r, found |-> FALSE]
     \/ \E c \in BestMatches(r) :
          match' = [record |-> r, found |-> TRUE, uid |-> c.uid, occ |-> c.occ]
  /\ UNCHANGED <<zone, now, archive, build, store>>

\* Time passes between refreshes: the store may belong to last week.
Tick ==
  /\ \E t \in Times : t > now /\ now' = t
  /\ match' = NoMatch
  /\ UNCHANGED <<zone, archive, build, store>>

Next == \/ StartRefresh \/ FinishRefresh \/ Tick
        \/ \E t \in Trips : AddTrip(t)
        \/ \E r \in Records : r.ts <= now /\ MatchRecord(r)

Spec == Init /\ [][Next]_vars
-----------------------------------------------------------------------------
(* Properties *)

\* What the tables say, without regard to how a refresh goes over them.
RunsOn(feed, service, day) ==
  LET said == {i \in DOMAIN feed.exceptions :
                 feed.exceptions[i].service = service /\ feed.exceptions[i].date = day}
  IN IF said = {} THEN InCalendar(feed, service, day)
                  ELSE feed.exceptions[Max(said)].type = 1

Usable(trip) ==
  /\ Cardinality(trip.rows) >= 2
  /\ StopsOf(trip)[1].departure # NoClock
  /\ StopsOf(trip)[Cardinality(trip.rows)].arrival # NoClock

\* The runs of the trips on the days of a week: [trip, date].
Runs(feed, week) ==
  {run \in [trip : Trips, date : week .. week + 6] :
     /\ Usable(feed.trips[run.trip])
     /\ RunsOn(feed, feed.trips[run.trip].service, run.date)}

\* The store holds every run of its week, once, under the UID of its trip, and
\* nothing else, in whatever order the map of trips was gone over.
OccurrencesComplete ==
  store.feed # NoFeed =>
    LET held == UNION {{<<u, [trip |-> o.trip, date |-> o.date]>> :
                          o \in store.definitions[u].occurrences} :
                         u \in DOMAIN store.definitions}
    IN held = {<<UIDOf(store.feed.trips[run.trip]), run>> : run \in Runs(store.feed, store.week)}

\* A trip can be found by its line and route, unless another trip has the same
\* UID and a different line and route, or none.
FoundUnlessTwin ==
  store.feed # NoFeed =>
    \A run \in Runs(store.feed, store.week) :
      LET uid == UIDOf(store.feed.trips[run.trip]) IN
      \/ store.feed.api[run.trip] = None
      \/ <<store.feed.api[run.trip], uid>> \in store.index
      \/ \E t \in Trips : /\ Cardinality(store.feed.trips[t].rows) >= 2
                          /\ UIDOf(store.feed.trips[t]) = uid
                          /\ store.feed.api[t] # store.feed.api[run.trip]

\* When the clocks of the zone show a reading: once, except in a time shift.
Showings(reading) == {t \in {reading, reading - zone.by} : Local(t) = reading}

\* A clock that is skipped on the service date, or skipped or doubled on the
\* date it is meant for.
InShift(day, clock) ==
  \/ Showings(day * DayLength + (clock % DayLength)) = {}
  \/ Cardinality(Showings(day * DayLength + clock)) # 1

\* A record of a trip that runs at the record's time by the clocks, after
\* midnight and on both sides of a time shift too, is matched to something,
\* unless the run belongs to another week than the last refresh, its own clocks
\* lie in the shift, or the trip is hidden by its twin.
RunningTripsAreMatched ==
  match.record # None /\ ~match.found =>
    \A run \in Runs(store.feed, store.week) :
      LET stops == StopsOf(store.feed.trips[run.trip])
          from  == stops[1].departure
          to    == stops[Len(stops)].arrival
      IN \/ Local(match.record.ts) - run.date * DayLength \notin from .. to
         \/ InShift(run.date, from) \/ InShift(run.date, to)
         \/ <<match.record.pair, UIDOf(store.feed.trips[run.trip])>> \notin store.index

\* Nothing in the window speaks more for another trip than for the chosen one,
\* unless both are beyond what the score tells apart: it is cut at zero, and
\* there the departure wins whose text sorts first, be it earlier or later.
Evidence(r, c) == Bonus(r, c) - Distance(c.occ.start, r.ts)
BestUnlessSaturated ==
  match.found =>
    LET r == match.record
        chosen == [uid |-> match.uid, occ |-> match.occ]
    IN \A c \in Candidates(r) :
         \/ Evidence(r, c) <= Evidence(r, chosen)
         \/ /\ Evidence(r, chosen) >= 0
            /\ store.definitions[chosen.uid].departure <= store.definitions[c.uid].departure
=============================================================================
