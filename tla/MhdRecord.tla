------------------------------ MODULE MhdRecord ------------------------------
(***************************************************************************)
(* What the MHD preprocessor makes of the reports of one vehicle: the      *)
(* payload is read into a record (parseRawEnvelope and the extract         *)
(* functions of helpers.go, buildLiveRecord of ws_source.go) and the       *)
(* record is placed between two stops of its trip (segment.go). The source *)
(* is a vehicle that reports positions in one of several dialects:         *)
(* spellings of the keys, texts or numbers, parts left out.                *)
(*                                                                         *)
(* A text is the sequence of the numbers written in it; a negative number  *)
(* is a word without digits: "U12Z3" is <<12, 3>>, "" is <<>>.             *)
(* A value of JSON is Null or [type, of] with the types "bool", "number",  *)
(* "text" and "object".  A key is <<name, spelling>>, the name in lower    *)
(* case. Coordinates are integers; distances are fractions, so nothing is  *)
(* rounded.                                                                *)
(***************************************************************************)
EXTENDS Integers, Sequences, FiniteSets, SequencesExt, FiniteSetsExt

CONSTANTS
  Routes,    \* [stops, drive]: stops [id, lat, lng] (StopMetadata of a trip) and
             \* the positions [leg, lat, lng] a vehicle reports as it drives it
  Dialects   \* [spelling, numbers, flat, geometry, lastStop, inactive, state]

VARIABLES
  route,      \* the stops of the trip, the positions the vehicle reports
  dialect,    \* how the source writes
  place,      \* where the vehicle is: an index into its drive
  lastStop,   \* the stop it says it passed last; may lag behind
  stopped,    \* whether it says it is inactive
  segment,    \* the segment last published, 0 before the first
  active      \* the state last published: "none", TRUE or FALSE as a text

recordVars == <<route, dialect, place, lastStop, stopped, segment, active>>

-----------------------------------------------------------------------------
(* Values *)

Null == [type |-> "null"]
NilWord == -1
TrueWord == -2
FalseWord == -3
Trues == {<<1>>, <<TrueWord>>}     \* strconv.ParseBool
Falses == {<<0>>, <<FalseWord>>}

\* extractString: what is missing becomes the text "<nil>".
ExtractString(v) ==
  CASE v.type = "text" -> v.of
    [] v.type = "number" -> <<v.of>>
    [] v.type = "bool" -> IF v.of THEN <<TrueWord>> ELSE <<FalseWord>>
    [] v.type = "null" -> <<NilWord>>

\* extractFloat: the numbers a value stands for, none or one.
ExtractFloat(v) ==
  CASE v.type = "number" -> {v.of}
    [] v.type = "text" /\ Len(v.of) = 1 /\ v.of[1] >= 0 -> {v.of[1]}
    [] OTHER -> {}

\* extractBool
ExtractBool(v) ==
  CASE v.type = "bool" -> {v.of}
    [] v.type = "text" /\ v.of \in Trues -> {TRUE}
    [] v.type = "text" /\ v.of \in Falses -> {FALSE}
    [] OTHER -> {}

\* lookupAttribute: the exact keys in their order, then keys that differ in
\* case, those in the random order of a Go map.
Lookup(attributes, keys) ==
  LET exact == {i \in DOMAIN keys : keys[i] \in DOMAIN attributes}
      alike == {i \in DOMAIN keys : \E k \in DOMAIN attributes : k[1] = keys[i][1]}
  IN CASE exact # {} -> {attributes[keys[Min(exact)]]}
       [] exact = {} /\ alike # {} ->
            {attributes[k] : k \in {k \in DOMAIN attributes : k[1] = keys[Min(alike)][1]}}
       [] OTHER -> {Null}

\* parseRawEnvelope: a payload without attributes and geometry is taken for the
\* attributes themselves.
ObjectAt(payload, name) ==
  LET key == <<name, name>>
  IN IF key \in DOMAIN payload /\ payload[key].type = "object" THEN payload[key].of ELSE <<>>

Envelope(payload) ==
  LET attributes == ObjectAt(payload, "attributes")
      geometry == ObjectAt(payload, "geometry")
  IN [attributes |-> IF attributes = <<>> /\ geometry = <<>> THEN payload ELSE attributes,
      geometry |-> geometry]

\* A number of the geometry before one of the attributes, else 0.
Coordinate(geometric, plain) ==
  LET numbers == IF ExtractFloat(geometric) # {} THEN ExtractFloat(geometric)
                                                 ELSE ExtractFloat(plain)
  IN IF numbers = {} THEN 0 ELSE CHOOSE n \in numbers : TRUE

\* buildLiveRecordFromPayload: a state other than "" and "0" makes inactive.
Inactive(off, state) == TRUE \in ExtractBool(off) \/ ExtractString(state) \notin {<<>>, <<0>>}

\* buildLiveRecord, the fields that place and switch a trip: the records it may
\* make of a payload.
LiveRecords(payload) ==
  LET a == Envelope(payload).attributes
      g == Envelope(payload).geometry
  IN {[lastStop |-> ExtractString(stop), lat |-> Coordinate(y, lat), lng |-> Coordinate(x, lng),
       inactive |-> Inactive(off, state)] :
        stop \in Lookup(a, <<<<"laststopid", "laststopid">>, <<"laststopid", "LastStopID">>>>),
        lat \in Lookup(a, <<<<"lat", "lat">>, <<"latitude", "Latitude">>>>),
        lng \in Lookup(a, <<<<"lng", "lng">>, <<"longitude", "Longitude">>>>),
        y \in Lookup(g, <<<<"y", "y">>>>), x \in Lookup(g, <<<<"x", "x">>>>),
        off \in Lookup(a, <<<<"isinactive", "isinactive">>>>),
        state \in Lookup(a, <<<<"state", "State">>>>)}

-----------------------------------------------------------------------------
(* Segments *)

\* normalizeStopIdentity
StopIdentity(text) ==
  LET numbers == {k \in DOMAIN text : text[k] >= 0}
  IN IF numbers = {} THEN text ELSE <<text[Min(numbers)]>>

\* segmentIndexFromLastStop: of several visits of a stop the last; 0 for none.
IndexFromLastStop(stops, text) ==
  LET id == StopIdentity(text)
      visits == {i \in 1 .. Len(stops) - 1 : StopIdentity(stops[i].id) = id}
  IN IF id = <<>> \/ visits = {} THEN 0 ELSE Max(visits)

ValidCoords(p) == ~(p.lat = 0 /\ p.lng = 0)

Square(n) == n * n
DistanceOfPoints(a, b) == <<Square(a.lat - b.lat) + Square(a.lng - b.lng), 1>>
Along(a, b, p) == (p.lat - a.lat) * (b.lat - a.lat) + (p.lng - a.lng) * (b.lng - a.lng)
Across(a, b, p) == (p.lat - a.lat) * (b.lng - a.lng) - (p.lng - a.lng) * (b.lat - a.lat)
LengthSquared(a, b) == Square(b.lat - a.lat) + Square(b.lng - a.lng)

\* Mutant: the foot of the perpendicular may lie beyond the ends.
DistanceToLine(a, b, p) ==
  IF LengthSquared(a, b) = 0 THEN DistanceOfPoints(a, p)
  ELSE <<Square(Across(a, b, p)), LengthSquared(a, b)>>
\* pointToSegmentDistanceSquared, as a fraction
DistanceToSegment(a, b, p) ==
  CASE Along(a, b, p) <= 0 -> DistanceOfPoints(a, p)
    [] Along(a, b, p) > LengthSquared(a, b) -> DistanceOfPoints(b, p)
    [] OTHER -> <<Square(Across(a, b, p)), LengthSquared(a, b)>>

Nearer(d, e) == d[1] * e[2] < e[1] * d[2]

\* Mutant: of legs that are as near the last one wins.
NearestLast(stops, p) ==
  LET placed == {i \in 1 .. Len(stops) - 1 : ValidCoords(stops[i]) /\ ValidCoords(stops[i + 1])}
      distance == [i \in placed |-> DistanceToSegment(stops[i], stops[i + 1], p)]
  IN IF ~ValidCoords(p) \/ placed = {} THEN 0
     ELSE Max({i \in placed : \A j \in placed : ~Nearer(distance[j], distance[i])})

\* nearestStopSegmentIndex: the first of the nearest; 0 for none.
NearestIndex(stops, p) ==
  LET placed == {i \in 1 .. Len(stops) - 1 : ValidCoords(stops[i]) /\ ValidCoords(stops[i + 1])}
      distance == [i \in placed |-> DistanceToSegment(stops[i], stops[i + 1], p)]
  IN IF ~ValidCoords(p) \/ placed = {} THEN 0
     ELSE Min({i \in placed : \A j \in placed : ~Nearer(distance[j], distance[i])})

\* buildSegmentMatch; 0 for none.
SegmentIndex(stops, record) ==
  CASE Len(stops) < 2 -> 0
    [] IndexFromLastStop(stops, record.lastStop) > 0 -> IndexFromLastStop(stops, record.lastStop)
    [] OTHER -> NearestIndex(stops, [lat |-> record.lat, lng |-> record.lng])

-----------------------------------------------------------------------------
(* The source *)

\* The id of a stop has a number in it. Without a place a stop is at (0, 0).
Stops == [id : {id \in Seq(Int) : \E k \in DOMAIN id : id[k] >= 0}, lat : Nat, lng : Nat]

\* Stops lie anywhere, a route may come to one of them again and again, and a
\* position is any point, or (0, 0) when it is not known: all that is taken of a
\* drive is that the leg driven, the number of the stop it begins at, only grows.
ASSUME RoutesAssumption ==
  \A r \in Routes :
    /\ r.stops \in Seq(Stops)
    /\ r.drive \in Seq([leg : 1 .. Len(r.stops), lat : Nat, lng : Nat]) \ {<<>>}
    /\ \A j, k \in DOMAIN r.drive : j <= k => r.drive[j].leg <= r.drive[k].leg

Spelled(names) == names \X STRING

\* A dialect spells each key in one way.
ASSUME DialectsAssumption ==
  \A d \in Dialects :
    /\ d \in [spelling : [lat : Spelled({"lat", "latitude"}), lng : Spelled({"lng", "longitude"}),
                          laststopid : Spelled({"laststopid"}), isinactive : Spelled({"isinactive"}),
                          state : Spelled({"state"})],
              numbers : BOOLEAN, flat : BOOLEAN, geometry : BOOLEAN,
              lastStop : BOOLEAN, inactive : BOOLEAN, state : BOOLEAN]
    /\ d.flat => ~d.geometry

Position == [lat |-> route.drive[place].lat, lng |-> route.drive[place].lng]

InDialect(number) ==
  IF dialect.numbers THEN [type |-> "number", of |-> number] ELSE [type |-> "text", of |-> <<number>>]

\* The parts of a report, by the name of their key.
Parts ==
  LET p == Position
      stop == route.stops[lastStop].id
  IN [name \in {"lat", "lng", "laststopid", "isinactive", "state"} |->
        CASE name = "lat" -> InDialect(p.lat)
          [] name = "lng" -> InDialect(p.lng)
          [] name = "laststopid" -> IF dialect.numbers THEN InDialect(StopIdentity(stop)[1])
                                                       ELSE [type |-> "text", of |-> stop]
          [] name = "isinactive" -> IF dialect.numbers THEN [type |-> "bool", of |-> stopped]
                                    ELSE [type |-> "text", of |-> <<IF stopped THEN TrueWord ELSE FalseWord>>]
          [] name = "state" -> InDialect(IF stopped THEN 1 ELSE 0)]

\* A report as an object of JSON, its keys spelled as the dialect spells them.
Payload ==
  LET names == (IF dialect.geometry THEN {} ELSE {"lat", "lng"})
                 \cup (IF dialect.lastStop THEN {"laststopid"} ELSE {})
                 \cup (IF dialect.inactive THEN {"isinactive"} ELSE {})
                 \cup (IF dialect.state THEN {"state"} ELSE {})
      attributes == [k \in {dialect.spelling[n] : n \in names} |->
                       Parts[CHOOSE n \in names : dialect.spelling[n] = k]]
      geometry == [k \in {<<"x", "x">>, <<"y", "y">>} |->
                     IF k = <<"y", "y">> THEN Parts["lat"] ELSE Parts["lng"]]
      objects == {<<"attributes", "attributes">>}
                   \cup (IF dialect.geometry THEN {<<"geometry", "geometry">>} ELSE {})
  IN IF dialect.flat THEN attributes
     ELSE [k \in objects |->
             [type |-> "object", of |-> IF k[1] = "geometry" THEN geometry ELSE attributes]]

-----------------------------------------------------------------------------

RecordInit ==
  /\ route \in Routes
  /\ dialect \in Dialects
  /\ place = 1
  /\ lastStop = 1
  /\ stopped = FALSE
  /\ segment = 0
  /\ active = "none"

Drive ==
  /\ ~stopped /\ place < Len(route.drive)
  /\ place' = place + 1
  /\ UNCHANGED <<route, dialect, lastStop, stopped, segment, active>>

\* The source notices, sooner or later, that a stop was passed.
NoticeStop ==
  /\ lastStop < route.drive[place].leg
  /\ lastStop' = lastStop + 1
  /\ UNCHANGED <<route, dialect, place, stopped, segment, active>>

\* The vehicle has ended its trip.
StopDriving ==
  /\ ~stopped /\ place = Len(route.drive)
  /\ stopped' = TRUE
  /\ UNCHANGED <<route, dialect, place, lastStop, segment, active>>

\* processWebSocketMessage and buildActiveParams: one report.
Report ==
  \E record \in LiveRecords(Payload) :
    /\ active' = IF record.inactive THEN "FALSE" ELSE "TRUE"
    /\ LET index == SegmentIndex(route.stops, record)
       IN segment' = IF record.inactive \/ index = 0 THEN segment ELSE index
    /\ UNCHANGED <<route, dialect, place, lastStop, stopped>>

RecordNext == Drive \/ NoticeStop \/ StopDriving \/ Report

RecordSpec == RecordInit /\ [][RecordNext]_recordVars

-----------------------------------------------------------------------------
(* Properties *)

Legs == 1 .. Len(route.stops) - 1
Placed == {i \in Legs : ValidCoords(route.stops[i]) /\ ValidCoords(route.stops[i + 1])}

\* The legs that begin at the stop told last, wherever the route comes to it.
Visits == {i \in Legs : StopIdentity(route.stops[i].id) = StopIdentity(route.stops[lastStop].id)}

\* A leg divided into as many parts as the square of its length: the foot of every
\* perpendicular from a point of whole coordinates is one of the points between.
Parted(i) == LET l == LengthSquared(route.stops[i], route.stops[i + 1]) IN IF l = 0 THEN 1 ELSE l

\* How far from p the end of the m-th of n parts of leg i is, squared.
DistanceOfPart(i, n, m, p) ==
  LET a == route.stops[i]
      b == route.stops[i + 1]
  IN <<Square(n * (p.lat - a.lat) - m * (b.lat - a.lat))
         + Square(n * (p.lng - a.lng) - m * (b.lng - a.lng)), n * n>>

\* For every point of leg j there is one of leg i that is as near to p.
AsNear(i, j, p) ==
  \A m \in 0 .. Parted(j) : \E k \in 0 .. Parted(i) :
    ~Nearer(DistanceOfPart(j, Parted(j), m, p), DistanceOfPart(i, Parted(i), k, p))

\* A vehicle is placed on the leg from the stop it says it passed last, on the last
\* such leg, or else on the first of the legs that come as near to its position
\* as any, whatever the dialect, the course of the route and the position are.
PlacedWhereReported ==
  [][segment' # segment =>
       IF dialect.lastStop /\ Visits # {} THEN segment' \in Visits /\ \A i \in Visits : i <= segment'
       ELSE /\ ValidCoords(Position) /\ segment' \in Placed
            /\ \A j \in Placed : AsNear(segment', j, Position)
            /\ \A j \in Placed : j < segment' => ~AsNear(j, segment', Position)]_recordVars

\* The route comes a second time to a stop the vehicle says it has passed.
ComesAgain ==
  \E i \in 1 .. lastStop, j \in DOMAIN route.stops :
    i # j /\ StopIdentity(route.stops[i].id) = StopIdentity(route.stops[j].id)

\* At the k-th position the leg driven has no place, a leg driven before comes as
\* near, or one ahead comes nearer. At the last stop the last leg is meant.
InDoubt(k) ==
  LET p == route.drive[k]
      leg == Min({p.leg, Len(route.stops) - 1})
  IN /\ ValidCoords(p)
     /\ \/ leg \notin Placed
        \/ \E j \in Placed : IF j < leg THEN AsNear(j, leg, p) ELSE ~AsNear(leg, j, p)

\* The published segment falls back only where stops or positions are ambiguous:
\* the route comes to a stop again, or no last stop decides and some position up
\* to now left the leg in doubt. Last stops that lag, parts left out and the
\* change from last stops to positions at the final stop make none fall back.
FallsBackOnlyInDoubt ==
  [][segment' < segment =>
       \/ dialect.lastStop /\ ComesAgain
       \/ /\ ~dialect.lastStop \/ lastStop = Len(route.stops)
          /\ \E k \in 1 .. place : InDoubt(k)]_recordVars

\* A vehicle that says with isinactive that it is not inactive is taken for active.
RunningVehiclesAreActive == dialect.inactive /\ ~stopped => active # "FALSE"
=============================================================================
