--------------------------- MODULE WazeAggregation ---------------------------
(***************************************************************************)
(* How the Waze preprocessor turns the jams of a feed into one aggregate   *)
(* per device, a road segment and its direction: parsing.go and            *)
(* aggregation.go, called from fetchAndProcessWazeData (lifecycle.go).     *)
(* The feed lists its jams in an order that means nothing, so they are     *)
(* merged here in any order.                                               *)
(*                                                                         *)
(* A jam is a record of                                                    *)
(*   uuid, blocking     numbers that stand for texts, in their order       *)
(*   pub                pubMillis, or NoNumber                             *)
(*   delay, length, level, speed  numbers, or NoNumber; speedKMH is read   *)
(*                      and merged exactly as speed is                     *)
(*   place              country, city, street and road type                *)
(*   segments           a sequence of [id, from, to, forward]; NoNumber    *)
(*                      where a part is missing or cannot be read          *)
(***************************************************************************)
EXTENDS Integers, Sequences, FiniteSets, SequencesExt, FiniteSetsExt

CONSTANTS
  WazeFeeds,   \* the sets of jams a feed may hold
  NoNumber,    \* missing, or not a number
  FetchedAt    \* the clock at the fetch

Numbers == Int \cup {NoNumber}

RoadSegments == [id : Numbers, from : Numbers, to : Numbers, forward : BOOLEAN \cup {NoNumber}]

\* Speeds are not negative: of two that are, the first would stay.
Jams ==
  [uuid : Int, blocking : Int, pub : Numbers, delay : Numbers, length : Numbers,
   level : Numbers, speed : Nat \cup {NoNumber}, place : STRING, segments : Seq(RoadSegments)]

ASSUME WazeAssumption ==
  /\ FetchedAt \in Nat
  /\ NoNumber \notin Int
  /\ \A feed \in WazeFeeds : IsFiniteSet(feed) /\ feed \subseteq Jams

VARIABLES
  jams,        \* feed.Jams
  merged,      \* the jams merged so far
  aggregates   \* uid -> deviceAggregate

jamVars == <<jams, merged, aggregates>>

-----------------------------------------------------------------------------
(* Parsing *)

\* extractFloat, also of what cannot be read
Number(v) == IF v = NoNumber THEN 0 ELSE v

LexLess(a, b) == \E i \in DOMAIN a : a[i] < b[i] /\ \A j \in 1 .. i - 1 : a[j] = b[j]

\* Where a stable sort puts a key behind keys that are sorted already.
Rank(key, keys) == 1 + Cardinality({i \in DOMAIN keys : ~LexLess(key, keys[i])})

SegmentKey(g) == <<g.id, IF g.forward THEN 1 ELSE 0, g.from, g.to>>

\* parseSegments: segments that lack a part are dropped, the others sorted.
Readable(g) == NoNumber \notin {g.id, g.from, g.to, g.forward}

WithSegment(s, g) ==
  IF Readable(g)
  THEN InsertAt(s, Rank(SegmentKey(g), [i \in DOMAIN s |-> SegmentKey(s[i])]), g)
  ELSE s

Segments(jam) == FoldLeft(WithSegment, <<>>, jam.segments)

\* buildInstanceUID
UIDOfSegment(g) == <<g.id, g.forward>>

\* extractEventTime; PubMillisLatest is the same moment.
PublishedAt(jam) == IF jam.pub = NoNumber \/ jam.pub <= 0 THEN FetchedAt ELSE jam.pub

\* reduceRawJam
RawJam(jam) == [part \in DOMAIN jam \ {"place"} |-> jam[part]]

\* rawJamSortKey
RawKey(raw) == <<Number(raw.pub), raw.uuid, raw.blocking>>

-----------------------------------------------------------------------------
(* Aggregation *)

\* buildAggregatesFromJam, for one of its segments
Aggregate(jam, g) ==
  [tags |-> [place |-> jam.place, from |-> g.from, to |-> g.to],
   rawJams |-> <<RawJam(jam)>>, jamCount |-> 1,
   delay |-> Number(jam.delay), length |-> Number(jam.length),
   level |-> Number(jam.level), speed |-> Number(jam.speed),
   time |-> PublishedAt(jam)]

\* Mutant: delays are compared as numbers.
IsGreaterNumber(left, right) == left > right
\* isGreaterDelay: -1 stands for a closed road and exceeds every delay.
IsGreaterDelay(left, right) ==
  IF left = -1 THEN right # -1 ELSE right # -1 /\ left > right

\* The slower of two speeds, 0 being an unknown one.
Slower(target, added) ==
  IF target = 0 \/ (added > 0 /\ added < target) THEN added ELSE target

\* mergeAggregate
Merged(target, added) ==
  [target EXCEPT
     !.rawJams = InsertAt(@, Rank(RawKey(added.rawJams[1]), [i \in DOMAIN @ |-> RawKey(@[i])]),
                          added.rawJams[1]),
     !.jamCount = @ + added.jamCount,
     !.delay = IF IsGreaterDelay(added.delay, @) THEN added.delay ELSE @,
     !.length = @ + added.length,
     !.level = IF added.level > @ THEN added.level ELSE @,
     !.speed = Slower(@, added.speed),
     !.time = IF added.time > @ THEN added.time ELSE @]

\* The table of the devices with one more aggregate.
WithAggregate(devices, uid, added) ==
  [d \in DOMAIN devices \cup {uid} |->
     IF d # uid THEN devices[d]
     ELSE IF uid \in DOMAIN devices THEN Merged(devices[uid], added) ELSE added]

-----------------------------------------------------------------------------

JamsInit ==
  /\ jams \in WazeFeeds
  /\ merged = {}
  /\ aggregates = <<>>

\* One round of the loop over feed.Jams.
MergeJam(jam) ==
  /\ jam \in jams \ merged
  /\ merged' = merged \cup {jam}
  /\ aggregates' = FoldLeft(LAMBDA devices, g :
                              WithAggregate(devices, UIDOfSegment(g), Aggregate(jam, g)),
                            aggregates, Segments(jam))
  /\ UNCHANGED jams

JamsNext == \E jam \in jams : MergeJam(jam)

JamsSpec == JamsInit /\ [][JamsNext]_jamVars

-----------------------------------------------------------------------------
(* Properties *)

\* Where the jams merged so far name a device: a jam may do so more than once.
Mentions(uid) ==
  {at \in UNION {{<<jam, i>> : i \in DOMAIN Segments(jam)} : jam \in merged} :
     UIDOfSegment(Segments(at[1])[at[2]]) = uid}

\* What was mentioned, and the raw jams: each mention once, in the order of
\* their keys.
RawJamsMatch(raws, mentions) ==
  /\ Len(raws) = Cardinality(mentions)
  /\ \A i \in DOMAIN raws :
       Cardinality({j \in DOMAIN raws : raws[j] = raws[i]})
         = Cardinality({at \in mentions : RawJam(at[1]) = raws[i]})
  /\ \A i \in 1 .. Len(raws) - 1 : ~LexLess(RawKey(raws[i + 1]), RawKey(raws[i]))

LengthOf(mentions) == MapThenSumSet(LAMBDA at : Number(at[1].length), mentions)

\* What the mentions of a device say together: how many they are, their length
\* in all, the worst level, a closed road before the longest delay, the slowest
\* known speed, the newest report. Only the tags depend on the order: they are
\* those of the first mention.
SaysTogether(a, m) ==
  LET delays == {Number(at[1].delay) : at \in m}
      speeds == {Number(at[1].speed) : at \in m} \ {0}
  IN /\ a.jamCount = Cardinality(m)
     /\ a.length = LengthOf(m)
     /\ a.delay = IF -1 \in delays THEN -1 ELSE Max(delays)
     /\ a.level = Max({Number(at[1].level) : at \in m})
     /\ a.speed = IF speeds = {} THEN 0 ELSE Min(speeds)
     /\ a.time = Max({PublishedAt(at[1]) : at \in m})
     /\ RawJamsMatch(a.rawJams, m)
     /\ \E at \in m : a.tags = Aggregate(at[1], Segments(at[1])[at[2]]).tags

\* Whatever the order of the jams, a device has an aggregate when a readable
\* segment of a jam names it, and the aggregate says what the jams say together.
AggregatesMatchJams ==
  LET mentioned == {at[2] : at \in UNION {{<<jam, UIDOfSegment(Segments(jam)[i])>> :
                                             i \in DOMAIN Segments(jam)} : jam \in merged}}
  IN /\ DOMAIN aggregates = mentioned
     /\ \A uid \in mentioned : SaysTogether(aggregates[uid], Mentions(uid))
=============================================================================
