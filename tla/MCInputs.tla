------------------------------- MODULE MCInputs -------------------------------
(***************************************************************************)
(* What comes in, one at a time: the jams of a Waze feed, an answer of the *)
(* DATEX downloader, the reports of a vehicle, pushes to the downloader.   *)
(***************************************************************************)
EXTENDS WazeAggregation, NdicParser, MhdRecord, DatexDownloader, TLC

CONSTANT Sources   \* which of them are looked at

VARIABLE source

-----------------------------------------------------------------------------
(* Feeds of Waze: up to four of these jams. *)

Jam(uuid, pub, delay, level, speed, where, segments) ==
  [uuid |-> uuid, blocking |-> 0, pub |-> pub, delay |-> delay, length |-> 10 * uuid,
   level |-> level, speed |-> speed, place |-> where, segments |-> segments]

Seg(id, from, forward) == [id |-> id, from |-> from, to |-> from + 1, forward |-> forward]
NoWay == [Seg(1, 1, TRUE) EXCEPT !.to = NoNumber]

JamPool ==
  {Jam(1, 3, 5, 1, 0, "a", <<Seg(1, 1, TRUE)>>),
   Jam(2, 4, -1, 3, 0, "a", <<Seg(1, 2, TRUE)>>),
   Jam(3, 3, -1, 5, 7, "b", <<Seg(2, 4, TRUE), Seg(1, 1, TRUE)>>),
   Jam(4, NoNumber, 9, 2, 4, "a", <<Seg(1, 1, TRUE), NoWay>>),
   Jam(4, 0, NoNumber, NoNumber, 9, "a", <<Seg(1, 1, FALSE), Seg(1, 1, TRUE)>>),
   Jam(5, 8, 0, 4, NoNumber, "b", <<Seg(1, 1, TRUE), Seg(1, 1, TRUE)>>),
   Jam(6, 8, 2, 4, 2, "b", <<NoWay>>)}

MCWazeFeeds == {feed \in SUBSET JamPool : Cardinality(feed) <= 4}

-----------------------------------------------------------------------------
(* Answers of the downloader: up to three elements of these. *)

Id(id) == [kind |-> "source", id |-> id]
Place(context, code) == [kind |-> "location", context |-> context, code |-> code]
Data(type, vehicle, time, value) ==
  [kind |-> "data", type |-> type, vehicle |-> vehicle, time |-> time, value |-> value]

ElementPool ==
  {<<Id(<<1, 2>>), Data("TrafficStatus", "anyVehicle", 3, 2)>>,
   <<Id(<<1, 2>>), Place("primary", 7), Data("TrafficStatus", "anyVehicle", NoText, NoText)>>,
   <<Data("TrafficSpeed", "anyVehicle", 5, 50), Data("TrafficSpeed", "lorry", 6, 30), Id(<<1, 2>>)>>,
   <<Id(<<1, 2>>), Data("TrafficSpeed", "lorry", 6, Unreadable)>>,
   <<Id(<<1, 2>>), Place("secondary", NoText), Place("secondary", 2), Place("other", 1),
     Data("TravelTimeData", "anyVehicle", 4, NoText), Data("Linear", "anyVehicle", 9, 9)>>,
   <<Id(<<9>>), Place("primary", 2), Place("primary", 1), Data("TrafficStatus", "anyVehicle", 2, Unreadable)>>,
   <<Id(<<1, 2>>), Id(<<9>>), Data("TravelTimeData", "anyVehicle", 1, 8),
     Data("TrafficSpeed", "anyVehicle", 2, 40)>>,
   <<Id(<<>>), Data("TrafficSpeed", "anyVehicle", 5, 50)>>,
   <<Id(<<9>>), Place("primary", 1)>>}

Answer(status, json, readable, time, elements, ends) ==
  [status |-> status, json |-> json, readable |-> readable, time |-> time,
   elements |-> elements, ends |-> ends]

MCNdicAnswers ==
  {Answer(200, TRUE, TRUE, 6, elements, "whole") : elements \in SeqOf(ElementPool, 3)}
    \cup {Answer(status, json, readable, NoText, elements, ends) :
            status \in {200, 404}, json \in BOOLEAN, readable \in BOOLEAN,
            elements \in SeqOf(ElementPool, 1), ends \in {"whole", "open"}}
    \cup {Answer(status, json, readable, NoText, <<>>, "blank") :
            status \in {200, 404}, json \in BOOLEAN, readable \in BOOLEAN}

MCTmcTables ==
  {<<>>, <<[lcd |-> 1, point |-> "p"], [lcd |-> NoText, point |-> "q"],
           [lcd |-> 2, point |-> "r"], [lcd |-> 1, point |-> "s"]>>}

-----------------------------------------------------------------------------
(* Routes and dialects. *)

Stop(id, lat, lng) == [id |-> id, lat |-> lat, lng |-> lng]
At(leg, lat, lng) == [leg |-> leg, lat |-> lat, lng |-> lng]

MCRoutes ==
  {\* along the axes, the last leg across the line of the first, a position unknown
   [stops |-> <<Stop(<<11, 1>>, 2, 2), Stop(<<12, 1>>, 3, 2), Stop(<<13, 1>>, 3, 4),
                Stop(<<14, 1>>, 5, 4), Stop(<<15, 1>>, 5, 1)>>,
    drive |-> <<At(1, 2, 2), At(1, 3, 2), At(2, 3, 3), At(3, 0, 0), At(3, 4, 4),
                At(4, 5, 3), At(4, 5, 2), At(5, 5, 1)>>],
   \* slanted legs that turn back sharply, positions beside them and far off
   [stops |-> <<Stop(<<11, 1>>, 1, 1), Stop(<<12, 1>>, 4, 2), Stop(<<13, 1>>, 2, 3),
                Stop(<<14, 1>>, 5, 5)>>,
    drive |-> <<At(1, 1, 0), At(1, 2, 3), At(1, 3, 1), At(2, 4, 2), At(2, 3, 2), At(2, 2, 2),
                At(3, 3, 4), At(3, 5, 4), At(4, 5, 6)>>],
   \* a stop nobody has put on the map, two at one place
   [stops |-> <<Stop(<<11, 1>>, 1, 1), Stop(<<12, 1>>, 0, 0), Stop(<<13, 1>>, 1, 4),
                Stop(<<14, 1>>, 1, 4), Stop(<<15, 1>>, 2, 6)>>,
    drive |-> <<At(1, 1, 1), At(2, 1, 3), At(3, 1, 4), At(4, 1, 5), At(5, 2, 5)>>],
   \* around the block and on
   [stops |-> <<Stop(<<11, 1>>, 1, 1), Stop(<<12, 1>>, 2, 1), Stop(<<13, 1>>, 2, 2),
                Stop(<<14, 1>>, 1, 2), Stop(<<11, 2>>, 1, 1), Stop(<<16, 1>>, 1, 0)>>,
    drive |-> <<At(1, 1, 1), At(2, 2, 1), At(3, 2, 2), At(4, 1, 2), At(5, 1, 1), At(6, 1, 0)>>],
   \* there and back
   [stops |-> <<Stop(<<-9, 11>>, 1, 1), Stop(<<12, 1>>, 1, 3), Stop(<<12, 2>>, 1, 3),
                Stop(<<13>>, 1, 1)>>,
    drive |-> <<At(1, 1, 2), At(2, 1, 3), At(3, 1, 2), At(3, 1, 1)>>],
   \* the final stop is not on the map
   [stops |-> <<Stop(<<11, 1>>, 1, 1), Stop(<<12, 1>>, 3, 2), Stop(<<13, 1>>, 0, 0)>>,
    drive |-> <<At(1, 2, 1), At(2, 4, 3), At(3, 5, 3)>>],
   [stops |-> <<Stop(<<11, 1>>, 1, 1)>>, drive |-> <<At(1, 1, 1)>>]}

Spell(lat, lng, stop, off, state) ==
  [lat |-> lat, lng |-> lng, laststopid |-> <<"laststopid", stop>>,
   isinactive |-> <<"isinactive", off>>, state |-> <<"state", state>>]

Spellings ==
  {Spell(<<"lat", "lat">>, <<"lng", "lng">>, "laststopid", "isinactive", "State"),
   Spell(<<"latitude", "Latitude">>, <<"longitude", "Longitude">>, "LastStopID", "isinactive", "State"),
   Spell(<<"lat", "LAT">>, <<"lng", "LNG">>, "lastStopId", "isInactive", "state")}

MCDialects ==
  {d \in [spelling : Spellings, numbers : BOOLEAN, flat : BOOLEAN, geometry : BOOLEAN,
          lastStop : BOOLEAN, inactive : BOOLEAN, state : BOOLEAN] :
     d.flat => ~d.geometry}

-----------------------------------------------------------------------------
(* Messages pushed to the downloader. *)

CONSTANTS m1, m2, m3, m4

AnyMessage == Permutations(Messages)

-----------------------------------------------------------------------------

\* All inputs of the one that is looked at, any one of the others.
Looked(at, inputs) == IF source = at THEN inputs ELSE {CHOOSE i \in inputs : TRUE}

MCInit ==
  /\ source \in Sources
  /\ jams \in Looked("waze", WazeFeeds)
  /\ tmcRows \in Looked("ndic", TmcTables)
  /\ ndicAnswer \in Looked("ndic", NdicAnswers)
  /\ route \in Looked("mhd", Routes)
  /\ dialect \in Looked("mhd", Dialects)
  /\ JamsInit /\ NdicInit /\ RecordInit /\ Init

MCNext ==
  \/ source = "waze" /\ JamsNext /\ UNCHANGED <<source, ndicVars, recordVars, vars>>
  \/ source = "ndic" /\ NdicNext /\ UNCHANGED <<source, jamVars, recordVars, vars>>
  \/ source = "mhd" /\ RecordNext /\ UNCHANGED <<source, jamVars, ndicVars, vars>>
  \/ source = "datex" /\ Next /\ UNCHANGED <<source, jamVars, ndicVars, recordVars>>

MCSpec == MCInit /\ [][MCNext]_<<source, jamVars, ndicVars, recordVars, vars>>
=============================================================================
