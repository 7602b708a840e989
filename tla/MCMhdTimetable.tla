--------------------------- MODULE MCMhdTimetable ---------------------------
(***************************************************************************)
(* A small network: an evening trip on workdays and its Sunday variant of  *)
(* the same UID, a later trip of the same line and one over midnight. On a *)
(* Sunday with a time shift there is a trip across the shift or within its *)
(* hour, and the one over midnight may run a day after the shift.  In one  *)
(* archive two trips leave at 9:50 and at 10:10.                           *)
(***************************************************************************)
EXTENDS MhdTimetable, TLC

CONSTANTS workday, sunday, later, night, A, B, lineA, lineB

\* The order of "h:mm:00" and "hh:mm:00" as strings: by the first two characters,
\* the colon behind the digits, then by the minutes.
TextOf(c) ==
  LET h == c \div 60
      front == IF h < 10 THEN <<h, 10>> ELSE <<h \div 10, h % 10>>
  IN (front[1] * 11 + front[2]) * 60 + (c % 60)

Stop(n, s, c) ==
  [seq |-> n, stop |-> s, arrival |-> c, departure |-> c,
   text |-> IF c = NoClock THEN 0 ELSE TextOf(c)]
Row(from, to) == {Stop(5, A, from), Stop(9, B, to)}

EveningRows == Row(1390, 1410)
LaterRows   == Row(1420, 1435)
NightRows   == Row(1430, 1460)     \* 23:50 to 24:20

Trip(rows, s) == [route |-> 1, direction |-> 0, service |-> s, rows |-> rows]

TripTables ==
  {[t \in Trips |->
     CASE t = workday -> Trip(EveningRows, "Mo-Fr")
       [] t = sunday  -> Trip(EveningRows, "Su")
       [] t = later   -> Trip(lt, "Mo-Fr")
       [] t = night   -> Trip(NightRows, "Su")] :
     lt \in {LaterRows, {Stop(1, A, 1420)}, {Stop(2, A, 1420), Stop(1, B, NoClock)}}}

Calendar == <<[service |-> "Su", first |-> 0, last |-> 5, days |-> {6}],
              [service |-> "Mo-Fr", first |-> 0, last |-> 20, days |-> 0 .. 4],
              [service |-> "Su", first |-> 0, last |-> 20, days |-> {6}]>>

Exception(s, d, t) == [service |-> s, date |-> d, type |-> t]
ExceptionTables ==
  {<<>>, <<Exception("Su", 6, 2), Exception("Mo-Fr", 6, 1)>>,
   <<Exception("Su", 6, 2), Exception("Mo-Fr", 6, 1), Exception("Su", 6, 1)>>}

\* All on one line; the workday trip on another; the Sunday trip on none.
APIs == {[t \in Trips |-> lineA], [t \in Trips |-> IF t = workday THEN lineB ELSE lineA],
         [t \in Trips |-> IF t = sunday THEN None ELSE lineA]}

PlainFeeds ==
  {[trips |-> t, calendar |-> Calendar, exceptions |-> e, api |-> a] :
     t \in TripTables, e \in ExceptionTables, a \in APIs}

AcrossRows    == Row(115, 200)       \* 1:55 to 3:20
WithinRows    == Row(150, 170)       \* 2:30 to 2:50
DayAfterRows  == Row(1585, 1600)     \* 26:25 to 26:40

ShiftFeeds ==
  {[trips |-> [t \in Trips |->
      CASE t = workday -> Trip(EveningRows, "Mo-Fr")
        [] t = sunday  -> Trip(EveningRows, "Su")
        [] t = later   -> Trip(rows[1], "Su")
        [] t = night   -> Trip(rows[2], "Su")],
    calendar |-> Calendar, exceptions |-> <<>>, api |-> [t \in Trips |-> lineA]] :
     rows \in {<<AcrossRows, NightRows>>, <<WithinRows, DayAfterRows>>}}

\* 9:50 comes behind 10:10 in the index.
MorningFeed ==
  [trips |-> [t \in Trips |->
     CASE t = workday -> Trip(EveningRows, "Mo-Fr")
       [] t = sunday  -> Trip(Row(590, 630), "Su")
       [] t = later   -> Trip(Row(610, 650), "Su")
       [] t = night   -> Trip(NightRows, "Su")],
   calendar |-> Calendar, exceptions |-> <<>>, api |-> [t \in Trips |-> lineA]]

SmallFeeds == PlainFeeds \cup ShiftFeeds \cup {MorningFeed}

Sunday == 6 * DayLength

\* None, to summer time at 2:00, back from it at 3:00.
NoShift == [at |-> 0, by |-> 0]
SmallZones == {NoShift, [at |-> Sunday + 120, by |-> 60], [at |-> Sunday + 180, by |-> -60]}
NightUID == <<1, TextOf(1430), <<A, B>>, 0>>

\* Saturday's last minutes, Sunday evening, and Monday at night.
SmallTimes == {Sunday - 10, Sunday + 1405, Sunday + 1700}

\* A record that says little and one whose vehicle is on the night trip already.
Record(p, ts, s, departure, running) ==
  [pair |-> p, ts |-> ts, service |-> s, departure |-> departure, finalStop |-> B,
   lastStop |-> None, running |-> running]
SmallRecords ==
  {Record(p, Sunday + m, e[1], e[2], e[3]) :
     p \in {lineA, lineB}, m \in {1395, 1405, 1450},
     e \in {<<None, None, None>>, <<None, Sunday + 1425, None>>,
            <<"Su", Sunday + 1425, NightUID>>}}
    \cup {Record(lineA, Sunday + m, None, None, None) : m \in {125, 155, 245, 602, 1530, 1650}}

-----------------------------------------------------------------------------

MCInit == Init /\ (zone # NoShift <=> archive \in ShiftFeeds)

MCSpec == MCInit /\ [][Next]_vars
=============================================================================
