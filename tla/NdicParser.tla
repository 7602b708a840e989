------------------------------ MODULE NdicParser ------------------------------
(***************************************************************************)
(* How the NDIC preprocessor turns the answer of the downloader into       *)
(* snapshots of road segments: fetch.go, parser.go and tmc.go.  A document *)
(* is read element by element; entries of one segment are merged; at the   *)
(* end the segments are given the metadata of their points.                *)
(*                                                                         *)
(* Texts: a code is a number, or NoText where it is missing or empty.      *)
(* The id of a segment is a sequence of numbers: TS1T2 is <<1, 2>>, <<>>   *)
(* is the empty text, any other length an id of another form.              *)
(*                                                                         *)
(* An answer is a record of                                                *)
(*   status             the HTTP status                                    *)
(*   json, readable     whether it is a JSON wrapper, and one that parses  *)
(*   time               publicationTime, or NoText where it is missing or  *)
(*                      unreadable                                         *)
(*   elements           the elaboratedData: sequences of the items         *)
(*     [kind |-> "source", id], [kind |-> "location", context, code] and   *)
(*     [kind |-> "data", type, vehicle, time, value], the elements with an *)
(*     xsi:type; what lies within those is no item, the decoder takes it   *)
(*   ends               "whole"; "blank", when it ends before any element  *)
(*                      begins: an empty file, a prolog alone, a wrapper    *)
(*                      without latest_raw; "open", when it breaks off      *)
(*                      within an element or a tag                          *)
(***************************************************************************)
EXTENDS Integers, Sequences, FiniteSets, SequencesExt, FiniteSetsExt

CONSTANTS
  NdicAnswers,  \* the answers of the downloader
  TmcTables,    \* what may have been loaded at the start: sequences of rows
                \* [lcd, point], <<>> where the file could not be read
  NoText,       \* missing, or an empty text
  Unreadable,   \* a text that should be a number
  FetchTime     \* the clock at the fetch

Codes == Int \cup {NoText}

Items ==
  [kind : {"source"}, id : Seq(Int)]
    \cup [kind : {"location"}, context : STRING, code : Codes]
    \cup [kind : {"data"}, type : STRING, vehicle : STRING, time : Codes,
          value : Codes \cup {Unreadable}]

ASSUME NdicParserAssumption ==
  /\ FetchTime \in Nat
  /\ NoText # Unreadable /\ {NoText, Unreadable} \cap (Int \cup STRING) = {}
  /\ \A answer \in NdicAnswers :
       /\ answer.elements \in Seq(Seq(Items))
       /\ answer.ends \in {"whole", "blank", "open"}
       /\ answer.ends = "blank" => answer.elements = <<>> /\ answer.time = NoText
  /\ TmcTables \subseteq Seq([lcd : Codes, point : STRING])

VARIABLES
  tmcRows,      \* loadTMCPoints
  ndicAnswer,   \* the answer being handled
  readElements, \* how many of its elements were read
  snapshots,    \* parsedFetch.Snapshots
  ndicPhase     \* "fetch", "parse", "enrich", "done", "failed"

ndicVars == <<tmcRows, ndicAnswer, readElements, snapshots, ndicPhase>>

-----------------------------------------------------------------------------
(* One element *)

FirstText(a, b) == IF a # NoText THEN a ELSE b

DataTypes == {"TrafficStatus", "TrafficSpeed", "TravelTimeData"}

NoEntry == [type |-> "none"]

\* decodeBasicData and trafficLevelValue: a level that cannot be read is 0, one
\* that is missing leaves the level of the segment alone; a missing speed or
\* duration is 0.
Value(item) ==
  IF item.type = "TrafficStatus"
  THEN IF item.value = Unreadable THEN 0 ELSE item.value
  ELSE IF item.value = NoText THEN 0 ELSE item.value

Entry(item) == [type |-> item.type, time |-> item.time, value |-> Value(item)]

\* A speed or a duration that is not a number: the decoder gives up.
Undecodable(item) ==
  /\ item.kind = "data"
  /\ item.type \in DataTypes \ {"TrafficStatus"}
  /\ item.value = Unreadable

\* Mutant: the values of lorries and cars are kept as well.
KeepsAll(item) == item.type \in DataTypes
\* decodeBasicData: only what holds of any vehicle is kept.
Keeps(item) == item.type \in DataTypes /\ item.vehicle = "anyVehicle"

\* parseElaboratedData, one item of the element
AfterItem(element, item) ==
  CASE item.kind = "source" -> [element EXCEPT !.id = item.id]
    [] item.kind = "location" ->
         IF item.context = "primary"
         THEN [element EXCEPT !.primary = FirstText(@, item.code)]
         ELSE IF item.context = "secondary"
              THEN [element EXCEPT !.secondary = FirstText(@, item.code)]
              ELSE element
    [] item.kind = "data" ->
         IF Keeps(item) THEN [element EXCEPT !.entry = Entry(item)] ELSE element

Element(items) ==
  FoldLeft(AfterItem,
           [id |-> <<>>, primary |-> NoText, secondary |-> NoText, entry |-> NoEntry],
           items)

-----------------------------------------------------------------------------
(* Snapshots *)

NoSnapshot ==
  [primary |-> NoText, secondary |-> NoText, time |-> NoText, entries |-> <<>>,
   TrafficStatus |-> NoText, TrafficSpeed |-> NoText, TravelTimeData |-> NoText,
   metadata |-> NoText]

\* parseNDICXML: the codes of the first element that has them, the newest time,
\* of each type the value of the last element.
WithElement(snapshot, element) ==
  LET entry == element.entry
  IN [[snapshot EXCEPT
         !.primary = FirstText(@, element.primary),
         !.secondary = FirstText(@, element.secondary),
         !.time = IF entry.time # NoText /\ (@ = NoText \/ entry.time > @) THEN entry.time ELSE @,
         !.entries = Append(@, entry)]
       EXCEPT ![entry.type] = IF entry.value # NoText THEN entry.value ELSE @]

SnapshotOf(id) == IF id \in DOMAIN snapshots THEN snapshots[id] ELSE NoSnapshot

\* extractPublicationTime
PublicationTime == IF ndicAnswer.time = NoText THEN FetchTime ELSE ndicAnswer.time

-----------------------------------------------------------------------------
(* Metadata *)

\* tmcEnricher.load: of the rows of one point the last.
Points ==
  LET rows == {i \in DOMAIN tmcRows : tmcRows[i].lcd # NoText}
  IN [lcd \in {tmcRows[i].lcd : i \in rows} |->
        tmcRows[Max({i \in rows : tmcRows[i].lcd = lcd})].point]

\* ensureSnapshotLocationCodes
WithCodes(id, snapshot) ==
  IF snapshot.primary = NoText /\ snapshot.secondary = NoText /\ Len(id) = 2
  THEN [snapshot EXCEPT !.primary = id[1], !.secondary = id[2]]
  ELSE snapshot

\* lookup: what the table says of a point; its name, area, road and coordinates
\* are one value here.
Metadata(code) == IF code \in DOMAIN Points THEN Points[code] ELSE NoText

\* enrichFetch, for one snapshot
Enriched(id, snapshot) ==
  LET coded == WithCodes(id, snapshot)
  IN [coded EXCEPT !.metadata = FirstText(Metadata(coded.primary), Metadata(coded.secondary))]

-----------------------------------------------------------------------------

NdicInit ==
  /\ tmcRows \in TmcTables
  /\ ndicAnswer \in NdicAnswers
  /\ readElements = 0
  /\ snapshots = <<>>
  /\ ndicPhase = "fetch"

\* fetchNDIC, unwrapXML
FetchNdic ==
  /\ ndicPhase = "fetch"
  /\ ndicPhase' = IF ndicAnswer.status = 200 /\ (ndicAnswer.json => ndicAnswer.readable)
                  THEN "parse" ELSE "failed"
  /\ UNCHANGED <<tmcRows, ndicAnswer, readElements, snapshots>>

\* One round of the loop of parseNDICXML.
ReadElement ==
  /\ ndicPhase = "parse"
  /\ readElements < Len(ndicAnswer.elements)
  /\ LET items == ndicAnswer.elements[readElements + 1]
         element == Element(items)
     IN IF \E i \in DOMAIN items : Undecodable(items[i])
        THEN ndicPhase' = "failed" /\ UNCHANGED <<readElements, snapshots>>
        ELSE /\ readElements' = readElements + 1
             /\ IF element.id = <<>> \/ element.entry = NoEntry
                THEN UNCHANGED snapshots
                ELSE snapshots' =
                       [id \in DOMAIN snapshots \cup {element.id} |->
                          IF id = element.id THEN WithElement(SnapshotOf(id), element)
                                             ELSE snapshots[id]]
             /\ UNCHANGED ndicPhase
  /\ UNCHANGED <<tmcRows, ndicAnswer>>

\* The decoder's io.EOF ends the loop: it comes behind a whole document and where
\* none has begun.  Within an element the decoder gives an error of its own.
EndDocument ==
  /\ ndicPhase = "parse"
  /\ readElements = Len(ndicAnswer.elements)
  /\ ndicPhase' = IF ndicAnswer.ends = "open" THEN "failed" ELSE "enrich"
  /\ UNCHANGED <<tmcRows, ndicAnswer, readElements, snapshots>>

\* enrichFetch: without a table nothing is done, codes included.
EnrichFetch ==
  /\ ndicPhase = "enrich"
  /\ snapshots' = IF Points = <<>> THEN snapshots
                  ELSE [id \in DOMAIN snapshots |-> Enriched(id, snapshots[id])]
  /\ ndicPhase' = "done"
  /\ UNCHANGED <<tmcRows, ndicAnswer, readElements>>

NdicNext == FetchNdic \/ ReadElement \/ EndDocument \/ EnrichFetch

NdicSpec == NdicInit /\ [][NdicNext]_ndicVars

-----------------------------------------------------------------------------
(* Properties *)

(* The reference: statements about the whole document, by positions. *)

ItemsOf(items, kind) == {i \in DOMAIN items : items[i].kind = kind}

\* The segment an element names: in its last source.
Names(items) ==
  IF ItemsOf(items, "source") = {} THEN <<>> ELSE items[Max(ItemsOf(items, "source"))].id

\* What an element measures: its last item about any vehicle.
Measures(items) ==
  {i \in ItemsOf(items, "data") : items[i].type \in DataTypes /\ items[i].vehicle = "anyVehicle"}
Measured(items) == items[Max(Measures(items))]

\* The elements of the document that tell of a segment.
Telling(doc) == {e \in DOMAIN doc : Names(doc[e]) # <<>> /\ Measures(doc[e]) # {}}
ElementsAbout(doc, id) == {e \in Telling(doc) : Names(doc[e]) = id}

\* Elements, and places in them, in the order of the document: the first code.
CodePlaces(doc, about, context) ==
  {at \in UNION {{<<e, i>> : i \in ItemsOf(doc[e], "location")} : e \in about} :
     LET item == doc[at[1]][at[2]] IN item.context = context /\ item.code # NoText}

Before(at, other) == at[1] < other[1] \/ (at[1] = other[1] /\ at[2] <= other[2])

FirstCode(doc, about, context) ==
  LET places == CodePlaces(doc, about, context)
      first == CHOOSE at \in places : \A other \in places : Before(at, other)
  IN IF places = {} THEN NoText ELSE doc[first[1]][first[2]].code

\* The value of the last element that gives one of the type: a level that is
\* missing is none.
Saying(doc, about, type) ==
  {e \in about : LET item == Measured(doc[e])
                 IN item.type = type /\ ~(type = "TrafficStatus" /\ item.value = NoText)}

LastValue(doc, about, type) ==
  LET saying == Saying(doc, about, type)
      last == Measured(doc[Max(saying)]).value
  IN IF saying = {} THEN NoText ELSE IF last \in Int THEN last ELSE 0

TimesOf(doc, about) == {Measured(doc[e]).time : e \in about} \ {NoText}

\* Which point of the table stands for a segment: that of its first code, or
\* of its second one; codes of the id count when the document gives none.
PointOf(id, primary, secondary) ==
  LET given == <<primary, secondary>>
      codes == CASE given # <<NoText, NoText>> -> given
                 [] given = <<NoText, NoText>> /\ Len(id) = 2 -> id
                 [] OTHER -> <<>>
      hits == {c \in DOMAIN codes : codes[c] \in DOMAIN Points}
  IN IF hits = {} THEN NoText ELSE Points[codes[Min(hits)]]

\* A fetch succeeds only with a document that does not break off within an
\* element and all of whose speeds and durations are numbers, those of other
\* vehicles included.
Sound ==
  /\ ndicAnswer.status = 200 /\ (ndicAnswer.json => ndicAnswer.readable)
  /\ ndicAnswer.ends # "open"
  /\ \A e \in DOMAIN ndicAnswer.elements : \A i \in DOMAIN ndicAnswer.elements[e] :
       ~Undecodable(ndicAnswer.elements[e][i])

\* The newest time, the last values and one entry for each element about the
\* segment.
SaysTheLatest(doc, about, s) ==
  /\ s.time = IF TimesOf(doc, about) = {} THEN NoText ELSE Max(TimesOf(doc, about))
  /\ \A type \in DataTypes : s[type] = LastValue(doc, about, type)
  /\ Len(s.entries) = Cardinality(about)

\* The codes the document gives for the segment first, and the point of the
\* table they stand for.
IsLocated(doc, about, id, s) ==
  LET first == [context \in {"primary", "secondary"} |-> FirstCode(doc, about, context)]
  IN /\ \A context \in DOMAIN first : first[context] # NoText => s[context] = first[context]
     /\ s.metadata = IF Points = <<>> THEN NoText
                     ELSE PointOf(id, first["primary"], first["secondary"])

\* A fetch that succeeds has a snapshot of exactly the segments an element
\* measures for any vehicle, with the first codes, the newest time and the last
\* values the document gives for it, wherever its elements stand and whatever
\* else they hold, and with the point the codes stand for. A document that
\* breaks off within an element, or has a speed or duration that cannot be read,
\* yields nothing, so no segment is taken for vanished because of it. One that
\* ends before it begins is read as a document without segments.
SnapshotsMatchDocument ==
  LET doc == ndicAnswer.elements
  IN /\ ndicPhase = "done" => Sound
     /\ ndicPhase = "failed" => ~Sound
     /\ ndicPhase = "done" =>
          /\ DOMAIN snapshots = {Names(doc[e]) : e \in Telling(doc)}
          /\ \A id \in DOMAIN snapshots :
               /\ SaysTheLatest(doc, ElementsAbout(doc, id), snapshots[id])
               /\ IsLocated(doc, ElementsAbout(doc, id), id, snapshots[id])

\* ndic-preprocessor/README.md:5: a segment is ended when it does not appear in a
\* new snapshot: what leaves all of them out was a snapshot, and not an answer in
\* which there is no document.
OnlySnapshotsEndSegments ==
  ndicPhase = "done" /\ snapshots = <<>> => ndicAnswer.ends = "whole"
=============================================================================
