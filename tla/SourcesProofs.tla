---------------------------- MODULE SourcesProofs ----------------------------
(***************************************************************************)
(* Theorems about what the preprocessors take from their sources.          *)
(*                                                                         *)
(* NdicParser, for every document and table of points, and                 *)
(* WazeAggregation, for every feed and in every order of its jams: what a  *)
(* table of segments says after some of the input is stated about the      *)
(* places read so far (of an element the items, of a document the          *)
(* elements, of a feed the segments of its jams), and every place more     *)
(* keeps it.                                                               *)
(*                                                                         *)
(* MhdRecord, for every route, drive and dialect: the distance computed of *)
(* a leg is that of its nearest point, the order of such fractions, what a *)
(* record says of the report it is made of, and when a segment falls back. *)
(*                                                                         *)
(* MhdStream, for every number of endpoints and connections and every      *)
(* length of the timers.                                                   *)
(***************************************************************************)
EXTENDS NdicParser, WazeAggregation, MhdRecord, MhdStream, BatchesProofs

-----------------------------------------------------------------------------
(* NDIC: the last and the first of some places *)

IsLastOf(S, f, none, v) ==
  \/ S = {} /\ v = none
  \/ \E i \in S : (\A j \in S : j <= i) /\ v = f[i]

IsFirstOf(S, f, none, v) ==
  \/ S = {} /\ v = none
  \/ \E i \in S : (\A j \in S : i <= j) /\ v = f[i]

LEMMA UpTo ==
  ASSUME NEW S, NEW k \in Nat \ {0}
  PROVE  S \cap (1 .. k) = (S \cap (1 .. k - 1)) \cup (S \cap {k})
OBVIOUS

LEMMA LastKept ==
  ASSUME NEW S, NEW k \in Nat \ {0}, k \notin S, NEW f, NEW none, NEW v,
         IsLastOf(S \cap (1 .. k - 1), f, none, v)
  PROVE  IsLastOf(S \cap (1 .. k), f, none, v)
<1>1. S \cap (1 .. k) = S \cap (1 .. k - 1)
  BY UpTo
<1> QED  BY <1>1

LEMMA LastTaken ==
  ASSUME NEW S, NEW k \in Nat \ {0}, k \in S, NEW f, NEW none
  PROVE  IsLastOf(S \cap (1 .. k), f, none, f[k])
BY DEF IsLastOf

LEMMA FirstKept ==
  ASSUME NEW S, NEW k \in Nat \ {0}, NEW f, NEW none, NEW v,
         IsFirstOf(S \cap (1 .. k - 1), f, none, v),
         k \notin S \/ S \cap (1 .. k - 1) # {}
  PROVE  IsFirstOf(S \cap (1 .. k), f, none, v)
<1>1. CASE k \notin S
  BY <1>1, UpTo
<1>2. CASE S \cap (1 .. k - 1) # {}
  <2>1. PICK i \in S \cap (1 .. k - 1) : (\A j \in S \cap (1 .. k - 1) : i <= j) /\ v = f[i]
    BY <1>2 DEF IsFirstOf
  <2>2. \A j \in S \cap (1 .. k) : i <= j
    BY <2>1
  <2>3. i \in S \cap (1 .. k)
    OBVIOUS
  <2> QED  BY <2>1, <2>2, <2>3 DEF IsFirstOf
<1> QED  BY <1>1, <1>2

LEMMA FirstTaken ==
  ASSUME NEW S, NEW k \in Nat \ {0}, NEW f, NEW none, k \in S, S \cap (1 .. k - 1) = {}
  PROVE  IsFirstOf(S \cap (1 .. k), f, none, f[k])
<1>1. S \cap (1 .. k) = {k}
  BY UpTo
<1> QED  BY <1>1 DEF IsFirstOf

-----------------------------------------------------------------------------
(* NDIC: one element of a document *)

Entries == [type : DataTypes, time : Codes, value : Codes \cup {Unreadable}]

ElementRecords ==
  [id : Seq(Int), primary : Codes, secondary : Codes, entry : Entries \cup {NoEntry}]

NoElement == [id |-> <<>>, primary |-> NoText, secondary |-> NoText, entry |-> NoEntry]

IdsOf(items) == [i \in DOMAIN items |-> items[i].id]
CodesOf(items) == [i \in DOMAIN items |-> items[i].code]
EntriesOf(items) == [i \in DOMAIN items |-> Entry(items[i])]

Coded(items, context) ==
  {i \in ItemsOf(items, "location") : items[i].context = context /\ items[i].code # NoText}

ElementSays(items, k, element) ==
  /\ element \in ElementRecords
  /\ IsLastOf(ItemsOf(items, "source") \cap (1 .. k), IdsOf(items), <<>>, element.id)
  /\ IsFirstOf(Coded(items, "primary") \cap (1 .. k), CodesOf(items), NoText, element.primary)
  /\ IsFirstOf(Coded(items, "secondary") \cap (1 .. k), CodesOf(items), NoText, element.secondary)
  /\ IsLastOf(Measures(items) \cap (1 .. k), EntriesOf(items), NoEntry, element.entry)

LEMMA ItemKinds ==
  ASSUME NEW item \in Items
  PROVE  /\ item.kind \in {"source", "location", "data"}
         /\ item.kind = "source" => item.id \in Seq(Int)
         /\ item.kind = "location" => item.context \in STRING /\ item.code \in Codes
         /\ item.kind = "data" => /\ item.type \in STRING /\ item.vehicle \in STRING
                                  /\ item.time \in Codes
                                  /\ item.value \in Codes \cup {Unreadable}
BY DEF Items

LEMMA EntryType ==
  ASSUME NEW item \in Items, item.kind = "data", item.type \in DataTypes
  PROVE  Entry(item) \in Entries /\ Entry(item) # NoEntry
<1>1. Value(item) \in Codes \cup {Unreadable}
  BY ItemKinds DEF Value, Codes
<1>2. Entry(item) \in Entries
  BY <1>1, ItemKinds DEF Entry, Entries
<1>3. NoEntry.type = "none" /\ "none" \notin DataTypes
  BY DEF NoEntry, DataTypes
<1> QED  BY <1>2, <1>3 DEF Entry

\* The first code of a kind: that of the new item where there was none.
LEMMA FirstTextIs ==
  ASSUME NEW items \in Seq(Items), NEW k \in 1 .. Len(items), NEW context, NEW c,
         IsFirstOf(Coded(items, context) \cap (1 .. k - 1), CodesOf(items), NoText, c),
         items[k].kind = "location", items[k].context = context
  PROVE  IsFirstOf(Coded(items, context) \cap (1 .. k), CodesOf(items), NoText,
                   FirstText(c, items[k].code))
<1> DEFINE S == Coded(items, context)
           f == CodesOf(items)
<1>1. k \in Nat \ {0} /\ k \in DOMAIN items
  BY LenProperties
<1>2. f[k] = items[k].code /\ (k \in S <=> items[k].code # NoText)
  BY <1>1 DEF Coded, ItemsOf, CodesOf
<1>3. \A i \in S : f[i] # NoText
  BY DEF Coded, ItemsOf, CodesOf
<1>4. c = NoText <=> S \cap (1 .. k - 1) = {}
  BY <1>3 DEF IsFirstOf
<1> HIDE DEF S, f
<1>5. CASE c # NoText
  BY <1>1, <1>4, <1>5, FirstKept DEF FirstText, S, f
<1>6. CASE c = NoText /\ k \notin S
  BY <1>1, <1>2, <1>6, FirstKept DEF FirstText, S, f
<1>7. CASE c = NoText /\ k \in S
  <2>1. IsFirstOf(S \cap (1 .. k), f, NoText, f[k])
    BY <1>1, <1>4, <1>7, FirstTaken
  <2> QED  BY <1>2, <1>7, <2>1 DEF FirstText, S, f
<1> QED  BY <1>5, <1>6, <1>7

\* An item more.
LEMMA ItemAdded ==
  ASSUME NEW items \in Seq(Items), NEW k \in 1 .. Len(items), NEW element,
         ElementSays(items, k - 1, element)
  PROVE  ElementSays(items, k, AfterItem(element, items[k]))
<1> DEFINE item == items[k]
           after == AfterItem(element, item)
           sources == ItemsOf(items, "source")
           primary == Coded(items, "primary")
           secondary == Coded(items, "secondary")
           measures == Measures(items)
<1>1. k \in Nat \ {0} /\ k \in DOMAIN items /\ item \in Items
  BY LenProperties, ElementOfSeq
<1>2. /\ k \in sources <=> item.kind = "source"
      /\ k \in primary => item.kind = "location" /\ item.context = "primary"
      /\ k \in secondary => item.kind = "location" /\ item.context = "secondary"
      /\ k \in measures <=> item.kind = "data" /\ Keeps(item)
      /\ IdsOf(items)[k] = item.id /\ EntriesOf(items)[k] = Entry(item)
  BY <1>1 DEF ItemsOf, Coded, Measures, Keeps, IdsOf, EntriesOf
<1>3. /\ item.kind \in {"source", "location", "data"}
      /\ item.kind = "source" => item.id \in Seq(Int)
      /\ item.kind = "location" => item.context \in STRING /\ item.code \in Codes
      /\ item.kind = "data" /\ Keeps(item) => Entry(item) \in Entries
  BY <1>1, ItemKinds, EntryType DEF Keeps
<1>4. /\ element \in ElementRecords
      /\ IsLastOf(sources \cap (1 .. k - 1), IdsOf(items), <<>>, element.id)
      /\ IsFirstOf(primary \cap (1 .. k - 1), CodesOf(items), NoText, element.primary)
      /\ IsFirstOf(secondary \cap (1 .. k - 1), CodesOf(items), NoText, element.secondary)
      /\ IsLastOf(measures \cap (1 .. k - 1), EntriesOf(items), NoEntry, element.entry)
  BY DEF ElementSays
<1>5. FirstText(element.primary, item.code) \in {element.primary, item.code}
      /\ FirstText(element.secondary, item.code) \in {element.secondary, item.code}
  BY DEF FirstText
<1> HIDE DEF item, sources, primary, secondary, measures
<1>6. CASE item.kind = "source"
  <2>1. after = [element EXCEPT !.id = item.id]
    BY <1>6 DEF AfterItem
  <2>2. /\ after \in ElementRecords /\ after.id = item.id /\ after.primary = element.primary
        /\ after.secondary = element.secondary /\ after.entry = element.entry
    BY <1>3, <1>4, <1>6, <2>1 DEF ElementRecords
  <2>3. IsLastOf(sources \cap (1 .. k), IdsOf(items), <<>>, item.id)
    BY <1>1, <1>2, <1>6, LastTaken
  <2>4. k \notin primary /\ k \notin secondary /\ k \notin measures
    BY <1>2, <1>6
  <2>5. /\ IsFirstOf(primary \cap (1 .. k), CodesOf(items), NoText, element.primary)
        /\ IsFirstOf(secondary \cap (1 .. k), CodesOf(items), NoText, element.secondary)
        /\ IsLastOf(measures \cap (1 .. k), EntriesOf(items), NoEntry, element.entry)
    BY <1>1, <1>4, <2>4, FirstKept, LastKept
  <2> QED  BY <2>2, <2>3, <2>5 DEF ElementSays, item, sources, primary, secondary, measures
<1>7. CASE item.kind = "location"
  <2>1. k \notin sources /\ k \notin measures
    BY <1>2, <1>7
  <2>2. /\ IsLastOf(sources \cap (1 .. k), IdsOf(items), <<>>, element.id)
        /\ IsLastOf(measures \cap (1 .. k), EntriesOf(items), NoEntry, element.entry)
    BY <1>1, <1>4, <2>1, LastKept
  <2>3. CASE item.context = "primary"
    <3>1. after = [element EXCEPT !.primary = FirstText(@, item.code)]
      BY <1>7, <2>3 DEF AfterItem
    <3>2. /\ after \in ElementRecords /\ after.id = element.id
          /\ after.primary = FirstText(element.primary, item.code)
          /\ after.secondary = element.secondary /\ after.entry = element.entry
      BY <1>3, <1>4, <1>5, <1>7, <3>1 DEF ElementRecords
    <3>3. IsFirstOf(primary \cap (1 .. k), CodesOf(items), NoText,
                    FirstText(element.primary, item.code))
      BY <1>4, <1>7, <2>3, FirstTextIs DEF primary, item
    <3>4. IsFirstOf(secondary \cap (1 .. k), CodesOf(items), NoText, element.secondary)
      BY <1>1, <1>2, <1>4, <2>3, FirstKept
    <3> QED  BY <2>2, <3>2, <3>3, <3>4 DEF ElementSays, item, sources, primary, secondary, measures
  <2>4. CASE item.context = "secondary"
    <3>1. after = [element EXCEPT !.secondary = FirstText(@, item.code)]
      BY <1>7, <2>4 DEF AfterItem
    <3>2. /\ after \in ElementRecords /\ after.id = element.id
          /\ after.secondary = FirstText(element.secondary, item.code)
          /\ after.primary = element.primary /\ after.entry = element.entry
      BY <1>3, <1>4, <1>5, <1>7, <3>1 DEF ElementRecords
    <3>3. IsFirstOf(secondary \cap (1 .. k), CodesOf(items), NoText,
                    FirstText(element.secondary, item.code))
      BY <1>4, <1>7, <2>4, FirstTextIs DEF secondary, item
    <3>4. IsFirstOf(primary \cap (1 .. k), CodesOf(items), NoText, element.primary)
      BY <1>1, <1>2, <1>4, <2>4, FirstKept
    <3> QED  BY <2>2, <3>2, <3>3, <3>4 DEF ElementSays, item, sources, primary, secondary, measures
  <2>5. CASE item.context \notin {"primary", "secondary"}
    <3>1. after = element
      BY <1>7, <2>5 DEF AfterItem
    <3>2. /\ IsFirstOf(primary \cap (1 .. k), CodesOf(items), NoText, element.primary)
          /\ IsFirstOf(secondary \cap (1 .. k), CodesOf(items), NoText, element.secondary)
      BY <1>1, <1>2, <1>4, <2>5, FirstKept
    <3> QED  BY <1>4, <2>2, <3>1, <3>2 DEF ElementSays, item, sources, primary, secondary, measures
  <2> QED  BY <2>3, <2>4, <2>5
<1>8. CASE item.kind = "data"
  <2>1. k \notin sources /\ k \notin primary /\ k \notin secondary
    BY <1>2, <1>8
  <2>2. /\ IsLastOf(sources \cap (1 .. k), IdsOf(items), <<>>, element.id)
        /\ IsFirstOf(primary \cap (1 .. k), CodesOf(items), NoText, element.primary)
        /\ IsFirstOf(secondary \cap (1 .. k), CodesOf(items), NoText, element.secondary)
    BY <1>1, <1>4, <2>1, FirstKept, LastKept
  <2>3. CASE Keeps(item)
    <3>1. after = [element EXCEPT !.entry = Entry(item)]
      BY <1>8, <2>3 DEF AfterItem
    <3>2. /\ after \in ElementRecords /\ after.id = element.id /\ after.entry = Entry(item)
          /\ after.primary = element.primary /\ after.secondary = element.secondary
      BY <1>3, <1>4, <1>8, <2>3, <3>1 DEF ElementRecords
    <3>3. IsLastOf(measures \cap (1 .. k), EntriesOf(items), NoEntry, Entry(item))
      BY <1>1, <1>2, <1>8, <2>3, LastTaken
    <3> QED  BY <2>2, <3>2, <3>3 DEF ElementSays, item, sources, primary, secondary, measures
  <2>4. CASE ~Keeps(item)
    <3>1. after = element
      BY <1>8, <2>4 DEF AfterItem
    <3>2. IsLastOf(measures \cap (1 .. k), EntriesOf(items), NoEntry, element.entry)
      BY <1>1, <1>2, <1>4, <2>4, LastKept
    <3> QED  BY <1>4, <2>2, <3>1, <3>2 DEF ElementSays, item, sources, primary, secondary, measures
  <2> QED  BY <2>3, <2>4
<1> QED  BY <1>3, <1>6, <1>7, <1>8

LEMMA AfterItemType ==
  ASSUME NEW element \in ElementRecords, NEW item \in Items
  PROVE  AfterItem(element, item) \in ElementRecords
<1> DEFINE after == AfterItem(element, item)
<1>1. /\ item.kind \in {"source", "location", "data"}
      /\ item.kind = "source" => item.id \in Seq(Int)
      /\ item.kind = "location" => item.context \in STRING /\ item.code \in Codes
      /\ item.kind = "data" /\ Keeps(item) => Entry(item) \in Entries
  BY ItemKinds, EntryType DEF Keeps
<1>2. item.kind = "location" =>
        /\ FirstText(element.primary, item.code) \in Codes
        /\ FirstText(element.secondary, item.code) \in Codes
  BY <1>1 DEF FirstText, ElementRecords
<1>3. CASE item.kind = "source"
  <2>1. after = [element EXCEPT !.id = item.id]
    BY <1>3 DEF AfterItem
  <2> QED  BY <1>1, <1>3, <2>1 DEF ElementRecords
<1>4. CASE item.kind = "location"
  <2>1. \/ after = [element EXCEPT !.primary = FirstText(@, item.code)]
        \/ after = [element EXCEPT !.secondary = FirstText(@, item.code)]
        \/ after = element
    BY <1>4 DEF AfterItem
  <2> QED  BY <1>2, <1>4, <2>1 DEF ElementRecords
<1>5. CASE item.kind = "data"
  <2>1. \/ Keeps(item) /\ after = [element EXCEPT !.entry = Entry(item)]
        \/ after = element
    BY <1>5 DEF AfterItem
  <2> QED  BY <1>1, <1>5, <2>1 DEF ElementRecords
<1> QED  BY <1>1, <1>3, <1>4, <1>5

ElementUpto(items, f) ==
  f = [t \in SUBSET DOMAIN items |->
         IF t = {} THEN NoElement ELSE AfterItem(f[t \ {Max(t)}], items[Max(t)])]

LEMMA ElementIs ==
  ASSUME NEW items \in Seq(Items)
  PROVE  \E h : /\ h[0] = NoElement /\ Element(items) = h[Len(items)]
                /\ \A k \in 1 .. Len(items) : h[k] = AfterItem(h[k - 1], items[k])
<1> DEFINE n == Len(items)
           T == ElementRecords
           step == [x \in T |-> [i \in 1 .. n |-> AfterItem(x, items[i])]]
<1>1. n \in Nat /\ DOMAIN items = 1 .. n /\ NoElement \in T
  BY LenProperties, EmptySeq DEF NoElement, ElementRecords, Codes
<1> HIDE DEF n
<1>2. IsStep(step, 1 .. n, T)
  BY <1>1, AfterItemType, ElementOfSeq DEF n, IsStep
<1>3. \A x \in T : \A i \in 1 .. n : step[x][i] = AfterItem(x, items[i])
  OBVIOUS
<1> HIDE DEF T, step
<1>4. PICK f \in [SUBSET (1 .. n) -> T] : IsListFold(f, n, NoElement, step)
  BY <1>1, <1>2, ListFoldExists
<1>5. ElementUpto(items, f)
  <2>1. ASSUME NEW t \in SUBSET (1 .. n)
        PROVE  f[t] = IF t = {} THEN NoElement ELSE AfterItem(f[t \ {Max(t)}], items[Max(t)])
    <3>1. t # {} => Max(t) \in 1 .. n
      BY <1>1, MaxOfPlaces
    <3>2. t # {} => f[t \ {Max(t)}] \in T
      BY <1>4
    <3> QED  BY <1>3, <1>4, <3>1, <3>2 DEF IsListFold
  <2> QED  BY <1>1, <1>4, <2>1 DEF ElementUpto
<1> DEFINE g == CHOOSE x : ElementUpto(items, x)
<1>6. ElementUpto(items, g)
  BY <1>5
<1>7. Element(items) = g[DOMAIN items]
  BY DEF Element, FoldLeft, MapThenFoldSet, ElementUpto, NoElement
<1> HIDE DEF g
<1> DEFINE h == [k \in 0 .. n |-> g[1 .. k]]
<1>8. h[0] = NoElement /\ Element(items) = h[n]
  BY <1>1, <1>6, <1>7 DEF ElementUpto
<1>9. ASSUME NEW k \in 1 .. n PROVE h[k] = AfterItem(h[k - 1], items[k])
  <2>1. 1 .. k \in SUBSET DOMAIN items /\ 1 .. k # {}
    <3>1. k \in 1 .. k /\ \A i \in 1 .. k : i \in 1 .. n
      BY <1>1
    <3> QED  BY <1>1, <3>1
  <2>2. Max(1 .. k) = k /\ (1 .. k) \ {k} = 1 .. k - 1
    BY MaxOfInterval
  <2>3. g[1 .. k] = AfterItem(g[1 .. k - 1], items[k])
    BY <1>6, <2>1, <2>2 DEF ElementUpto
  <2>4. k \in 0 .. n /\ k - 1 \in 0 .. n
    BY <1>1
  <2> QED  BY <2>3, <2>4
<1> QED  BY <1>8, <1>9 DEF n

\* What an element says is what its items say.
LEMMA ElementOf ==
  ASSUME NEW items \in Seq(Items)
  PROVE  /\ Element(items) \in ElementRecords
         /\ Element(items).id = Names(items)
         /\ Element(items).entry = IF Measures(items) = {} THEN NoEntry ELSE Entry(Measured(items))
         /\ IsFirstOf(Coded(items, "primary"), CodesOf(items), NoText, Element(items).primary)
         /\ IsFirstOf(Coded(items, "secondary"), CodesOf(items), NoText, Element(items).secondary)
<1> DEFINE n == Len(items)
           element == Element(items)
<1>1. PICK h : /\ h[0] = NoElement /\ element = h[n]
               /\ \A k \in 1 .. n : h[k] = AfterItem(h[k - 1], items[k])
  BY ElementIs
<1>2. n \in Nat /\ DOMAIN items = 1 .. n
  BY LenProperties
<1> DEFINE T == {k \in Nat : ElementSays(items, k, h[k])}
<1>3. 0 \in T
  <2>1. NoElement \in ElementRecords
    BY EmptySeq DEF NoElement, ElementRecords, Codes
  <2>2. \A S : S \cap (1 .. 0) = {}
    OBVIOUS
  <2>3. ElementSays(items, 0, NoElement)
    BY <2>1, <2>2 DEF ElementSays, IsLastOf, IsFirstOf, NoElement
  <2> QED  BY <1>1, <2>3
<1>4. ASSUME NEW k \in 1 .. n, k - 1 \in T PROVE k \in T
  <2>1. k \in Nat /\ ElementSays(items, k - 1, h[k - 1])
    BY <1>2, <1>4
  <2> QED  BY <1>1, <2>1, ItemAdded
<1> HIDE DEF T
<1>5. n \in T
  BY <1>2, <1>3, <1>4, UptoInduction
<1>6. ElementSays(items, n, element)
  BY <1>1, <1>5 DEF T
<1>7. /\ ItemsOf(items, "source") \cap (1 .. n) = ItemsOf(items, "source")
      /\ Coded(items, "primary") \cap (1 .. n) = Coded(items, "primary")
      /\ Coded(items, "secondary") \cap (1 .. n) = Coded(items, "secondary")
      /\ Measures(items) \cap (1 .. n) = Measures(items)
  BY <1>2 DEF ItemsOf, Coded, Measures
<1> HIDE DEF n, element
<1>8. element.id = Names(items)
  <2> DEFINE S == ItemsOf(items, "source")
  <2>1. S \in SUBSET (1 .. n)
    BY <1>2 DEF ItemsOf
  <2>2. IsLastOf(S, IdsOf(items), <<>>, element.id)
    BY <1>6, <1>7 DEF ElementSays
  <2> HIDE DEF S
  <2>3. CASE S = {}
    BY <2>2, <2>3 DEF Names, S, IsLastOf
  <2>4. CASE S # {}
    <3>1. PICK i \in S : (\A j \in S : j <= i) /\ element.id = IdsOf(items)[i]
      BY <2>2, <2>4 DEF IsLastOf
    <3>2. S \in SUBSET Int /\ \A j \in S : i >= j
      BY <2>1, <3>1
    <3>3. Max(S) = i /\ i \in DOMAIN items
      BY <1>2, <2>1, <3>1, <3>2, MaxIs
    <3>4. element.id = items[i].id
      BY <3>1, <3>3 DEF IdsOf
    <3> QED  BY <2>4, <3>3, <3>4 DEF Names, S
  <2> QED  BY <2>3, <2>4
<1>9. element.entry = IF Measures(items) = {} THEN NoEntry ELSE Entry(Measured(items))
  <2> DEFINE S == Measures(items)
  <2>1. S \in SUBSET (1 .. n)
    BY <1>2 DEF ItemsOf, Measures
  <2>2. IsLastOf(S, EntriesOf(items), NoEntry, element.entry)
    BY <1>6, <1>7 DEF ElementSays
  <2> HIDE DEF S
  <2>3. CASE S = {}
    BY <2>2, <2>3 DEF S, IsLastOf
  <2>4. CASE S # {}
    <3>1. PICK i \in S : (\A j \in S : j <= i) /\ element.entry = EntriesOf(items)[i]
      BY <2>2, <2>4 DEF IsLastOf
    <3>2. S \in SUBSET Int /\ \A j \in S : i >= j
      BY <2>1, <3>1
    <3>3. Max(S) = i /\ i \in DOMAIN items
      BY <1>2, <2>1, <3>1, <3>2, MaxIs
    <3>4. element.entry = Entry(items[i])
      BY <3>1, <3>3 DEF EntriesOf
    <3> QED  BY <2>4, <3>3, <3>4 DEF Measured, S
  <2> QED  BY <2>3, <2>4 DEF S
<1> QED  BY <1>6, <1>7, <1>8, <1>9 DEF ElementSays, element

-----------------------------------------------------------------------------
(* NDIC: what the elements read tell of a segment *)

Snapshots ==
  [primary : Codes, secondary : Codes, time : Codes, entries : Seq(Entries),
   TrafficStatus : Codes, TrafficSpeed : Codes, TravelTimeData : Codes, metadata : {NoText}]

ValuesOf(els) == [e \in DOMAIN els |-> els[e].entry.value]
PrimariesOf(els) == [e \in DOMAIN els |-> els[e].primary]
SecondariesOf(els) == [e \in DOMAIN els |-> els[e].secondary]

Giving(els, A, type) == {e \in A : els[e].entry.type = type /\ els[e].entry.value # NoText}
WithPrimary(els, A) == {e \in A : els[e].primary # NoText}
WithSecondary(els, A) == {e \in A : els[e].secondary # NoText}
Timed(els, A) == {els[e].entry.time : e \in A} \ {NoText}

IsNewest(times, t) == (times = {} /\ t = NoText) \/ (t \in times /\ \A u \in times : u <= t)

Follows(els, A, k, s) ==
  /\ s \in Snapshots
  /\ IsNewest(Timed(els, A \cap (1 .. k)), s.time)
  /\ \A type \in DataTypes : IsLastOf(Giving(els, A, type) \cap (1 .. k), ValuesOf(els), NoText, s[type])
  /\ IsFirstOf(WithPrimary(els, A) \cap (1 .. k), PrimariesOf(els), NoText, s.primary)
  /\ IsFirstOf(WithSecondary(els, A) \cap (1 .. k), SecondariesOf(els), NoText, s.secondary)
  /\ Len(s.entries) = Cardinality(A \cap (1 .. k))

LEMMA WithElementIs ==
  ASSUME NEW s \in Snapshots, NEW el \in ElementRecords, el.entry \in Entries,
         el.entry.value \in Codes
  PROVE  /\ WithElement(s, el) \in Snapshots
         /\ WithElement(s, el).primary = FirstText(s.primary, el.primary)
         /\ WithElement(s, el).secondary = FirstText(s.secondary, el.secondary)
         /\ WithElement(s, el).time =
              IF el.entry.time # NoText /\ (s.time = NoText \/ el.entry.time > s.time)
              THEN el.entry.time ELSE s.time
         /\ WithElement(s, el).entries = Append(s.entries, el.entry)
         /\ \A type \in DataTypes :
              WithElement(s, el)[type] =
                IF type = el.entry.type /\ el.entry.value # NoText THEN el.entry.value ELSE s[type]
<1> DEFINE primary == FirstText(s.primary, el.primary)
           secondary == FirstText(s.secondary, el.secondary)
           time == IF el.entry.time # NoText /\ (s.time = NoText \/ el.entry.time > s.time)
                   THEN el.entry.time ELSE s.time
           entries == Append(s.entries, el.entry)
           r == [s EXCEPT !.primary = primary, !.secondary = secondary, !.time = time,
                          !.entries = entries]
           value == IF el.entry.value # NoText THEN el.entry.value ELSE r[el.entry.type]
           w == WithElement(s, el)
<1>1. w = [r EXCEPT ![el.entry.type] = value]
  BY DEF WithElement
<1>2. /\ primary \in Codes /\ secondary \in Codes /\ time \in Codes
      /\ el.entry.type \in DataTypes
      /\ s.entries \in Seq(Entries)
  BY DEF FirstText, Snapshots, ElementRecords, Entries
<1>3. entries \in Seq(Entries)
  BY <1>2
<1> HIDE DEF primary, secondary, time, entries
<1>4. r \in Snapshots
  BY <1>2, <1>3 DEF Snapshots
<1>5. /\ r.primary = primary /\ r.secondary = secondary /\ r.time = time /\ r.entries = entries
      /\ r.TrafficStatus = s.TrafficStatus /\ r.TrafficSpeed = s.TrafficSpeed
      /\ r.TravelTimeData = s.TravelTimeData /\ r.metadata = s.metadata
  BY DEF Snapshots
<1>6. value \in Codes
  BY <1>2, <1>4 DEF Snapshots, DataTypes
<1>7. value = IF el.entry.value # NoText THEN el.entry.value ELSE s[el.entry.type]
  BY <1>2, <1>5 DEF DataTypes
<1> HIDE DEF r, value, w
<1>8. CASE el.entry.type = "TrafficStatus"
  <2>1. w = [r EXCEPT !.TrafficStatus = value]
    BY <1>1, <1>8
  <2>2. /\ w \in Snapshots /\ w.TrafficStatus = value /\ w.TrafficSpeed = r.TrafficSpeed
        /\ w.TravelTimeData = r.TravelTimeData
        /\ w.primary = r.primary /\ w.secondary = r.secondary /\ w.time = r.time
        /\ w.entries = r.entries
    BY <1>4, <1>6, <2>1 DEF Snapshots
  <2> QED  BY <1>5, <1>7, <1>8, <2>2 DEF DataTypes, primary, secondary, time, entries, w
<1>9. CASE el.entry.type = "TrafficSpeed"
  <2>1. w = [r EXCEPT !.TrafficSpeed = value]
    BY <1>1, <1>9
  <2>2. /\ w \in Snapshots /\ w.TrafficSpeed = value /\ w.TrafficStatus = r.TrafficStatus
        /\ w.TravelTimeData = r.TravelTimeData
        /\ w.primary = r.primary /\ w.secondary = r.secondary /\ w.time = r.time
        /\ w.entries = r.entries
    BY <1>4, <1>6, <2>1 DEF Snapshots
  <2> QED  BY <1>5, <1>7, <1>9, <2>2 DEF DataTypes, primary, secondary, time, entries, w
<1>10. CASE el.entry.type = "TravelTimeData"
  <2>1. w = [r EXCEPT !.TravelTimeData = value]
    BY <1>1, <1>10
  <2>2. /\ w \in Snapshots /\ w.TravelTimeData = value /\ w.TrafficStatus = r.TrafficStatus
        /\ w.TrafficSpeed = r.TrafficSpeed
        /\ w.primary = r.primary /\ w.secondary = r.secondary /\ w.time = r.time
        /\ w.entries = r.entries
    BY <1>4, <1>6, <2>1 DEF Snapshots
  <2> QED  BY <1>5, <1>7, <1>10, <2>2 DEF DataTypes, primary, secondary, time, entries, w
<1> QED  BY <1>2, <1>8, <1>9, <1>10 DEF DataTypes

LEMMA FollowsNothing ==
  ASSUME NEW els, NEW A, NEW k, A \cap (1 .. k) = {}
  PROVE  Follows(els, A, k, NoSnapshot)
<1>1. NoSnapshot \in Snapshots
  BY EmptySeq DEF NoSnapshot, Snapshots, Codes
<1>2. \A type : Giving(els, A, type) \cap (1 .. k) = {}
  BY DEF Giving
<1>3. WithPrimary(els, A) \cap (1 .. k) = {} /\ WithSecondary(els, A) \cap (1 .. k) = {}
  BY DEF WithPrimary, WithSecondary
<1>4. Len(NoSnapshot.entries) = 0
  BY DEF NoSnapshot
<1>5. \A type \in DataTypes : NoSnapshot[type] = NoText
  BY DEF NoSnapshot, DataTypes
<1>6. IsNewest(Timed(els, {}), NoText)
  BY DEF IsNewest, Timed
<1>7. NoSnapshot.primary = NoText /\ NoSnapshot.secondary = NoText /\ NoSnapshot.time = NoText
  BY DEF NoSnapshot
<1> QED  BY <1>1, <1>2, <1>3, <1>4, <1>5, <1>6, <1>7, FS_EmptySet DEF Follows, IsLastOf, IsFirstOf

\* An element about another segment changes nothing.
LEMMA FollowsKept ==
  ASSUME NEW els, NEW A, NEW k \in Nat \ {0}, k \notin A, NEW s, Follows(els, A, k - 1, s)
  PROVE  Follows(els, A, k, s)
<1>1. A \cap (1 .. k) = A \cap (1 .. k - 1)
  BY UpTo
<1>2. ASSUME NEW S, S \subseteq A PROVE S \cap (1 .. k) = S \cap (1 .. k - 1)
  BY <1>2, UpTo
<1>3. \A type : Giving(els, A, type) \cap (1 .. k) = Giving(els, A, type) \cap (1 .. k - 1)
  BY <1>2 DEF Giving
<1>4. WithPrimary(els, A) \cap (1 .. k) = WithPrimary(els, A) \cap (1 .. k - 1)
  BY <1>2 DEF WithPrimary
<1>5. WithSecondary(els, A) \cap (1 .. k) = WithSecondary(els, A) \cap (1 .. k - 1)
  BY <1>2 DEF WithSecondary
<1> QED  BY <1>1, <1>3, <1>4, <1>5 DEF Follows

\* One about the segment: its code where there was none, its value, its time if it is newer.
LEMMA FirstAdded ==
  ASSUME NEW S, NEW k \in Nat \ {0}, NEW f, NEW v, NEW c,
         IsFirstOf(S \cap (1 .. k - 1), f, NoText, v),
         \A e \in S : f[e] # NoText, k \in S <=> c # NoText, f[k] = c
  PROVE  IsFirstOf(S \cap (1 .. k), f, NoText, FirstText(v, c))
<1>1. v = NoText <=> S \cap (1 .. k - 1) = {}
  BY DEF IsFirstOf
<1>2. CASE v # NoText
  BY <1>1, <1>2, FirstKept DEF FirstText
<1>3. CASE v = NoText /\ k \notin S
  BY <1>3, FirstKept DEF FirstText
<1>4. CASE v = NoText /\ k \in S
  BY <1>1, <1>4, FirstTaken DEF FirstText
<1> QED  BY <1>2, <1>3, <1>4

LEMMA NewestAdded ==
  ASSUME NEW els, NEW A, NEW k \in Nat \ {0}, k \in A, NEW t \in Codes, NEW u \in Codes,
         \A e \in A : els[e].entry.time \in Codes,
         IsNewest(Timed(els, A \cap (1 .. k - 1)), t), els[k].entry.time = u
  PROVE  IsNewest(Timed(els, A \cap (1 .. k)), IF u # NoText /\ (t = NoText \/ u > t) THEN u ELSE t)
<1> DEFINE B == Timed(els, A \cap (1 .. k - 1))
           C == Timed(els, A \cap (1 .. k))
<1>1. C = (B \cup {u}) \ {NoText}
  <2>1. A \cap (1 .. k) = (A \cap (1 .. k - 1)) \cup {k}
    BY UpTo
  <2> QED  BY <2>1 DEF Timed
<1>2. B \subseteq Int /\ NoText \notin Int
  BY NdicParserAssumption DEF NdicParserAssumption, Timed, Codes
<1>3. IsNewest(B, t)
  OBVIOUS
<1> HIDE DEF B, C
<1>4. CASE u = NoText
  <2>1. C = B
    BY <1>1, <1>2, <1>4
  <2> QED  BY <1>3, <1>4, <2>1 DEF C
<1>5. CASE u # NoText /\ t = NoText
  <2>1. B = {} /\ C = {u} /\ u \in Int
    BY <1>1, <1>2, <1>3, <1>5 DEF IsNewest, Codes
  <2>2. IsNewest(C, u)
    BY <2>1 DEF IsNewest
  <2> QED  BY <1>5, <2>2 DEF C
<1>6. CASE u # NoText /\ t # NoText
  <2>1. u \in Int /\ t \in B /\ t \in Int /\ C = B \cup {u} /\ \A x \in B : x <= t
    BY <1>1, <1>2, <1>3, <1>6 DEF IsNewest, Codes
  <2>2. CASE u > t
    <3>1. ASSUME NEW x \in C PROVE x <= u
      <4>1. x = u \/ (x \in Int /\ x <= t)
        BY <1>2, <2>1
      <4> QED  BY <2>1, <2>2, <4>1
    <3>2. IsNewest(C, u)
      BY <2>1, <3>1 DEF IsNewest
    <3> QED  BY <1>6, <2>2, <3>2 DEF C
  <2>3. CASE ~(u > t)
    <3>1. ASSUME NEW x \in C PROVE x <= t
      <4>1. x = u \/ (x \in Int /\ x <= t)
        BY <1>2, <2>1
      <4> QED  BY <2>1, <2>3, <4>1
    <3>2. IsNewest(C, t)
      BY <2>1, <3>1 DEF IsNewest
    <3> QED  BY <1>6, <2>3, <3>2 DEF C
  <2> QED  BY <2>2, <2>3
<1> QED  BY <1>4, <1>5, <1>6

LEMMA FollowsAdded ==
  ASSUME NEW els \in Seq(ElementRecords), NEW A \in SUBSET DOMAIN els, NEW k \in A,
         \A e \in A : els[e].entry \in Entries, els[k].entry.value \in Codes,
         NEW s, Follows(els, A, k - 1, s)
  PROVE  Follows(els, A, k, WithElement(s, els[k]))
<1> DEFINE el == els[k]
           w == WithElement(s, el)
           before == 1 .. k - 1
<1>1. k \in Nat \ {0} /\ k \in DOMAIN els /\ el \in ElementRecords /\ el.entry \in Entries
  BY LenProperties, ElementOfSeq
<1>2. /\ s \in Snapshots
      /\ IsNewest(Timed(els, A \cap before), s.time)
      /\ \A type \in DataTypes : IsLastOf(Giving(els, A, type) \cap before, ValuesOf(els), NoText, s[type])
      /\ IsFirstOf(WithPrimary(els, A) \cap before, PrimariesOf(els), NoText, s.primary)
      /\ IsFirstOf(WithSecondary(els, A) \cap before, SecondariesOf(els), NoText, s.secondary)
      /\ Len(s.entries) = Cardinality(A \cap before)
  BY DEF Follows
<1>3. /\ w \in Snapshots
      /\ w.primary = FirstText(s.primary, el.primary)
      /\ w.secondary = FirstText(s.secondary, el.secondary)
      /\ w.time = IF el.entry.time # NoText /\ (s.time = NoText \/ el.entry.time > s.time)
                  THEN el.entry.time ELSE s.time
      /\ w.entries = Append(s.entries, el.entry)
      /\ \A type \in DataTypes :
           w[type] = IF type = el.entry.type /\ el.entry.value # NoText THEN el.entry.value ELSE s[type]
  BY <1>1, <1>2, WithElementIs
<1> HIDE DEF w
<1>4. IsNewest(Timed(els, A \cap (1 .. k)), w.time)
  <2>1. s.time \in Codes /\ el.entry.time \in Codes /\ \A e \in A : els[e].entry.time \in Codes
    BY <1>1, <1>2 DEF Snapshots, Entries
  <2>2. IsNewest(Timed(els, A \cap (1 .. k - 1)), s.time)
    BY <1>2
  <2>3. PICK t : t = s.time
    OBVIOUS
  <2>4. PICK u : u = els[k].entry.time
    OBVIOUS
  <2>5. t \in Codes /\ u \in Codes /\ IsNewest(Timed(els, A \cap (1 .. k - 1)), t)
    BY <2>1, <2>2, <2>3, <2>4
  <2>6. IsNewest(Timed(els, A \cap (1 .. k)), IF u # NoText /\ (t = NoText \/ u > t) THEN u ELSE t)
    <3> HIDE DEF el
    <3> QED  BY <1>1, <2>1, <2>4, <2>5, NewestAdded
  <2>7. w.time = IF u # NoText /\ (t = NoText \/ u > t) THEN u ELSE t
    BY <1>3, <2>3, <2>4
  <2> QED  BY <2>6, <2>7
<1>5. ASSUME NEW type \in DataTypes
      PROVE  IsLastOf(Giving(els, A, type) \cap (1 .. k), ValuesOf(els), NoText, w[type])
  <2> DEFINE S == Giving(els, A, type)
  <2>1. k \in S <=> el.entry.type = type /\ el.entry.value # NoText
    BY DEF Giving
  <2>2. ValuesOf(els)[k] = el.entry.value
    BY <1>1 DEF ValuesOf
  <2>3. IsLastOf(S \cap before, ValuesOf(els), NoText, s[type])
    BY <1>2
  <2> HIDE DEF S, el
  <2>4. CASE k \in S
    <3>1. w[type] = ValuesOf(els)[k]
      BY <1>3, <2>1, <2>2, <2>4
    <3> QED  BY <1>1, <2>4, <3>1, LastTaken DEF S
  <2>5. CASE k \notin S
    <3>1. w[type] = s[type]
      BY <1>3, <2>1, <2>5
    <3> QED  BY <1>1, <2>3, <2>5, <3>1, LastKept DEF S
  <2> QED  BY <2>4, <2>5
<1>6. IsFirstOf(WithPrimary(els, A) \cap (1 .. k), PrimariesOf(els), NoText, w.primary)
  <2> DEFINE S == WithPrimary(els, A)
             f == PrimariesOf(els)
  <2>1. f[k] = el.primary /\ (k \in S <=> el.primary # NoText) /\ \A e \in S : f[e] # NoText
    BY <1>1 DEF WithPrimary, PrimariesOf
  <2>2. IsFirstOf(S \cap before, f, NoText, s.primary)
    BY <1>2
  <2> HIDE DEF S, f, el
  <2>3. IsFirstOf(S \cap (1 .. k), f, NoText, FirstText(s.primary, el.primary))
    BY <1>1, <2>1, <2>2, FirstAdded
  <2> QED  BY <1>3, <2>3 DEF S, f
<1>7. IsFirstOf(WithSecondary(els, A) \cap (1 .. k), SecondariesOf(els), NoText, w.secondary)
  <2> DEFINE S == WithSecondary(els, A)
             f == SecondariesOf(els)
  <2>1. f[k] = el.secondary /\ (k \in S <=> el.secondary # NoText) /\ \A e \in S : f[e] # NoText
    BY <1>1 DEF WithSecondary, SecondariesOf
  <2>2. IsFirstOf(S \cap before, f, NoText, s.secondary)
    BY <1>2
  <2> HIDE DEF S, f, el
  <2>3. IsFirstOf(S \cap (1 .. k), f, NoText, FirstText(s.secondary, el.secondary))
    BY <1>1, <2>1, <2>2, FirstAdded
  <2> QED  BY <1>3, <2>3 DEF S, f
<1>8. Len(w.entries) = Cardinality(A \cap (1 .. k))
  <2>1. A \cap (1 .. k) = (A \cap before) \cup {k} /\ k \notin A \cap before
    BY <1>1, UpTo
  <2>2. IsFiniteSet(A \cap before)
    BY FS_Interval, FS_Subset, <1>1
  <2>3. Cardinality(A \cap (1 .. k)) = Cardinality(A \cap before) + 1
    BY <2>1, <2>2, FS_AddElement
  <2>4. s.entries \in Seq(Entries)
    BY <1>2 DEF Snapshots
  <2>5. Len(w.entries) = Len(s.entries) + 1
    BY <1>1, <1>3, <2>4, LenProperties
  <2> QED  BY <1>2, <2>3, <2>5
<1> QED  BY <1>3, <1>4, <1>5, <1>6, <1>7, <1>8 DEF Follows, w

-----------------------------------------------------------------------------
(* NDIC: in the words of the property *)

Documents == Seq(Seq(Items))
Elements(doc) == [e \in DOMAIN doc |-> Element(doc[e])]
Decodable(items) == \A i \in DOMAIN items : ~Undecodable(items[i])

LEMMA ElementsType ==
  ASSUME NEW doc \in Documents
  PROVE  /\ Elements(doc) \in Seq(ElementRecords) /\ DOMAIN Elements(doc) = 1 .. Len(doc)
         /\ Len(doc) \in Nat /\ DOMAIN doc = 1 .. Len(doc)
         /\ \A e \in DOMAIN doc : doc[e] \in Seq(Items) /\ Elements(doc)[e] = Element(doc[e])
<1> DEFINE n == Len(doc)
<1>1. n \in Nat /\ DOMAIN doc = 1 .. n /\ \A e \in 1 .. n : doc[e] \in Seq(Items)
  BY LenProperties, ElementOfSeq DEF Documents
<1>2. \A e \in 1 .. n : Element(doc[e]) \in ElementRecords
  BY <1>1, ElementOf
<1>3. Elements(doc) \in [1 .. n -> ElementRecords]
  BY <1>1, <1>2 DEF Elements
<1>4. Elements(doc) \in Seq(ElementRecords)
  BY <1>1, <1>3, SeqDef
<1> QED  BY <1>1, <1>3, <1>4 DEF Elements

LEMMA MeasuredItem ==
  ASSUME NEW items \in Seq(Items), Measures(items) # {}
  PROVE  /\ Measured(items) \in Items /\ Measured(items).kind = "data"
         /\ Measured(items).type \in DataTypes
         /\ \E i \in DOMAIN items : Measured(items) = items[i]
<1> DEFINE S == Measures(items)
<1>1. Len(items) \in Nat /\ DOMAIN items = 1 .. Len(items)
  BY LenProperties
<1>2. S \in SUBSET (1 .. Len(items)) /\ S # {}
  BY <1>1 DEF Measures, ItemsOf
<1> HIDE DEF S
<1>3. Max(S) \in S
  BY <1>1, <1>2, MaxOfPlaces
<1>4. Max(S) \in DOMAIN items /\ items[Max(S)].kind = "data" /\ items[Max(S)].type \in DataTypes
  BY <1>3 DEF S, Measures, ItemsOf
<1>5. items[Max(S)] \in Items
  BY <1>1, <1>4, ElementOfSeq
<1> QED  BY <1>4, <1>5 DEF Measured, S

\* An element tells of a segment when it names one and measures something.
LEMMA TellingIs ==
  ASSUME NEW items \in Seq(Items)
  PROVE  /\ Element(items).entry = NoEntry <=> Measures(items) = {}
         /\ Measures(items) # {} => /\ Element(items).entry = Entry(Measured(items))
                                    /\ Element(items).entry \in Entries
<1>1. CASE Measures(items) = {}
  BY <1>1, ElementOf
<1>2. CASE Measures(items) # {}
  BY <1>2, ElementOf, MeasuredItem, EntryType
<1> QED  BY <1>1, <1>2

\* What the element gives for its type.
LEMMA ValueIs ==
  ASSUME NEW items \in Seq(Items), Measures(items) # {}, Decodable(items)
  PROVE  LET m == Measured(items)
             entry == Element(items).entry
         IN /\ entry.type = m.type /\ entry.time = m.time /\ m.time \in Codes
            /\ entry.value \in Codes
            /\ entry.value # NoText <=> ~(m.type = "TrafficStatus" /\ m.value = NoText)
            /\ entry.value # NoText => entry.value = IF m.value \in Int THEN m.value ELSE 0
<1> DEFINE m == Measured(items)
<1>1. m \in Items /\ m.kind = "data" /\ m.type \in DataTypes /\ ~Undecodable(m)
  BY MeasuredItem DEF Decodable
<1>2. Element(items).entry = Entry(m)
  BY TellingIs
<1>3. m.time \in Codes /\ m.value \in Codes \cup {Unreadable}
  BY <1>1, ItemKinds
<1> HIDE DEF m
<1>4. m.type # "TrafficStatus" => m.value # Unreadable
  BY <1>1 DEF Undecodable
<1>5. NoText \notin Int /\ Unreadable \notin Int /\ NoText # Unreadable
  BY NdicParserAssumption DEF NdicParserAssumption
<1>6. /\ Value(m) \in Codes
      /\ Value(m) # NoText <=> ~(m.type = "TrafficStatus" /\ m.value = NoText)
      /\ Value(m) # NoText => Value(m) = IF m.value \in Int THEN m.value ELSE 0
  <2>1. CASE m.type = "TrafficStatus"
    BY <1>3, <1>5, <2>1 DEF Value, Codes
  <2>2. CASE m.type # "TrafficStatus"
    BY <1>3, <1>4, <1>5, <2>2 DEF Value, Codes
  <2> QED  BY <2>1, <2>2
<1> QED  BY <1>2, <1>3, <1>6 DEF Entry, m

LEMMA CodePlacesAre ==
  ASSUME NEW doc, NEW about, NEW context, NEW at
  PROVE  at \in CodePlaces(doc, about, context) <=>
           \E e \in about : \E i \in Coded(doc[e], context) : at = <<e, i>>
BY DEF CodePlaces, Coded

\* The first place of a code in the document is the first in the first element
\* that has one.
LEMMA FirstCodeIs ==
  ASSUME NEW doc \in Documents, NEW A \in SUBSET DOMAIN doc, NEW context, NEW codes,
         \A e \in A : IsFirstOf(Coded(doc[e], context), CodesOf(doc[e]), NoText, codes[e]),
         NEW c, IsFirstOf({e \in A : codes[e] # NoText}, codes, NoText, c)
  PROVE  c = FirstCode(doc, A, context)
<1> DEFINE places == CodePlaces(doc, A, context)
           with == {e \in A : codes[e] # NoText}
<1>1. ASSUME NEW e \in A
      PROVE  /\ e \in Nat /\ Coded(doc[e], context) \in SUBSET Nat
             /\ \A i \in Coded(doc[e], context) : i \in DOMAIN doc[e] /\ doc[e][i].code # NoText
             /\ codes[e] = NoText <=> Coded(doc[e], context) = {}
  <2>1. e \in DOMAIN doc /\ e \in Nat /\ doc[e] \in Seq(Items)
    BY ElementsType
  <2>2. DOMAIN doc[e] = 1 .. Len(doc[e]) /\ Len(doc[e]) \in Nat
    BY <2>1, LenProperties
  <2>3. /\ Coded(doc[e], context) \in SUBSET (1 .. Len(doc[e]))
        /\ \A i \in Coded(doc[e], context) : i \in DOMAIN doc[e] /\ doc[e][i].code # NoText
    BY <2>2 DEF Coded, ItemsOf
  <2>4. IsFirstOf(Coded(doc[e], context), CodesOf(doc[e]), NoText, codes[e])
    OBVIOUS
  <2>5. \A i \in DOMAIN doc[e] : CodesOf(doc[e])[i] = doc[e][i].code
    BY DEF CodesOf
  <2>6. codes[e] = NoText <=> Coded(doc[e], context) = {}
    BY <2>3, <2>4, <2>5 DEF IsFirstOf
  <2> QED  BY <2>1, <2>2, <2>3, <2>6
<1>2. CASE with = {}
  <2>1. c = NoText
    BY <1>2 DEF IsFirstOf
  <2>2. places = {}
    BY <1>1, <1>2, CodePlacesAre
  <2> QED  BY <2>1, <2>2 DEF FirstCode
<1>3. CASE with # {}
  <2>1. PICK e \in with : (\A j \in with : e <= j) /\ c = codes[e]
    BY <1>3 DEF IsFirstOf
  <2> DEFINE S == Coded(doc[e], context)
  <2>2. e \in A /\ S # {} /\ e \in Nat /\ S \in SUBSET Nat
    BY <1>1, <2>1
  <2>3. IsFirstOf(S, CodesOf(doc[e]), NoText, c)
    BY <2>1, <2>2
  <2>4. PICK i \in S : (\A j \in S : i <= j) /\ c = CodesOf(doc[e])[i]
    BY <2>2, <2>3 DEF IsFirstOf
  <2>5. c = doc[e][i].code /\ i \in Nat
    BY <1>1, <2>2, <2>4 DEF CodesOf
  <2> DEFINE at == <<e, i>>
  <2>6. at \in places
    BY <2>2, <2>4, CodePlacesAre
  <2>7. ASSUME NEW other \in places PROVE Before(at, other)
    <3>1. PICK f \in A : \E j \in Coded(doc[f], context) : other = <<f, j>>
      BY CodePlacesAre
    <3>2. PICK j \in Coded(doc[f], context) : other = <<f, j>>
      BY <3>1
    <3>3. f \in with /\ f \in Nat /\ j \in Nat
      BY <1>1, <3>1, <3>2
    <3>4. e <= f
      BY <2>1, <3>3
    <3>5. f = e => i <= j
      BY <2>4, <3>2
    <3> QED  BY <2>2, <2>5, <3>2, <3>3, <3>4, <3>5 DEF Before
  <2> DEFINE first == CHOOSE x \in places : \A other \in places : Before(x, other)
  <2>8. first \in places /\ \A other \in places : Before(first, other)
    BY <2>6, <2>7
  <2> HIDE DEF first
  <2>9. PICK f \in A : \E j \in Coded(doc[f], context) : first = <<f, j>>
    BY <2>8, CodePlacesAre
  <2>10. PICK j \in Coded(doc[f], context) : first = <<f, j>>
    BY <2>9
  <2>11. Before(<<e, i>>, <<f, j>>) /\ Before(<<f, j>>, <<e, i>>)
    BY <2>6, <2>7, <2>8, <2>10
  <2>12. f \in Nat /\ j \in Nat /\ e \in Nat /\ i \in Nat
    BY <1>1, <2>2, <2>5, <2>9, <2>10
  <2>13. f = e /\ j = i
    BY <2>11, <2>12 DEF Before
  <2>14. first[1] = e /\ first[2] = i
    BY <2>10, <2>13
  <2>15. FirstCode(doc, A, context) = doc[first[1]][first[2]].code
    BY <2>6 DEF FirstCode, first
  <2> QED  BY <2>5, <2>14, <2>15
<1> QED  BY <1>2, <1>3

\* The snapshot of the elements about a segment says what the property says of them.
LEMMA FollowsSays ==
  ASSUME NEW doc \in Documents, \A e \in DOMAIN doc : Decodable(doc[e]),
         NEW A \in SUBSET Telling(doc), NEW s, Follows(Elements(doc), A, Len(doc), s)
  PROVE  /\ SaysTheLatest(doc, A, s)
         /\ s.primary = FirstCode(doc, A, "primary")
         /\ s.secondary = FirstCode(doc, A, "secondary")
<1> DEFINE els == Elements(doc)
           n == Len(doc)
<1>1. /\ n \in Nat /\ A \in SUBSET (1 .. n) /\ A \in SUBSET DOMAIN doc /\ A \cap (1 .. n) = A
      /\ DOMAIN els = 1 .. n
      /\ \A e \in A : doc[e] \in Seq(Items) /\ els[e] = Element(doc[e])
  BY ElementsType DEF Telling
<1>2. \A e \in A : Measures(doc[e]) # {} /\ Decodable(doc[e])
  BY DEF Telling
<1>3. ASSUME NEW e \in A
      PROVE  LET m == Measured(doc[e]) IN
             /\ els[e].entry.type = m.type /\ els[e].entry.time = m.time /\ m.time \in Codes
             /\ els[e].entry.value \in Codes
             /\ els[e].entry.value # NoText <=> ~(m.type = "TrafficStatus" /\ m.value = NoText)
             /\ els[e].entry.value # NoText =>
                  els[e].entry.value = IF m.value \in Int THEN m.value ELSE 0
  BY <1>1, <1>2, ValueIs
<1>4. /\ IsNewest(Timed(els, A), s.time)
      /\ \A type \in DataTypes : IsLastOf(Giving(els, A, type) \cap (1 .. n), ValuesOf(els), NoText, s[type])
      /\ IsFirstOf(WithPrimary(els, A) \cap (1 .. n), PrimariesOf(els), NoText, s.primary)
      /\ IsFirstOf(WithSecondary(els, A) \cap (1 .. n), SecondariesOf(els), NoText, s.secondary)
      /\ Len(s.entries) = Cardinality(A)
  BY <1>1 DEF Follows
<1> HIDE DEF els, n
<1>5. s.time = IF TimesOf(doc, A) = {} THEN NoText ELSE Max(TimesOf(doc, A))
  <2> DEFINE times == TimesOf(doc, A)
  <2>1. times = Timed(els, A)
    BY <1>3 DEF TimesOf, Timed
  <2>2. times \in SUBSET Int
    BY <1>3 DEF TimesOf, Codes
  <2>3. IsNewest(times, s.time)
    BY <1>4, <2>1
  <2> HIDE DEF times
  <2>4. CASE times = {}
    BY <2>3, <2>4 DEF IsNewest, times
  <2>5. CASE times # {}
    <3>1. s.time \in times /\ \A u \in times : u <= s.time
      BY <2>3, <2>5 DEF IsNewest
    <3>2. \A u \in times : s.time >= u
      BY <2>2, <3>1
    <3>3. Max(times) = s.time
      BY <2>2, <3>1, <3>2, MaxIs
    <3> QED  BY <2>5, <3>3 DEF times
  <2> QED  BY <2>4, <2>5
<1>6. ASSUME NEW type \in DataTypes
      PROVE  s[type] = LastValue(doc, A, type)
  <2> DEFINE S == Saying(doc, A, type)
  <2>1. S = Giving(els, A, type)
    BY <1>3 DEF Saying, Giving
  <2>2. S \in SUBSET A /\ S \in SUBSET (1 .. n) /\ S \cap (1 .. n) = S
    BY <1>1 DEF Saying
  <2>3. IsLastOf(S, ValuesOf(els), NoText, s[type])
    BY <1>4, <2>1, <2>2
  <2>4. \A e \in S : els[e].entry.value # NoText
    BY <2>1 DEF Giving
  <2> HIDE DEF S
  <2>5. CASE S = {}
    BY <2>3, <2>5 DEF LastValue, S, IsLastOf
  <2>6. CASE S # {}
    <3>1. PICK e \in S : (\A f \in S : f <= e) /\ s[type] = ValuesOf(els)[e]
      BY <2>3, <2>6 DEF IsLastOf
    <3>2. S \in SUBSET Int /\ \A f \in S : e >= f
      BY <1>1, <2>2, <3>1
    <3>3. Max(S) = e /\ e \in A
      BY <2>2, <3>2, MaxIs
    <3>4. s[type] = els[e].entry.value
      BY <1>1, <3>1, <3>3 DEF ValuesOf
    <3>5. s[type] = IF Measured(doc[e]).value \in Int THEN Measured(doc[e]).value ELSE 0
      BY <1>3, <2>4, <3>3, <3>4
    <3> QED  BY <2>6, <3>3, <3>5 DEF LastValue, S
  <2> QED  BY <2>5, <2>6
<1>7. s.primary = FirstCode(doc, A, "primary")
  <2> DEFINE codes == PrimariesOf(els)
             with == {e \in A : codes[e] # NoText}
  <2>1. \A e \in A : codes[e] = els[e].primary
    BY <1>1 DEF PrimariesOf
  <2>2. with = WithPrimary(els, A) \cap (1 .. n)
    BY <1>1, <2>1 DEF WithPrimary
  <2>3. IsFirstOf(with, codes, NoText, s.primary)
    BY <1>4, <2>2
  <2>4. \A e \in A : IsFirstOf(Coded(doc[e], "primary"), CodesOf(doc[e]), NoText, codes[e])
    BY <1>1, <2>1, ElementOf
  <2> HIDE DEF codes
  <2> QED  BY <1>1, <2>3, <2>4, FirstCodeIs
<1>8. s.secondary = FirstCode(doc, A, "secondary")
  <2> DEFINE codes == SecondariesOf(els)
             with == {e \in A : codes[e] # NoText}
  <2>1. \A e \in A : codes[e] = els[e].secondary
    BY <1>1 DEF SecondariesOf
  <2>2. with = WithSecondary(els, A) \cap (1 .. n)
    BY <1>1, <2>1 DEF WithSecondary
  <2>3. IsFirstOf(with, codes, NoText, s.secondary)
    BY <1>4, <2>2
  <2>4. \A e \in A : IsFirstOf(Coded(doc[e], "secondary"), CodesOf(doc[e]), NoText, codes[e])
    BY <1>1, <2>1, ElementOf
  <2> HIDE DEF codes
  <2> QED  BY <1>1, <2>3, <2>4, FirstCodeIs
<1> QED  BY <1>4, <1>5, <1>6, <1>7, <1>8 DEF SaysTheLatest

-----------------------------------------------------------------------------
(* NDIC: the snapshots of the elements read *)

Gathered(doc, k, table) ==
  /\ DOMAIN table = {Names(doc[e]) : e \in Telling(doc) \cap (1 .. k)}
  /\ \A id \in DOMAIN table : Follows(Elements(doc), ElementsAbout(doc, id), k, table[id])

LEMMA GatheredNothing == \A doc : Gathered(doc, 0, <<>>)
<1>1. DOMAIN <<>> = {} /\ \A S : S \cap (1 .. 0) = {}
  OBVIOUS
<1> QED  BY <1>1 DEF Gathered

LEMMA GatheredKept ==
  ASSUME NEW doc, NEW k \in Nat \ {0}, k \notin Telling(doc),
         NEW table, Gathered(doc, k - 1, table)
  PROVE  Gathered(doc, k, table)
<1>1. Telling(doc) \cap (1 .. k) = Telling(doc) \cap (1 .. k - 1)
  BY UpTo
<1>2. \A id : k \notin ElementsAbout(doc, id)
  BY DEF ElementsAbout
<1> QED  BY <1>1, <1>2, FollowsKept DEF Gathered

Added(table, el) ==
  [id \in DOMAIN table \cup {el.id} |->
     IF id = el.id THEN WithElement(IF id \in DOMAIN table THEN table[id] ELSE NoSnapshot, el)
                   ELSE table[id]]

LEMMA GatheredAdded ==
  ASSUME NEW doc \in Documents, NEW k \in Telling(doc), Decodable(doc[k]),
         NEW table, Gathered(doc, k - 1, table)
  PROVE  Gathered(doc, k, Added(table, Element(doc[k])))
<1> DEFINE els == Elements(doc)
           el == Element(doc[k])
           A(id) == ElementsAbout(doc, id)
           new == Added(table, el)
<1>1. k \in Nat \ {0} /\ k \in DOMAIN doc /\ doc[k] \in Seq(Items) /\ els[k] = el
  BY ElementsType DEF Telling
<1>2. el.id = Names(doc[k]) /\ Measures(doc[k]) # {}
  BY <1>1, ElementOf DEF Telling
<1>3. DOMAIN new = {Names(doc[e]) : e \in Telling(doc) \cap (1 .. k)}
  <2>1. Telling(doc) \cap (1 .. k) = (Telling(doc) \cap (1 .. k - 1)) \cup {k}
    BY <1>1, UpTo
  <2> QED  BY <1>2, <2>1 DEF Gathered, Added
<1>4. ASSUME NEW id \in DOMAIN new
      PROVE  Follows(els, A(id), k, new[id])
  <2>1. CASE id # el.id
    <3>1. id \in DOMAIN table /\ new[id] = table[id]
      BY <2>1 DEF Added
    <3>2. k \notin A(id)
      BY <1>2, <2>1 DEF ElementsAbout
    <3>3. Follows(els, A(id), k - 1, table[id])
      BY <3>1 DEF Gathered
    <3> QED  BY <1>1, <3>1, <3>2, <3>3, FollowsKept
  <2>2. CASE id = el.id
    <3> DEFINE s == IF id \in DOMAIN table THEN table[id] ELSE NoSnapshot
    <3>1. new[id] = WithElement(s, els[k])
      BY <1>1, <2>2 DEF Added
    <3>2. k \in A(id) /\ A(id) \in SUBSET DOMAIN els
      BY <1>1, <1>2, <2>2, ElementsType DEF ElementsAbout, Telling
    <3>3. Follows(els, A(id), k - 1, s)
      <4>1. CASE id \in DOMAIN table
        BY <4>1 DEF Gathered
      <4>2. CASE id \notin DOMAIN table
        <5>1. A(id) \cap (1 .. k - 1) = {}
          BY <4>2 DEF Gathered, ElementsAbout
        <5> QED  BY <4>2, <5>1, FollowsNothing
      <4> QED  BY <4>1, <4>2
    <3>4. \A e \in A(id) : els[e].entry \in Entries
      BY ElementsType, TellingIs DEF ElementsAbout, Telling
    <3>5. els[k].entry.value \in Codes
      BY <1>1, <1>2, ValueIs
    <3>6. els \in Seq(ElementRecords)
      BY ElementsType
    <3> HIDE DEF s, A, els, new
    <3> QED  BY <3>1, <3>2, <3>3, <3>4, <3>5, <3>6, FollowsAdded
  <2> QED  BY <2>1, <2>2
<1> QED  BY <1>3, <1>4 DEF Gathered

-----------------------------------------------------------------------------
(* NDIC: the metadata *)

LEMMA PointsAre ==
  ASSUME tmcRows \in TmcTables
  PROVE  /\ NoText \notin DOMAIN Points
         /\ \A code \in DOMAIN Points : Points[code] # NoText
<1> DEFINE n == Len(tmcRows)
           rows == {i \in DOMAIN tmcRows : tmcRows[i].lcd # NoText}
<1>1. tmcRows \in Seq([lcd : Codes, point : STRING]) /\ NoText \notin STRING
  BY NdicParserAssumption DEF NdicParserAssumption
<1>2. n \in Nat /\ DOMAIN tmcRows = 1 .. n /\ rows \in SUBSET (1 .. n)
  BY <1>1, LenProperties
<1>3. ASSUME NEW i \in 1 .. n PROVE tmcRows[i].point \in STRING
  <2>1. tmcRows[i] \in [lcd : Codes, point : STRING]
    BY <1>1, ElementOfSeq
  <2> QED  BY <2>1
<1>4. ASSUME NEW code \in DOMAIN Points
      PROVE  Points[code] # NoText
  <2> DEFINE mine == {i \in rows : tmcRows[i].lcd = code}
  <2>1. mine # {} /\ mine \in SUBSET (1 .. n)
    BY <1>2 DEF Points
  <2>2. Points[code] = tmcRows[Max(mine)].point
    BY DEF Points
  <2> HIDE DEF mine, rows
  <2>3. Max(mine) \in 1 .. n
    BY <1>2, <2>1, MaxOfPlaces
  <2> QED  BY <1>1, <1>3, <2>2, <2>3
<1>5. NoText \notin DOMAIN Points
  BY DEF Points
<1> QED  BY <1>4, <1>5

\* The point of the first code that the table has.
PointIn(codes) ==
  LET hits == {c \in DOMAIN codes : codes[c] \in DOMAIN Points}
  IN IF hits = {} THEN NoText ELSE Points[codes[Min(hits)]]

LEMMA PointOfTwo ==
  ASSUME tmcRows \in TmcTables, NEW p, NEW q
  PROVE  FirstText(Metadata(p), Metadata(q)) = PointIn(<<p, q>>)
<1> DEFINE codes == <<p, q>>
           hits == {c \in DOMAIN codes : codes[c] \in DOMAIN Points}
<1>1. DOMAIN codes = {1, 2} /\ codes[1] = p /\ codes[2] = q
  OBVIOUS
<1>2. \A code : /\ code \in DOMAIN Points => Metadata(code) = Points[code] /\ Metadata(code) # NoText
                /\ code \notin DOMAIN Points => Metadata(code) = NoText
  BY PointsAre DEF Metadata
<1>3. PointIn(codes) = IF hits = {} THEN NoText ELSE Points[codes[Min(hits)]]
  BY DEF PointIn
<1> HIDE DEF hits, codes
<1>4. CASE p \in DOMAIN Points
  <2>1. 1 \in hits /\ hits \in SUBSET Int /\ \A c \in hits : 1 <= c
    BY <1>1, <1>4 DEF hits
  <2>2. Min(hits) = 1
    BY <2>1, MinIs
  <2>3. FirstText(Metadata(p), Metadata(q)) = Points[p]
    BY <1>2, <1>4 DEF FirstText
  <2> QED  BY <1>1, <1>3, <2>1, <2>2, <2>3 DEF codes
<1>5. CASE p \notin DOMAIN Points /\ q \in DOMAIN Points
  <2>1. hits = {2}
    BY <1>1, <1>5 DEF hits
  <2>2. Min(hits) = 2
    BY <2>1, MinIs
  <2>3. FirstText(Metadata(p), Metadata(q)) = Points[q]
    BY <1>2, <1>5 DEF FirstText
  <2> QED  BY <1>1, <1>3, <2>1, <2>2, <2>3 DEF codes
<1>6. CASE p \notin DOMAIN Points /\ q \notin DOMAIN Points
  <2>1. hits = {}
    BY <1>1, <1>6 DEF hits
  <2>2. FirstText(Metadata(p), Metadata(q)) = NoText
    BY <1>2, <1>6 DEF FirstText
  <2> QED  BY <1>3, <2>1, <2>2 DEF codes
<1> QED  BY <1>4, <1>5, <1>6

LEMMA EnrichedIs ==
  ASSUME tmcRows \in TmcTables, NEW id \in Seq(Int), NEW s \in Snapshots
  PROVE  /\ s.primary # NoText => Enriched(id, s).primary = s.primary
         /\ s.secondary # NoText => Enriched(id, s).secondary = s.secondary
         /\ Enriched(id, s).time = s.time /\ Enriched(id, s).entries = s.entries
         /\ \A type \in DataTypes : Enriched(id, s)[type] = s[type]
         /\ Enriched(id, s).metadata = PointOf(id, s.primary, s.secondary)
<1> DEFINE coded == WithCodes(id, s)
           p == s.primary
           q == s.secondary
           given == <<p, q>>
           metadata == FirstText(Metadata(coded.primary), Metadata(coded.secondary))
           r == Enriched(id, s)
<1>1. r = [coded EXCEPT !.metadata = metadata]
  BY DEF Enriched
<1>2. /\ DOMAIN coded = DOMAIN s /\ coded.time = s.time /\ coded.entries = s.entries
      /\ coded.TrafficStatus = s.TrafficStatus /\ coded.TrafficSpeed = s.TrafficSpeed
      /\ coded.TravelTimeData = s.TravelTimeData
      /\ p # NoText \/ q # NoText => coded.primary = p /\ coded.secondary = q
      /\ p = NoText /\ q = NoText /\ Len(id) = 2 => coded.primary = id[1] /\ coded.secondary = id[2]
      /\ p = NoText /\ q = NoText /\ Len(id) # 2 => coded.primary = NoText /\ coded.secondary = NoText
  BY DEF WithCodes, Snapshots
<1>3. "metadata" \in DOMAIN coded
  BY <1>2 DEF Snapshots
<1> HIDE DEF coded, metadata
<1>4. /\ r.primary = coded.primary /\ r.secondary = coded.secondary /\ r.time = s.time
      /\ r.entries = s.entries /\ r.TrafficStatus = s.TrafficStatus
      /\ r.TrafficSpeed = s.TrafficSpeed /\ r.TravelTimeData = s.TravelTimeData
      /\ r.metadata = metadata
  BY <1>1, <1>2, <1>3
<1> HIDE DEF r
<1>5. given = <<NoText, NoText>> <=> p = NoText /\ q = NoText
  OBVIOUS
<1>6. CASE p # NoText \/ q # NoText
  <2>1. coded.primary = p /\ coded.secondary = q
    BY <1>2, <1>6
  <2>2. metadata = PointIn(given)
    BY <2>1, PointOfTwo DEF metadata
  <2>3. PointOf(id, p, q) = PointIn(given)
    BY <1>5, <1>6 DEF PointOf, PointIn
  <2> QED  BY <1>4, <2>1, <2>2, <2>3 DEF r, DataTypes
<1>7. CASE p = NoText /\ q = NoText /\ Len(id) = 2
  <2>1. coded.primary = id[1] /\ coded.secondary = id[2]
    BY <1>2, <1>7
  <2>2. id = <<id[1], id[2]>>
    BY <1>7
  <2>3. metadata = PointIn(id)
    BY <2>1, <2>2, PointOfTwo DEF metadata
  <2>4. PointOf(id, p, q) = PointIn(id)
    BY <1>5, <1>7 DEF PointOf, PointIn
  <2> QED  BY <1>4, <1>7, <2>3, <2>4 DEF r, DataTypes
<1>8. CASE p = NoText /\ q = NoText /\ Len(id) # 2
  <2>1. coded.primary = NoText /\ coded.secondary = NoText
    BY <1>2, <1>8
  <2>2. metadata = NoText
    BY <2>1, PointsAre DEF metadata, FirstText, Metadata
  <2>3. PointOf(id, p, q) = NoText
    <3>1. DOMAIN <<>> = {}
      OBVIOUS
    <3>2. {c \in DOMAIN <<>> : <<>>[c] \in DOMAIN Points} = {}
      BY <3>1
    <3> QED  BY <1>5, <1>8, <3>2 DEF PointOf
  <2> QED  BY <1>4, <1>8, <2>2, <2>3 DEF r, DataTypes
<1> QED  BY <1>6, <1>7, <1>8

-----------------------------------------------------------------------------
(* NDIC: the invariant *)

Fetched == ndicAnswer.status = 200 /\ (ndicAnswer.json => ndicAnswer.readable)

Described ==
  LET doc == ndicAnswer.elements
  IN /\ DOMAIN snapshots = {Names(doc[e]) : e \in Telling(doc)}
     /\ \A id \in DOMAIN snapshots :
          /\ SaysTheLatest(doc, ElementsAbout(doc, id), snapshots[id])
          /\ IsLocated(doc, ElementsAbout(doc, id), id, snapshots[id])

NdicInv ==
  LET doc == ndicAnswer.elements
  IN /\ tmcRows \in TmcTables /\ ndicAnswer \in NdicAnswers
     /\ readElements \in 0 .. Len(doc)
     /\ ndicPhase \in {"fetch", "parse", "enrich", "done", "failed"}
     /\ ndicPhase = "fetch" => readElements = 0 /\ snapshots = <<>>
     /\ ndicPhase \in {"parse", "enrich", "done"} =>
          Fetched /\ \A e \in 1 .. readElements : Decodable(doc[e])
     /\ ndicPhase \in {"parse", "enrich"} => Gathered(doc, readElements, snapshots)
     /\ ndicPhase \in {"enrich", "done"} => readElements = Len(doc) /\ ndicAnswer.ends # "open"
     /\ ndicPhase = "failed" => ~Sound
     /\ ndicPhase = "done" => Described

LEMMA AnswerIs ==
  ASSUME NEW answer \in NdicAnswers
  PROVE  answer.elements \in Documents /\ answer.ends \in {"whole", "blank", "open"}
BY NdicParserAssumption DEF NdicParserAssumption, Documents

LEMMA NdicInitInv == NdicInit => NdicInv
<1> SUFFICES ASSUME NdicInit PROVE NdicInv
  OBVIOUS
<1>1. ndicAnswer \in NdicAnswers /\ ndicAnswer.elements \in Documents
  BY AnswerIs DEF NdicInit
<1>2. Len(ndicAnswer.elements) \in Nat
  BY <1>1, ElementsType
<1> QED  BY <1>1, <1>2 DEF NdicInit, NdicInv

LEMMA FetchInv == NdicInv /\ FetchNdic => NdicInv'
<1> SUFFICES ASSUME NdicInv, FetchNdic PROVE NdicInv'
  OBVIOUS
<1> DEFINE doc == ndicAnswer.elements
<1>1. /\ tmcRows \in TmcTables /\ ndicAnswer \in NdicAnswers /\ readElements = 0
      /\ readElements \in 0 .. Len(doc) /\ snapshots = <<>>
  BY DEF NdicInv, FetchNdic
<1>2. /\ tmcRows' = tmcRows /\ ndicAnswer' = ndicAnswer /\ readElements' = readElements
      /\ snapshots' = snapshots /\ ndicPhase' = IF Fetched THEN "parse" ELSE "failed"
  BY DEF FetchNdic, Fetched
<1>3. CASE Fetched
  <2>1. ndicPhase' = "parse" /\ Fetched'
    BY <1>2, <1>3 DEF Fetched
  <2>2. Gathered(doc, readElements, snapshots)
    BY <1>1, GatheredNothing
  <2>3. \A e \in 1 .. readElements : Decodable(doc[e])
    BY <1>1
  <2> HIDE DEF Fetched
  <2> QED  BY <1>1, <1>2, <2>1, <2>2, <2>3 DEF NdicInv
<1>4. CASE ~Fetched
  <2>1. ndicPhase' = "failed" /\ ~Sound'
    BY <1>2, <1>4 DEF Fetched, Sound
  <2> QED  BY <1>1, <1>2, <2>1 DEF NdicInv
<1> QED  BY <1>3, <1>4

LEMMA ReadInv == NdicInv /\ ReadElement => NdicInv'
<1> SUFFICES ASSUME NdicInv, ReadElement PROVE NdicInv'
  OBVIOUS
<1> DEFINE doc == ndicAnswer.elements
           k == readElements + 1
           el == Element(doc[k])
<1>1. /\ tmcRows \in TmcTables /\ ndicAnswer \in NdicAnswers /\ doc \in Documents
      /\ readElements \in 0 .. Len(doc) /\ ndicPhase = "parse" /\ Fetched
      /\ \A e \in 1 .. readElements : Decodable(doc[e])
      /\ Gathered(doc, readElements, snapshots)
  BY AnswerIs DEF NdicInv, ReadElement
<1>2. readElements < Len(doc) /\ tmcRows' = tmcRows /\ ndicAnswer' = ndicAnswer
  BY DEF ReadElement
<1>3. /\ Len(doc) \in Nat /\ k \in Nat \ {0} /\ k \in 1 .. Len(doc) /\ k \in DOMAIN doc
      /\ k - 1 = readElements /\ doc[k] \in Seq(Items)
  <2>1. Len(doc) \in Nat /\ DOMAIN doc = 1 .. Len(doc) /\ \A e \in DOMAIN doc : doc[e] \in Seq(Items)
    BY <1>1, ElementsType
  <2> HIDE DEF doc
  <2> QED  BY <1>1, <1>2, <2>1
<1>4. CASE ~Decodable(doc[k])
  <2>1. ndicPhase' = "failed" /\ readElements' = readElements /\ snapshots' = snapshots
    BY <1>4 DEF ReadElement, Decodable
  <2>2. ~Sound'
    BY <1>2, <1>3, <1>4 DEF Sound, Decodable
  <2> QED  BY <1>1, <1>2, <2>1, <2>2 DEF NdicInv
<1>5. CASE Decodable(doc[k])
  <2>1. /\ readElements' = k /\ ndicPhase' = "parse"
        /\ snapshots' = IF el.id = <<>> \/ el.entry = NoEntry THEN snapshots
                        ELSE Added(snapshots, el)
    BY <1>1, <1>5 DEF ReadElement, Decodable, Added, SnapshotOf
  <2>2. k \in Telling(doc) <=> ~(el.id = <<>> \/ el.entry = NoEntry)
    BY <1>3, ElementOf, TellingIs DEF Telling
  <2>3. Gathered(doc, k, snapshots')
    <3>1. Gathered(doc, k - 1, snapshots)
      BY <1>1, <1>3
    <3>2. CASE k \in Telling(doc)
      BY <1>1, <1>5, <2>1, <2>2, <3>1, <3>2, GatheredAdded
    <3>3. CASE k \notin Telling(doc)
      BY <1>3, <2>1, <2>2, <3>1, <3>3, GatheredKept
    <3> QED  BY <3>2, <3>3
  <2>4. \A e \in 1 .. k : Decodable(doc[e])
    <3>1. \A e \in 1 .. k : e = k \/ e \in 1 .. readElements
      BY <1>3
    <3> QED  BY <1>1, <1>5, <3>1
  <2>5. Fetched'
    BY <1>1, <1>2 DEF Fetched
  <2>6. k \in 0 .. Len(doc)
    BY <1>3
  <2> HIDE DEF k, el, Fetched
  <2> QED  BY <1>1, <1>2, <2>1, <2>3, <2>4, <2>5, <2>6 DEF NdicInv
<1> QED  BY <1>4, <1>5

LEMMA EndInv == NdicInv /\ EndDocument => NdicInv'
<1> SUFFICES ASSUME NdicInv, EndDocument PROVE NdicInv'
  OBVIOUS
<1> DEFINE doc == ndicAnswer.elements
<1>1. /\ tmcRows \in TmcTables /\ ndicAnswer \in NdicAnswers /\ ndicAnswer.ends \in {"whole", "blank", "open"}
      /\ readElements \in 0 .. Len(doc) /\ ndicPhase = "parse" /\ Fetched
      /\ \A e \in 1 .. readElements : Decodable(doc[e])
      /\ Gathered(doc, readElements, snapshots)
  BY AnswerIs DEF NdicInv, EndDocument
<1>2. /\ readElements = Len(doc) /\ tmcRows' = tmcRows /\ ndicAnswer' = ndicAnswer
      /\ readElements' = readElements /\ snapshots' = snapshots
      /\ ndicPhase' = IF ndicAnswer.ends = "open" THEN "failed" ELSE "enrich"
  BY DEF EndDocument
<1>3. CASE ndicAnswer.ends = "open"
  <2>1. ndicPhase' = "failed" /\ ~Sound'
    BY <1>2, <1>3 DEF Sound
  <2> QED  BY <1>1, <1>2, <2>1 DEF NdicInv
<1>4. CASE ndicAnswer.ends # "open"
  <2>1. ndicPhase' = "enrich" /\ Fetched'
    BY <1>1, <1>2, <1>4 DEF Fetched
  <2> HIDE DEF Fetched
  <2> QED  BY <1>1, <1>2, <1>4, <2>1 DEF NdicInv
<1> QED  BY <1>1, <1>3, <1>4

\* The snapshots with their metadata.
LEMMA EnrichDescribes ==
  ASSUME tmcRows \in TmcTables, NEW doc \in Documents, \A e \in DOMAIN doc : Decodable(doc[e]),
         NEW table, Gathered(doc, Len(doc), table), NEW id \in DOMAIN table
  PROVE  LET A == ElementsAbout(doc, id)
             s == IF Points = <<>> THEN table[id] ELSE Enriched(id, table[id])
         IN SaysTheLatest(doc, A, s) /\ IsLocated(doc, A, id, s)
<1> DEFINE A == ElementsAbout(doc, id)
           s == table[id]
           r == IF Points = <<>> THEN s ELSE Enriched(id, s)
           p == FirstCode(doc, A, "primary")
           q == FirstCode(doc, A, "secondary")
<1>1. Follows(Elements(doc), A, Len(doc), s)
  BY DEF Gathered
<1>2. A \in SUBSET Telling(doc)
  BY DEF ElementsAbout
<1>3. s \in Snapshots
  BY <1>1 DEF Follows
<1> HIDE DEF A, s
<1>4. SaysTheLatest(doc, A, s) /\ s.primary = p /\ s.secondary = q
  BY <1>1, <1>2, FollowsSays
<1>5. id \in Seq(Int)
  <2>1. PICK e \in Telling(doc) : id = Names(doc[e])
    BY DEF Gathered
  <2>2. doc[e] \in Seq(Items)
    BY ElementsType DEF Telling
  <2>3. Element(doc[e]).id = id /\ Element(doc[e]) \in ElementRecords
    BY <2>1, <2>2, ElementOf
  <2> QED  BY <2>3 DEF ElementRecords
<1> HIDE DEF p, q
<1>6. /\ p # NoText => r.primary = p
      /\ q # NoText => r.secondary = q
      /\ r.time = s.time /\ r.entries = s.entries
      /\ \A type \in DataTypes : r[type] = s[type]
      /\ r.metadata = IF Points = <<>> THEN NoText ELSE PointOf(id, p, q)
  <2>1. CASE Points = <<>>
    BY <1>3, <1>4, <2>1 DEF Snapshots
  <2>2. CASE Points # <<>>
    BY <1>3, <1>4, <1>5, <2>2, EnrichedIs
  <2> QED  BY <2>1, <2>2
<1> HIDE DEF r
<1>7. SaysTheLatest(doc, A, r)
  BY <1>4, <1>6 DEF SaysTheLatest
<1>8. IsLocated(doc, A, id, r)
  <2> DEFINE first == [context \in {"primary", "secondary"} |-> FirstCode(doc, A, context)]
  <2>1. first["primary"] = p /\ first["secondary"] = q /\ DOMAIN first = {"primary", "secondary"}
    BY DEF p, q
  <2>2. \A context \in DOMAIN first : first[context] # NoText => r[context] = first[context]
    BY <1>6, <2>1
  <2>3. r.metadata = IF Points = <<>> THEN NoText ELSE PointOf(id, first["primary"], first["secondary"])
    BY <1>6, <2>1
  <2> QED  BY <2>2, <2>3 DEF IsLocated
<1> QED  BY <1>7, <1>8 DEF A, r, s

LEMMA EnrichInv == NdicInv /\ EnrichFetch => NdicInv'
<1> SUFFICES ASSUME NdicInv, EnrichFetch PROVE NdicInv'
  OBVIOUS
<1> DEFINE doc == ndicAnswer.elements
<1>1. /\ tmcRows \in TmcTables /\ ndicAnswer \in NdicAnswers /\ doc \in Documents
      /\ readElements = Len(doc) /\ readElements \in 0 .. Len(doc) /\ Fetched /\ ndicAnswer.ends # "open"
      /\ \A e \in 1 .. readElements : Decodable(doc[e])
      /\ Gathered(doc, readElements, snapshots)
  BY AnswerIs DEF NdicInv, EnrichFetch
<1>2. /\ tmcRows' = tmcRows /\ ndicAnswer' = ndicAnswer /\ readElements' = readElements
      /\ ndicPhase' = "done"
      /\ snapshots' = IF Points = <<>> THEN snapshots
                      ELSE [id \in DOMAIN snapshots |-> Enriched(id, snapshots[id])]
  BY DEF EnrichFetch
<1>3. \A e \in DOMAIN doc : Decodable(doc[e])
  BY <1>1, ElementsType
<1>4. DOMAIN snapshots' = DOMAIN snapshots
  BY <1>2
<1>5. DOMAIN snapshots = {Names(doc[e]) : e \in Telling(doc)}
  <2>1. Telling(doc) \cap (1 .. Len(doc)) = Telling(doc)
    BY <1>1, ElementsType DEF Telling
  <2> QED  BY <1>1, <2>1 DEF Gathered
<1>6. ASSUME NEW id \in DOMAIN snapshots
      PROVE  /\ SaysTheLatest(doc, ElementsAbout(doc, id), snapshots'[id])
             /\ IsLocated(doc, ElementsAbout(doc, id), id, snapshots'[id])
  <2>1. snapshots'[id] = IF Points = <<>> THEN snapshots[id] ELSE Enriched(id, snapshots[id])
    BY <1>2
  <2> QED  BY <1>1, <1>3, <2>1, EnrichDescribes
<1>7. Points' = Points
  BY <1>2 DEF Points
<1>8. ASSUME NEW d, NEW A, NEW id, NEW s, IsLocated(d, A, id, s)
      PROVE  IsLocated(d, A, id, s)'
  BY <1>7, <1>8 DEF IsLocated, PointOf
<1>9. Described'
  BY <1>2, <1>4, <1>5, <1>6, <1>8 DEF Described
<1>10. Fetched'
  BY <1>1, <1>2 DEF Fetched
<1> HIDE DEF Fetched
<1> QED  BY <1>1, <1>2, <1>9, <1>10 DEF NdicInv

LEMMA NdicInvSays == NdicInv => SnapshotsMatchDocument
<1> SUFFICES ASSUME NdicInv PROVE SnapshotsMatchDocument
  OBVIOUS
<1> DEFINE doc == ndicAnswer.elements
<1>1. ndicPhase = "done" => Sound
  <2> SUFFICES ASSUME ndicPhase = "done" PROVE Sound
    OBVIOUS
  <2>1. DOMAIN doc = 1 .. Len(doc) /\ readElements = Len(doc)
    BY AnswerIs, ElementsType DEF NdicInv
  <2>2. \A e \in DOMAIN doc : Decodable(doc[e])
    BY <2>1 DEF NdicInv
  <2> QED  BY <2>2 DEF NdicInv, Sound, Fetched, Decodable
<1> QED  BY <1>1 DEF NdicInv, Described, SnapshotsMatchDocument

\* Whatever the downloader answers and whatever the table of points says, the
\* snapshots of a fetch that succeeds are those of the document, none when the
\* answer ends before one begins, and a fetch fails exactly for a status, a
\* wrapper or a value it cannot take, or a document that breaks off within an
\* element (fetchNDIC, parseNDICXML, enrichFetch).
THEOREM SnapshotsCorrect == NdicSpec => []SnapshotsMatchDocument
<1>1. NdicInv /\ [NdicNext]_ndicVars => NdicInv'
  <2> SUFFICES ASSUME NdicInv, [NdicNext]_ndicVars PROVE NdicInv'
    OBVIOUS
  <2>1. CASE UNCHANGED ndicVars
    <3>1. /\ tmcRows' = tmcRows /\ ndicAnswer' = ndicAnswer /\ readElements' = readElements
          /\ snapshots' = snapshots /\ ndicPhase' = ndicPhase
      BY <2>1 DEF ndicVars
    <3>2. Points' = Points
      BY <3>1 DEF Points
    <3>3. ASSUME NEW doc, NEW A, NEW id, NEW s, IsLocated(doc, A, id, s)
          PROVE  IsLocated(doc, A, id, s)'
      BY <3>2, <3>3 DEF IsLocated, PointOf
    <3>4. Described => Described'
      BY <3>1, <3>3 DEF Described
    <3>5. (Fetched => Fetched') /\ (~Sound => ~Sound')
      BY <3>1 DEF Fetched, Sound
    <3> HIDE DEF Fetched, Sound, Described
    <3> QED  BY <3>1, <3>4, <3>5 DEF NdicInv
  <2> QED  BY <2>1, FetchInv, ReadInv, EndInv, EnrichInv DEF NdicNext
<1> QED  BY <1>1, NdicInitInv, NdicInvSays, PTL DEF NdicSpec

-----------------------------------------------------------------------------
(* Waze: sequences that keep an order *)

IsInsertion(r, s, k, e) ==
  /\ Len(r) = Len(s) + 1
  /\ \A i \in 1 .. Len(s) + 1 : r[i] = IF i < k THEN s[i] ELSE IF i = k THEN e ELSE s[i - 1]

LEMMA Inserted ==
  ASSUME NEW S, NEW s \in Seq(S), NEW e \in S, NEW k \in 1 .. Len(s) + 1
  PROVE  InsertAt(s, k, e) \in Seq(S) /\ IsInsertion(InsertAt(s, k, e), s, k, e)
<1> DEFINE L == Len(s)
           a == SubSeq(s, 1, k - 1)
           b == <<e>>
           c == SubSeq(s, k, L)
<1>1. L \in Nat /\ k \in Int
  BY LenProperties
<1>2. a \in Seq(S) /\ Len(a) = k - 1 /\ \A i \in 1 .. k - 1 : a[i] = s[i]
  <2>1. \A i \in 1 .. k - 1 : s[i] \in S
    BY <1>1, ElementOfSeq
  <2> QED  BY <1>1, <2>1, SubSeqProperties
<1>3. b \in Seq(S) /\ Len(b) = 1 /\ b[1] = e
  OBVIOUS
<1>4. c \in Seq(S) /\ Len(c) = L - k + 1 /\ \A i \in 1 .. L - k + 1 : c[i] = s[k + i - 1]
  <2>1. \A i \in k .. L : s[i] \in S
    BY <1>1, ElementOfSeq
  <2> QED  BY <1>1, <2>1, SubSeqProperties
<1>5. InsertAt(s, k, e) = (a \o b) \o c
  BY DEF InsertAt
<1> HIDE DEF a, b, c, L
<1> DEFINE ab == a \o b
<1>6. /\ ab \in Seq(S) /\ Len(ab) = k
      /\ \A i \in 1 .. k : ab[i] = IF i <= k - 1 THEN a[i] ELSE b[i - (k - 1)]
  <2>1. ab \in Seq(S) /\ Len(ab) = Len(a) + Len(b)
    BY <1>2, <1>3, ConcatProperties
  <2>2. \A i \in 1 .. Len(a) + Len(b) :
          ab[i] = IF i <= Len(a) THEN a[i] ELSE b[i - Len(a)]
    BY <1>2, <1>3, ConcatProperties
  <2>3. Len(a) + Len(b) = k
    BY <1>1, <1>2, <1>3
  <2> QED  BY <1>2, <2>1, <2>2, <2>3
<1> HIDE DEF ab
<1> DEFINE r == ab \o c
<1>7. /\ r \in Seq(S) /\ Len(r) = L + 1
      /\ \A i \in 1 .. L + 1 : r[i] = IF i <= k THEN ab[i] ELSE c[i - k]
  <2>1. r \in Seq(S) /\ Len(r) = Len(ab) + Len(c)
    BY <1>4, <1>6, ConcatProperties
  <2>2. \A i \in 1 .. Len(ab) + Len(c) :
          r[i] = IF i <= Len(ab) THEN ab[i] ELSE c[i - Len(ab)]
    BY <1>4, <1>6, ConcatProperties
  <2>3. Len(ab) + Len(c) = L + 1
    BY <1>1, <1>4, <1>6
  <2> QED  BY <1>6, <2>1, <2>2, <2>3
<1> HIDE DEF r
<1>8. ASSUME NEW i \in 1 .. L + 1
      PROVE  r[i] = IF i < k THEN s[i] ELSE IF i = k THEN e ELSE s[i - 1]
  <2>1. CASE i < k
    <3>1. i \in 1 .. k - 1 /\ i \in 1 .. k /\ i <= k /\ i <= k - 1
      BY <1>1, <2>1
    <3> QED  BY <1>2, <1>6, <1>7, <2>1, <3>1
  <2>2. CASE i = k
    <3>1. i \in 1 .. k /\ i <= k /\ ~(i <= k - 1) /\ i - (k - 1) = 1
      BY <1>1, <2>2
    <3> QED  BY <1>3, <1>6, <1>7, <2>2, <3>1
  <2>3. CASE i > k
    <3>1. i - k \in 1 .. L - k + 1 /\ ~(i <= k) /\ k + (i - k) - 1 = i - 1 /\ ~(i < k) /\ i # k
      BY <1>1, <2>3
    <3> QED  BY <1>4, <1>7, <3>1
  <2> QED  BY <1>1, <2>1, <2>2, <2>3
<1>9. InsertAt(s, k, e) = r
  BY <1>5 DEF r, ab
<1> QED  BY <1>7, <1>8, <1>9 DEF L, IsInsertion

\* A key has a place in a list of any length.
LEMMA RankBounds ==
  ASSUME NEW key, NEW keys, NEW L \in Nat, DOMAIN keys = 1 .. L
  PROVE  /\ Rank(key, keys) \in 1 .. L + 1
         /\ IsFiniteSet({i \in DOMAIN keys : ~LexLess(key, keys[i])})
<1> DEFINE B == {i \in DOMAIN keys : ~LexLess(key, keys[i])}
<1>1. IsFiniteSet(1 .. L) /\ Cardinality(1 .. L) = L
  BY FS_Interval
<1>2. IsFiniteSet(B) /\ Cardinality(B) <= L
  BY <1>1, FS_Subset
<1>3. Cardinality(B) \in Nat
  BY <1>2, FS_CardinalityType
<1> QED  BY <1>2, <1>3 DEF Rank

-----------------------------------------------------------------------------
(* Waze: the segments of a jam *)

LEMMA WithSegmentType ==
  ASSUME NEW s \in Seq(RoadSegments), NEW g \in RoadSegments
  PROVE  WithSegment(s, g) \in Seq(RoadSegments)
<1> DEFINE keys == [i \in DOMAIN s |-> SegmentKey(s[i])]
           rank == Rank(SegmentKey(g), keys)
<1>1. Len(s) \in Nat /\ DOMAIN keys = 1 .. Len(s)
  BY LenProperties
<1> HIDE DEF keys
<1>2. rank \in 1 .. Len(s) + 1
  BY <1>1, RankBounds
<1> HIDE DEF rank
<1>3. InsertAt(s, rank, g) \in Seq(RoadSegments)
  BY <1>2, Inserted
<1> QED  BY <1>3 DEF WithSegment, rank, keys

SegmentsUpto(list, f) ==
  f = [t \in SUBSET DOMAIN list |->
         IF t = {} THEN <<>> ELSE WithSegment(f[t \ {Max(t)}], list[Max(t)])]

LEMMA SegmentsAre ==
  ASSUME NEW jam \in Jams
  PROVE  \E h : /\ h[0] = <<>> /\ Segments(jam) = h[Len(jam.segments)]
               /\ \A k \in 1 .. Len(jam.segments) : h[k] = WithSegment(h[k - 1], jam.segments[k])
<1> DEFINE list == jam.segments
           n == Len(list)
           T == Seq(RoadSegments)
           step == [x \in T |-> [i \in 1 .. n |-> WithSegment(x, list[i])]]
<1>1. list \in T /\ n \in Nat /\ DOMAIN list = 1 .. n /\ <<>> \in T
  BY LenProperties, EmptySeq DEF Jams
<1> HIDE DEF list, n
<1>2. IsStep(step, 1 .. n, T)
  BY <1>1, WithSegmentType, ElementOfSeq DEF n, IsStep
<1>3. \A x \in T : \A i \in 1 .. n : step[x][i] = WithSegment(x, list[i])
  OBVIOUS
<1> HIDE DEF T, step
<1>4. PICK f \in [SUBSET (1 .. n) -> T] : IsListFold(f, n, <<>>, step)
  BY <1>1, <1>2, ListFoldExists
<1>5. SegmentsUpto(list, f)
  <2>1. ASSUME NEW t \in SUBSET (1 .. n)
        PROVE  f[t] = IF t = {} THEN <<>> ELSE WithSegment(f[t \ {Max(t)}], list[Max(t)])
    <3>1. t # {} => Max(t) \in 1 .. n
      BY <1>1, MaxOfPlaces
    <3>2. t # {} => f[t \ {Max(t)}] \in T
      BY <1>4
    <3> QED  BY <1>3, <1>4, <3>1, <3>2 DEF IsListFold
  <2> QED  BY <1>1, <1>4, <2>1 DEF SegmentsUpto
<1> DEFINE g == CHOOSE x : SegmentsUpto(list, x)
<1>6. SegmentsUpto(list, g)
  BY <1>5
<1>7. Segments(jam) = g[DOMAIN list]
  BY DEF Segments, FoldLeft, MapThenFoldSet, SegmentsUpto, list
<1> HIDE DEF g
<1> DEFINE h == [k \in 0 .. n |-> g[1 .. k]]
<1>8. h[0] = <<>> /\ Segments(jam) = h[n]
  BY <1>1, <1>6, <1>7 DEF SegmentsUpto
<1>9. ASSUME NEW k \in 1 .. n PROVE h[k] = WithSegment(h[k - 1], list[k])
  <2>1. 1 .. k \in SUBSET DOMAIN list /\ 1 .. k # {}
    <3>1. k \in 1 .. k /\ \A i \in 1 .. k : i \in 1 .. n
      BY <1>1
    <3> QED  BY <1>1, <3>1
  <2>2. Max(1 .. k) = k /\ (1 .. k) \ {k} = 1 .. k - 1
    BY MaxOfInterval
  <2>3. g[1 .. k] = WithSegment(g[1 .. k - 1], list[k])
    BY <1>6, <2>1, <2>2 DEF SegmentsUpto
  <2>4. k \in 0 .. n /\ k - 1 \in 0 .. n
    BY <1>1
  <2> QED  BY <2>3, <2>4
<1> QED  BY <1>8, <1>9 DEF list, n

LEMMA SegmentsType ==
  ASSUME NEW jam \in Jams
  PROVE  Segments(jam) \in Seq(RoadSegments)
<1>1. PICK h : /\ h[0] = <<>> /\ Segments(jam) = h[Len(jam.segments)]
               /\ \A k \in 1 .. Len(jam.segments) : h[k] = WithSegment(h[k - 1], jam.segments[k])
  BY SegmentsAre
<1> DEFINE T == {k \in Nat : h[k] \in Seq(RoadSegments)}
           n == Len(jam.segments)
<1>2. jam.segments \in Seq(RoadSegments) /\ n \in Nat
  BY LenProperties DEF Jams
<1>3. 0 \in T
  BY <1>1, EmptySeq
<1>4. ASSUME NEW k \in 1 .. n, k - 1 \in T PROVE k \in T
  <2>1. jam.segments[k] \in RoadSegments
    BY <1>2, ElementOfSeq
  <2> QED  BY <1>1, <1>4, <2>1, WithSegmentType
<1> HIDE DEF T, n
<1>5. n \in T
  BY <1>2, <1>3, <1>4, UptoInduction
<1> QED  BY <1>1, <1>5 DEF T, n

-----------------------------------------------------------------------------
(* Waze: sums *)

LengthAt(at) == Number(at[1].length)

Sums(S, f) ==
  f = [t \in SUBSET S |->
         IF t = {} THEN 0
         ELSE LengthAt(CHOOSE x \in t : TRUE) + f[t \ {CHOOSE x \in t : TRUE}]]

WholeSums(S, f) ==
  /\ Sums(S, f)
  /\ \A x \in S : LengthAt(x) \in Int
  /\ \A t \in SUBSET S : f[t] \in Int

AnyOrder(S, f) == \A t \in SUBSET S : \A x \in t : f[t] = LengthAt(x) + f[t \ {x}]

LEMMA SmallerSet ==
  ASSUME NEW S, IsFiniteSet(S), NEW t \in SUBSET S, NEW x \in t
  PROVE  /\ IsFiniteSet(t) /\ Cardinality(t) \in Nat \ {0}
         /\ t \ {x} \in SUBSET S /\ Cardinality(t \ {x}) = Cardinality(t) - 1
<1>1. IsFiniteSet(t)
  BY FS_Subset
<1>2. Cardinality(t) \in Nat /\ Cardinality(t) # 0
  BY <1>1, FS_CardinalityType, FS_EmptySet
<1>3. Cardinality(t \ {x}) = Cardinality(t) - 1
  BY <1>1, FS_RemoveElement
<1> QED  BY <1>1, <1>2, <1>3

LEMMA SumsExist ==
  ASSUME NEW S, IsFiniteSet(S), \A x \in S : LengthAt(x) \in Int
  PROVE  \E f : WholeSums(S, f)
<1> DEFINE step == [x \in Int |-> [s \in S |-> LengthAt(s) + x]]
           choice == [t \in SUBSET S |-> CHOOSE x \in t : TRUE]
<1>1. IsStep(step, S, Int) /\ IsChoice(choice, S)
  BY DEF IsStep, IsChoice
<1>2. /\ \A x \in Int : \A s \in S : step[x][s] = LengthAt(s) + x
      /\ \A t \in SUBSET S : choice[t] = CHOOSE x \in t : TRUE
  OBVIOUS
<1> HIDE DEF step, choice
<1> DEFINE T == Int
<1>0. 0 \in T /\ IsStep(step, S, T)
  BY <1>1
<1> HIDE DEF T
<1>3. PICK f \in [SUBSET S -> T] : IsFold(f, S, 0, step, choice)
  BY <1>0, <1>1, FoldExists
<1> USE DEF T
<1>4. ASSUME NEW t \in SUBSET S
      PROVE  f[t] = IF t = {} THEN 0
                    ELSE LengthAt(CHOOSE x \in t : TRUE) + f[t \ {CHOOSE x \in t : TRUE}]
  <2> DEFINE c == CHOOSE x \in t : TRUE
  <2>1. t # {} => c \in S /\ f[t \ {c}] \in Int /\ c = choice[t]
    BY <1>2, <1>3
  <2> HIDE DEF c
  <2>2. f[t] = IF t = {} THEN 0 ELSE LengthAt(c) + f[t \ {c}]
    BY <1>2, <1>3, <2>1 DEF IsFold
  <2> QED  BY <2>2 DEF c
<1>5. Sums(S, f)
  BY <1>3, <1>4 DEF Sums
<1> QED  BY <1>3, <1>5 DEF WholeSums

\* Whatever order the sum takes, ...
LEMMA SumsUnique ==
  ASSUME NEW S, IsFiniteSet(S), NEW f, NEW g, Sums(S, f), Sums(S, g)
  PROVE  \A t \in SUBSET S : f[t] = g[t]
<1> DEFINE T == {n \in Nat : \A t \in SUBSET S : Cardinality(t) = n => f[t] = g[t]}
<1>1. 0 \in T
  <2> SUFFICES ASSUME NEW t \in SUBSET S, Cardinality(t) = 0 PROVE f[t] = g[t]
    OBVIOUS
  <2>1. t = {}
    BY FS_Subset, FS_EmptySet
  <2> QED  BY <2>1 DEF Sums
<1>2. ASSUME NEW n \in T PROVE n + 1 \in T
  <2> SUFFICES ASSUME NEW t \in SUBSET S, Cardinality(t) = n + 1 PROVE f[t] = g[t]
    OBVIOUS
  <2> DEFINE c == CHOOSE x \in t : TRUE
  <2>1. n \in Nat /\ t # {}
    BY FS_EmptySet
  <2>2. c \in t
    BY <2>1
  <2>3. f[t] = LengthAt(c) + f[t \ {c}] /\ g[t] = LengthAt(c) + g[t \ {c}]
    BY <2>1 DEF Sums
  <2> HIDE DEF c
  <2>4. t \ {c} \in SUBSET S /\ Cardinality(t \ {c}) = n
    BY <2>1, <2>2, SmallerSet
  <2>5. f[t \ {c}] = g[t \ {c}]
    BY <2>4
  <2> QED  BY <2>3, <2>5
<1>3. T \in SUBSET Nat
  OBVIOUS
<1> HIDE DEF T
<1>4. T = Nat
  BY <1>1, <1>2, <1>3, NatSetInduction
<1>5. \A t \in SUBSET S : Cardinality(t) \in Nat
  BY FS_Subset, FS_CardinalityType
<1> QED  BY <1>4, <1>5 DEF T

\* ... any element may be taken off first.
LEMMA SumsAnyOrder ==
  ASSUME NEW S, IsFiniteSet(S), NEW f, WholeSums(S, f)
  PROVE  AnyOrder(S, f)
<1> DEFINE AnyLast(t) == \A x \in t : f[t] = LengthAt(x) + f[t \ {x}]
           T == {n \in Nat : \A t \in SUBSET S : Cardinality(t) = n => AnyLast(t)}
<1>1. 0 \in T
  <2>1. \A t \in SUBSET S : Cardinality(t) = 0 => t = {}
    BY FS_Subset, FS_EmptySet
  <2> QED  BY <2>1
<1>2. ASSUME NEW n \in T PROVE n + 1 \in T
  <2> SUFFICES ASSUME NEW t \in SUBSET S, Cardinality(t) = n + 1, NEW x \in t
               PROVE  f[t] = LengthAt(x) + f[t \ {x}]
    OBVIOUS
  <2> DEFINE c == CHOOSE y \in t : TRUE
  <2>1. n \in Nat /\ c \in t
    OBVIOUS
  <2>2. f[t] = LengthAt(c) + f[t \ {c}]
    BY DEF Sums, WholeSums
  <2> HIDE DEF c
  <2>3. CASE c = x
    BY <2>2, <2>3
  <2>4. CASE c # x
    <3>1. /\ t \ {c} \in SUBSET S /\ Cardinality(t \ {c}) = n /\ x \in t \ {c}
          /\ t \ {x} \in SUBSET S /\ Cardinality(t \ {x}) = n /\ c \in t \ {x}
      BY <2>1, <2>4, SmallerSet
    <3>2. AnyLast(t \ {c}) /\ AnyLast(t \ {x})
      BY <3>1
    <3> DEFINE r == (t \ {c}) \ {x}
    <3>3. (t \ {x}) \ {c} = r /\ r \in SUBSET S
      OBVIOUS
    <3>4. f[t \ {c}] = LengthAt(x) + f[r] /\ f[t \ {x}] = LengthAt(c) + f[r]
      BY <3>1, <3>2, <3>3
    <3>5. LengthAt(x) \in Int /\ LengthAt(c) \in Int /\ f[r] \in Int
      BY <2>1, <3>3 DEF WholeSums
    <3> HIDE DEF r
    <3> QED  BY <2>2, <3>4, <3>5
  <2> QED  BY <2>3, <2>4
<1>3. T \in SUBSET Nat
  OBVIOUS
<1> HIDE DEF T
<1>4. T = Nat
  BY <1>1, <1>2, <1>3, NatSetInduction
<1>5. \A t \in SUBSET S : Cardinality(t) \in Nat
  BY FS_Subset, FS_CardinalityType
<1> QED  BY <1>4, <1>5 DEF T, AnyOrder

LEMMA LengthIsSum ==
  ASSUME NEW S, IsFiniteSet(S), NEW f, Sums(S, f)
  PROVE  LengthOf(S) = f[S]
<1> DEFINE g == CHOOSE x : Sums(S, x)
<1>1. Sums(S, g)
  OBVIOUS
<1>2. LengthOf(S) = g[S]
  BY DEF LengthOf, MapThenSumSet, MapThenFoldSet, Sums, LengthAt
<1> HIDE DEF g
<1> QED  BY <1>1, <1>2, SumsUnique

\* One more mention adds its length.
LEMMA LengthAdded ==
  ASSUME NEW M, IsFiniteSet(M), NEW at, at \notin M, \A x \in M \cup {at} : LengthAt(x) \in Int
  PROVE  LengthOf(M \cup {at}) = LengthOf(M) + LengthAt(at) /\ LengthOf(M) \in Int
<1> DEFINE S == M \cup {at}
<1>1. IsFiniteSet(S)
  BY FS_AddElement
<1>2. PICK f : WholeSums(S, f)
  BY <1>1, SumsExist
<1>3. f[S] = LengthAt(at) + f[M]
  <2>1. S \ {at} = M /\ at \in S
    OBVIOUS
  <2>3. S \in SUBSET S
    OBVIOUS
  <2> HIDE DEF S
  <2>4. AnyOrder(S, f)
    BY <1>1, <1>2, SumsAnyOrder
  <2> QED  BY <2>1, <2>3, <2>4 DEF AnyOrder
<1>4. Sums(M, [t \in SUBSET M |-> f[t]])
  BY <1>2 DEF Sums, WholeSums
<1>5. LengthOf(M) = f[M]
  BY <1>4, LengthIsSum
<1>6. LengthOf(S) = f[S]
  BY <1>1, <1>2, LengthIsSum DEF WholeSums
<1>7. f[M] \in Int /\ LengthAt(at) \in Int
  BY <1>2 DEF WholeSums
<1> QED  BY <1>3, <1>5, <1>6, <1>7

LEMMA LengthOfOne ==
  ASSUME NEW at, LengthAt(at) \in Int
  PROVE  LengthOf({at}) = LengthAt(at)
<1>1. PICK f : WholeSums({}, f)
  BY FS_EmptySet, SumsExist
<1>2. LengthOf({}) = 0
  <2>1. LengthOf({}) = f[{}]
    BY <1>1, FS_EmptySet, LengthIsSum DEF WholeSums
  <2> QED  BY <1>1, <2>1 DEF Sums, WholeSums
<1>3. LengthOf({} \cup {at}) = LengthOf({}) + LengthAt(at)
  BY FS_EmptySet, LengthAdded
<1> QED  BY <1>2, <1>3

-----------------------------------------------------------------------------
(* Waze: raw jams *)

Keys == {<<a, b, c>> : a \in Int, b \in Int, c \in Int}

KeyLess(a, b) ==
  \/ a[1] < b[1]
  \/ a[1] = b[1] /\ a[2] < b[2]
  \/ a[1] = b[1] /\ a[2] = b[2] /\ a[3] < b[3]

LEMMA LexLessIs ==
  ASSUME NEW a \in Keys, NEW b \in Keys
  PROVE  LexLess(a, b) <=> KeyLess(a, b)
<1>1. PICK a1 \in Int, a2 \in Int, a3 \in Int : a = <<a1, a2, a3>>
  BY DEF Keys
<1>2. PICK b1 \in Int, b2 \in Int, b3 \in Int : b = <<b1, b2, b3>>
  BY DEF Keys
<1>3. DOMAIN a = {1, 2, 3}
  BY <1>1
<1>4. 1 .. 1 - 1 = {} /\ 1 .. 2 - 1 = {1} /\ 1 .. 3 - 1 = {1, 2}
  OBVIOUS
<1>5. LexLess(a, b) <=> \E i \in {1, 2, 3} : a[i] < b[i] /\ \A j \in 1 .. i - 1 : a[j] = b[j]
  BY <1>3 DEF LexLess
<1> QED  BY <1>4, <1>5 DEF KeyLess

\* Keys are in a total order.
LEMMA LexOrder ==
  /\ \A a, b \in Keys : LexLess(a, b) => ~LexLess(b, a)
  /\ \A a, b, c \in Keys : ~LexLess(b, a) /\ ~LexLess(c, b) => ~LexLess(c, a)
<1>1. \A a, b \in Keys : LexLess(a, b) <=> KeyLess(a, b)
  BY LexLessIs
<1>2. \A a \in Keys : a[1] \in Int /\ a[2] \in Int /\ a[3] \in Int
  BY DEF Keys
<1>3. ASSUME NEW a \in Keys, NEW b \in Keys, LexLess(a, b) PROVE ~LexLess(b, a)
  BY <1>1, <1>2, <1>3 DEF KeyLess
<1>4. ASSUME NEW a \in Keys, NEW b \in Keys, NEW c \in Keys, ~LexLess(b, a), ~LexLess(c, b)
      PROVE  ~LexLess(c, a)
  <2>1. ~KeyLess(b, a) /\ ~KeyLess(c, b)
    BY <1>1, <1>4
  <2>2. ~KeyLess(c, a)
    <3>1. /\ a[1] \in Int /\ a[2] \in Int /\ a[3] \in Int
          /\ b[1] \in Int /\ b[2] \in Int /\ b[3] \in Int
          /\ c[1] \in Int /\ c[2] \in Int /\ c[3] \in Int
      BY <1>2
    <3> QED  BY <2>1, <3>1 DEF KeyLess
  <2> QED  BY <1>1, <2>2
<1> QED  BY <1>3, <1>4

\* A list of keys in their order.
InOrder(keys, n) == \A i \in 1 .. n - 1 : ~LexLess(keys[i + 1], keys[i])

LEMMA InOrderAll ==
  ASSUME NEW n \in Nat, NEW keys \in [1 .. n -> Keys], InOrder(keys, n)
  PROVE  \A i, j \in 1 .. n : i <= j => ~LexLess(keys[j], keys[i])
<1> SUFFICES ASSUME NEW i \in 1 .. n PROVE \A j \in 1 .. n : i <= j => ~LexLess(keys[j], keys[i])
  OBVIOUS
<1> DEFINE T == {d \in Nat : i + d <= n => ~LexLess(keys[i + d], keys[i])}
<1>1. 0 \in T
  <2>1. keys[i] \in Keys /\ i + 0 = i
    OBVIOUS
  <2> QED  BY <2>1, LexOrder
<1>2. ASSUME NEW d \in T PROVE d + 1 \in T
  <2> SUFFICES ASSUME i + (d + 1) <= n PROVE ~LexLess(keys[i + (d + 1)], keys[i])
    OBVIOUS
  <2>1. /\ d \in Nat /\ i + d \in 1 .. n - 1 /\ (i + d) + 1 = i + (d + 1)
        /\ i + d \in 1 .. n /\ i + (d + 1) \in 1 .. n /\ i + d <= n
    OBVIOUS
  <2>2. ~LexLess(keys[i + d], keys[i]) /\ ~LexLess(keys[i + (d + 1)], keys[i + d])
    BY <2>1 DEF InOrder
  <2>3. keys[i] \in Keys /\ keys[i + d] \in Keys /\ keys[i + (d + 1)] \in Keys
    BY <2>1
  <2> QED  BY <2>2, <2>3, LexOrder
<1>3. T \in SUBSET Nat
  OBVIOUS
<1> HIDE DEF T
<1>4. T = Nat
  BY <1>1, <1>2, <1>3, NatSetInduction
<1> TAKE j \in 1 .. n
<1> HAVE i <= j
<1>5. j - i \in T /\ i + (j - i) = j
  BY <1>4
<1> QED  BY <1>5 DEF T

\* Behind the keys it is not less than, and before the others.
LEMMA RankSplits ==
  ASSUME NEW n \in Nat, NEW keys \in [1 .. n -> Keys], InOrder(keys, n), NEW key \in Keys
  PROVE  /\ Rank(key, keys) \in 1 .. n + 1
         /\ \A i \in 1 .. n : i < Rank(key, keys) <=> ~LexLess(key, keys[i])
<1> DEFINE B == {i \in DOMAIN keys : ~LexLess(key, keys[i])}
           m == Cardinality(B)
<1>1. DOMAIN keys = 1 .. n
  OBVIOUS
<1>2. Rank(key, keys) \in 1 .. n + 1 /\ IsFiniteSet(B)
  BY <1>1, RankBounds
<1>3. ASSUME NEW j \in B, NEW i \in 1 .. n, i <= j PROVE i \in B
  <2>1. ~LexLess(keys[j], keys[i]) /\ ~LexLess(key, keys[j])
    BY <1>3, InOrderAll
  <2>2. keys[i] \in Keys /\ keys[j] \in Keys
    OBVIOUS
  <2> QED  BY <2>1, <2>2, LexOrder
<1>4. B = 1 .. m
  <2>1. CASE B = {}
    BY <2>1, FS_EmptySet
  <2>2. CASE B # {}
    <3>1. Max(B) \in B /\ \A y \in B : Max(B) >= y
      BY <1>1, <2>2, MaxOfPlaces
    <3> DEFINE x == Max(B)
    <3>2. x \in 1 .. n
      BY <3>1
    <3>3. B = 1 .. x
      <4>1. \A i \in 1 .. x : i \in B
        BY <1>3, <3>1, <3>2
      <4>2. \A i \in B : i \in 1 .. x
        BY <3>1, <3>2
      <4> QED  BY <4>1, <4>2
    <3> HIDE DEF x, B
    <3>4. Cardinality(1 .. x) = x
      BY <3>2, FS_Interval
    <3> QED  BY <3>3, <3>4
  <2> QED  BY <2>1, <2>2
<1>5. m \in Nat /\ Rank(key, keys) = 1 + m
  BY <1>2, FS_CardinalityType DEF Rank
<1>6. \A i \in 1 .. n : i \in B <=> ~LexLess(key, keys[i])
  OBVIOUS
<1> HIDE DEF B, m
<1> QED  BY <1>2, <1>4, <1>5, <1>6

\* Where a list has a value.
Same(s, x) == {j \in DOMAIN s : s[j] = x}

LEMMA InsertedCounts ==
  ASSUME NEW S, NEW s \in Seq(S), NEW e \in S, NEW k \in 1 .. Len(s) + 1, NEW x
  PROVE  Cardinality(Same(InsertAt(s, k, e), x)) =
           Cardinality(Same(s, x)) + IF x = e THEN 1 ELSE 0
<1> DEFINE r == InsertAt(s, k, e)
           L == Len(s)
<1>1. /\ L \in Nat /\ DOMAIN s = 1 .. L
      /\ r \in Seq(S) /\ Len(r) = L + 1
      /\ \A i \in 1 .. L + 1 : r[i] = IF i < k THEN s[i] ELSE IF i = k THEN e ELSE s[i - 1]
  <2>1. L \in Nat /\ DOMAIN s = 1 .. L
    BY LenProperties
  <2>2. r \in Seq(S) /\ IsInsertion(r, s, k, e)
    BY Inserted
  <2> HIDE DEF r
  <2> QED  BY <2>1, <2>2 DEF IsInsertion
<1>2. DOMAIN r = 1 .. L + 1 /\ k \in 1 .. L + 1
  BY <1>1, LenProperties
<1> HIDE DEF r, L
<1> DEFINE A == Same(s, x)
           D == Same(r, x) \ {k}
           shift == [j \in A |-> IF j < k THEN j ELSE j + 1]
<1>3. IsFiniteSet(A)
  <2>1. IsFiniteSet(1 .. L) /\ A \in SUBSET (1 .. L)
    BY <1>1, FS_Interval DEF Same
  <2> QED  BY <2>1, FS_Subset
<1>4. shift \in [A -> D]
  <2> SUFFICES ASSUME NEW j \in A PROVE (IF j < k THEN j ELSE j + 1) \in D
    OBVIOUS
  <2>1. j \in 1 .. L /\ s[j] = x
    BY <1>1 DEF Same
  <2>2. CASE j < k
    <3>1. j \in 1 .. L + 1 /\ j # k /\ r[j] = s[j]
      BY <1>1, <1>2, <2>1, <2>2
    <3> QED  BY <1>2, <2>1, <2>2, <3>1 DEF Same
  <2>3. CASE ~(j < k)
    <3>1. j + 1 \in 1 .. L + 1 /\ j + 1 # k /\ ~(j + 1 < k) /\ (j + 1) - 1 = j
      BY <1>1, <1>2, <2>1, <2>3
    <3>2. r[j + 1] = s[j]
      BY <1>1, <3>1
    <3> QED  BY <1>2, <2>1, <2>3, <3>1, <3>2 DEF Same
  <2> QED  BY <2>2, <2>3
<1>5. \A i, j \in A : shift[i] = shift[j] => i = j
  <2> SUFFICES ASSUME NEW i \in A, NEW j \in A, shift[i] = shift[j] PROVE i = j
    OBVIOUS
  <2>1. i \in 1 .. L /\ j \in 1 .. L
    BY <1>1 DEF Same
  <2> QED  BY <1>1, <1>2, <2>1
<1>6. \A d \in D : \E j \in A : shift[j] = d
  <2> SUFFICES ASSUME NEW d \in D PROVE \E j \in A : shift[j] = d
    OBVIOUS
  <2>1. d \in 1 .. L + 1 /\ d # k /\ r[d] = x
    BY <1>2 DEF Same
  <2>2. CASE d < k
    <3>1. d \in 1 .. L /\ s[d] = x
      BY <1>1, <1>2, <2>1, <2>2
    <3>2. d \in A /\ shift[d] = d
      BY <1>1, <2>2, <3>1 DEF Same
    <3> QED  BY <3>2
  <2>3. CASE ~(d < k)
    <3>1. d - 1 \in 1 .. L /\ ~(d - 1 < k) /\ (d - 1) + 1 = d /\ s[d - 1] = x
      BY <1>1, <1>2, <2>1, <2>3
    <3>2. d - 1 \in A /\ shift[d - 1] = d
      BY <1>1, <3>1 DEF Same
    <3> QED  BY <3>2
  <2> QED  BY <2>2, <2>3
<1>7. shift \in Bijection(A, D)
  <2> HIDE DEF shift, A, D
  <2>1. shift \in Injection(A, D)
    BY <1>4, <1>5 DEF Injection, IsInjective
  <2>2. shift \in Surjection(A, D)
    BY <1>4, <1>6 DEF Surjection
  <2> QED  BY <2>1, <2>2 DEF Bijection
<1> HIDE DEF shift
<1>8. IsFiniteSet(D) /\ Cardinality(D) = Cardinality(A)
  <2>1. ExistsBijection(A, D)
    BY <1>7 DEF ExistsBijection
  <2> HIDE DEF A, D
  <2> QED  BY <1>3, <2>1, FS_Bijection
<1>9. r[k] = e /\ Same(r, x) = IF x = e THEN D \cup {k} ELSE D
  <2>1. r[k] = e
    BY <1>1, <1>2
  <2> QED  BY <1>2, <2>1 DEF Same
<1>10. Cardinality(D \cup {k}) = Cardinality(D) + 1
  <2>1. k \notin D
    OBVIOUS
  <2> HIDE DEF D
  <2> QED  BY <1>8, <2>1, FS_AddElement
<1>11. Cardinality(A) \in Nat
  BY <1>3, FS_CardinalityType
<1> HIDE DEF A, D
<1>12. Cardinality(Same(r, x)) = Cardinality(A) + IF x = e THEN 1 ELSE 0
  BY <1>8, <1>9, <1>10, <1>11
<1> QED  BY <1>12 DEF r, A

-----------------------------------------------------------------------------
(* Waze: one device *)

RawJams == {RawJam(jam) : jam \in Jams}

LEMMA Types ==
  ASSUME NEW jam \in Jams
  PROVE  /\ Number(jam.delay) \in Int /\ Number(jam.length) \in Int /\ Number(jam.level) \in Int
         /\ Number(jam.speed) \in Nat /\ PublishedAt(jam) \in Int
         /\ RawJam(jam) \in RawJams /\ RawKey(RawJam(jam)) \in Keys
<1>1. /\ jam.pub \in Numbers /\ jam.delay \in Numbers /\ jam.length \in Numbers
      /\ jam.level \in Numbers /\ jam.speed \in Nat \cup {NoNumber}
      /\ jam.uuid \in Int /\ jam.blocking \in Int
  BY DEF Jams
<1>2. \A v \in Numbers : Number(v) \in Int
  BY DEF Number, Numbers
<1>3. Number(jam.speed) \in Nat
  BY <1>1 DEF Number
<1>4. PublishedAt(jam) \in Int
  BY <1>1, WazeAssumption DEF PublishedAt, WazeAssumption, Numbers
<1>5. RawJam(jam) \in RawJams
  BY DEF RawJams
<1>6. RawKey(RawJam(jam)) \in Keys
  <2>1. {"pub", "uuid", "blocking"} \subseteq DOMAIN jam
    BY DEF Jams
  <2>2. /\ RawJam(jam).pub = jam.pub /\ RawJam(jam).uuid = jam.uuid
        /\ RawJam(jam).blocking = jam.blocking
    BY <2>1 DEF RawJam
  <2>3. RawKey(RawJam(jam)) = <<Number(jam.pub), jam.uuid, jam.blocking>>
    BY <2>2 DEF RawKey
  <2>4. Number(jam.pub) \in Int
    BY <1>1, <1>2
  <2> QED  BY <1>1, <2>3, <2>4 DEF Keys
<1> QED  BY <1>1, <1>2, <1>3, <1>4, <1>5, <1>6

\* What the jams merged so far say of a device, place by place: a place is a jam and the
\* number of one of its segments.
MentionsOf(feed) == UNION {{<<jam, i>> : i \in DOMAIN Segments(jam)} : jam \in feed}
SegmentAt(at) == Segments(at[1])[at[2]]
UIDAt(at) == UIDOfSegment(SegmentAt(at))
AddedAt(at) == Aggregate(at[1], SegmentAt(at))

KeysOf(raws) == [i \in 1 .. Len(raws) |-> RawKey(raws[i])]
RawAt(m, x) == {at \in m : RawJam(at[1]) = x}

Aggregates ==
  [tags : {AddedAt(at).tags : at \in MentionsOf(Jams)}, rawJams : Seq(RawJams), jamCount : Nat,
   delay : Int, length : Int, level : Int, speed : Nat, time : Int]

RawsMatch(raws, m) ==
  /\ Len(raws) = Cardinality(m)
  /\ \A x : Cardinality(Same(raws, x)) = Cardinality(RawAt(m, x))
  /\ InOrder(KeysOf(raws), Len(raws))

\* Each part is that of a place, and none exceeds it.
DelayMatches(d, m) ==
  /\ \E at \in m : d = Number(at[1].delay)
  /\ \A at \in m : ~IsGreaterDelay(Number(at[1].delay), d)
LevelMatches(l, m) ==
  /\ \E at \in m : l = Number(at[1].level)
  /\ \A at \in m : l >= Number(at[1].level)
TimeMatches(t, m) ==
  /\ \E at \in m : t = PublishedAt(at[1])
  /\ \A at \in m : t >= PublishedAt(at[1])
SpeedMatches(s, m) ==
  /\ \E at \in m : s = Number(at[1].speed)
  /\ \A at \in m : Number(at[1].speed) # 0 => s # 0 /\ s <= Number(at[1].speed)

Matches(a, m) ==
  /\ a \in Aggregates
  /\ a.jamCount = Cardinality(m)
  /\ a.length = LengthOf(m)
  /\ DelayMatches(a.delay, m)
  /\ LevelMatches(a.level, m)
  /\ SpeedMatches(a.speed, m)
  /\ TimeMatches(a.time, m)
  /\ RawsMatch(a.rawJams, m)
  /\ \E at \in m : a.tags = AddedAt(at).tags

LEMMA MentionTypes ==
  ASSUME NEW at \in MentionsOf(Jams)
  PROVE  /\ at[1] \in Jams /\ LengthAt(at) \in Int
         /\ AddedAt(at) \in Aggregates
<1>1. at[1] \in Jams
  BY DEF MentionsOf
<1>2. LengthAt(at) \in Int
  BY <1>1, Types DEF LengthAt
<1>3. AddedAt(at) \in Aggregates
  <2>1. <<RawJam(at[1])>> \in Seq(RawJams)
    BY <1>1, Types
  <2> QED  BY <1>1, <2>1, Types DEF AddedAt, Aggregate, Aggregates
<1> QED  BY <1>1, <1>2, <1>3

LEMMA FirstMention ==
  ASSUME NEW at \in MentionsOf(Jams)
  PROVE  Matches(AddedAt(at), {at})
<1> DEFINE a == AddedAt(at)
           jam == at[1]
           raw == RawJam(jam)
<1>1. jam \in Jams /\ a \in Aggregates /\ LengthAt(at) \in Int
  BY MentionTypes
<1>2. /\ a.jamCount = 1 /\ a.length = LengthAt(at) /\ a.delay = Number(jam.delay)
      /\ a.level = Number(jam.level) /\ a.speed = Number(jam.speed)
      /\ a.time = PublishedAt(jam) /\ a.rawJams = <<raw>>
  BY DEF AddedAt, Aggregate, LengthAt
<1>3. Cardinality({at}) = 1
  BY FS_Singleton
<1>4. a.length = LengthOf({at})
  BY <1>1, <1>2, LengthOfOne
<1>5. /\ DelayMatches(a.delay, {at}) /\ LevelMatches(a.level, {at})
      /\ SpeedMatches(a.speed, {at}) /\ TimeMatches(a.time, {at})
  BY <1>1, <1>2, Types
     DEF DelayMatches, LevelMatches, SpeedMatches, TimeMatches, IsGreaterDelay
<1>6. RawsMatch(<<raw>>, {at})
  <2>1. Len(<<raw>>) = 1
    OBVIOUS
  <2>2. InOrder(KeysOf(<<raw>>), 1)
    BY DEF InOrder
  <2>3. ASSUME NEW x PROVE Cardinality(Same(<<raw>>, x)) = Cardinality(RawAt({at}, x))
    <3>1. CASE x = raw
      <4>1. Same(<<raw>>, x) = {1} /\ RawAt({at}, x) = {at}
        BY <3>1 DEF Same, RawAt
      <4> QED  BY <4>1, FS_Singleton
    <3>2. CASE x # raw
      <4>1. Same(<<raw>>, x) = {} /\ RawAt({at}, x) = {}
        BY <3>2 DEF Same, RawAt
      <4> QED  BY <4>1
    <3> QED  BY <3>1, <3>2
  <2> QED  BY <1>3, <2>1, <2>2, <2>3 DEF RawsMatch
<1> QED  BY <1>1, <1>2, <1>3, <1>4, <1>5, <1>6 DEF Matches

LEMMA MergedIs ==
  ASSUME NEW a \in Aggregates, NEW at \in MentionsOf(Jams)
  PROVE  LET b == Merged(a, AddedAt(at))
             jam == at[1]
             raw == RawJam(jam)
         IN /\ b \in Aggregates
            /\ b.rawJams = InsertAt(a.rawJams, Rank(RawKey(raw), KeysOf(a.rawJams)), raw)
            /\ b.jamCount = a.jamCount + 1
            /\ b.length = a.length + LengthAt(at)
            /\ b.delay = IF IsGreaterDelay(Number(jam.delay), a.delay)
                         THEN Number(jam.delay) ELSE a.delay
            /\ b.level = IF Number(jam.level) > a.level THEN Number(jam.level) ELSE a.level
            /\ b.speed = Slower(a.speed, Number(jam.speed))
            /\ b.time = IF PublishedAt(jam) > a.time THEN PublishedAt(jam) ELSE a.time
            /\ b.tags = a.tags
<1> DEFINE jam == at[1]
           raw == RawJam(jam)
           raws == a.rawJams
           added == AddedAt(at)
           b == Merged(a, added)
<1>1. jam \in Jams /\ added \in Aggregates /\ LengthAt(at) \in Int
  BY MentionTypes
<1>2. /\ added.jamCount = 1 /\ added.length = LengthAt(at) /\ added.delay = Number(jam.delay)
      /\ added.level = Number(jam.level) /\ added.speed = Number(jam.speed)
      /\ added.time = PublishedAt(jam) /\ added.rawJams[1] = raw
  BY DEF AddedAt, Aggregate, LengthAt
<1>3. raws \in Seq(RawJams) /\ Len(raws) \in Nat /\ DOMAIN raws = 1 .. Len(raws)
  BY LenProperties DEF Aggregates
<1> DEFINE key == Rank(RawKey(raw), KeysOf(raws))
<1>4. KeysOf(raws) = [i \in DOMAIN raws |-> RawKey(raws[i])]
  BY <1>3 DEF KeysOf
<1>5. key \in 1 .. Len(raws) + 1
  <2>1. DOMAIN KeysOf(raws) = 1 .. Len(raws)
    BY DEF KeysOf
  <2> QED  BY <1>3, <2>1, RankBounds
<1>6. InsertAt(raws, key, raw) \in Seq(RawJams)
  BY <1>1, <1>3, <1>5, Inserted, Types
<1> DEFINE delay == IF IsGreaterDelay(added.delay, a.delay) THEN added.delay ELSE a.delay
           level == IF added.level > a.level THEN added.level ELSE a.level
           speed == Slower(a.speed, added.speed)
           time == IF added.time > a.time THEN added.time ELSE a.time
<1>7. /\ b.rawJams = InsertAt(raws, key, raw) /\ b.tags = a.tags
      /\ b.jamCount = a.jamCount + added.jamCount /\ b.length = a.length + added.length
      /\ b.delay = delay /\ b.level = level /\ b.speed = speed /\ b.time = time
  BY <1>2, <1>4 DEF Merged, Aggregates
<1>8. /\ added.delay \in Int /\ added.level \in Int /\ added.speed \in Nat /\ added.time \in Int
      /\ a.delay \in Int /\ a.level \in Int /\ a.speed \in Nat /\ a.time \in Int
      /\ a.jamCount \in Nat /\ a.length \in Int
      /\ a.tags \in {AddedAt(x).tags : x \in MentionsOf(Jams)}
  BY <1>1 DEF Aggregates
<1>9. /\ delay \in Int /\ level \in Int /\ speed \in Nat /\ time \in Int
      /\ a.jamCount + added.jamCount \in Nat /\ a.length + added.length \in Int
  BY <1>1, <1>2, <1>8 DEF Slower
<1>10. b = [tags |-> b.tags, rawJams |-> b.rawJams, jamCount |-> b.jamCount, delay |-> b.delay,
            length |-> b.length, level |-> b.level, speed |-> b.speed, time |-> b.time]
  <2> HIDE DEF added
  <2>1. DOMAIN a = {"tags", "rawJams", "jamCount", "delay", "length", "level", "speed", "time"}
    BY DEF Aggregates
  <2>2. DOMAIN b = DOMAIN a /\ b = [x \in DOMAIN b |-> b[x]]
    BY DEF Merged
  <2> HIDE DEF b
  <2> QED  BY <2>1, <2>2
<1> HIDE DEF added, key, delay, level, speed, time, b
<1>11. b \in Aggregates
  BY <1>6, <1>7, <1>8, <1>9, <1>10 DEF Aggregates
<1> QED  BY <1>2, <1>7, <1>11 DEF added, key, delay, level, speed, time, b

LEMMA RawsMerged ==
  ASSUME NEW raws \in Seq(RawJams), NEW m, IsFiniteSet(m), RawsMatch(raws, m),
         NEW at \in MentionsOf(Jams), at \notin m
  PROVE  RawsMatch(InsertAt(raws, Rank(RawKey(RawJam(at[1])), KeysOf(raws)), RawJam(at[1])),
                   m \cup {at})
<1> DEFINE raw == RawJam(at[1])
           keys == KeysOf(raws)
           k == Rank(RawKey(raw), keys)
           n == Len(raws)
           new == InsertAt(raws, k, raw)
<1>1. at[1] \in Jams /\ raw \in RawJams /\ RawKey(raw) \in Keys
  BY MentionTypes, Types
<1>2. n \in Nat /\ \A i \in 1 .. n : raws[i] \in RawJams
  BY LenProperties, ElementOfSeq
<1>3. keys \in [1 .. n -> Keys] /\ \A i \in 1 .. n : keys[i] = RawKey(raws[i])
  <2>1. \A x \in RawJams : RawKey(x) \in Keys
    BY Types DEF RawJams
  <2> QED  BY <1>2, <2>1 DEF KeysOf
<1>4. InOrder(keys, n)
  BY DEF RawsMatch
<1> HIDE DEF keys, raw, n
<1>5. k \in 1 .. n + 1 /\ \A i \in 1 .. n : i < k <=> ~LexLess(RawKey(raw), keys[i])
  BY <1>1, <1>2, <1>3, <1>4, RankSplits
<1> HIDE DEF k
<1>6. /\ new \in Seq(RawJams) /\ Len(new) = n + 1
      /\ \A i \in 1 .. n + 1 :
           new[i] = IF i < k THEN raws[i] ELSE IF i = k THEN raw ELSE raws[i - 1]
  <2>1. k \in 1 .. Len(raws) + 1
    BY <1>5 DEF n
  <2>2. new \in Seq(RawJams) /\ IsInsertion(new, raws, k, raw)
    BY <1>1, <2>1, Inserted
  <2> HIDE DEF new
  <2> QED  BY <2>2 DEF n, IsInsertion
<1>7. \A x : Cardinality(Same(new, x)) = Cardinality(Same(raws, x)) + IF x = raw THEN 1 ELSE 0
  BY <1>1, <1>5, InsertedCounts DEF n
<1> HIDE DEF new
<1>8. Cardinality(m \cup {at}) = Cardinality(m) + 1
  BY FS_AddElement
<1>9. ASSUME NEW x PROVE Cardinality(Same(new, x)) = Cardinality(RawAt(m \cup {at}, x))
  <2>1. IsFiniteSet(RawAt(m, x)) /\ at \notin RawAt(m, x)
    <3>1. RawAt(m, x) \in SUBSET m
      BY DEF RawAt
    <3> QED  BY <3>1, FS_Subset
  <2>2. Cardinality(RawAt(m, x)) \in Nat
    BY <2>1, FS_CardinalityType
  <2>3. Cardinality(Same(raws, x)) = Cardinality(RawAt(m, x))
    BY DEF RawsMatch
  <2>4. CASE x = raw
    <3>1. RawAt(m \cup {at}, x) = RawAt(m, x) \cup {at}
      BY <2>4 DEF RawAt, raw
    <3>2. Cardinality(RawAt(m, x) \cup {at}) = Cardinality(RawAt(m, x)) + 1
      BY <2>1, FS_AddElement
    <3> QED  BY <1>7, <2>3, <2>4, <3>1, <3>2
  <2>5. CASE x # raw
    <3>1. RawAt(m \cup {at}, x) = RawAt(m, x)
      BY <2>5 DEF RawAt, raw
    <3> QED  BY <1>7, <2>2, <2>3, <2>5, <3>1
  <2> QED  BY <2>4, <2>5
<1>10. InOrder(KeysOf(new), n + 1)
  <2> SUFFICES ASSUME NEW i \in 1 .. (n + 1) - 1
               PROVE  ~LexLess(KeysOf(new)[i + 1], KeysOf(new)[i])
    BY DEF InOrder
  <2>1. i \in 1 .. n /\ i + 1 \in 1 .. n + 1 /\ i \in 1 .. n + 1
    BY <1>2
  <2>2. KeysOf(new)[i] = RawKey(new[i]) /\ KeysOf(new)[i + 1] = RawKey(new[i + 1])
    BY <1>6, <2>1 DEF KeysOf
  <2>3. CASE i + 1 < k
    <3>1. new[i] = raws[i] /\ new[i + 1] = raws[i + 1] /\ i + 1 \in 1 .. n /\ i \in 1 .. n - 1
      BY <1>2, <1>5, <1>6, <2>1, <2>3
    <3>2. ~LexLess(keys[i + 1], keys[i])
      BY <1>4, <3>1 DEF InOrder
    <3> QED  BY <1>3, <2>1, <2>2, <3>1, <3>2
  <2>4. CASE i + 1 = k
    <3>1. new[i] = raws[i] /\ new[i + 1] = raw /\ i < k
      BY <1>2, <1>5, <1>6, <2>1, <2>4
    <3>2. ~LexLess(RawKey(raw), keys[i])
      BY <1>5, <2>1, <3>1
    <3> QED  BY <1>3, <2>1, <2>2, <3>1, <3>2
  <2>5. CASE i = k
    <3>1. new[i] = raw /\ new[i + 1] = raws[i] /\ ~(i < k)
      BY <1>2, <1>5, <1>6, <2>1, <2>5
    <3>2. LexLess(RawKey(raw), keys[i]) /\ keys[i] \in Keys
      BY <1>3, <1>5, <2>1, <3>1
    <3>3. ~LexLess(keys[i], RawKey(raw))
      BY <1>1, <3>2, LexOrder
    <3> QED  BY <1>3, <2>1, <2>2, <3>1, <3>3
  <2>6. CASE i > k
    <3>0. /\ i - 1 \in 1 .. n - 1 /\ i - 1 \in 1 .. n /\ (i + 1) - 1 = i
          /\ ~(i < k) /\ i # k /\ ~(i + 1 < k) /\ i + 1 # k
      BY <1>2, <1>5, <2>1, <2>6
    <3>1. new[i] = raws[i - 1] /\ new[i + 1] = raws[i]
      BY <1>6, <2>1, <3>0
    <3>2. ~LexLess(keys[(i - 1) + 1], keys[i - 1]) /\ (i - 1) + 1 = i
      BY <1>4, <3>0 DEF InOrder
    <3> QED  BY <1>3, <2>1, <2>2, <3>0, <3>1, <3>2
  <2> QED  BY <1>5, <2>1, <2>3, <2>4, <2>5, <2>6
<1>11. n = Cardinality(m)
  BY DEF RawsMatch, n
<1>12. RawsMatch(new, m \cup {at})
  BY <1>6, <1>8, <1>9, <1>10, <1>11 DEF RawsMatch
<1> QED  BY <1>12 DEF new, k, keys, raw

\* What is merged says what was said before and what is new.
LEMMA MergedMatches ==
  ASSUME NEW m, IsFiniteSet(m), m \in SUBSET MentionsOf(Jams), NEW a, Matches(a, m),
         NEW at \in MentionsOf(Jams), at \notin m
  PROVE  Matches(Merged(a, AddedAt(at)), m \cup {at})
<1> DEFINE jam == at[1]
           raw == RawJam(jam)
           b == Merged(a, AddedAt(at))
           mm == m \cup {at}
<1>1. a \in Aggregates /\ jam \in Jams
  BY MentionTypes DEF Matches
<1>2. /\ a.rawJams \in Seq(RawJams) /\ a.jamCount \in Nat /\ a.delay \in Int
      /\ a.level \in Int /\ a.speed \in Nat /\ a.time \in Int
  BY <1>1 DEF Aggregates
<1>3. /\ Number(jam.delay) \in Int /\ Number(jam.level) \in Int
      /\ Number(jam.speed) \in Nat /\ PublishedAt(jam) \in Int
  BY <1>1, Types
<1>4. \A x \in m : /\ Number(x[1].delay) \in Int /\ Number(x[1].level) \in Int
                   /\ Number(x[1].speed) \in Nat /\ PublishedAt(x[1]) \in Int
                   /\ LengthAt(x) \in Int
  BY MentionTypes, Types
<1>5. /\ b \in Aggregates
      /\ b.rawJams = InsertAt(a.rawJams, Rank(RawKey(raw), KeysOf(a.rawJams)), raw)
      /\ b.jamCount = a.jamCount + 1
      /\ b.length = a.length + LengthAt(at)
      /\ b.delay = IF IsGreaterDelay(Number(jam.delay), a.delay) THEN Number(jam.delay) ELSE a.delay
      /\ b.level = IF Number(jam.level) > a.level THEN Number(jam.level) ELSE a.level
      /\ b.speed = Slower(a.speed, Number(jam.speed))
      /\ b.time = IF PublishedAt(jam) > a.time THEN PublishedAt(jam) ELSE a.time
      /\ b.tags = a.tags
  BY <1>1, MergedIs
<1> HIDE DEF b, jam, raw, mm
<1>6. \A x : x \in mm <=> x \in m \/ x = at
  BY DEF mm
<1>7. b.jamCount = Cardinality(mm)
  BY <1>5, FS_AddElement DEF Matches, mm
<1>8. b.length = LengthOf(mm)
  <2>1. a.length = LengthOf(m)
    BY DEF Matches
  <2>2. \A x \in m \cup {at} : LengthAt(x) \in Int
    BY <1>4, MentionTypes
  <2> QED  BY <1>5, <2>1, <2>2, LengthAdded DEF mm
<1>9. DelayMatches(b.delay, mm)
  <2>1. /\ \E x \in m : a.delay = Number(x[1].delay)
        /\ \A x \in m : ~IsGreaterDelay(Number(x[1].delay), a.delay)
    BY DEF Matches, DelayMatches
  <2>2. \E x \in mm : b.delay = Number(x[1].delay)
    BY <1>5, <1>6, <2>1 DEF jam
  <2>3. ASSUME NEW x \in mm PROVE ~IsGreaterDelay(Number(x[1].delay), b.delay)
    <3>1. CASE x = at
      BY <1>2, <1>3, <1>5, <3>1 DEF IsGreaterDelay, jam
    <3>2. CASE x \in m
      <4>1. ~IsGreaterDelay(Number(x[1].delay), a.delay) /\ Number(x[1].delay) \in Int
        BY <1>4, <2>1, <3>2
      <4> QED  BY <1>2, <1>3, <1>5, <4>1 DEF IsGreaterDelay
    <3> QED  BY <1>6, <3>1, <3>2
  <2> QED  BY <2>2, <2>3 DEF DelayMatches
<1>10. LevelMatches(b.level, mm)
  <2>1. /\ \E x \in m : a.level = Number(x[1].level)
        /\ \A x \in m : a.level >= Number(x[1].level)
    BY DEF Matches, LevelMatches
  <2>2. \E x \in mm : b.level = Number(x[1].level)
    BY <1>5, <1>6, <2>1 DEF jam
  <2>3. ASSUME NEW x \in mm PROVE b.level >= Number(x[1].level)
    <3>1. CASE x = at
      BY <1>2, <1>3, <1>5, <3>1 DEF jam
    <3>2. CASE x \in m
      <4>1. a.level >= Number(x[1].level) /\ Number(x[1].level) \in Int
        BY <1>4, <2>1, <3>2
      <4>2. b.level = a.level \/ (b.level = Number(jam.level) /\ Number(jam.level) > a.level)
        BY <1>5
      <4> QED  BY <1>2, <1>3, <4>1, <4>2
    <3> QED  BY <1>6, <3>1, <3>2
  <2> QED  BY <2>2, <2>3 DEF LevelMatches
<1>11. TimeMatches(b.time, mm)
  <2>1. /\ \E x \in m : a.time = PublishedAt(x[1])
        /\ \A x \in m : a.time >= PublishedAt(x[1])
    BY DEF Matches, TimeMatches
  <2>2. \E x \in mm : b.time = PublishedAt(x[1])
    BY <1>5, <1>6, <2>1 DEF jam
  <2>3. ASSUME NEW x \in mm PROVE b.time >= PublishedAt(x[1])
    <3>1. CASE x = at
      BY <1>2, <1>3, <1>5, <3>1 DEF jam
    <3>2. CASE x \in m
      <4>1. a.time >= PublishedAt(x[1]) /\ PublishedAt(x[1]) \in Int
        BY <1>4, <2>1, <3>2
      <4>2. b.time = a.time \/ (b.time = PublishedAt(jam) /\ PublishedAt(jam) > a.time)
        BY <1>5
      <4> QED  BY <1>2, <1>3, <4>1, <4>2
    <3> QED  BY <1>6, <3>1, <3>2
  <2> QED  BY <2>2, <2>3 DEF TimeMatches
<1>12. SpeedMatches(b.speed, mm)
  <2>1. /\ \E x \in m : a.speed = Number(x[1].speed)
        /\ \A x \in m : Number(x[1].speed) # 0 => a.speed # 0 /\ a.speed <= Number(x[1].speed)
    BY DEF Matches, SpeedMatches
  <2>2. b.speed = a.speed \/ b.speed = Number(jam.speed)
    BY <1>5 DEF Slower
  <2>3. \E x \in mm : b.speed = Number(x[1].speed)
    BY <1>6, <2>1, <2>2 DEF jam
  <2>4. ASSUME NEW x \in mm, Number(x[1].speed) # 0
        PROVE  b.speed # 0 /\ b.speed <= Number(x[1].speed)
    <3>1. CASE x = at
      BY <1>2, <1>3, <1>5, <2>4, <3>1 DEF Slower, jam
    <3>2. CASE x \in m
      <4>1. a.speed # 0 /\ a.speed <= Number(x[1].speed) /\ Number(x[1].speed) \in Nat
        BY <1>4, <2>1, <2>4, <3>2
      <4> QED  BY <1>2, <1>3, <1>5, <4>1 DEF Slower
    <3> QED  BY <1>6, <3>1, <3>2
  <2> QED  BY <2>3, <2>4 DEF SpeedMatches
<1>13. RawsMatch(b.rawJams, mm)
  BY <1>2, <1>5, RawsMerged DEF Matches, raw, jam, mm
<1>14. \E x \in mm : b.tags = AddedAt(x).tags
  BY <1>5, <1>6 DEF Matches
<1>15. Matches(b, mm)
  BY <1>5, <1>7, <1>8, <1>9, <1>10, <1>11, <1>12, <1>13, <1>14 DEF Matches
<1> QED  BY <1>15 DEF b, mm

-----------------------------------------------------------------------------
(* Waze: the devices *)

About(m, uid) == {at \in m : UIDAt(at) = uid}

\* The table of the devices says what the places of m say, each about its device.
TableMatches(devices, m) ==
  /\ DOMAIN devices = {UIDAt(at) : at \in m}
  /\ \A uid \in DOMAIN devices : Matches(devices[uid], About(m, uid))

LEMMA PlaceAdded ==
  ASSUME NEW m, IsFiniteSet(m), m \in SUBSET MentionsOf(Jams), NEW devices, TableMatches(devices, m),
         NEW at \in MentionsOf(Jams), at \notin m
  PROVE  TableMatches(WithAggregate(devices, UIDAt(at), AddedAt(at)), m \cup {at})
<1> DEFINE u == UIDAt(at)
           new == WithAggregate(devices, u, AddedAt(at))
           mm == m \cup {at}
<1>1. DOMAIN new = DOMAIN devices \cup {u}
  BY DEF WithAggregate
<1>2. \A d \in DOMAIN new :
        new[d] = IF d # u THEN devices[d]
                 ELSE IF u \in DOMAIN devices THEN Merged(devices[u], AddedAt(at)) ELSE AddedAt(at)
  BY DEF WithAggregate
<1>3. DOMAIN new = {UIDAt(x) : x \in mm}
  BY <1>1 DEF TableMatches
<1> HIDE DEF new
<1>4. ASSUME NEW d \in DOMAIN new PROVE Matches(new[d], About(mm, d))
  <2>1. CASE d # u
    <3>1. About(mm, d) = About(m, d) /\ d \in DOMAIN devices
      BY <1>1, <2>1 DEF About
    <3> QED  BY <1>2, <2>1, <3>1 DEF TableMatches
  <2>2. CASE d = u /\ u \in DOMAIN devices
    <3>1. About(mm, d) = About(m, d) \cup {at} /\ at \notin About(m, d)
      BY <2>2 DEF About
    <3>2. About(m, d) \in SUBSET m
      BY DEF About
    <3>3. IsFiniteSet(About(m, d)) /\ About(m, d) \in SUBSET MentionsOf(Jams)
      BY <3>2, FS_Subset
    <3>4. Matches(devices[u], About(m, d))
      BY <2>2 DEF TableMatches
    <3>5. Matches(Merged(devices[u], AddedAt(at)), About(m, d) \cup {at})
      BY <3>1, <3>3, <3>4, MergedMatches
    <3> QED  BY <1>2, <2>2, <3>1, <3>5
  <2>3. CASE d = u /\ u \notin DOMAIN devices
    <3>1. About(mm, d) = {at}
      BY <2>3 DEF About, TableMatches
    <3> QED  BY <1>2, <2>3, <3>1, FirstMention
  <2> QED  BY <2>1, <2>2, <2>3
<1> QED  BY <1>3, <1>4 DEF TableMatches, new

-----------------------------------------------------------------------------
(* Waze: one jam *)

UIDs == {UIDAt(at) : at \in MentionsOf(Jams)}
Tables == UNION {[D -> Aggregates] : D \in SUBSET UIDs}

LEMMA WithAggregateType ==
  ASSUME NEW devices \in Tables, NEW at \in MentionsOf(Jams)
  PROVE  WithAggregate(devices, UIDAt(at), AddedAt(at)) \in Tables
<1> DEFINE u == UIDAt(at)
           new == WithAggregate(devices, u, AddedAt(at))
<1>1. PICK D \in SUBSET UIDs : devices \in [D -> Aggregates]
  BY DEF Tables
<1>2. u \in UIDs /\ D \cup {u} \in SUBSET UIDs
  BY DEF UIDs
<1>3. AddedAt(at) \in Aggregates /\ \A a \in Aggregates : Merged(a, AddedAt(at)) \in Aggregates
  BY MentionTypes, MergedIs
<1>4. new \in [D \cup {u} -> Aggregates]
  BY <1>1, <1>3 DEF WithAggregate
<1> QED  BY <1>2, <1>4 DEF Tables

DevicesUpto(jam, base, f) ==
  f = [t \in SUBSET DOMAIN Segments(jam) |->
         IF t = {} THEN base
         ELSE WithAggregate(f[t \ {Max(t)}], UIDOfSegment(Segments(jam)[Max(t)]),
                            Aggregate(jam, Segments(jam)[Max(t)]))]

AfterJam(jam, base) ==
  FoldLeft(LAMBDA devices, g : WithAggregate(devices, UIDOfSegment(g), Aggregate(jam, g)),
           base, Segments(jam))

LEMMA AfterJamIs ==
  ASSUME NEW jam \in Jams, NEW base \in Tables
  PROVE  \E h : /\ h[0] = base /\ AfterJam(jam, base) = h[Len(Segments(jam))]
                /\ \A k \in 1 .. Len(Segments(jam)) :
                     h[k] = WithAggregate(h[k - 1], UIDAt(<<jam, k>>), AddedAt(<<jam, k>>))
<1> DEFINE list == Segments(jam)
           n == Len(list)
           After(x, k) == WithAggregate(x, UIDOfSegment(list[k]), Aggregate(jam, list[k]))
           step == [x \in Tables |-> [i \in 1 .. n |-> After(x, i)]]
<1>1. n \in Nat /\ DOMAIN list = 1 .. n
  BY SegmentsType, LenProperties
<1>2. ASSUME NEW i \in 1 .. n
      PROVE  /\ <<jam, i>> \in MentionsOf(Jams)
             /\ UIDAt(<<jam, i>>) = UIDOfSegment(list[i])
             /\ AddedAt(<<jam, i>>) = Aggregate(jam, list[i])
  BY <1>1 DEF MentionsOf, UIDAt, AddedAt, SegmentAt
<1> HIDE DEF list, n
<1>3. \A x \in Tables : \A i \in 1 .. n : After(x, i) \in Tables
  BY <1>2, WithAggregateType
<1> HIDE DEF After
<1>4. IsStep(step, 1 .. n, Tables)
  BY <1>3 DEF IsStep
<1>5. \A x \in Tables : \A i \in 1 .. n : step[x][i] = After(x, i)
  OBVIOUS
<1> HIDE DEF step
<1>6. PICK f \in [SUBSET (1 .. n) -> Tables] : IsListFold(f, n, base, step)
  BY <1>1, <1>4, ListFoldExists
<1>7. DevicesUpto(jam, base, f)
  <2>1. ASSUME NEW t \in SUBSET (1 .. n)
        PROVE  f[t] = IF t = {} THEN base ELSE After(f[t \ {Max(t)}], Max(t))
    <3>1. t # {} => Max(t) \in 1 .. n
      BY <1>1, MaxOfPlaces
    <3>2. t # {} => f[t \ {Max(t)}] \in Tables
      BY <1>6
    <3> QED  BY <1>5, <1>6, <3>1, <3>2 DEF IsListFold
  <2>2. DOMAIN f = SUBSET (1 .. n) /\ f = [t \in SUBSET (1 .. n) |-> f[t]]
    BY <1>6
  <2> QED  BY <1>1, <2>1, <2>2 DEF DevicesUpto, After, list
<1> DEFINE g == CHOOSE x : DevicesUpto(jam, base, x)
<1>8. DevicesUpto(jam, base, g)
  BY <1>7
<1>9. AfterJam(jam, base) = g[DOMAIN list]
  BY DEF AfterJam, FoldLeft, MapThenFoldSet, DevicesUpto, list
<1> HIDE DEF g
<1> DEFINE h == [k \in 0 .. n |-> g[1 .. k]]
<1>10. h[0] = base /\ AfterJam(jam, base) = h[n]
  <2>1. g[{}] = base
    BY <1>8 DEF DevicesUpto
  <2>2. 1 .. 0 = {} /\ 0 \in 0 .. n /\ n \in 0 .. n
    BY <1>1
  <2> QED  BY <1>1, <1>9, <2>1, <2>2
<1>11. ASSUME NEW k \in 1 .. n
       PROVE  h[k] = WithAggregate(h[k - 1], UIDAt(<<jam, k>>), AddedAt(<<jam, k>>))
  <2>1. 1 .. k \in SUBSET DOMAIN list /\ 1 .. k # {}
    <3>1. k \in 1 .. k /\ \A i \in 1 .. k : i \in 1 .. n
      BY <1>1
    <3> QED  BY <1>1, <3>1
  <2>2. Max(1 .. k) = k /\ (1 .. k) \ {k} = 1 .. k - 1
    BY MaxOfInterval
  <2>3. g[1 .. k] = After(g[1 .. k - 1], k)
    BY <1>8, <2>1, <2>2 DEF DevicesUpto, After, list
  <2>4. k \in 0 .. n /\ k - 1 \in 0 .. n
    BY <1>1
  <2> QED  BY <1>2, <2>3, <2>4 DEF After
<1> QED  BY <1>10, <1>11 DEF list, n

\* Every segment of the jam is one place more.
LEMMA JamAdded ==
  ASSUME NEW jam \in Jams, NEW m, IsFiniteSet(m), m \in SUBSET MentionsOf(Jams),
         \A at \in m : at[1] # jam, NEW base \in Tables, TableMatches(base, m)
  PROVE  LET mm == m \cup {<<jam, i>> : i \in DOMAIN Segments(jam)}
         IN /\ AfterJam(jam, base) \in Tables /\ TableMatches(AfterJam(jam, base), mm)
            /\ IsFiniteSet(mm) /\ mm \in SUBSET MentionsOf(Jams)
<1> DEFINE n == Len(Segments(jam))
           Upto(k) == m \cup {<<jam, i>> : i \in 1 .. k}
<1>1. n \in Nat /\ DOMAIN Segments(jam) = 1 .. n
  BY SegmentsType, LenProperties
<1>2. \A i \in 1 .. n : <<jam, i>> \in MentionsOf(Jams)
  BY <1>1 DEF MentionsOf
<1> HIDE DEF n
<1>3. PICK h : /\ h[0] = base /\ AfterJam(jam, base) = h[n]
               /\ \A k \in 1 .. n :
                    h[k] = WithAggregate(h[k - 1], UIDAt(<<jam, k>>), AddedAt(<<jam, k>>))
  BY AfterJamIs DEF n
<1> DEFINE T == {k \in 0 .. n : /\ h[k] \in Tables /\ TableMatches(h[k], Upto(k))
                                /\ IsFiniteSet(Upto(k)) /\ Upto(k) \in SUBSET MentionsOf(Jams)}
<1>4. 0 \in T
  <2>1. Upto(0) = m /\ 0 \in 0 .. n
    BY <1>1
  <2> HIDE DEF Upto
  <2> QED  BY <1>3, <2>1
<1>5. ASSUME NEW k \in 1 .. n, k - 1 \in T PROVE k \in T
  <2> DEFINE at == <<jam, k>>
  <2>1. at \in MentionsOf(Jams) /\ k \in 0 .. n
    BY <1>2
  <2>2. at \notin Upto(k - 1)
    OBVIOUS
  <2>3. Upto(k) = Upto(k - 1) \cup {at}
    <3>1. \A i : i \in 1 .. k <=> i \in 1 .. k - 1 \/ i = k
      BY <1>1
    <3> QED  BY <3>1
  <2>4. /\ h[k - 1] \in Tables /\ TableMatches(h[k - 1], Upto(k - 1))
        /\ IsFiniteSet(Upto(k - 1)) /\ Upto(k - 1) \in SUBSET MentionsOf(Jams)
    BY <1>5
  <2> HIDE DEF Upto, at
  <2>5. h[k] = WithAggregate(h[k - 1], UIDAt(at), AddedAt(at))
    BY <1>3 DEF at
  <2>6. h[k] \in Tables
    BY <2>1, <2>4, <2>5, WithAggregateType
  <2>7. TableMatches(h[k], Upto(k))
    BY <2>1, <2>2, <2>3, <2>4, <2>5, PlaceAdded
  <2>8. IsFiniteSet(Upto(k)) /\ Upto(k) \in SUBSET MentionsOf(Jams)
    BY <2>1, <2>3, <2>4, FS_AddElement
  <2> QED  BY <2>1, <2>6, <2>7, <2>8
<1> HIDE DEF T
<1>6. n \in T
  BY <1>1, <1>4, <1>5, UptoInduction
<1> QED  BY <1>1, <1>3, <1>6 DEF T

-----------------------------------------------------------------------------
(* Waze: the invariant *)

JamsInv ==
  /\ jams \in WazeFeeds
  /\ merged \in SUBSET jams
  /\ aggregates \in Tables
  /\ IsFiniteSet(MentionsOf(merged))
  /\ TableMatches(aggregates, MentionsOf(merged))

LEMMA JamsInitInv == JamsInit => JamsInv
<1> SUFFICES ASSUME JamsInit PROVE JamsInv
  OBVIOUS
<1>1. MentionsOf({}) = {}
  BY DEF MentionsOf
<1>2. aggregates \in [{} -> Aggregates]
  BY DEF JamsInit
<1>3. aggregates \in Tables
  BY <1>2 DEF Tables
<1>4. TableMatches(aggregates, {})
  BY <1>2 DEF TableMatches
<1> QED  BY <1>1, <1>3, <1>4, FS_EmptySet DEF JamsInit, JamsInv

LEMMA JamsNextInv == JamsInv /\ [JamsNext]_jamVars => JamsInv'
<1> SUFFICES ASSUME JamsInv, [JamsNext]_jamVars PROVE JamsInv'
  OBVIOUS
<1>1. CASE UNCHANGED jamVars
  BY <1>1 DEF jamVars, JamsInv, TableMatches, About, MentionsOf
<1>2. ASSUME NEW jam \in jams, MergeJam(jam) PROVE JamsInv'
  <2>1. jam \in Jams /\ merged \in SUBSET Jams
    BY WazeAssumption DEF WazeAssumption, JamsInv
  <2>2. jam \notin merged /\ merged' = merged \cup {jam} /\ jams' = jams
    BY <1>2 DEF MergeJam
  <2>3. aggregates' = AfterJam(jam, aggregates)
    BY <1>2 DEF MergeJam, AfterJam
  <2> DEFINE m == MentionsOf(merged)
             mm == m \cup {<<jam, i>> : i \in DOMAIN Segments(jam)}
  <2>4. MentionsOf(merged \cup {jam}) = mm
    BY DEF MentionsOf
  <2>5. m \in SUBSET MentionsOf(Jams) /\ \A at \in m : at[1] # jam
    BY <2>1, <2>2 DEF MentionsOf
  <2>6. IsFiniteSet(m) /\ aggregates \in Tables /\ TableMatches(aggregates, m)
    BY DEF JamsInv
  <2> HIDE DEF m
  <2>7. /\ AfterJam(jam, aggregates) \in Tables /\ TableMatches(AfterJam(jam, aggregates), mm)
        /\ IsFiniteSet(mm)
    BY <2>1, <2>5, <2>6, JamAdded
  <2> HIDE DEF mm
  <2>8. jams \in WazeFeeds /\ merged \in SUBSET jams
    BY DEF JamsInv
  <2> QED  BY <2>2, <2>3, <2>4, <2>7, <2>8 DEF JamsInv, TableMatches, About, MentionsOf
<1> QED  BY <1>1, <1>2 DEF JamsNext

-----------------------------------------------------------------------------
(* Waze: in the words of the property *)

\* What an aggregate that matches its places says, in the words of the property.
LEMMA MatchesSays ==
  ASSUME NEW m \in SUBSET MentionsOf(Jams), NEW a, Matches(a, m)
  PROVE  SaysTogether(a, m)
<1> DEFINE delays == {Number(at[1].delay) : at \in m}
           known == {Number(at[1].speed) : at \in m}
           speeds == known \ {0}
           levels == {Number(at[1].level) : at \in m}
           times == {PublishedAt(at[1]) : at \in m}
<1>1. \A x \in m : /\ Number(x[1].delay) \in Int /\ Number(x[1].level) \in Int
                   /\ Number(x[1].speed) \in Nat /\ PublishedAt(x[1]) \in Int
  BY MentionTypes, Types
<1>2. /\ delays \in SUBSET Int /\ known \in SUBSET Nat /\ levels \in SUBSET Int
      /\ times \in SUBSET Int
  BY <1>1
<1>3. a.jamCount = Cardinality(m)
  BY DEF Matches
<1>4. a.length = LengthOf(m)
  BY DEF Matches
<1>5. a.delay = IF -1 \in delays THEN -1 ELSE Max(delays)
  <2>1. a.delay \in delays /\ \A d \in delays : ~IsGreaterDelay(d, a.delay)
    BY DEF Matches, DelayMatches
  <2> HIDE DEF delays
  <2>2. a.delay \in Int
    BY <1>2, <2>1
  <2>3. CASE -1 \in delays
    BY <2>1, <2>2, <2>3 DEF IsGreaterDelay
  <2>4. CASE -1 \notin delays
    <3>1. a.delay # -1
      BY <2>1, <2>4
    <3>2. ASSUME NEW d \in delays PROVE a.delay >= d
      <4>1. d # -1 /\ d \in Int /\ ~IsGreaterDelay(d, a.delay)
        BY <1>2, <2>1, <2>4
      <4> QED  BY <2>2, <3>1, <4>1 DEF IsGreaterDelay
    <3>3. Max(delays) = a.delay
      BY <1>2, <2>1, <3>2, MaxIs
    <3> QED  BY <2>4, <3>3
  <2> QED  BY <2>3, <2>4
<1>6. a.level = Max(levels)
  <2>1. a.level \in levels /\ \A y \in levels : a.level >= y
    BY DEF Matches, LevelMatches
  <2> HIDE DEF levels
  <2> QED  BY <1>2, <2>1, MaxIs
<1>7. a.time = Max(times)
  <2>1. a.time \in times /\ \A y \in times : a.time >= y
    BY DEF Matches, TimeMatches
  <2> HIDE DEF times
  <2> QED  BY <1>2, <2>1, MaxIs
<1>8. a.speed = IF speeds = {} THEN 0 ELSE Min(speeds)
  <2>1. a.speed \in known /\ \A y \in known : y # 0 => a.speed # 0 /\ a.speed <= y
    BY DEF Matches, SpeedMatches
  <2> HIDE DEF known
  <2>2. CASE speeds = {}
    BY <2>1, <2>2
  <2>3. CASE speeds # {}
    <3>1. a.speed \in speeds /\ \A y \in speeds : a.speed <= y
      BY <2>1, <2>3
    <3>2. speeds \in SUBSET Int
      BY <1>2
    <3> HIDE DEF speeds
    <3> QED  BY <2>3, <3>1, <3>2, MinIs
  <2> QED  BY <2>2, <2>3
<1>9. RawJamsMatch(a.rawJams, m)
  <2> DEFINE raws == a.rawJams
  <2>1. /\ Len(raws) = Cardinality(m)
        /\ \A x : Cardinality(Same(raws, x)) = Cardinality(RawAt(m, x))
        /\ InOrder(KeysOf(raws), Len(raws))
    BY DEF Matches, RawsMatch
  <2>2. raws \in Seq(RawJams) /\ Len(raws) \in Nat
    BY LenProperties DEF Matches, Aggregates
  <2> HIDE DEF raws
  <2>3. ASSUME NEW i \in 1 .. Len(raws) - 1 PROVE ~LexLess(RawKey(raws[i + 1]), RawKey(raws[i]))
    <3>1. i \in 1 .. Len(raws) /\ i + 1 \in 1 .. Len(raws)
      BY <2>2
    <3>2. KeysOf(raws)[i] = RawKey(raws[i]) /\ KeysOf(raws)[i + 1] = RawKey(raws[i + 1])
      BY <3>1 DEF KeysOf
    <3>3. ~LexLess(KeysOf(raws)[i + 1], KeysOf(raws)[i])
      BY <2>1 DEF InOrder
    <3> QED  BY <3>2, <3>3
  <2>4. ASSUME NEW i \in DOMAIN raws
        PROVE  Cardinality({j \in DOMAIN raws : raws[j] = raws[i]})
                 = Cardinality({at \in m : RawJam(at[1]) = raws[i]})
    <3>1. Cardinality(Same(raws, raws[i])) = Cardinality(RawAt(m, raws[i]))
      BY <2>1
    <3> QED  BY <3>1 DEF Same, RawAt
  <2> QED  BY <2>1, <2>3, <2>4 DEF RawJamsMatch, raws
<1>10. \E at \in m : a.tags = Aggregate(at[1], Segments(at[1])[at[2]]).tags
  BY DEF Matches, AddedAt, SegmentAt
<1> QED  BY <1>3, <1>4, <1>5, <1>6, <1>7, <1>8, <1>9, <1>10 DEF SaysTogether

LEMMA JamsInvSays == JamsInv => AggregatesMatchJams
<1> SUFFICES ASSUME JamsInv PROVE AggregatesMatchJams
  OBVIOUS
<1> DEFINE mentioned == {at[2] : at \in UNION {{<<jam, UIDOfSegment(Segments(jam)[i])>> :
                                             i \in DOMAIN Segments(jam)} : jam \in merged}}
<1>1. merged \in SUBSET Jams
  BY WazeAssumption DEF WazeAssumption, JamsInv
<1>2. MentionsOf(merged) \in SUBSET MentionsOf(Jams)
  BY <1>1 DEF MentionsOf
<1>3. mentioned = {UIDAt(at) : at \in MentionsOf(merged)}
  <2>1. ASSUME NEW jam \in merged, NEW i \in DOMAIN Segments(jam)
        PROVE  /\ UIDAt(<<jam, i>>) = UIDOfSegment(Segments(jam)[i])
               /\ <<jam, i>> \in MentionsOf(merged)
    BY DEF MentionsOf, UIDAt, SegmentAt
  <2>2. \A u \in mentioned : \E jam \in merged : \E i \in DOMAIN Segments(jam) :
          u = UIDOfSegment(Segments(jam)[i])
    OBVIOUS
  <2>3. \A jam \in merged : \A i \in DOMAIN Segments(jam) :
          UIDOfSegment(Segments(jam)[i]) \in mentioned
    <3> SUFFICES ASSUME NEW jam \in merged, NEW i \in DOMAIN Segments(jam)
                 PROVE  UIDOfSegment(Segments(jam)[i]) \in mentioned
      OBVIOUS
    <3> DEFINE at == <<jam, UIDOfSegment(Segments(jam)[i])>>
    <3>1. at \in UNION {{<<j, UIDOfSegment(Segments(j)[k])>> : k \in DOMAIN Segments(j)} : j \in merged}
      OBVIOUS
    <3>2. at[2] = UIDOfSegment(Segments(jam)[i])
      OBVIOUS
    <3> QED  BY <3>1, <3>2
  <2>4. \A at \in MentionsOf(merged) : \E jam \in merged : \E i \in DOMAIN Segments(jam) :
          at = <<jam, i>>
    BY DEF MentionsOf
  <2> HIDE DEF mentioned
  <2>5. ASSUME NEW u \in mentioned PROVE \E at \in MentionsOf(merged) : u = UIDAt(at)
    <3>1. PICK jam \in merged : \E i \in DOMAIN Segments(jam) : u = UIDOfSegment(Segments(jam)[i])
      BY <2>2
    <3>2. PICK i \in DOMAIN Segments(jam) : u = UIDOfSegment(Segments(jam)[i])
      BY <3>1
    <3>3. u = UIDAt(<<jam, i>>) /\ <<jam, i>> \in MentionsOf(merged)
      BY <2>1, <3>2
    <3> QED  BY <3>3
  <2>6. \A at \in MentionsOf(merged) : UIDAt(at) \in mentioned
    BY <2>1, <2>3, <2>4
  <2> QED  BY <2>5, <2>6
<1>4. DOMAIN aggregates = mentioned
  BY <1>3 DEF JamsInv, TableMatches
<1>5. ASSUME NEW uid \in mentioned
      PROVE  /\ Mentions(uid) \in SUBSET MentionsOf(Jams)
             /\ Matches(aggregates[uid], Mentions(uid))
  <2>1. Mentions(uid) = About(MentionsOf(merged), uid)
    BY DEF Mentions, About, MentionsOf, UIDAt, SegmentAt
  <2> QED  BY <1>2, <1>4, <2>1 DEF JamsInv, TableMatches, About
<1> HIDE DEF mentioned
<1>6. ASSUME NEW uid \in mentioned PROVE SaysTogether(aggregates[uid], Mentions(uid))
  BY <1>5, MatchesSays
<1> QED  BY <1>4, <1>6 DEF AggregatesMatchJams, mentioned

\* Whatever the order of the jams, the aggregate of a device says what the jams say together.
THEOREM AggregatesCorrect == JamsSpec => []AggregatesMatchJams
<1>1. JamsInit => JamsInv
  BY JamsInitInv
<1>2. JamsInv /\ [JamsNext]_jamVars => JamsInv'
  BY JamsNextInv
<1>3. JamsInv => AggregatesMatchJams
  BY JamsInvSays
<1> QED  BY <1>1, <1>2, <1>3, PTL DEF JamsSpec

-----------------------------------------------------------------------------
(* MHD: squares and fractions *)

LEMMA TimesFacts ==
  \A x, y \in Int : /\ x * y \in Int /\ x * y = y * x /\ x * 0 = 0 /\ 0 * x = 0
                    /\ (x > 0 /\ y > 0 => x * y > 0) /\ (x >= 0 /\ y >= 0 => x * y >= 0)
                    /\ (x >= 0 /\ y <= 0 => x * y <= 0)
OBVIOUS

LEMMA SquareFacts == \A x \in Int : Square(x) \in Nat /\ (Square(x) = 0 <=> x = 0) /\ Square(-x) = Square(x)
BY DEF Square

\* A fraction as the distances are: a pair of a natural number and a positive one.
Fractions == {d \in Int \X Int : d[1] >= 0 /\ d[2] > 0}

LEMMA FractionsOrdered ==
  ASSUME NEW d \in Fractions, NEW e \in Fractions, NEW f \in Fractions,
         ~Nearer(d, e), ~Nearer(e, f)
  PROVE  ~Nearer(d, f)
<1> DEFINE d1 == d[1]
           d2 == d[2]
           e1 == e[1]
           e2 == e[2]
           f1 == f[1]
           f2 == f[2]
<1>1. /\ d1 \in Int /\ d2 \in Int /\ e1 \in Int /\ e2 \in Int /\ f1 \in Int /\ f2 \in Int
      /\ d2 > 0 /\ e2 > 0 /\ f2 > 0
  BY DEF Fractions
<1>2. d1 * e2 >= e1 * d2 /\ e1 * f2 >= f1 * e2
  BY <1>1 DEF Nearer
<1>3. SUFFICES ASSUME d1 * f2 < f1 * d2 PROVE FALSE
  BY DEF Nearer
<1> HIDE DEF d1, d2, e1, e2, f1, f2
<1>4. (d1 * e2) * f2 >= (e1 * d2) * f2
  <2>1. (d1 * e2 - e1 * d2) * f2 >= 0
    BY <1>1, <1>2, TimesFacts
  <2> QED  BY <1>1, <2>1
<1>5. (e1 * f2) * d2 >= (f1 * e2) * d2
  <2>1. (e1 * f2 - f1 * e2) * d2 >= 0
    BY <1>1, <1>2, TimesFacts
  <2> QED  BY <1>1, <2>1
<1>6. (d1 * f2) * e2 < (f1 * d2) * e2
  <2>1. (f1 * d2 - d1 * f2) * e2 > 0
    BY <1>1, <1>3, TimesFacts
  <2> QED  BY <1>1, <2>1
<1>7. /\ (d1 * e2) * f2 = (d1 * f2) * e2 /\ (e1 * d2) * f2 = (e1 * f2) * d2
      /\ (f1 * e2) * d2 = (f1 * d2) * e2
  BY <1>1
<1>8. /\ (d1 * e2) * f2 \in Int /\ (e1 * d2) * f2 \in Int /\ (f1 * e2) * d2 \in Int
  BY <1>1
<1> QED  BY <1>4, <1>5, <1>6, <1>7, <1>8

-----------------------------------------------------------------------------
(* MHD: the distance of a leg *)

\* Where a point is from the beginning of a leg (x, y), and where its end is (v, h).
Product(x, y, v, h) == x * v + y * h
Norm(x, y) == Square(x) + Square(y)

LEMMA NormFacts ==
  ASSUME NEW x \in Int, NEW y \in Int
  PROVE  Norm(x, y) \in Nat /\ (Norm(x, y) = 0 => x = 0 /\ y = 0)
BY SquareFacts DEF Norm

\* How far the end of the m-th of n parts is.
LEMMA PartIs ==
  ASSUME NEW x \in Int, NEW y \in Int, NEW v \in Int, NEW h \in Int, NEW n \in Int, NEW m \in Int
  PROVE  Norm(n * x - m * v, n * y - m * h)
           = (n * n) * Norm(x, y) - 2 * ((n * m) * Product(x, y, v, h)) + (m * m) * Norm(v, h)
<1>1. \A a, b \in Int : Square(n * a - m * b)
                          = (n * n) * Square(a) - 2 * ((n * m) * (a * b)) + (m * m) * Square(b)
  BY DEF Square
<1>2. /\ Square(n * x - m * v) = (n * n) * Square(x) - 2 * ((n * m) * (x * v)) + (m * m) * Square(v)
      /\ Square(n * y - m * h) = (n * n) * Square(y) - 2 * ((n * m) * (y * h)) + (m * m) * Square(h)
  BY <1>1
<1>3. \A k, a, b \in Int : k * (a + b) = k * a + k * b
  OBVIOUS
<1>4. /\ Square(x) \in Int /\ Square(y) \in Int /\ Square(v) \in Int /\ Square(h) \in Int
      /\ n * n \in Int /\ n * m \in Int /\ m * m \in Int /\ x * v \in Int /\ y * h \in Int
  BY SquareFacts, TimesFacts
<1>5. /\ (n * n) * Norm(x, y) = (n * n) * Square(x) + (n * n) * Square(y)
      /\ (n * m) * Product(x, y, v, h) = (n * m) * (x * v) + (n * m) * (y * h)
      /\ (m * m) * Norm(v, h) = (m * m) * Square(v) + (m * m) * Square(h)
  BY <1>3, <1>4 DEF Norm, Product
<1>6. /\ (n * n) * Square(x) \in Int /\ (n * n) * Square(y) \in Int /\ (n * m) * (x * v) \in Int
      /\ (n * m) * (y * h) \in Int /\ (m * m) * Square(v) \in Int /\ (m * m) * Square(h) \in Int
  BY <1>4, TimesFacts
<1>7. Norm(n * x - m * v, n * y - m * h)
        = ((n * n) * Square(x) - 2 * ((n * m) * (x * v)) + (m * m) * Square(v))
            + ((n * n) * Square(y) - 2 * ((n * m) * (y * h)) + (m * m) * Square(h))
  BY <1>2 DEF Norm
<1> QED  BY <1>5, <1>6, <1>7

\* Along and across a leg.
LEMMA AlongAcross ==
  ASSUME NEW x \in Int, NEW y \in Int, NEW v \in Int, NEW h \in Int
  PROVE  Norm(x, y) * Norm(v, h) = Square(Product(x, y, v, h)) + Square(x * h - y * v)
<1> DEFINE p == x * v
           q == y * h
           r == x * h
           s == y * v
<1>1. p \in Int /\ q \in Int /\ r \in Int /\ s \in Int /\ p * q = r * s
  <2>1. (x * v) * (y * h) = (x * h) * (y * v)
    OBVIOUS
  <2> QED  BY <2>1, TimesFacts
<1>2. Norm(x, y) * Norm(v, h) = p * p + r * r + s * s + q * q
  BY DEF Norm, Square
<1> HIDE DEF p, q, r, s
<1>3. Square(p + q) = p * p + 2 * (p * q) + q * q /\ Square(r - s) = r * r - 2 * (r * s) + s * s
  BY <1>1 DEF Square
<1>4. p * p \in Int /\ q * q \in Int /\ r * r \in Int /\ s * s \in Int /\ p * q \in Int /\ r * s \in Int
  BY <1>1, TimesFacts
<1>5. Product(x, y, v, h) = p + q /\ x * h - y * v = r - s
  BY DEF Product, p, q, r, s
<1> QED  BY <1>1, <1>2, <1>3, <1>4, <1>5

\* The distance of a leg as pointToSegmentDistanceSquared computes it, and that
\* of the m-th of n parts.
Reach(x, y, v, h) ==
  CASE Product(x, y, v, h) <= 0 -> <<Norm(x, y), 1>>
    [] Product(x, y, v, h) > Norm(v, h) -> <<Norm(x - v, y - h), 1>>
    [] OTHER -> <<Square(x * h - y * v), Norm(v, h)>>

Part(n, m, x, y, v, h) == <<Norm(n * x - m * v, n * y - m * h), n * n>>

LEMMA ReachIs ==
  ASSUME NEW x \in Int, NEW y \in Int, NEW v \in Int, NEW h \in Int
  PROVE  /\ Reach(x, y, v, h) \in Fractions /\ Product(x, y, v, h) \in Int
         /\ Product(x, y, v, h) <= 0 => Reach(x, y, v, h) = <<Norm(x, y), 1>>
         /\ Product(x, y, v, h) > Norm(v, h) =>
              Reach(x, y, v, h) = <<Norm(x, y) - 2 * Product(x, y, v, h) + Norm(v, h), 1>>
         /\ Product(x, y, v, h) > 0 /\ Product(x, y, v, h) <= Norm(v, h) =>
              /\ Reach(x, y, v, h) = <<Square(x * h - y * v), Norm(v, h)>>
              /\ Norm(v, h) > 0
<1> DEFINE A == Product(x, y, v, h)
           L == Norm(v, h)
           C == x * h - y * v
<1>1. A \in Int /\ C \in Int /\ L \in Nat /\ Norm(x, y) \in Nat /\ Norm(x - v, y - h) \in Nat
  <2>1. x - v \in Int /\ y - h \in Int /\ x * v \in Int /\ y * h \in Int /\ x * h \in Int /\ y * v \in Int
    BY TimesFacts
  <2> QED  BY <2>1, NormFacts DEF Product
<1>2. Norm(x - v, y - h) = Norm(x, y) - 2 * A + L
  <2>1. Norm(1 * x - 1 * v, 1 * y - 1 * h)
          = (1 * 1) * Norm(x, y) - 2 * ((1 * 1) * A) + (1 * 1) * L
    <3>1. ASSUME NEW n \in Int, NEW m \in Int
          PROVE  Norm(n * x - m * v, n * y - m * h) = (n * n) * Norm(x, y) - 2 * ((n * m) * A) + (m * m) * L
      BY <3>1, PartIs
    <3>2. 1 \in Int
      OBVIOUS
    <3> HIDE DEF A, L
    <3> QED  BY <3>1, <3>2, Zenon
  <2>2. 1 * x = x /\ 1 * v = v /\ 1 * y = y /\ 1 * h = h /\ 1 * 1 = 1
    OBVIOUS
  <2> HIDE DEF A, L
  <2>3. Norm(x - v, y - h) = 1 * Norm(x, y) - 2 * (1 * A) + 1 * L
    BY <2>1, <2>2, Zenon
  <2> QED  BY <1>1, <2>3
<1>3. Square(C) \in Nat
  BY <1>1, SquareFacts
<1>4. Reach(x, y, v, h) = CASE A <= 0 -> <<Norm(x, y), 1>>
                            [] A > L -> <<Norm(x - v, y - h), 1>>
                            [] OTHER -> <<Square(C), L>>
  BY DEF Reach
<1> HIDE DEF A, L, C
<1>5. CASE A <= 0
  <2>1. Reach(x, y, v, h) = <<Norm(x, y), 1>> /\ ~(A > L) /\ ~(A > 0)
    BY <1>1, <1>4, <1>5
  <2> QED  BY <1>1, <1>5, <2>1 DEF Fractions, A, L
<1>6. CASE A > L
  <2>1. Reach(x, y, v, h) = <<Norm(x - v, y - h), 1>> /\ ~(A <= 0) /\ ~(A <= L)
    BY <1>1, <1>4, <1>6
  <2> QED  BY <1>1, <1>2, <1>6, <2>1 DEF Fractions, A, L
<1>7. CASE A > 0 /\ A <= L
  <2>1. Reach(x, y, v, h) = <<Square(C), L>> /\ ~(A <= 0) /\ ~(A > L) /\ L > 0
    BY <1>1, <1>4, <1>7
  <2> QED  BY <1>1, <1>3, <1>7, <2>1 DEF Fractions, A, L, C
<1> QED  BY <1>1, <1>5, <1>6, <1>7

LEMMA PartType ==
  ASSUME NEW x \in Int, NEW y \in Int, NEW v \in Int, NEW h \in Int, NEW n \in Nat \ {0}, NEW m \in Int
  PROVE  Part(n, m, x, y, v, h) \in Fractions
<1>1. n * x - m * v \in Int /\ n * y - m * h \in Int
  BY TimesFacts
<1>2. n * n \in Int /\ n * n > 0
  BY TimesFacts
<1>3. Norm(n * x - m * v, n * y - m * h) \in Nat
  BY <1>1, NormFacts
<1> QED  BY <1>2, <1>3 DEF Part, Fractions

\* No point of a leg is nearer than the leg is said to be.
LEMMA NoPartNearer ==
  ASSUME NEW x \in Int, NEW y \in Int, NEW v \in Int, NEW h \in Int, NEW n \in Nat \ {0}, NEW m \in 0 .. n
  PROVE  ~Nearer(Part(n, m, x, y, v, h), Reach(x, y, v, h))
<1> DEFINE A == Product(x, y, v, h)
           U == Norm(x, y)
           L == Norm(v, h)
           C == x * h - y * v
           P == Norm(n * x - m * v, n * y - m * h)
           N == n * n
           K == n * m
           M == m * m
<1>1. /\ A \in Int /\ U \in Nat /\ L \in Nat /\ C \in Int /\ Square(C) \in Nat /\ m \in Nat /\ m <= n
      /\ N \in Int /\ K \in Int /\ M \in Int /\ K >= 0
  BY ReachIs, NormFacts, SquareFacts, TimesFacts
<1>2. P = N * U - 2 * (K * A) + M * L
  BY PartIs
<1>3. /\ N * U \in Int /\ K * A \in Int /\ M * L \in Int /\ P \in Int /\ M * L >= 0
  <2>1. M >= 0
    BY <1>1, TimesFacts
  <2> QED  BY <1>1, <1>2, <2>1, TimesFacts
<1>4. U * L = A * A + C * C
  BY AlongAcross DEF Square
<1>5. Part(n, m, x, y, v, h) = <<P, N>>
  BY DEF Part
<1>6. CASE A <= 0
  <2>1. Reach(x, y, v, h) = <<U, 1>>
    BY <1>6, ReachIs
  <2>2. K * A <= 0
    BY <1>1, <1>6, TimesFacts
  <2>3. P >= N * U
    BY <1>2, <1>3, <2>2
  <2> HIDE DEF P, N, U
  <2>4. P * 1 = P /\ U * N = N * U
    BY <1>1, <1>3
  <2>5. ~(P * 1 < U * N)
    BY <1>3, <2>3, <2>4
  <2> QED  BY <1>5, <2>1, <2>5 DEF Nearer
<1>7. CASE A > L
  <2> DEFINE e == U - 2 * A + L
  <2>1. Reach(x, y, v, h) = <<e, 1>>
    BY <1>7, ReachIs
  <2>2. N * e = N * U - 2 * (N * A) + N * L
    <3> HIDE DEF N, U, A, L
    <3> QED  BY <1>1
  <2>3. P - N * e = 2 * (N * A - K * A) - (N * L - M * L)
    <3>1. N * A \in Int /\ N * L \in Int
      BY <1>1, TimesFacts
    <3> HIDE DEF P, N, U, A, L, K, M, e
    <3> QED  BY <1>2, <1>3, <2>2, <3>1
  <2>4. N * A - K * A = (n - m) * (n * A) /\ N * L - M * L = (n - m) * (n * L + m * L)
    <3> HIDE DEF A, L
    <3> QED  BY <1>1
  <2>5. n * A >= n * L /\ n * A >= m * L /\ n * A \in Int /\ n * L \in Int /\ m * L \in Int
    <3>1. n * (A - L) >= 0 /\ (n - m) * L >= 0
      BY <1>1, <1>7, TimesFacts
    <3>2. n * (A - L) = n * A - n * L /\ (n - m) * L = n * L - m * L
      <4> HIDE DEF A, L
      <4> QED  BY <1>1
    <3>3. n * A \in Int /\ n * L \in Int /\ m * L \in Int
      BY <1>1, TimesFacts
    <3> QED  BY <3>1, <3>2, <3>3
  <2>6. (n - m) * (2 * (n * A) - (n * L + m * L)) >= 0
    <3>1. n - m >= 0 /\ n - m \in Int /\ 2 * (n * A) - (n * L + m * L) >= 0 /\ 2 * (n * A) - (n * L + m * L) \in Int
      <4> HIDE DEF A, L
      <4> QED  BY <1>1, <2>5
    <3> QED  BY <3>1, TimesFacts
  <2>7. P - N * e >= 0
    <3>1. \A k, a, b \in Int : 2 * (k * a) - k * b = k * (2 * a - b)
      OBVIOUS
    <3>2. 2 * ((n - m) * (n * A)) - (n - m) * (n * L + m * L) = (n - m) * (2 * (n * A) - (n * L + m * L))
      BY <1>1, <2>5, <3>1
    <3> QED  BY <2>3, <2>4, <2>6, <3>2
  <2>8. N * e \in Int /\ e \in Int
    <3>1. e \in Int
      BY <1>1
    <3> QED  BY <1>1, <3>1, TimesFacts
  <2> HIDE DEF P, N, e
  <2>9. P * 1 = P /\ e * N = N * e
    BY <1>1, <1>3, <2>8
  <2>10. ~(P * 1 < e * N)
    BY <1>3, <2>7, <2>8, <2>9
  <2> QED  BY <1>5, <2>1, <2>10 DEF Nearer
<1>8. CASE A > 0 /\ A <= L
  <2>1. Reach(x, y, v, h) = <<Square(C), L>>
    BY <1>8, ReachIs
  <2>2. P * L = N * (U * L) - 2 * ((K * A) * L) + (M * L) * L
    <3>1. P * L = (N * U - 2 * (K * A) + M * L) * L
      BY <1>2
    <3> HIDE DEF P, N, U, A, L, K, M
    <3> QED  BY <1>1, <3>1
  <2>3. N * (U * L) = N * (A * A) + N * (C * C)
    <3>1. A * A \in Int /\ C * C \in Int
      BY <1>1, TimesFacts
    <3>2. \A k, a, b \in Int : k * (a + b) = k * a + k * b
      OBVIOUS
    <3> QED  BY <1>1, <1>4, <3>1, <3>2
  <2>4. N * (A * A) - 2 * ((K * A) * L) + (M * L) * L = Square(n * A - m * L)
    <3> HIDE DEF A, L
    <3> QED  BY <1>1 DEF Square
  <2>5. Square(n * A - m * L) >= 0
    <3>1. n * A - m * L \in Int
      BY <1>1, TimesFacts
    <3> QED  BY <3>1, SquareFacts
  <2>6. /\ N * (A * A) \in Int /\ N * (C * C) \in Int /\ (K * A) * L \in Int /\ (M * L) * L \in Int
    <3>1. A * A \in Int /\ C * C \in Int
      BY <1>1, TimesFacts
    <3> QED  BY <1>1, <1>3, <3>1, TimesFacts
  <2>7. P * L >= N * (C * C)
    <3> HIDE DEF P, N, U, A, L, K, M, C
    <3> QED  BY <2>2, <2>3, <2>4, <2>5, <2>6
  <2>8. Square(C) * N = N * (C * C)
    <3>1. Square(C) = C * C /\ C * C \in Int
      BY <1>1, TimesFacts DEF Square
    <3> QED  BY <1>1, <3>1, TimesFacts
  <2> HIDE DEF P, N, U, A, L, K, M, C
  <2>9. P * L \in Int
    BY <1>1, <1>3, TimesFacts
  <2>10. ~(P * L < Square(C) * N)
    BY <2>6, <2>7, <2>8, <2>9
  <2> QED  BY <1>5, <2>1, <2>10 DEF Nearer
<1> QED  BY <1>1, <1>6, <1>7, <1>8

\* One of the points is as near as that.
LEMMA SomePartAsNear ==
  ASSUME NEW x \in Int, NEW y \in Int, NEW v \in Int, NEW h \in Int,
         NEW n \in Nat \ {0}, Norm(v, h) # 0 => n = Norm(v, h)
  PROVE  \E m \in 0 .. n : ~Nearer(Reach(x, y, v, h), Part(n, m, x, y, v, h))
<1> DEFINE A == Product(x, y, v, h)
           U == Norm(x, y)
           L == Norm(v, h)
           C == x * h - y * v
<1>1. /\ A \in Int /\ U \in Nat /\ L \in Nat /\ C \in Int /\ Square(C) \in Nat
      /\ n \in Nat \ {0} /\ n * n \in Int
  <2>1. L \in Nat /\ U \in Nat /\ A \in Int /\ C \in Int
    <3>1. L \in Nat /\ U \in Nat
      BY NormFacts
    <3>2. A \in Int
      BY ReachIs
    <3>3. C \in Int
      BY TimesFacts
    <3> QED  BY <3>1, <3>2, <3>3
  <2> QED  BY <2>1, SquareFacts, TimesFacts
<1>2. ASSUME NEW m \in Int
      PROVE  Norm(n * x - m * v, n * y - m * h) = (n * n) * U - 2 * ((n * m) * A) + (m * m) * L
  BY <1>1, <1>2, PartIs
<1>3. CASE A <= 0
  <2>1. Reach(x, y, v, h) = <<U, 1>>
    BY <1>3, ReachIs
  <2>2. Part(n, 0, x, y, v, h) = <<(n * n) * U, n * n>>
    <3>1. Norm(n * x - 0 * v, n * y - 0 * h) = (n * n) * U - 2 * ((n * 0) * A) + (0 * 0) * L
      <4>1. 0 \in Int
        OBVIOUS
      <4> HIDE DEF A, U, L
      <4> QED  BY <1>2, <4>1, Zenon
    <3>2. n * 0 = 0 /\ 0 * 0 = 0 /\ 0 * A = 0 /\ 0 * L = 0 /\ (n * n) * U \in Int
      BY <1>1, TimesFacts
    <3> QED  BY <3>1, <3>2 DEF Part
  <2>3. ~(U * (n * n) < ((n * n) * U) * 1)
    <3>1. U * (n * n) = (n * n) * U /\ (n * n) * U \in Int
      BY <1>1, TimesFacts
    <3> QED  BY <3>1
  <2>4. ~Nearer(Reach(x, y, v, h), Part(n, 0, x, y, v, h))
    BY <2>1, <2>2, <2>3 DEF Nearer
  <2> QED  BY <1>1, <2>4
<1>4. CASE A > L
  <2> DEFINE e == U - 2 * A + L
  <2>1. Reach(x, y, v, h) = <<e, 1>>
    BY <1>4, ReachIs
  <2>2. Part(n, n, x, y, v, h) = <<(n * n) * e, n * n>>
    <3>1. Norm(n * x - n * v, n * y - n * h) = (n * n) * U - 2 * ((n * n) * A) + (n * n) * L
      <4>1. n \in Int
        BY <1>1
      <4> HIDE DEF A, U, L
      <4> QED  BY <1>2, <4>1, Zenon
    <3>2. \A N, a, b, c \in Int : N * a - 2 * (N * b) + N * c = N * (a - 2 * b + c)
      OBVIOUS
    <3>3. (n * n) * U - 2 * ((n * n) * A) + (n * n) * L = (n * n) * e
      BY <1>1, <3>2
    <3> QED  BY <3>1, <3>3 DEF Part
  <2>3. ~(e * (n * n) < ((n * n) * e) * 1)
    <3>1. e \in Int
      BY <1>1
    <3>2. e * (n * n) = (n * n) * e /\ (n * n) * e \in Int
      BY <1>1, <3>1, TimesFacts
    <3> QED  BY <3>2
  <2>4. ~Nearer(Reach(x, y, v, h), Part(n, n, x, y, v, h))
    BY <2>1, <2>2, <2>3 DEF Nearer
  <2> QED  BY <1>1, <2>4
<1>5. CASE A > 0 /\ A <= L
  <2>1. Reach(x, y, v, h) = <<Square(C), L>> /\ L > 0 /\ n = L
    <3>1. Reach(x, y, v, h) = <<Square(C), L>> /\ L > 0
      BY <1>5, ReachIs
    <3> HIDE DEF A, L, C
    <3>2. L # 0
      BY <1>1, <3>1
    <3>3. n = L
      BY <3>2 DEF L
    <3> QED  BY <3>1, <3>3
  <2>2. A \in 0 .. n
    BY <1>1, <1>5, <2>1
  <2>3. Norm(n * x - A * v, n * y - A * h) = L * (C * C)
    <3>1. Norm(n * x - A * v, n * y - A * h) = (L * L) * U - 2 * ((L * A) * A) + (A * A) * L
      BY <1>1, <1>2, <2>1
    <3>2. U * L = A * A + C * C
      BY AlongAcross DEF Square
    <3>3. (L * L) * U = L * (U * L) /\ (L * A) * A = L * (A * A) /\ (A * A) * L = L * (A * A)
      <4> HIDE DEF A, L, U
      <4> QED  BY <1>1
    <3>4. A * A \in Int /\ C * C \in Int
      BY <1>1, TimesFacts
    <3>5. \A a, b \in Int : L * (a + b) = L * a + L * b
      BY <1>1
    <3>6. (L * L) * U = L * (A * A) + L * (C * C)
      BY <3>2, <3>3, <3>4, <3>5
    <3>7. L * (A * A) \in Int /\ L * (C * C) \in Int
      BY <1>1, <3>4, TimesFacts
    <3> HIDE DEF A, L, U, C
    <3> QED  BY <3>1, <3>3, <3>6, <3>7
  <2>4. Part(n, A, x, y, v, h) = <<L * (C * C), L * L>>
    BY <2>1, <2>3 DEF Part
  <2>5. Square(C) * (L * L) = (L * (C * C)) * L /\ Square(C) * (L * L) \in Int
    <3>1. Square(C) = C * C /\ L * L \in Int
      BY <1>1, TimesFacts DEF Square
    <3>2. (C * C) * (L * L) = (L * (C * C)) * L
      <4> HIDE DEF C, L
      <4> QED  BY <1>1
    <3> QED  BY <1>1, <3>1, <3>2, TimesFacts
  <2>6. ~Nearer(Reach(x, y, v, h), Part(n, A, x, y, v, h))
    BY <2>1, <2>4, <2>5 DEF Nearer
  <2> QED  BY <1>1, <2>2, <2>6
<1> QED  BY <1>1, <1>3, <1>4, <1>5

-----------------------------------------------------------------------------
(* MHD: the legs of a route *)

PlacedLegs(stops) == {i \in 1 .. Len(stops) - 1 : ValidCoords(stops[i]) /\ ValidCoords(stops[i + 1])}
LegDistance(stops, i, p) == DistanceToSegment(stops[i], stops[i + 1], p)

LEMMA StopFields == \A s \in Stops : s.lat \in Int /\ s.lng \in Int
BY DEF Stops

\* The distance of a leg is a fraction, and in terms of differences it is Reach.
LEMMA DistanceIs ==
  ASSUME NEW a, NEW b, NEW p, a.lat \in Int, a.lng \in Int, b.lat \in Int, b.lng \in Int,
         p.lat \in Int, p.lng \in Int
  PROVE  /\ DistanceToSegment(a, b, p)
              = Reach(p.lat - a.lat, p.lng - a.lng, b.lat - a.lat, b.lng - a.lng)
         /\ DistanceToSegment(a, b, p) \in Fractions
<1> DEFINE x == p.lat - a.lat
           y == p.lng - a.lng
           v == b.lat - a.lat
           h == b.lng - a.lng
<1>1. x \in Int /\ y \in Int /\ v \in Int /\ h \in Int /\ x - v \in Int /\ y - h \in Int
  OBVIOUS
<1>2. Along(a, b, p) = Product(x, y, v, h) /\ LengthSquared(a, b) = Norm(v, h)
  BY DEF Along, Product, LengthSquared, Norm
<1>3. DistanceOfPoints(a, p) = <<Norm(x, y), 1>>
  <2>1. a.lat - p.lat = -x /\ a.lng - p.lng = -y
    OBVIOUS
  <2>2. Square(-x) = Square(x) /\ Square(-y) = Square(y)
    BY <1>1, SquareFacts
  <2> QED  BY <2>1, <2>2 DEF DistanceOfPoints, Norm
<1>4. DistanceOfPoints(b, p) = <<Norm(x - v, y - h), 1>>
  <2>1. b.lat - p.lat = -(x - v) /\ b.lng - p.lng = -(y - h)
    OBVIOUS
  <2>2. Square(-(x - v)) = Square(x - v) /\ Square(-(y - h)) = Square(y - h)
    BY <1>1, SquareFacts
  <2> QED  BY <2>1, <2>2 DEF DistanceOfPoints, Norm
<1>5. Square(Across(a, b, p)) = Square(x * h - y * v)
  BY DEF Across
<1>6. DistanceToSegment(a, b, p) = Reach(x, y, v, h)
  BY <1>2, <1>3, <1>4, <1>5 DEF DistanceToSegment, Reach
<1> HIDE DEF x, y, v, h
<1>7. Reach(x, y, v, h) \in Fractions
  BY <1>1, ReachIs
<1> QED  BY <1>6, <1>7 DEF x, y, v, h

\* The property's word for it: one leg is as near as another.
LEMMA AsNearIs ==
  ASSUME route.stops \in Seq(Stops), NEW i \in 1 .. Len(route.stops) - 1,
         NEW j \in 1 .. Len(route.stops) - 1, NEW p, p.lat \in Int, p.lng \in Int
  PROVE  /\ LegDistance(route.stops, i, p) \in Fractions
         /\ AsNear(i, j, p) <=> ~Nearer(LegDistance(route.stops, j, p), LegDistance(route.stops, i, p))
<1> DEFINE S == route.stops
           Dist(k) == LegDistance(S, k, p)
           PartPoint(k, m) == DistanceOfPart(k, Parted(k), m, p)
<1>1. ASSUME NEW k \in 1 .. Len(S) - 1
      PROVE  /\ Dist(k) \in Fractions
             /\ \A m \in 0 .. Parted(k) : PartPoint(k, m) \in Fractions /\ ~Nearer(PartPoint(k, m), Dist(k))
             /\ \E m \in 0 .. Parted(k) : ~Nearer(Dist(k), PartPoint(k, m))
  <2> DEFINE a == S[k]
             b == S[k + 1]
             x == p.lat - a.lat
             y == p.lng - a.lng
             v == b.lat - a.lat
             h == b.lng - a.lng
             n == Parted(k)
  <2>1. a \in Stops /\ b \in Stops
    <3>1. Len(S) \in Nat /\ k \in 1 .. Len(S) /\ k + 1 \in 1 .. Len(S)
      BY LenProperties
    <3> QED  BY <3>1, ElementOfSeq
  <2>2. a.lat \in Int /\ a.lng \in Int /\ b.lat \in Int /\ b.lng \in Int
    BY <2>1, StopFields
  <2>3. x \in Int /\ y \in Int /\ v \in Int /\ h \in Int
    <3> HIDE DEF a, b
    <3> QED  BY <2>2
  <2>4. Dist(k) = Reach(x, y, v, h) /\ Dist(k) \in Fractions
    BY <2>2, DistanceIs DEF LegDistance
  <2>5. \A m : PartPoint(k, m) = Part(n, m, x, y, v, h)
    BY DEF DistanceOfPart, Part, Norm
  <2>6. n = IF Norm(v, h) = 0 THEN 1 ELSE Norm(v, h)
    BY DEF Parted, LengthSquared, Norm
  <2> HIDE DEF a, b, x, y, v, h, n, S, Dist, Points
  <2>7. n \in Nat \ {0} /\ (Norm(v, h) # 0 => n = Norm(v, h))
    <3>1. Norm(v, h) \in Nat
      BY <2>3, NormFacts
    <3> QED  BY <2>6, <3>1
  <2>8. \A m \in 0 .. n : Part(n, m, x, y, v, h) \in Fractions
    BY <2>3, <2>7, PartType
  <2>9. \A m \in 0 .. n : ~Nearer(Part(n, m, x, y, v, h), Reach(x, y, v, h))
    BY <2>3, <2>7, NoPartNearer
  <2>10. \E m \in 0 .. n : ~Nearer(Reach(x, y, v, h), Part(n, m, x, y, v, h))
    BY <2>3, <2>7, SomePartAsNear
  <2>11. (\A m \in 0 .. n : PartPoint(k, m) \in Fractions /\ ~Nearer(PartPoint(k, m), Dist(k)))
         /\ \E m \in 0 .. n : ~Nearer(Dist(k), PartPoint(k, m))
    BY <2>4, <2>5, <2>8, <2>9, <2>10
  <2> QED  BY <2>4, <2>11 DEF n
<1>2. AsNear(i, j, p) <=>
        \A m \in 0 .. Parted(j) : \E k \in 0 .. Parted(i) : ~Nearer(PartPoint(j, m), PartPoint(i, k))
  BY DEF AsNear
<1> HIDE DEF Dist, Points
<1>3. ASSUME AsNear(i, j, p) PROVE ~Nearer(Dist(j), Dist(i))
  <2>1. PICK m \in 0 .. Parted(j) : ~Nearer(Dist(j), PartPoint(j, m))
    BY <1>1
  <2>2. PICK k \in 0 .. Parted(i) : ~Nearer(PartPoint(j, m), PartPoint(i, k))
    BY <1>2, <1>3
  <2>3. /\ ~Nearer(PartPoint(i, k), Dist(i)) /\ PartPoint(i, k) \in Fractions /\ PartPoint(j, m) \in Fractions
        /\ Dist(i) \in Fractions /\ Dist(j) \in Fractions
    BY <1>1
  <2>4. ~Nearer(Dist(j), PartPoint(i, k))
    BY <2>1, <2>2, <2>3, FractionsOrdered
  <2> QED  BY <2>3, <2>4, FractionsOrdered
<1>4. ASSUME ~Nearer(Dist(j), Dist(i)) PROVE AsNear(i, j, p)
  <2> SUFFICES ASSUME NEW m \in 0 .. Parted(j)
               PROVE  \E k \in 0 .. Parted(i) : ~Nearer(PartPoint(j, m), PartPoint(i, k))
    BY <1>2
  <2>1. PICK k \in 0 .. Parted(i) : ~Nearer(Dist(i), PartPoint(i, k))
    BY <1>1
  <2>2. /\ ~Nearer(PartPoint(j, m), Dist(j)) /\ PartPoint(i, k) \in Fractions /\ PartPoint(j, m) \in Fractions
        /\ Dist(i) \in Fractions /\ Dist(j) \in Fractions
    BY <1>1
  <2>3. ~Nearer(PartPoint(j, m), Dist(i))
    BY <1>4, <2>2, FractionsOrdered
  <2>4. ~Nearer(PartPoint(j, m), PartPoint(i, k))
    BY <2>1, <2>2, <2>3, FractionsOrdered
  <2> QED  BY <2>4
<1> QED  BY <1>1, <1>3, <1>4 DEF Dist, S

\* Of the legs that have a place it is the first of the nearest.
IsNearest(stops, p, m) ==
  /\ m \in PlacedLegs(stops)
  /\ \A j \in PlacedLegs(stops) :
       /\ ~Nearer(LegDistance(stops, j, p), LegDistance(stops, m, p))
       /\ j < m => Nearer(LegDistance(stops, m, p), LegDistance(stops, j, p))

\* Of numbered fractions one is such that none is nearer.
LEMMA NearestExists ==
  ASSUME NEW n \in Nat, NEW L \in SUBSET (1 .. n), L # {}, NEW D, \A i \in L : D[i] \in Fractions
  PROVE  \E m \in L : \A j \in L : ~Nearer(D[j], D[m])
<1> DEFINE Least(k) == L \cap (1 .. k) # {} =>
                         \E m \in L \cap (1 .. k) : \A j \in L \cap (1 .. k) : ~Nearer(D[j], D[m])
           T == {k \in Nat : Least(k)}
<1>1. 0 \in T
  OBVIOUS
<1>2. ASSUME NEW k \in 1 .. n, k - 1 \in T PROVE k \in T
  <2>1. k \in Nat \ {0} /\ L \cap (1 .. k) = (L \cap (1 .. k - 1)) \cup (L \cap {k})
    OBVIOUS
  <2>2. \A d \in Fractions : ~Nearer(d, d)
    BY DEF Nearer, Fractions
  <2>3. CASE k \notin L
    BY <1>2, <2>1, <2>3
  <2>4. CASE k \in L /\ L \cap (1 .. k - 1) = {}
    <3>1. L \cap (1 .. k) = {k}
      BY <2>1, <2>4
    <3> QED  BY <2>1, <2>2, <2>4, <3>1
  <2>5. CASE k \in L /\ L \cap (1 .. k - 1) # {}
    <3>1. PICK m \in L \cap (1 .. k - 1) : \A j \in L \cap (1 .. k - 1) : ~Nearer(D[j], D[m])
      BY <1>2, <2>5
    <3>2. m \in L \cap (1 .. k) /\ k \in L \cap (1 .. k)
      BY <2>1, <2>5
    <3>3. CASE Nearer(D[k], D[m])
      <4>1. ~Nearer(D[m], D[k])
        <5>1. \A d, e \in Fractions : Nearer(d, e) => ~Nearer(e, d)
          <6> TAKE d \in Fractions, e \in Fractions
          <6>1. d[1] * e[2] \in Int /\ e[1] * d[2] \in Int
            BY TimesFacts DEF Fractions
          <6> QED  BY <6>1 DEF Nearer
        <5> QED  BY <2>5, <3>3, <5>1
      <4>2. ASSUME NEW j \in L \cap (1 .. k) PROVE ~Nearer(D[j], D[k])
        <5>1. CASE j = k
          BY <2>2, <2>5, <5>1
        <5>2. CASE j # k
          <6>1. j \in L \cap (1 .. k - 1)
            BY <2>1, <5>2
          <6> QED  BY <2>5, <3>1, <4>1, <6>1, FractionsOrdered
        <5> QED  BY <5>1, <5>2
      <4> QED  BY <2>1, <3>2, <4>2
    <3>4. CASE ~Nearer(D[k], D[m])
      <4>1. ASSUME NEW j \in L \cap (1 .. k) PROVE ~Nearer(D[j], D[m])
        <5>1. j = k \/ j \in L \cap (1 .. k - 1)
          BY <2>1
        <5> QED  BY <3>1, <3>4, <5>1
      <4> QED  BY <2>1, <3>2, <4>1
    <3> QED  BY <3>3, <3>4
  <2> QED  BY <2>3, <2>4, <2>5
<1> HIDE DEF T
<1>3. n \in T
  BY <1>1, <1>2, UptoInduction
<1>4. L \cap (1 .. n) = L
  OBVIOUS
<1> QED  BY <1>3, <1>4 DEF T

LEMMA NearestIs ==
  ASSUME NEW stops \in Seq(Stops), PlacedLegs(stops) # {}, NEW p, ValidCoords(p),
         p.lat \in Int, p.lng \in Int
  PROVE  /\ NearestIndex(stops, p) \in 1 .. Len(stops) - 1 /\ Len(stops) - 1 \in Nat
         /\ IsNearest(stops, p, NearestIndex(stops, p))
<1> DEFINE L == PlacedLegs(stops)
           n == Len(stops) - 1
           D == [i \in L |-> LegDistance(stops, i, p)]
           near == {i \in L : \A j \in L : ~Nearer(D[j], D[i])}
<1>1. n \in Nat /\ L \in SUBSET (1 .. n)
  <2>1. PICK i : i \in L
    OBVIOUS
  <2>2. Len(stops) \in Nat /\ i \in 1 .. n
    BY <2>1, LenProperties DEF PlacedLegs
  <2> QED  BY <2>2 DEF PlacedLegs
<1>2. ASSUME NEW i \in L PROVE D[i] = LegDistance(stops, i, p) /\ D[i] \in Fractions
  <2>1. Len(stops) \in Nat /\ i \in 1 .. Len(stops) /\ i + 1 \in 1 .. Len(stops)
    BY <1>1
  <2>2. stops[i] \in Stops /\ stops[i + 1] \in Stops
    BY <2>1, ElementOfSeq
  <2> QED  BY <2>2, StopFields, DistanceIs DEF LegDistance
<1>3. NearestIndex(stops, p) = Min(near)
  BY DEF NearestIndex, PlacedLegs, LegDistance
<1> HIDE DEF D
<1>4. near # {}
  BY <1>1, <1>2, NearestExists
<1>5. Min(near) \in near /\ \A i \in near : Min(near) <= i
  <2>1. near \in SUBSET (1 .. n)
    BY <1>1
  <2> QED  BY <1>1, <1>4, <2>1, MinOfPlaces
<1> DEFINE m == Min(near)
<1> HIDE DEF L, n
<1>6. m \in L /\ \A j \in L : ~Nearer(D[j], D[m])
  BY <1>5
<1>7. ASSUME NEW j \in L, j < m PROVE Nearer(D[m], D[j])
  <2>1. j \notin near
    <3>1. m \in Int /\ j \in Int
      <4> HIDE DEF near, m
      <4> QED  BY <1>1, <1>6
    <3> QED  BY <1>5, <1>7, <3>1
  <2>2. PICK i \in L : Nearer(D[i], D[j])
    BY <2>1
  <2>3. ~Nearer(D[i], D[m]) /\ D[i] \in Fractions /\ D[m] \in Fractions /\ D[j] \in Fractions
    BY <1>2, <1>6
  <2> QED  BY <2>2, <2>3, FractionsOrdered
<1> HIDE DEF near, m
<1>8. IsNearest(stops, p, m)
  BY <1>2, <1>6, <1>7 DEF IsNearest, L
<1>9. m \in 1 .. n
  BY <1>1, <1>6
<1> QED  BY <1>1, <1>3, <1>8, <1>9 DEF m, n
-----------------------------------------------------------------------------
(* MHD: what a record says *)

\* Of the keys of an object only one has one of the names looked for.
LEMMA LookupOnly ==
  ASSUME NEW attributes, NEW K \in DOMAIN attributes, NEW n \in Nat, NEW keys, DOMAIN keys = 1 .. n,
         \E i \in 1 .. n : keys[i][1] = K[1],
         \A k \in DOMAIN attributes : (\E i \in 1 .. n : keys[i][1] = k[1]) => k = K
  PROVE  Lookup(attributes, keys) = {attributes[K]}
<1> DEFINE exact == {i \in DOMAIN keys : keys[i] \in DOMAIN attributes}
           alike == {i \in DOMAIN keys : \E k \in DOMAIN attributes : k[1] = keys[i][1]}
<1>1. exact \in SUBSET (1 .. n) /\ alike \in SUBSET (1 .. n) /\ alike # {}
  OBVIOUS
<1>2. CASE exact # {}
  <2>1. Min(exact) \in exact
    BY <1>1, <1>2, MinOfPlaces
  <2>2. keys[Min(exact)] = K
    BY <2>1
  <2> QED  BY <1>2, <2>2 DEF Lookup
<1>3. CASE exact = {}
  <2>1. Min(alike) \in alike
    BY <1>1, MinOfPlaces
  <2>2. PICK k \in DOMAIN attributes : k[1] = keys[Min(alike)][1]
    BY <2>1
  <2>3. k = K
    BY <2>1, <2>2
  <2>4. \A m \in DOMAIN attributes : m[1] = keys[Min(alike)][1] <=> m = K
    BY <2>1, <2>2, <2>3
  <2>5. {attributes[m] : m \in {m \in DOMAIN attributes : m[1] = keys[Min(alike)][1]}} = {attributes[K]}
    BY <2>4
  <2> QED  BY <1>1, <1>3, <2>5 DEF Lookup
<1> QED  BY <1>2, <1>3

LEMMA LookupOne ==
  ASSUME NEW attributes, NEW K \in DOMAIN attributes, \A k \in DOMAIN attributes : k[1] = K[1] => k = K
  PROVE  Lookup(attributes, <<K>>) = {attributes[K]}
<1> DEFINE keys == <<K>>
<1>1. PICK n \in Nat : n = 1
  OBVIOUS
<1>2. DOMAIN keys = 1 .. n /\ keys[1] = K /\ 1 \in 1 .. n /\ \A i \in 1 .. n : keys[i] = K
  BY <1>1
<1>3. /\ \E i \in 1 .. n : keys[i][1] = K[1]
      /\ \A k \in DOMAIN attributes : (\E i \in 1 .. n : keys[i][1] = k[1]) => k = K
  BY <1>2
<1>4. DOMAIN keys = 1 .. n
  BY <1>2
<1> HIDE DEF keys
<1>5. Lookup(attributes, keys) = {attributes[K]}
  BY <1>3, <1>4, LookupOnly
<1> QED  BY <1>5 DEF keys

LEMMA LookupNone ==
  ASSUME NEW attributes, NEW n \in Nat, NEW keys, DOMAIN keys = 1 .. n,
         \A k \in DOMAIN attributes : \A i \in 1 .. n : keys[i][1] # k[1]
  PROVE  Lookup(attributes, keys) = {Null}
<1>1. \A i \in DOMAIN keys : keys[i] \notin DOMAIN attributes
  OBVIOUS
<1>2. {i \in DOMAIN keys : keys[i] \in DOMAIN attributes} = {}
  BY <1>1
<1>3. {i \in DOMAIN keys : \E k \in DOMAIN attributes : k[1] = keys[i][1]} = {}
  OBVIOUS
<1> QED  BY <1>2, <1>3 DEF Lookup

\* The identity of a stop is its first number; what is missing has none.
LEMMA IdentityOfStop ==
  ASSUME NEW stop \in Stops
  PROVE  \E m \in Nat : StopIdentity(stop.id) = <<m>>
<1> DEFINE numbers == {k \in DOMAIN stop.id : stop.id[k] >= 0}
<1>1. stop.id \in Seq(Int) /\ numbers # {} /\ Len(stop.id) \in Nat /\ DOMAIN stop.id = 1 .. Len(stop.id)
  BY LenProperties DEF Stops
<1>2. Min(numbers) \in numbers
  BY <1>1, MinOfPlaces
<1>3. stop.id[Min(numbers)] \in Nat
  <2>1. Min(numbers) \in 1 .. Len(stop.id) /\ stop.id[Min(numbers)] >= 0
    BY <1>1, <1>2
  <2>2. stop.id[Min(numbers)] \in Int
    BY <1>1, <2>1, ElementOfSeq
  <2> QED  BY <2>1, <2>2
<1> QED  BY <1>1, <1>3 DEF StopIdentity

LEMMA IdentityOfNumber ==
  ASSUME NEW m \in Int
  PROVE  StopIdentity(<<m>>) = <<m>>
<1> DEFINE text == <<m>>
           numbers == {k \in DOMAIN text : text[k] >= 0}
<1>1. DOMAIN text = {1} /\ text[1] = m
  OBVIOUS
<1>2. CASE numbers = {}
  BY <1>2 DEF StopIdentity
<1>3. CASE numbers # {}
  <2>1. numbers = {1}
    BY <1>1, <1>3
  <2>2. Min(numbers) = 1
    <3>1. {1} \in SUBSET Int /\ 1 \in {1} /\ \A y \in {1} : 1 <= y
      OBVIOUS
    <3> QED  BY <2>1, <3>1, MinIs
  <2> QED  BY <1>1, <1>3, <2>2 DEF StopIdentity
<1> QED  BY <1>2, <1>3

LEMMA NumberRead ==
  ASSUME NEW m \in Nat
  PROVE  ExtractFloat(InDialect(m)) = {m} /\ ExtractString(InDialect(m)) = <<m>>
<1>1. CASE dialect.numbers
  <2>1. InDialect(m) = [type |-> "number", of |-> m]
    BY <1>1 DEF InDialect
  <2> QED  BY <2>1 DEF ExtractFloat, ExtractString
<1>2. CASE ~dialect.numbers
  <2>1. InDialect(m) = [type |-> "text", of |-> <<m>>]
    BY <1>2 DEF InDialect
  <2> QED  BY <2>1 DEF ExtractFloat, ExtractString
<1> QED  BY <1>1, <1>2

LEMMA NothingRead == ExtractFloat(Null) = {} /\ ExtractString(Null) = <<NilWord>>
BY DEF Null, ExtractFloat, ExtractString

LEMMA CoordinateIs ==
  ASSUME NEW m, NEW x, NEW y,
         ExtractFloat(x) = {m} \/ (ExtractFloat(x) = {} /\ ExtractFloat(y) = {m})
  PROVE  Coordinate(x, y) = m
BY DEF Coordinate

\* The parts of a payload, as Payload names them.
PartNames ==
  (IF dialect.geometry THEN {} ELSE {"lat", "lng"})
    \cup (IF dialect.lastStop THEN {"laststopid"} ELSE {})
    \cup (IF dialect.inactive THEN {"isinactive"} ELSE {})
    \cup (IF dialect.state THEN {"state"} ELSE {})

Attributes ==
  [k \in {dialect.spelling[n] : n \in PartNames} |->
     Parts[CHOOSE n \in PartNames : dialect.spelling[n] = k]]

Geometry ==
  [k \in {<<"x", "x">>, <<"y", "y">>} |-> IF k = <<"y", "y">> THEN Parts["lat"] ELSE Parts["lng"]]

LEMMA PayloadIs ==
  Payload = IF dialect.flat THEN Attributes
            ELSE [k \in {<<"attributes", "attributes">>}
                          \cup (IF dialect.geometry THEN {<<"geometry", "geometry">>} ELSE {}) |->
                    [type |-> "object", of |-> IF k[1] = "geometry" THEN Geometry ELSE Attributes]]
BY DEF Payload, Attributes, Geometry, PartNames

NamesOf(part) ==
  CASE part = "lat" -> {"lat", "latitude"}
    [] part = "lng" -> {"lng", "longitude"}
    [] OTHER -> {part}

LEMMA SpellingIs ==
  ASSUME dialect \in Dialects
  PROVE  /\ PartNames \subseteq {"lat", "lng", "laststopid", "isinactive", "state"}
         /\ \A n \in PartNames : dialect.spelling[n][1] \in NamesOf(n)
         /\ dialect.flat => ~dialect.geometry
         /\ "lat" \in PartNames <=> ~dialect.geometry
         /\ "lng" \in PartNames <=> ~dialect.geometry
         /\ "laststopid" \in PartNames <=> dialect.lastStop
         /\ {dialect.flat, dialect.geometry, dialect.lastStop, dialect.numbers} \subseteq BOOLEAN
<1>1. /\ dialect.spelling \in [lat : Spelled({"lat", "latitude"}), lng : Spelled({"lng", "longitude"}),
                               laststopid : Spelled({"laststopid"}), isinactive : Spelled({"isinactive"}),
                               state : Spelled({"state"})]
      /\ {dialect.flat, dialect.geometry, dialect.lastStop, dialect.numbers} \subseteq BOOLEAN
      /\ dialect.flat => ~dialect.geometry
  BY DialectsAssumption
<1>2. /\ dialect.spelling["lat"] \in Spelled({"lat", "latitude"})
      /\ dialect.spelling["lng"] \in Spelled({"lng", "longitude"})
      /\ dialect.spelling["laststopid"] \in Spelled({"laststopid"})
      /\ dialect.spelling["isinactive"] \in Spelled({"isinactive"})
      /\ dialect.spelling["state"] \in Spelled({"state"})
  BY <1>1
<1>3. \A names, k : k \in Spelled(names) => k[1] \in names
  BY DEF Spelled
<1>4. /\ dialect.spelling["lat"][1] \in NamesOf("lat")
      /\ dialect.spelling["lng"][1] \in NamesOf("lng")
      /\ dialect.spelling["laststopid"][1] \in NamesOf("laststopid")
      /\ dialect.spelling["isinactive"][1] \in NamesOf("isinactive")
      /\ dialect.spelling["state"][1] \in NamesOf("state")
  BY <1>2, <1>3 DEF NamesOf
<1>5. /\ PartNames \subseteq {"lat", "lng", "laststopid", "isinactive", "state"}
      /\ "lat" \in PartNames <=> ~dialect.geometry
      /\ "lng" \in PartNames <=> ~dialect.geometry
      /\ "laststopid" \in PartNames <=> dialect.lastStop
  BY DEF PartNames
<1> QED  BY <1>1, <1>4, <1>5

LEMMA NamesApart ==
  \A m, n \in {"lat", "lng", "laststopid", "isinactive", "state"} :
    \A name \in NamesOf(m) : /\ name \in NamesOf(n) => m = n
                             /\ name \notin {"attributes", "geometry", "x", "y"}
BY DEF NamesOf

\* A part is found under its key, and only there.
LEMMA AttributesOnly ==
  ASSUME dialect \in Dialects
  PROVE  /\ \A n \in PartNames : /\ dialect.spelling[n] \in DOMAIN Attributes
                                 /\ Attributes[dialect.spelling[n]] = Parts[n]
         /\ \A k \in DOMAIN Attributes : \E n \in PartNames : k = dialect.spelling[n] /\ k[1] \in NamesOf(n)
<1>1. \A m, n \in PartNames : dialect.spelling[m] = dialect.spelling[n] => m = n
  BY SpellingIs, NamesApart
<1>2. DOMAIN Attributes = {dialect.spelling[n] : n \in PartNames}
  BY DEF Attributes
<1>3. ASSUME NEW n \in PartNames PROVE Attributes[dialect.spelling[n]] = Parts[n]
  <2>1. (CHOOSE m \in PartNames : dialect.spelling[m] = dialect.spelling[n]) = n
    BY <1>1
  <2> QED  BY <2>1 DEF Attributes
<1> QED  BY <1>2, <1>3, SpellingIs

LEMMA AttributeFound ==
  ASSUME dialect \in Dialects, NEW part \in PartNames, NEW l \in Nat, NEW keys, DOMAIN keys = 1 .. l,
         {keys[i][1] : i \in 1 .. l} = NamesOf(part)
  PROVE  Lookup(Attributes, keys) = {Parts[part]}
<1> DEFINE K == dialect.spelling[part]
<1>1. K \in DOMAIN Attributes /\ Attributes[K] = Parts[part] /\ K[1] \in NamesOf(part)
  BY AttributesOnly, SpellingIs
<1>2. ASSUME NEW k \in DOMAIN Attributes, NEW i \in 1 .. l, keys[i][1] = k[1] PROVE k = K
  <2>1. PICK n \in PartNames : k = dialect.spelling[n] /\ k[1] \in NamesOf(n)
    BY AttributesOnly
  <2>2. k[1] \in NamesOf(part)
    BY <1>2
  <2>3. n = part
    BY <2>1, <2>2, SpellingIs, NamesApart
  <2> QED  BY <2>1, <2>3
<1>3. \E i \in 1 .. l : keys[i][1] = K[1]
  BY <1>1
<1>4. \A k \in DOMAIN Attributes : (\E i \in 1 .. l : keys[i][1] = k[1]) => k = K
  BY <1>2
<1> HIDE DEF K
<1> QED  BY <1>1, <1>3, <1>4, LookupOnly

LEMMA AttributeMissing ==
  ASSUME dialect \in Dialects, NEW part \in {"lat", "lng", "laststopid"} \ PartNames,
         NEW l \in Nat, NEW keys, DOMAIN keys = 1 .. l, {keys[i][1] : i \in 1 .. l} = NamesOf(part)
  PROVE  Lookup(Attributes, keys) = {Null}
<1>1. ASSUME NEW k \in DOMAIN Attributes, NEW i \in 1 .. l PROVE keys[i][1] # k[1]
  <2>1. PICK n \in PartNames : k = dialect.spelling[n] /\ k[1] \in NamesOf(n)
    BY AttributesOnly
  <2>2. keys[i][1] \in NamesOf(part)
    OBVIOUS
  <2>3. n # part /\ n \in {"lat", "lng", "laststopid", "isinactive", "state"}
    BY SpellingIs
  <2> QED  BY <2>1, <2>2, <2>3, NamesApart
<1> QED  BY <1>1, LookupNone

LEMMA EnvelopeIs ==
  ASSUME dialect \in Dialects
  PROVE  /\ Envelope(Payload).attributes = Attributes
         /\ Envelope(Payload).geometry = IF dialect.geometry THEN Geometry ELSE <<>>
<1> DEFINE attributesKey == <<"attributes", "attributes">>
           geometryKey == <<"geometry", "geometry">>
<1>1. \A k \in DOMAIN Attributes : k[1] \notin {"attributes", "geometry"}
  <2> TAKE k \in DOMAIN Attributes
  <2>1. PICK n \in PartNames : k[1] \in NamesOf(n)
    BY AttributesOnly
  <2> QED  BY <2>1, SpellingIs, NamesApart
<1>2. attributesKey[1] = "attributes" /\ geometryKey[1] = "geometry" /\ attributesKey # geometryKey
  OBVIOUS
<1>3. CASE dialect.flat
  <2>1. Payload = Attributes /\ ~dialect.geometry
    BY <1>3, PayloadIs, SpellingIs
  <2>2. ObjectAt(Payload, "attributes") = <<>> /\ ObjectAt(Payload, "geometry") = <<>>
    BY <1>1, <1>2, <2>1 DEF ObjectAt
  <2> QED  BY <2>1, <2>2 DEF Envelope
<1>4. CASE ~dialect.flat /\ dialect.geometry
  <2>1. Payload = [k \in {attributesKey, geometryKey} |->
                     [type |-> "object", of |-> IF k[1] = "geometry" THEN Geometry ELSE Attributes]]
    BY <1>4, PayloadIs, SpellingIs
  <2>2. /\ DOMAIN Payload = {attributesKey, geometryKey}
        /\ Payload[attributesKey] = [type |-> "object", of |-> Attributes]
        /\ Payload[geometryKey] = [type |-> "object", of |-> Geometry]
    BY <1>2, <2>1
  <2>3. ObjectAt(Payload, "attributes") = Attributes /\ ObjectAt(Payload, "geometry") = Geometry
    BY <2>2 DEF ObjectAt
  <2>4. Geometry # <<>>
    <3>1. <<"x", "x">> \in DOMAIN Geometry /\ DOMAIN <<>> = {}
      BY DEF Geometry
    <3> QED  BY <3>1
  <2> QED  BY <1>4, <2>3, <2>4 DEF Envelope
<1>5. CASE ~dialect.flat /\ ~dialect.geometry
  <2>1. Payload = [k \in {attributesKey} |->
                     [type |-> "object", of |-> IF k[1] = "geometry" THEN Geometry ELSE Attributes]]
    BY <1>5, PayloadIs, SpellingIs
  <2>2. /\ DOMAIN Payload = {attributesKey}
        /\ Payload[attributesKey] = [type |-> "object", of |-> Attributes]
    BY <1>2, <2>1
  <2>3. ObjectAt(Payload, "attributes") = Attributes /\ ObjectAt(Payload, "geometry") = <<>>
    BY <1>2, <2>2 DEF ObjectAt
  <2>4. Attributes # <<>>
    <3>1. "lat" \in PartNames /\ DOMAIN <<>> = {}
      BY <1>5, SpellingIs
    <3>2. dialect.spelling["lat"] \in DOMAIN Attributes
      BY <3>1, AttributesOnly
    <3> QED  BY <3>1, <3>2
  <2> QED  BY <1>5, <2>3, <2>4 DEF Envelope
<1> QED  BY <1>3, <1>4, <1>5, SpellingIs

\* A record has the place of the vehicle, wherever the report puts it.
LEMMA CoordinatesRead ==
  ASSUME dialect \in Dialects, Position.lat \in Nat, Position.lng \in Nat,
         NEW record \in LiveRecords(Payload)
  PROVE  record.lat = Position.lat /\ record.lng = Position.lng
<1> DEFINE p == Position
           latKeys == <<<<"lat", "lat">>, <<"latitude", "Latitude">>>>
           lngKeys == <<<<"lng", "lng">>, <<"longitude", "Longitude">>>>
           g == Envelope(Payload).geometry
<1>1. PICK lat \in Lookup(Attributes, latKeys), lng \in Lookup(Attributes, lngKeys),
           y \in Lookup(g, <<<<"y", "y">>>>), x \in Lookup(g, <<<<"x", "x">>>>) :
        record.lat = Coordinate(y, lat) /\ record.lng = Coordinate(x, lng)
  BY EnvelopeIs DEF LiveRecords
<1>2. Parts["lat"] = InDialect(p.lat) /\ Parts["lng"] = InDialect(p.lng)
  BY DEF Parts
<1>3. /\ ExtractFloat(Parts["lat"]) = {p.lat} /\ ExtractFloat(Parts["lng"]) = {p.lng}
  BY <1>2, NumberRead
<1>4. /\ DOMAIN latKeys = 1 .. 2 /\ {latKeys[i][1] : i \in 1 .. 2} = NamesOf("lat")
      /\ DOMAIN lngKeys = 1 .. 2 /\ {lngKeys[i][1] : i \in 1 .. 2} = NamesOf("lng")
  BY DEF NamesOf
<1>5. CASE dialect.geometry
  <2>1. g = Geometry /\ "lat" \notin PartNames /\ "lng" \notin PartNames
    BY <1>5, EnvelopeIs, SpellingIs
  <2>2. Lookup(Attributes, latKeys) = {Null} /\ Lookup(Attributes, lngKeys) = {Null}
    BY <1>4, <2>1, AttributeMissing
  <2>3. Lookup(g, <<<<"y", "y">>>>) = {Parts["lat"]}
    <3> DEFINE K == <<"y", "y">>
    <3>1. /\ K \in DOMAIN g /\ g[K] = Parts["lat"]
          /\ \A k \in DOMAIN g : k[1] = K[1] => k = K
      BY <2>1 DEF Geometry
    <3> QED  BY <3>1, LookupOne
  <2>4. Lookup(g, <<<<"x", "x">>>>) = {Parts["lng"]}
    <3> DEFINE K == <<"x", "x">>
    <3>1. /\ K \in DOMAIN g /\ g[K] = Parts["lng"]
          /\ \A k \in DOMAIN g : k[1] = K[1] => k = K
      BY <2>1 DEF Geometry
    <3> QED  BY <3>1, LookupOne
  <2>5. y = Parts["lat"] /\ x = Parts["lng"]
    BY <1>1, <2>3, <2>4
  <2>6. Coordinate(y, lat) = p.lat /\ Coordinate(x, lng) = p.lng
    BY <1>3, <2>5, CoordinateIs
  <2> QED  BY <1>1, <2>6
<1>6. CASE ~dialect.geometry
  <2>1. g = <<>> /\ "lat" \in PartNames /\ "lng" \in PartNames
    BY <1>6, EnvelopeIs, SpellingIs
  <2>2. Lookup(Attributes, latKeys) = {Parts["lat"]} /\ Lookup(Attributes, lngKeys) = {Parts["lng"]}
    BY <1>4, <2>1, AttributeFound
  <2>3. Lookup(g, <<<<"y", "y">>>>) = {Null} /\ Lookup(g, <<<<"x", "x">>>>) = {Null}
    <3>1. DOMAIN g = {} /\ DOMAIN <<<<"y", "y">>>> = 1 .. 1 /\ DOMAIN <<<<"x", "x">>>> = 1 .. 1
      BY <2>1
    <3> QED  BY <3>1, LookupNone
  <2>4. lat = Parts["lat"] /\ lng = Parts["lng"] /\ y = Null /\ x = Null
    BY <1>1, <2>2, <2>3
  <2>5. Coordinate(y, lat) = p.lat /\ Coordinate(x, lng) = p.lng
    BY <1>3, <2>4, NothingRead, CoordinateIs
  <2> QED  BY <1>1, <2>5
<1> QED  BY <1>5, <1>6, SpellingIs

\* A record has the identity of the last stop, or one that no stop has.
LEMMA LastStopRead ==
  ASSUME dialect \in Dialects, route.stops[lastStop] \in Stops, NEW record \in LiveRecords(Payload)
  PROVE  StopIdentity(record.lastStop)
           = IF dialect.lastStop THEN StopIdentity(route.stops[lastStop].id) ELSE <<NilWord>>
<1> DEFINE keys == <<<<"laststopid", "laststopid">>, <<"laststopid", "LastStopID">>>>
           id == route.stops[lastStop].id
<1>1. PICK stop \in Lookup(Attributes, keys) : record.lastStop = ExtractString(stop)
  BY EnvelopeIs DEF LiveRecords
<1>2. DOMAIN keys = 1 .. 2 /\ {keys[i][1] : i \in 1 .. 2} = NamesOf("laststopid")
  BY DEF NamesOf
<1>3. CASE dialect.lastStop
  <2>1. stop = Parts["laststopid"]
    <3>1. "laststopid" \in PartNames
      BY <1>3, SpellingIs
    <3> QED  BY <1>1, <1>2, <3>1, AttributeFound
  <2>2. PICK m \in Nat : StopIdentity(id) = <<m>>
    BY IdentityOfStop
  <2>3. Parts["laststopid"] = IF dialect.numbers THEN InDialect(m) ELSE [type |-> "text", of |-> id]
    BY <2>2 DEF Parts
  <2>4. CASE dialect.numbers
    <3>1. record.lastStop = <<m>>
      BY <1>1, <2>1, <2>3, <2>4, NumberRead
    <3> QED  BY <1>3, <2>2, <3>1, IdentityOfNumber
  <2>5. CASE ~dialect.numbers
    <3>1. record.lastStop = id
      BY <1>1, <2>1, <2>3, <2>5 DEF ExtractString
    <3> QED  BY <1>3, <3>1
  <2> QED  BY <2>4, <2>5
<1>4. CASE ~dialect.lastStop
  <2>1. "laststopid" \in {"lat", "lng", "laststopid"} \ PartNames
    BY <1>4, SpellingIs
  <2>2. Lookup(Attributes, keys) = {Null}
    <3> HIDE DEF keys
    <3> QED  BY <1>2, <2>1, AttributeMissing
  <2>3. stop = Null
    BY <1>1, <2>2
  <2>4. record.lastStop = <<NilWord>> /\ NilWord \in Int
    BY <1>1, <2>3, NothingRead DEF NilWord
  <2> QED  BY <1>4, <2>4, IdentityOfNumber
<1> QED  BY <1>3, <1>4

-----------------------------------------------------------------------------
(* MHD: the published segment *)

LEMMA RouteFacts ==
  ASSUME route \in Routes
  PROVE  /\ route.stops \in Seq(Stops) /\ Len(route.stops) \in Nat \ {0}
         /\ DOMAIN route.stops = 1 .. Len(route.stops)
         /\ \A i \in DOMAIN route.stops : route.stops[i] \in Stops
         /\ Len(route.drive) \in Nat \ {0} /\ DOMAIN route.drive = 1 .. Len(route.drive)
         /\ \A k \in DOMAIN route.drive :
              /\ route.drive[k].leg \in 1 .. Len(route.stops)
              /\ route.drive[k].lat \in Nat /\ route.drive[k].lng \in Nat
         /\ \A j, k \in DOMAIN route.drive : j <= k => route.drive[j].leg <= route.drive[k].leg
<1> DEFINE S == route.stops
           D == route.drive
           Positions == [leg : 1 .. Len(S), lat : Nat, lng : Nat]
<1>1. /\ S \in Seq(Stops) /\ D \in Seq(Positions) /\ D # <<>>
      /\ \A j, k \in DOMAIN D : j <= k => D[j].leg <= D[k].leg
  BY RoutesAssumption
<1> HIDE DEF S, D
<1>2. Len(S) \in Nat /\ DOMAIN S = 1 .. Len(S) /\ \A i \in DOMAIN S : S[i] \in Stops
  BY <1>1, LenProperties, ElementOfSeq
<1>3. Len(D) \in Nat /\ DOMAIN D = 1 .. Len(D) /\ \A k \in DOMAIN D : D[k] \in Positions
  <2> HIDE DEF Positions
  <2> QED  BY <1>1, LenProperties, ElementOfSeq
<1>4. Len(D) # 0
  BY <1>1, EmptySeq
<1>5. \A k \in DOMAIN D : D[k].leg \in 1 .. Len(S) /\ D[k].lat \in Nat /\ D[k].lng \in Nat
  BY <1>3
<1>6. Len(S) # 0
  <2>1. 1 \in DOMAIN D
    BY <1>3, <1>4
  <2> QED  BY <1>2, <1>5, <2>1
<1> QED  BY <1>1, <1>2, <1>3, <1>4, <1>5, <1>6 DEF S, D

\* The vehicle is on its drive and tells only stops that it has come to.
OnDrive ==
  /\ route \in Routes /\ dialect \in Dialects
  /\ place \in DOMAIN route.drive
  /\ lastStop \in Nat \ {0} /\ lastStop <= route.drive[place].leg

LEMMA OnDriveFacts ==
  ASSUME OnDrive
  PROVE  /\ lastStop \in DOMAIN route.stops /\ route.stops[lastStop] \in Stops
         /\ place \in Nat /\ place > 0 /\ Position.lat \in Nat /\ Position.lng \in Nat
         /\ dialect.lastStop \in BOOLEAN
<1>1. route \in Routes /\ dialect \in Dialects /\ place \in DOMAIN route.drive
  BY DEF OnDrive
<1>2. /\ route.drive[place].leg \in 1 .. Len(route.stops)
      /\ route.drive[place].lat \in Nat /\ route.drive[place].lng \in Nat
      /\ Len(route.stops) \in Nat /\ DOMAIN route.stops = 1 .. Len(route.stops)
      /\ place \in 1 .. Len(route.drive) /\ Len(route.drive) \in Nat
  BY <1>1, RouteFacts
<1>3. lastStop \in DOMAIN route.stops
  BY <1>2 DEF OnDrive
<1>4. dialect.lastStop \in BOOLEAN
  BY <1>1, SpellingIs
<1> QED  BY <1>1, <1>2, <1>3, <1>4, RouteFacts DEF Position

\* The legs from the last stop count when the source tells it.
LEMMA IndexIs ==
  ASSUME OnDrive, NEW record \in LiveRecords(Payload)
  PROVE  IndexFromLastStop(route.stops, record.lastStop)
           = IF dialect.lastStop /\ Visits # {} THEN Max(Visits) ELSE 0
<1> DEFINE S == route.stops
           id == StopIdentity(record.lastStop)
           visits == {i \in 1 .. Len(S) - 1 : StopIdentity(S[i].id) = id}
<1>1. /\ dialect \in Dialects /\ route \in Routes /\ S[lastStop] \in Stops
      /\ Len(S) \in Nat /\ DOMAIN S = 1 .. Len(S) /\ \A i \in DOMAIN S : S[i] \in Stops
  BY OnDriveFacts, RouteFacts DEF OnDrive
<1>2. id = IF dialect.lastStop THEN StopIdentity(S[lastStop].id) ELSE <<NilWord>>
  BY <1>1, LastStopRead
<1>3. \A i \in DOMAIN S : \E m \in Nat : StopIdentity(S[i].id) = <<m>>
  BY <1>1, IdentityOfStop
<1>4. PICK m \in Nat : StopIdentity(S[lastStop].id) = <<m>>
  BY <1>1, IdentityOfStop
<1>5. IndexFromLastStop(S, record.lastStop) = IF id = <<>> \/ visits = {} THEN 0 ELSE Max(visits)
  BY DEF IndexFromLastStop
<1>6. CASE dialect.lastStop
  <2>1. id # <<>>
    BY <1>2, <1>4, <1>6
  <2>2. visits = Visits
    BY <1>2, <1>6 DEF Visits, Legs
  <2> HIDE DEF id, visits
  <2> QED  BY <1>5, <1>6, <2>1, <2>2
<1>7. CASE ~dialect.lastStop
  <2>1. \A l \in Nat : <<l>> # <<NilWord>>
    BY DEF NilWord
  <2>2. \A i \in 1 .. Len(S) - 1 : i \in DOMAIN S
    BY <1>1
  <2>3. visits = {}
    BY <1>2, <1>3, <1>7, <2>1, <2>2
  <2> HIDE DEF id, visits
  <2> QED  BY <1>5, <1>7, <2>3
<1> QED  BY <1>6, <1>7, OnDriveFacts

\* What a report says of the segment: a record of it has the position reported.
LEMMA SegmentIs ==
  ASSUME OnDrive, NEW record \in LiveRecords(Payload)
  PROVE  SegmentIndex(route.stops, record)
           = CASE Len(route.stops) < 2 -> 0
               [] Len(route.stops) >= 2 /\ dialect.lastStop /\ Visits # {} -> Max(Visits)
               [] OTHER -> NearestIndex(route.stops, Position)
<1> DEFINE S == route.stops
<1>1. IndexFromLastStop(S, record.lastStop) = IF dialect.lastStop /\ Visits # {} THEN Max(Visits) ELSE 0
  BY IndexIs
<1>2. [lat |-> record.lat, lng |-> record.lng] = Position
  <2>1. record.lat = Position.lat /\ record.lng = Position.lng
    BY OnDriveFacts, CoordinatesRead DEF OnDrive
  <2> QED  BY <2>1 DEF Position
<1>3. Len(S) \in Nat
  BY RouteFacts DEF OnDrive
<1>4. Visits # {} => Max(Visits) > 0
  <2> SUFFICES ASSUME Visits # {} PROVE Max(Visits) > 0
    OBVIOUS
  <2>1. Visits \in SUBSET (1 .. Len(S))
    BY <1>3 DEF Visits, Legs
  <2>2. Max(Visits) \in Visits
    BY <1>3, <2>1, MaxOfPlaces
  <2>3. \A i \in Visits : i > 0
    BY <1>3 DEF Visits, Legs
  <2> QED  BY <2>2, <2>3
<1>5. SegmentIndex(S, record)
        = CASE Len(S) < 2 -> 0
            [] IndexFromLastStop(S, record.lastStop) > 0 -> IndexFromLastStop(S, record.lastStop)
            [] OTHER -> NearestIndex(S, Position)
  BY <1>2 DEF SegmentIndex
<1>6. CASE Len(S) < 2
  <2>1. Visits = {}
    <3>1. Legs = {}
      BY <1>3, <1>6 DEF Legs
    <3> QED  BY <3>1 DEF Visits
  <2>2. ~(IndexFromLastStop(S, record.lastStop) > 0) /\ ~(Len(S) >= 2)
    BY <1>1, <1>3, <1>6, <2>1
  <2> QED  BY <1>5, <1>6, <2>2
<1>7. CASE Len(S) >= 2 /\ dialect.lastStop /\ Visits # {}
  <2>1. IndexFromLastStop(S, record.lastStop) = Max(Visits) /\ ~(Len(S) < 2)
    BY <1>1, <1>3, <1>7
  <2> QED  BY <1>4, <1>5, <1>7, <2>1
<1>8. CASE Len(S) >= 2 /\ ~(dialect.lastStop /\ Visits # {})
  <2>1. ~(IndexFromLastStop(S, record.lastStop) > 0) /\ ~(Len(S) < 2)
    BY <1>1, <1>3, <1>8
  <2> QED  BY <1>5, <1>8, <2>1
<1> QED  BY <1>3, <1>6, <1>7, <1>8

LEMMA PlacedIs == Placed = PlacedLegs(route.stops) /\ Legs = 1 .. Len(route.stops) - 1
BY DEF Placed, PlacedLegs, Legs

\* Where a report by position places the vehicle.
LEMMA NearestPlaces ==
  ASSUME OnDrive, NEW p, p.lat \in Nat, p.lng \in Nat, ValidCoords(p), Placed # {}, NEW m,
         m = NearestIndex(route.stops, p)
  PROVE  /\ m \in Placed /\ m \in Nat
         /\ \A j \in Placed : AsNear(m, j, p) /\ (j < m => ~AsNear(j, m, p))
<1> DEFINE S == route.stops
<1>1. S \in Seq(Stops)
  BY RouteFacts DEF OnDrive
<1>2. p.lat \in Int /\ p.lng \in Int
  OBVIOUS
<1>3. IsNearest(S, p, m) /\ m \in 1 .. Len(S) - 1
  BY <1>1, <1>2, PlacedIs, NearestIs
<1>4. m \in Placed /\ \A j \in Placed : j \in 1 .. Len(S) - 1
  BY <1>3, PlacedIs DEF IsNearest, PlacedLegs
<1>5. ASSUME NEW j \in Placed PROVE AsNear(m, j, p) /\ (j < m => ~AsNear(j, m, p))
  <2>1. /\ AsNear(m, j, p) <=> ~Nearer(LegDistance(S, j, p), LegDistance(S, m, p))
        /\ AsNear(j, m, p) <=> ~Nearer(LegDistance(S, m, p), LegDistance(S, j, p))
    BY <1>1, <1>2, <1>4, AsNearIs
  <2> QED  BY <1>3, <2>1, PlacedIs DEF IsNearest
<1>6. m \in Nat
  BY <1>3
<1> QED  BY <1>4, <1>5, <1>6

\* A report changes the segment only as the property says.
LEMMA ReportPlaces ==
  ASSUME OnDrive, Report, segment' # segment
  PROVE  IF dialect.lastStop /\ Visits # {} THEN segment' \in Visits /\ \A i \in Visits : i <= segment'
         ELSE /\ ValidCoords(Position) /\ segment' \in Placed
              /\ \A j \in Placed : AsNear(segment', j, Position)
              /\ \A j \in Placed : j < segment' => ~AsNear(j, segment', Position)
<1> DEFINE S == route.stops
<1>1. PICK record \in LiveRecords(Payload) :
        segment' = IF record.inactive \/ SegmentIndex(S, record) = 0 THEN segment
                                                                     ELSE SegmentIndex(S, record)
  BY DEF Report
<1>2. segment' = SegmentIndex(S, record) /\ segment' # 0
  BY <1>1
<1>3. Len(S) \in Nat
  BY RouteFacts DEF OnDrive
<1>4. Len(S) >= 2
  BY <1>2, <1>3, SegmentIs
<1>5. CASE dialect.lastStop /\ Visits # {}
  <2>1. segment' = Max(Visits)
    BY <1>2, <1>3, <1>4, <1>5, SegmentIs
  <2>2. Visits \in SUBSET (1 .. Len(S))
    BY <1>3 DEF Visits, Legs
  <2>3. Max(Visits) \in Visits /\ \A i \in Visits : Max(Visits) >= i
    BY <1>3, <1>5, <2>2, MaxOfPlaces
  <2> QED  BY <1>5, <2>1, <2>3
<1>6. CASE ~(dialect.lastStop /\ Visits # {})
  <2>1. segment' = NearestIndex(S, Position)
    BY <1>2, <1>3, <1>4, <1>6, SegmentIs
  <2>2. ValidCoords(Position) /\ Placed # {}
    BY <1>2, <2>1, PlacedIs DEF NearestIndex, PlacedLegs
  <2>3. /\ segment' \in Placed
        /\ \A j \in Placed : AsNear(segment', j, Position) /\ (j < segment' => ~AsNear(j, segment', Position))
    BY <2>1, <2>2, OnDriveFacts, NearestPlaces
  <2> QED  BY <1>6, <2>2, <2>3
<1> QED  BY <1>5, <1>6

LEMMA DriveStarts == RecordInit => OnDrive
<1> SUFFICES ASSUME RecordInit PROVE OnDrive
  OBVIOUS
<1>1. route \in Routes /\ dialect \in Dialects /\ place = 1 /\ lastStop = 1
  BY DEF RecordInit
<1>2. 1 \in DOMAIN route.drive /\ route.drive[1].leg \in 1 .. Len(route.stops)
  BY <1>1, RouteFacts
<1> QED  BY <1>1, <1>2 DEF OnDrive

LEMMA DriveGoesOn == OnDrive /\ [RecordNext]_recordVars => OnDrive'
<1> SUFFICES ASSUME OnDrive, [RecordNext]_recordVars PROVE OnDrive'
  OBVIOUS
<1>1. CASE Drive
  <2>1. /\ route' = route /\ dialect' = dialect /\ lastStop' = lastStop
        /\ place' = place + 1 /\ place < Len(route.drive)
    BY <1>1 DEF Drive
  <2>2. /\ place \in 1 .. Len(route.drive) /\ Len(route.drive) \in Nat
        /\ DOMAIN route.drive = 1 .. Len(route.drive) /\ lastStop \in Nat
    BY RouteFacts DEF OnDrive
  <2>3. place + 1 \in DOMAIN route.drive /\ place <= place + 1
    BY <2>1, <2>2
  <2>4. route.drive[place].leg <= route.drive[place + 1].leg
    BY <2>2, <2>3, RouteFacts DEF OnDrive
  <2>5. route.drive[place].leg \in Int /\ route.drive[place + 1].leg \in Int
    BY <2>2, <2>3, RouteFacts DEF OnDrive
  <2>6. lastStop <= route.drive[place + 1].leg
    BY <2>2, <2>4, <2>5 DEF OnDrive
  <2> QED  BY <2>1, <2>3, <2>6 DEF OnDrive
<1>2. CASE NoticeStop
  <2>1. /\ route' = route /\ dialect' = dialect /\ lastStop' = lastStop + 1
        /\ place' = place /\ lastStop < route.drive[place].leg
    BY <1>2 DEF NoticeStop
  <2>2. route.drive[place].leg \in Int /\ lastStop \in Nat \ {0}
    BY RouteFacts DEF OnDrive
  <2> QED  BY <2>1, <2>2 DEF OnDrive
<1>3. CASE StopDriving
  BY <1>3 DEF StopDriving, OnDrive
<1>4. CASE Report
  BY <1>4 DEF Report, OnDrive
<1>5. CASE UNCHANGED recordVars
  BY <1>5 DEF recordVars, OnDrive
<1> QED  BY <1>1, <1>2, <1>3, <1>4, <1>5 DEF RecordNext

\* The published segment is the leg from the last stop told, or else the first of
\* the legs that come as near to the position as any, by the points of the legs: on
\* every route with stops anywhere, for every position and in every dialect.
THEOREM PlacementIsRight == RecordSpec => PlacedWhereReported
<1> DEFINE Right ==
             segment' # segment =>
               IF dialect.lastStop /\ Visits # {} THEN segment' \in Visits /\ \A i \in Visits : i <= segment'
               ELSE /\ ValidCoords(Position) /\ segment' \in Placed
                    /\ \A j \in Placed : AsNear(segment', j, Position)
                    /\ \A j \in Placed : j < segment' => ~AsNear(j, segment', Position)
<1>1. OnDrive /\ [RecordNext]_recordVars => [Right]_recordVars
  <2> SUFFICES ASSUME OnDrive, RecordNext PROVE Right
    OBVIOUS
  <2>1. CASE Drive \/ NoticeStop \/ StopDriving
    <3>1. segment' = segment
      BY <2>1 DEF Drive, NoticeStop, StopDriving
    <3> QED  BY <3>1
  <2>2. CASE Report
    BY <2>2, ReportPlaces
  <2> QED  BY <2>1, <2>2 DEF RecordNext
<1>2. RecordSpec => [][Right]_recordVars
  BY <1>1, DriveStarts, DriveGoesOn, PTL DEF RecordSpec
<1> QED  BY <1>2 DEF PlacedWhereReported

-----------------------------------------------------------------------------
(* MHD: when the published segment falls back *)

\* The leg meant at a position of the drive.
Own(k) == Min({route.drive[k].leg, Len(route.stops) - 1})

LEMMA MinOfTwo ==
  ASSUME NEW x \in Int, NEW y \in Int
  PROVE  Min({x, y}) = IF x <= y THEN x ELSE y
<1>1. {x, y} \in SUBSET Int
  OBVIOUS
<1>2. CASE x <= y
  <2>1. x \in {x, y} /\ \A z \in {x, y} : x <= z
    BY <1>2
  <2> QED  BY <1>1, <1>2, <2>1, MinIs
<1>3. CASE ~(x <= y)
  <2>1. y \in {x, y} /\ \A z \in {x, y} : y <= z
    BY <1>3
  <2> QED  BY <1>1, <1>3, <2>1, MinIs
<1> QED  BY <1>2, <1>3

LEMMA OwnIs ==
  ASSUME route \in Routes, NEW k \in DOMAIN route.drive
  PROVE  /\ Own(k) \in Nat /\ Own(k) <= Len(route.stops) - 1
         /\ Own(k) = IF route.drive[k].leg <= Len(route.stops) - 1 THEN route.drive[k].leg
                                                                  ELSE Len(route.stops) - 1
<1>1. Len(route.stops) \in Nat \ {0} /\ route.drive[k].leg \in 1 .. Len(route.stops)
  BY RouteFacts
<1> DEFINE n == Len(route.stops) - 1
           leg == route.drive[k].leg
<1>2. n \in Nat /\ leg \in Int /\ leg > 0
  BY <1>1
<1> HIDE DEF n, leg
<1>3. Min({leg, n}) = IF leg <= n THEN leg ELSE n
  BY <1>2, MinOfTwo
<1>4. Own(k) = Min({leg, n})
  BY DEF Own, n, leg
<1>5. Own(k) \in Nat /\ Own(k) <= n /\ Own(k) = IF leg <= n THEN leg ELSE n
  BY <1>2, <1>3, <1>4
<1> QED  BY <1>5 DEF n, leg

LEMMA OwnGrows ==
  ASSUME route \in Routes, NEW j \in DOMAIN route.drive, NEW k \in DOMAIN route.drive, j <= k
  PROVE  Own(j) <= Own(k)
<1>1. /\ route.drive[j].leg <= route.drive[k].leg /\ Len(route.stops) \in Nat
      /\ route.drive[j].leg \in 1 .. Len(route.stops) /\ route.drive[k].leg \in 1 .. Len(route.stops)
  BY RouteFacts
<1> QED  BY <1>1, OwnIs

\* Out of doubt the nearest leg is the one that is meant.
LEMMA NearestOwn ==
  ASSUME OnDrive, ValidCoords(Position), ~InDoubt(place)
  PROVE  Placed # {} /\ NearestIndex(route.stops, Position) = Own(place)
<1> DEFINE p == route.drive[place]
           l == Own(place)
           m == NearestIndex(route.stops, Position)
           S == route.stops
<1>1. route \in Routes /\ place \in DOMAIN route.drive /\ p.lat \in Nat /\ p.lng \in Nat
  BY RouteFacts DEF OnDrive
<1>2. ValidCoords(p)
  BY DEF ValidCoords, Position
<1>3. l \in Placed /\ \A j \in Placed : IF j < l THEN ~AsNear(j, l, p) ELSE AsNear(l, j, p)
  BY <1>2 DEF InDoubt, Own
<1>4. S \in Seq(Stops) /\ \A j \in Placed : j \in 1 .. Len(S) - 1 /\ j \in Nat
  BY <1>1, RouteFacts, PlacedIs DEF PlacedLegs
<1>5. /\ Position.lat = p.lat /\ Position.lng = p.lng
      /\ \A i, j : AsNear(i, j, Position) <=> AsNear(i, j, p)
  BY DEF Position, AsNear, DistanceOfPart
<1>6. m \in Placed /\ \A j \in Placed : AsNear(m, j, p) /\ (j < m => ~AsNear(j, m, p))
  BY <1>1, <1>3, <1>5, NearestPlaces
<1> HIDE DEF l, m
<1>7. ~(m < l) /\ ~(l < m)
  BY <1>3, <1>4, <1>6
<1>8. m = l
  BY <1>3, <1>4, <1>6, <1>7
<1> QED  BY <1>3, <1>8 DEF l, m

\* Nothing up to now was ambiguous.
Clear == \A k \in 1 .. place : ~InDoubt(k)

\* What of the segment is known: with last stops, while no stop comes again, it is
\* none ahead of the last stop, and without them, while nothing is in doubt, none
\* ahead of the leg that is driven.
NoneAhead ==
  /\ OnDrive
  /\ segment \in Nat /\ segment <= Len(route.stops) - 1
  /\ dialect.lastStop /\ ~ComesAgain => segment <= lastStop
  /\ ~dialect.lastStop /\ Clear => segment <= Own(place)

\* As far as no stop comes again, the last one begins one leg, the final one none.
LEMMA VisitsAre ==
  ASSUME OnDrive, ~ComesAgain
  PROVE  Visits = IF lastStop < Len(route.stops) THEN {lastStop} ELSE {}
<1>1. /\ lastStop \in 1 .. Len(route.stops) /\ Len(route.stops) \in Nat
      /\ DOMAIN route.stops = 1 .. Len(route.stops)
  BY OnDriveFacts, RouteFacts DEF OnDrive
<1>2. \A i \in 1 .. Len(route.stops) :
        StopIdentity(route.stops[i].id) = StopIdentity(route.stops[lastStop].id) => i = lastStop
  BY <1>1 DEF ComesAgain
<1>3. \A i \in Legs : i \in 1 .. Len(route.stops) /\ i < Len(route.stops)
  BY <1>1 DEF Legs
<1>4. \A i \in Visits : i = lastStop /\ i < Len(route.stops)
  BY <1>2, <1>3 DEF Visits
<1>5. lastStop < Len(route.stops) => lastStop \in Visits
  BY <1>1 DEF Visits, Legs
<1> QED  BY <1>4, <1>5

\* What a report makes of the segment.
LEMMA ReportSays ==
  ASSUME NoneAhead, Report
  PROVE  /\ segment' \in Nat /\ segment' <= Len(route.stops) - 1
         /\ dialect.lastStop /\ ~ComesAgain /\ lastStop < Len(route.stops) =>
              segment' = segment \/ segment' = lastStop
         /\ ~dialect.lastStop \/ (~ComesAgain /\ lastStop = Len(route.stops)) =>
              segment' = segment \/ (segment' = NearestIndex(route.stops, Position) /\ ValidCoords(Position))
<1> DEFINE S == route.stops
<1>1. PICK record \in LiveRecords(Payload) :
        segment' = IF record.inactive \/ SegmentIndex(S, record) = 0 THEN segment
                                                                     ELSE SegmentIndex(S, record)
  BY DEF Report
<1>2. OnDrive /\ segment \in Nat /\ segment <= Len(S) - 1
  BY DEF NoneAhead
<1>3. Len(S) \in Nat \ {0}
  BY <1>2, RouteFacts DEF OnDrive
<1>4. SUFFICES ASSUME segment' # segment
               PROVE  /\ segment' \in Nat /\ segment' <= Len(S) - 1
                      /\ dialect.lastStop /\ ~ComesAgain /\ lastStop < Len(S) => segment' = lastStop
                      /\ ~dialect.lastStop \/ (~ComesAgain /\ lastStop = Len(S)) =>
                           segment' = NearestIndex(S, Position) /\ ValidCoords(Position)
  BY <1>2
<1>5. /\ segment' = SegmentIndex(S, record) /\ segment' # 0
      /\ SegmentIndex(S, record) = CASE Len(S) < 2 -> 0
               [] Len(S) >= 2 /\ dialect.lastStop /\ Visits # {} -> Max(Visits)
               [] OTHER -> NearestIndex(S, Position)
  BY <1>1, <1>2, <1>4, SegmentIs
<1>6. Len(S) >= 2
  BY <1>3, <1>5
<1>7. \A i \in Legs : i \in Nat /\ i <= Len(S) - 1
  BY <1>3 DEF Legs
<1>8. CASE dialect.lastStop /\ Visits # {}
  <2>1. segment' = Max(Visits)
    BY <1>3, <1>5, <1>6, <1>8
  <2>2. Visits \in SUBSET (1 .. Len(S)) /\ Visits \subseteq Legs
    BY <1>3 DEF Visits, Legs
  <2>3. segment' \in Visits
    BY <1>3, <1>8, <2>1, <2>2, MaxOfPlaces
  <2>4. ~ComesAgain => lastStop < Len(S) /\ segment' = lastStop
    BY <1>2, <1>8, <2>3, VisitsAre
  <2>5. lastStop < Len(S) => lastStop # Len(S)
    BY <1>3
  <2> QED  BY <1>7, <1>8, <2>2, <2>3, <2>4, <2>5
<1>9. CASE ~(dialect.lastStop /\ Visits # {})
  <2>1. segment' = NearestIndex(S, Position)
    BY <1>3, <1>5, <1>6, <1>9
  <2>2. ValidCoords(Position) /\ Placed # {}
    BY <1>5, <2>1, PlacedIs DEF NearestIndex, PlacedLegs
  <2>3. segment' \in Placed
    BY <1>2, <2>1, <2>2, OnDriveFacts, NearestPlaces
  <2>4. segment' \in Nat /\ segment' <= Len(S) - 1
    BY <1>7, <2>3 DEF Placed
  <2>5. dialect.lastStop /\ ~ComesAgain => ~(lastStop < Len(S))
    BY <1>2, <1>9, VisitsAre
  <2> QED  BY <2>1, <2>2, <2>4, <2>5
<1> QED  BY <1>8, <1>9

LEMMA NoneAheadFirst == RecordInit => NoneAhead
<1> SUFFICES ASSUME RecordInit PROVE NoneAhead
  OBVIOUS
<1>1. OnDrive /\ segment = 0 /\ lastStop = 1
  BY DriveStarts DEF RecordInit
<1>2. Len(route.stops) \in Nat \ {0} /\ Own(place) \in Nat
  BY <1>1, RouteFacts, OwnIs DEF OnDrive
<1> QED  BY <1>1, <1>2 DEF NoneAhead

LEMMA NoneAheadStep == NoneAhead /\ [RecordNext]_recordVars => NoneAhead'
<1> SUFFICES ASSUME NoneAhead, [RecordNext]_recordVars PROVE NoneAhead'
  OBVIOUS
<1> DEFINE n == Len(route.stops)
<1>1. OnDrive' /\ OnDrive /\ route \in Routes /\ n \in Nat \ {0} /\ place \in DOMAIN route.drive
  BY DriveGoesOn, RouteFacts DEF NoneAhead, OnDrive
<1>2. Own(place) \in Nat /\ lastStop \in Nat /\ place \in Nat
  BY <1>1, OwnIs, OnDriveFacts DEF OnDrive
<1>3. CASE Drive
  <2>1. /\ route' = route /\ dialect' = dialect /\ lastStop' = lastStop /\ segment' = segment
        /\ place' = place + 1
    BY <1>3 DEF Drive
  <2>2. ComesAgain' <=> ComesAgain
    BY <2>1 DEF ComesAgain
  <2>3. place + 1 \in DOMAIN route.drive /\ place <= place + 1
    BY <1>1, <1>2, <2>1 DEF OnDrive
  <2>4. Own(place) <= Own(place + 1) /\ Own(place + 1) \in Nat
    BY <1>1, <2>3, OwnGrows, OwnIs
  <2>5. Own(place)' = Own(place + 1)
    BY <2>1 DEF Own
  <2>6. Clear' => Clear
    <3>1. \A k : InDoubt(k)' <=> InDoubt(k)
      BY <2>1 DEF InDoubt, Placed, Legs, AsNear, DistanceOfPart, Parted
    <3>2. \A k \in 1 .. place : k \in 1 .. place + 1
      BY <1>2
    <3> QED  BY <2>1, <3>1, <3>2 DEF Clear
  <2> QED  BY <1>1, <1>2, <2>1, <2>2, <2>4, <2>5, <2>6 DEF NoneAhead
<1>4. CASE NoticeStop
  <2>1. /\ route' = route /\ dialect' = dialect /\ lastStop' = lastStop + 1 /\ segment' = segment
        /\ place' = place
    BY <1>4 DEF NoticeStop
  <2>2. ComesAgain => ComesAgain'
    <3>1. \A i \in 1 .. lastStop : i \in 1 .. lastStop + 1
      BY <1>2
    <3> QED  BY <2>1, <3>1 DEF ComesAgain
  <2>3. Own(place)' = Own(place)
    BY <2>1 DEF Own
  <2>4. Clear' <=> Clear
    <3>1. \A k : InDoubt(k)' <=> InDoubt(k)
      BY <2>1 DEF InDoubt, Placed, Legs, AsNear, DistanceOfPart, Parted
    <3> QED  BY <2>1, <3>1 DEF Clear
  <2> QED  BY <1>1, <1>2, <2>1, <2>2, <2>3, <2>4 DEF NoneAhead
<1>5. ASSUME UNCHANGED <<route, dialect, place, lastStop>>
      PROVE  /\ ComesAgain' <=> ComesAgain
             /\ Own(place)' = Own(place)
             /\ Clear' <=> Clear
  <2>1. \A k : InDoubt(k)' <=> InDoubt(k)
    BY <1>5 DEF InDoubt, Placed, Legs, AsNear, DistanceOfPart, Parted
  <2> QED  BY <1>5, <2>1 DEF ComesAgain, Own, Clear
<1>6. CASE StopDriving \/ UNCHANGED recordVars
  <2>1. segment' = segment /\ UNCHANGED <<route, dialect, place, lastStop>>
    BY <1>6 DEF StopDriving, recordVars
  <2> QED  BY <1>1, <1>5, <2>1 DEF NoneAhead
<1>7. CASE Report
  <2>1. UNCHANGED <<route, dialect, place, lastStop>>
    BY <1>7 DEF Report
  <2>2. /\ segment' \in Nat /\ segment' <= n - 1
        /\ dialect.lastStop /\ ~ComesAgain /\ lastStop < n => segment' = segment \/ segment' = lastStop
        /\ ~dialect.lastStop =>
             segment' = segment \/ (segment' = NearestIndex(route.stops, Position) /\ ValidCoords(Position))
    BY <1>7, ReportSays
  <2>3. ASSUME dialect.lastStop, ~ComesAgain PROVE segment' <= lastStop
    <3>1. CASE lastStop < n
      BY <1>2, <2>2, <2>3, <3>1 DEF NoneAhead
    <3>2. CASE ~(lastStop < n)
      BY <1>1, <1>2, <2>2, <3>2
    <3> QED  BY <3>1, <3>2
  <2>4. ASSUME ~dialect.lastStop, Clear PROVE segment' <= Own(place)
    <3>1. CASE segment' = segment
      BY <2>4, <3>1 DEF NoneAhead
    <3>2. CASE segment' = NearestIndex(route.stops, Position) /\ ValidCoords(Position)
      <4>1. ~InDoubt(place)
        <5>1. place \in 1 .. place
          BY <1>1, OnDriveFacts
        <5> QED  BY <2>4, <5>1 DEF Clear
      <4>2. segment' = Own(place)
        BY <1>1, <3>2, <4>1, NearestOwn
      <4> QED  BY <1>2, <4>2
    <3> QED  BY <2>2, <2>4, <3>1, <3>2
  <2> QED  BY <1>1, <1>5, <2>1, <2>2, <2>3, <2>4 DEF NoneAhead
<1> QED  BY <1>3, <1>4, <1>6, <1>7 DEF RecordNext

\* The published segment falls back only where stops or positions are ambiguous, on
\* every route: with last stops it is none ahead of them until a stop comes again,
\* and by positions none ahead of the leg driven until one leaves it in doubt.
THEOREM FallingBack == RecordSpec => FallsBackOnlyInDoubt
<1> DEFINE Doubtful ==
             segment' < segment =>
               \/ dialect.lastStop /\ ComesAgain
               \/ /\ ~dialect.lastStop \/ lastStop = Len(route.stops)
                  /\ \E k \in 1 .. place : InDoubt(k)
           n == Len(route.stops)
<1>1. NoneAhead /\ [RecordNext]_recordVars => [Doubtful]_recordVars
  <2> SUFFICES ASSUME NoneAhead, RecordNext, segment' < segment,
                      ~(dialect.lastStop /\ ComesAgain)
               PROVE  /\ ~dialect.lastStop \/ lastStop = n
                      /\ \E k \in 1 .. place : InDoubt(k)
    OBVIOUS
  <2>1. /\ OnDrive /\ segment \in Nat /\ segment <= n - 1 /\ n \in Nat \ {0}
        /\ lastStop \in 1 .. n /\ lastStop \in Nat /\ dialect.lastStop \in BOOLEAN
        /\ place \in 1 .. place
    BY OnDriveFacts, RouteFacts DEF NoneAhead, OnDrive
  <2>2. Report
    <3>1. ~(Drive \/ NoticeStop \/ StopDriving)
      <4>1. ~(segment < segment)
        BY <2>1
      <4> QED  BY <4>1 DEF Drive, NoticeStop, StopDriving
    <3> QED  BY <3>1 DEF RecordNext
  <2>3. segment' \in Nat /\ segment' # segment
    BY <2>1, <2>2, ReportSays
  <2>4. ~dialect.lastStop \/ lastStop = n
    <3>1. SUFFICES ASSUME dialect.lastStop, lastStop # n PROVE FALSE
      BY <2>1
    <3>2. lastStop < n
      BY <2>1, <3>1
    <3>3. segment' = lastStop
      BY <2>2, <2>3, <3>1, <3>2, ReportSays
    <3>4. segment <= lastStop
      BY <3>1 DEF NoneAhead
    <3> QED  BY <2>1, <3>3, <3>4
  <2>5. segment' = NearestIndex(route.stops, Position) /\ ValidCoords(Position)
    BY <2>1, <2>2, <2>3, <2>4, ReportSays
  <2>6. \E k \in 1 .. place : InDoubt(k)
    <3> SUFFICES ASSUME Clear PROVE FALSE
      BY DEF Clear
    <3>1. ~InDoubt(place)
      BY <2>1 DEF Clear
    <3>2. segment' = Own(place)
      BY <2>1, <2>5, <3>1, NearestOwn
    <3>3. CASE dialect.lastStop
      <4>1. lastStop = n /\ route.drive[place].leg \in 1 .. n /\ lastStop <= route.drive[place].leg
        BY <2>1, <2>4, <3>3, RouteFacts DEF OnDrive
      <4>2. Own(place) = n - 1
        BY <2>1, <4>1, OwnIs DEF OnDrive
      <4> QED  BY <2>1, <3>2, <4>2
    <3>4. CASE ~dialect.lastStop
      <4>1. segment <= Own(place)
        BY <3>4 DEF NoneAhead
      <4> QED  BY <2>1, <2>3, <3>2, <4>1
    <3> QED  BY <2>1, <3>3, <3>4
  <2> QED  BY <2>4, <2>6
<1>2. RecordSpec => [][Doubtful]_recordVars
  BY <1>1, NoneAheadFirst, NoneAheadStep, PTL DEF RecordSpec
<1> QED  BY <1>2 DEF FallsBackOnlyInDoubt

-----------------------------------------------------------------------------
(* MHD: the stream *)

USE ConstantsAssumption DEF ConstantsAssumption

TypeOK ==
  /\ reader \in [pc : {"dial", "read", "process", "sleep"}, url : 1 .. URLs, slot : Slots]
  /\ conns \in [Slots -> Conn]

\* A connection by itself.  While it is open nobody has reported it, and a watchdog
\* about to close it has signalled; the signal of the one that closed it is there until
\* the reader takes it.  A watchdog that has seen every payload has waited for as long
\* as the stream is quiet.
GoodConn(c) ==
  /\ c.state = "open" => /\ c.result = "none" /\ c.closedBy = "none"
                         /\ c.watch = "close" => c.idleSignal
  /\ c.closedBy = "watchdog" => c.result # "error" /\ (c.result = "none" => c.idleSignal)
  /\ c.state = "open" /\ c.watch = "select" /\ ~c.activity =>
       /\ c.timer + c.quiet >= IdleTimeout
       /\ c.tick => c.quiet = IdleTimeout

\* The connection that is read has not been reported.
StreamInv ==
  /\ \A g \in Slots : GoodConn(conns[g])
  /\ reader.pc \in {"read", "process"} => conns[reader.slot].result = "none"

-----------------------------------------------------------------------------
(* MHD: what the goroutines do to one connection *)

LEMMA TimerBounds ==
  /\ 0 \in 0 .. PongWait /\ PongWait \in 0 .. PongWait
  /\ 0 \in 0 .. PingInterval /\ PingInterval \in 0 .. PingInterval
  /\ 0 \in 0 .. IdleTimeout /\ IdleTimeout \in 0 .. IdleTimeout /\ IdleTimeout \in Nat \ {0}
<1>1. PongWait \in Nat /\ PingInterval \in Nat /\ IdleTimeout \in Nat \ {0}
  OBVIOUS
<1> QED  BY <1>1

LEMMA NewConns ==
  NotDialled \in Conn /\ GoodConn(NotDialled) /\ Dialled \in Conn /\ GoodConn(Dialled)
<1>1. <<>> \in Seq(Frames)
  BY EmptySeq
<1>2. NotDialled \in Conn
  BY <1>1, TimerBounds DEF NotDialled, Conn
<1>3. /\ Dialled \in Conn /\ Dialled.state = "open" /\ Dialled.closedBy = "none"
      /\ Dialled.result = "none" /\ Dialled.watch = "select" /\ Dialled.tick = FALSE
      /\ Dialled.timer = IdleTimeout /\ Dialled.quiet = 0
  BY <1>1, TimerBounds DEF Dialled, NotDialled, Conn
<1>4. GoodConn(NotDialled)
  BY DEF NotDialled, GoodConn
<1>5. GoodConn(Dialled)
  BY <1>3, TimerBounds DEF GoodConn
<1> QED  BY <1>2, <1>3, <1>4, <1>5

\* The frames a connection may hold after a step.
LEMMA FrameLists ==
  ASSUME NEW c \in Conn
  PROVE  /\ <<>> \in Seq(Frames)
         /\ c.frames # <<>> => Tail(c.frames) \in Seq(Frames)
         /\ \A f \in Frames : <<f>> \in Seq(Frames)
         /\ \A answer \in {<<>>, <<"pong">>} : c.frames \o answer \in Seq(Frames)
<1> DEFINE s == c.frames
<1>1. s \in Seq(Frames)
  BY DEF Conn
<1> HIDE DEF s
<1>2. \A f \in Frames : <<f>> \in Seq(Frames)
  OBVIOUS
<1>3. "pong" \in Frames
  BY DEF Frames
<1>4. \A answer \in Seq(Frames) : s \o answer \in Seq(Frames)
  BY <1>1
<1>5. s # <<>> => Tail(s) \in Seq(Frames)
  BY <1>1
<1> QED  BY <1>1, <1>2, <1>3, <1>4, <1>5, EmptySeq DEF s

\* Frames that come or go change nothing the invariant speaks of.
LEMMA FramesChange ==
  ASSUME NEW c \in Conn, GoodConn(c), NEW f \in Seq(Frames), NEW n \in 0 .. PongWait
  PROVE  /\ [c EXCEPT !.frames = f] \in Conn /\ GoodConn([c EXCEPT !.frames = f])
         /\ [c EXCEPT !.frames = f, !.deadline = n] \in Conn
         /\ GoodConn([c EXCEPT !.frames = f, !.deadline = n])
         /\ [c EXCEPT !.frames = f, !.deadline = n].result = c.result
         /\ [c EXCEPT !.frames = f].result = c.result
<1> DEFINE d == [c EXCEPT !.frames = f]
           e == [c EXCEPT !.frames = f, !.deadline = n]
<1>1. d \in Conn /\ e \in Conn
  BY DEF Conn
<1>2. /\ d.state = c.state /\ d.closedBy = c.closedBy /\ d.result = c.result
      /\ d.idleSignal = c.idleSignal /\ d.watch = c.watch /\ d.activity = c.activity
      /\ d.timer = c.timer /\ d.tick = c.tick /\ d.quiet = c.quiet
  BY DEF Conn
<1>3. /\ e.state = c.state /\ e.closedBy = c.closedBy /\ e.result = c.result
      /\ e.idleSignal = c.idleSignal /\ e.watch = c.watch /\ e.activity = c.activity
      /\ e.timer = c.timer /\ e.tick = c.tick /\ e.quiet = c.quiet
  BY DEF Conn
<1> HIDE DEF d, e
<1>4. GoodConn(d) /\ GoodConn(e)
  BY <1>2, <1>3 DEF GoodConn
<1> QED  BY <1>1, <1>2, <1>3, <1>4 DEF d, e

LEMMA PayloadSeen ==
  ASSUME NEW c \in Conn, GoodConn(c), NEW f \in Seq(Frames), NEW d,
         d = [c EXCEPT !.frames = f, !.deadline = PongWait, !.activity = TRUE, !.quiet = 0]
  PROVE  d \in Conn /\ GoodConn(d) /\ d.result = c.result
<1>1. /\ d \in Conn /\ d.state = c.state /\ d.closedBy = c.closedBy /\ d.result = c.result
      /\ d.idleSignal = c.idleSignal /\ d.watch = c.watch /\ d.activity = TRUE
  BY TimerBounds DEF Conn
<1> QED  BY <1>1 DEF GoodConn

LEMMA ConnClosed ==
  ASSUME NEW c \in Conn, GoodConn(c)
  PROVE  \A who \in {"watchdog", "peer", "reader"} :
           /\ Closed(c, who) \in Conn /\ Closed(c, who).state # "open"
           /\ Closed(c, who).result = c.result /\ Closed(c, who).idleSignal = c.idleSignal
           /\ Closed(c, who).watch = c.watch
           /\ Closed(c, who).closedBy = IF c.state = "open" THEN who ELSE c.closedBy
  BY DEF Conn, GoodConn, Closed

LEMMA PeerCloseGood ==
  ASSUME NEW c \in Conn, GoodConn(c)
  PROVE  GoodConn(Closed(c, "peer"))
  BY ConnClosed DEF GoodConn

\* The reader reports a connection that was not reported before.
LEMMA ReadFailsGood ==
  ASSUME NEW c \in Conn, GoodConn(c), c.result = "none", NEW d,
         d = [Closed(c, "reader") EXCEPT !.result = IF c.idleSignal THEN "idle" ELSE "error",
                                         !.idleSignal = FALSE, !.done = TRUE,
                                         !.frames = <<>>, !.deadline = 0, !.quiet = 0]
  PROVE  d \in Conn /\ GoodConn(d)
<1> DEFINE e == Closed(c, "reader")
<1>1. e \in Conn /\ e.state # "open" /\ e.closedBy = IF c.state = "open" THEN "reader" ELSE c.closedBy
  BY ConnClosed
<1> DEFINE f == <<>>
<1>2. f \in Seq(Frames) /\ c.idleSignal \in BOOLEAN
  BY EmptySeq DEF Conn
<1> DEFINE r == IF c.idleSignal THEN "idle" ELSE "error"
<1>3. r \in {"none", "idle", "error"} /\ 0 \in 0 .. PongWait /\ 0 \in 0 .. IdleTimeout
  BY TimerBounds
<1>4. d = [e EXCEPT !.result = r, !.idleSignal = FALSE, !.done = TRUE, !.frames = f,
                    !.deadline = 0, !.quiet = 0]
  OBVIOUS
<1> HIDE DEF e, r, f
<1>5. /\ d.state = e.state /\ d.closedBy = e.closedBy /\ d.result = r
  BY <1>1, <1>4 DEF Conn
<1>6. d \in Conn
  <2> DEFINE b == [e EXCEPT !.result = r, !.idleSignal = FALSE, !.done = TRUE]
  <2>1. b \in Conn
    BY <1>1, <1>3 DEF Conn
  <2>2. d = [b EXCEPT !.frames = f, !.deadline = 0, !.quiet = 0]
    BY <1>1, <1>4 DEF Conn
  <2> HIDE DEF b
  <2>3. [b EXCEPT !.frames = f, !.deadline = 0, !.quiet = 0] \in Conn
    BY <1>2, <1>3, <2>1 DEF Conn
  <2> QED  BY <2>1, <2>2, <2>3
<1> QED  BY <1>1, <1>5, <1>6 DEF GoodConn, r

LEMMA WatchdogGood ==
  ASSUME NEW c \in Conn, GoodConn(c), c.watch \in {"select", "signal", "close"}, NEW d,
         \/ c.watch = "select" /\ c.done /\ d = [c EXCEPT !.watch = "off"]
         \/ c.watch = "select" /\ d = [c EXCEPT !.activity = FALSE, !.timer = IdleTimeout,
                                                !.tick = FALSE]
         \/ c.watch = "select" /\ d = [c EXCEPT !.tick = FALSE, !.watch = "signal"]
         \/ c.watch = "signal" /\ d = [c EXCEPT !.idleSignal = TRUE, !.watch = "close"]
  PROVE  d \in Conn /\ GoodConn(d) /\ d.result = c.result
<1>1. d \in Conn /\ d.state = c.state /\ d.closedBy = c.closedBy /\ d.result = c.result
  <2>1. CASE d = [c EXCEPT !.watch = "off"]
    BY <2>1 DEF Conn
  <2>2. CASE d = [c EXCEPT !.activity = FALSE, !.timer = IdleTimeout, !.tick = FALSE]
    BY <2>2, TimerBounds DEF Conn
  <2>3. CASE d = [c EXCEPT !.tick = FALSE, !.watch = "signal"]
    BY <2>3 DEF Conn
  <2>4. CASE d = [c EXCEPT !.idleSignal = TRUE, !.watch = "close"]
    BY <2>4 DEF Conn
  <2> QED  BY <2>1, <2>2, <2>3, <2>4
<1>2. c.idleSignal => d.idleSignal
  <2>1. ASSUME d = [c EXCEPT !.idleSignal = TRUE, !.watch = "close"] PROVE d.idleSignal
    BY <2>1 DEF Conn
  <2>2. ASSUME d.idleSignal = c.idleSignal PROVE c.idleSignal => d.idleSignal
    BY <2>2
  <2> QED  BY <2>1, <2>2 DEF Conn
<1>3. d.watch = "close" => d.idleSignal
  BY DEF Conn
<1>4. d.watch = "select" => d.timer = IdleTimeout /\ ~d.tick /\ d.quiet \in 0 .. IdleTimeout
  BY DEF Conn
<1>5. d.watch = "select" /\ d.quiet \in 0 .. IdleTimeout /\ d.timer = IdleTimeout =>
        d.timer + d.quiet >= IdleTimeout
  BY TimerBounds
<1> QED  BY <1>1, <1>2, <1>3, <1>4, <1>5 DEF GoodConn

LEMMA WatchClosesGood ==
  ASSUME NEW c \in Conn, GoodConn(c), c.watch = "close", NEW d,
         d = [Closed(c, "watchdog") EXCEPT !.watch = "off"]
  PROVE  d \in Conn /\ GoodConn(d) /\ d.result = c.result
<1> DEFINE e == Closed(c, "watchdog")
<1>1. /\ e \in Conn /\ e.state # "open" /\ e.result = c.result /\ e.idleSignal = c.idleSignal
      /\ e.closedBy = IF c.state = "open" THEN "watchdog" ELSE c.closedBy
  BY ConnClosed
<1> HIDE DEF e
<1>2. /\ d \in Conn /\ d.state = e.state /\ d.closedBy = e.closedBy /\ d.result = e.result
      /\ d.idleSignal = e.idleSignal
  BY <1>1 DEF e, Conn
<1> QED  BY <1>1, <1>2 DEF GoodConn

LEMMA TimesChange ==
  ASSUME NEW c \in Conn, NEW timer \in 0 .. IdleTimeout, NEW tick \in BOOLEAN,
         NEW quiet \in 0 .. IdleTimeout
  PROVE  [c EXCEPT !.timer = timer, !.tick = tick, !.quiet = quiet] \in Conn
<1>1. [c EXCEPT !.timer = timer, !.tick = tick] \in Conn
  BY DEF Conn
<1>2. \A d \in Conn : [d EXCEPT !.quiet = quiet] \in Conn
  BY DEF Conn
<1> QED  BY <1>1, <1>2 DEF Conn

LEMMA TickGood ==
  ASSUME NEW c \in Conn, GoodConn(c), NEW d,
         d = [c EXCEPT !.deadline = Less(@), !.ping = Less(@), !.timer = Less(@),
                !.tick = @ \/ (c.timer = 1 /\ c.watch = "select"),
                !.quiet = IF @ < IdleTimeout /\ c.state = "open" THEN @ + 1 ELSE @]
  PROVE  d \in Conn /\ GoodConn(d) /\ d.result = c.result
<1>1. /\ c.deadline \in 0 .. PongWait /\ c.ping \in 0 .. PingInterval
      /\ c.timer \in 0 .. IdleTimeout /\ c.quiet \in 0 .. IdleTimeout /\ c.tick \in BOOLEAN
  BY DEF Conn
<1> DEFINE deadline == Less(c.deadline)
           ping == Less(c.ping)
           timer == Less(c.timer)
           tick == c.tick \/ (c.timer = 1 /\ c.watch = "select")
           quiet == IF c.quiet < IdleTimeout /\ c.state = "open" THEN c.quiet + 1 ELSE c.quiet
<1>2. /\ deadline \in 0 .. PongWait /\ ping \in 0 .. PingInterval
      /\ timer \in 0 .. IdleTimeout /\ quiet \in 0 .. IdleTimeout /\ tick \in BOOLEAN
  BY <1>1 DEF Less
<1>3. d = [c EXCEPT !.deadline = deadline, !.ping = ping, !.timer = timer, !.tick = tick,
                    !.quiet = quiet]
  OBVIOUS
<1>4. c.state = "open" /\ c.timer + c.quiet >= IdleTimeout => timer + quiet >= IdleTimeout
  BY <1>1 DEF Less
<1>5. c.state = "open" /\ c.watch = "select" /\ c.timer + c.quiet >= IdleTimeout
        /\ (c.tick => c.quiet = IdleTimeout) => (tick => quiet = IdleTimeout)
  BY <1>1
<1> HIDE DEF deadline, ping, timer, tick, quiet
<1>6. /\ d \in Conn /\ d.state = c.state /\ d.closedBy = c.closedBy /\ d.result = c.result
      /\ d.idleSignal = c.idleSignal /\ d.watch = c.watch /\ d.activity = c.activity
      /\ d.timer = timer /\ d.tick = tick /\ d.quiet = quiet
  <2> DEFINE e == [c EXCEPT !.deadline = deadline, !.ping = ping]
  <2>1. /\ e \in Conn /\ e.state = c.state /\ e.closedBy = c.closedBy
        /\ e.result = c.result /\ e.idleSignal = c.idleSignal /\ e.watch = c.watch
        /\ e.activity = c.activity
    BY <1>2 DEF Conn
  <2>2. d = [e EXCEPT !.timer = timer, !.tick = tick, !.quiet = quiet]
    BY <1>3
  <2> HIDE DEF e
  <2>3. d \in Conn
    <3>1. [e EXCEPT !.timer = timer, !.tick = tick, !.quiet = quiet] \in Conn
      BY <1>2, <2>1, TimesChange
    <3> QED  BY <2>2, <3>1
  <2>4. /\ d.state = e.state /\ d.closedBy = e.closedBy /\ d.result = e.result
        /\ d.idleSignal = e.idleSignal /\ d.watch = e.watch /\ d.activity = e.activity
    BY <2>1, <2>2 DEF Conn
  <2>5. d.timer = timer /\ d.tick = tick /\ d.quiet = quiet
    BY <2>1, <2>2 DEF Conn
  <2> QED  BY <2>1, <2>3, <2>4, <2>5
<1> QED  BY <1>4, <1>5, <1>6 DEF GoodConn

-----------------------------------------------------------------------------
(* MHD: the steps *)

LEMMA InitStream == Init => TypeOK /\ StreamInv
<1> SUFFICES ASSUME Init PROVE TypeOK /\ StreamInv
  OBVIOUS
<1>1. URLs \in Nat \ {0} /\ MaxConns \in Nat \ {0}
  OBVIOUS
<1>2. 1 \in 1 .. URLs /\ 1 \in Slots
  BY <1>1 DEF Slots
<1> QED  BY <1>2, NewConns DEF Init, TypeOK, StreamInv

LEMMA NextEndpointType ==
  TypeOK => /\ NextEndpoint \in [pc : {"dial", "read", "process", "sleep"}, url : 1 .. URLs,
                                 slot : Slots]
            /\ NextEndpoint.pc \notin {"read", "process"}
<1> SUFFICES ASSUME TypeOK
             PROVE  /\ NextEndpoint \in [pc : {"dial", "read", "process", "sleep"},
                                         url : 1 .. URLs, slot : Slots]
                    /\ NextEndpoint.pc \notin {"read", "process"}
  OBVIOUS
<1>1. URLs \in Nat
  OBVIOUS
<1>2. reader.url < URLs => reader.url + 1 \in 1 .. URLs
  BY <1>1 DEF TypeOK
<1> QED  BY <1>2 DEF TypeOK, NextEndpoint

\* A step that leaves the reader alone and changes one connection well.
LEMMA OneConn ==
  ASSUME TypeOK, StreamInv, NEW g \in Slots, NEW d, UNCHANGED reader,
         conns' = [conns EXCEPT ![g] = d],
         d \in Conn, GoodConn(d), d.result = conns[g].result
  PROVE  TypeOK' /\ StreamInv'
<1>1. /\ \A h \in Slots : conns'[h] = IF h = g THEN d ELSE conns[h]
      /\ conns' \in [Slots -> Conn]
  BY DEF TypeOK
<1>2. reader'.slot = reader.slot /\ reader'.pc = reader.pc /\ reader.slot \in Slots
  BY DEF TypeOK
<1>3. \A h \in Slots : conns'[h].result = conns[h].result
  BY <1>1
<1>4. \A h \in Slots : GoodConn(conns'[h])
  BY <1>1 DEF StreamInv
<1> QED  BY <1>1, <1>2, <1>3, <1>4 DEF TypeOK, StreamInv

LEMMA ReaderStep == TypeOK /\ StreamInv /\ Reader => TypeOK' /\ StreamInv'
<1> SUFFICES ASSUME TypeOK, StreamInv, Reader PROVE TypeOK' /\ StreamInv'
  OBVIOUS
<1>0. /\ \A h \in Slots : conns[h] \in Conn /\ GoodConn(conns[h])
      /\ reader \in [pc : {"dial", "read", "process", "sleep"}, url : 1 .. URLs, slot : Slots]
  BY DEF TypeOK, StreamInv
<1>1. CASE DialFails \/ Sleep
  <2>1. UNCHANGED conns /\ reader'.pc \notin {"read", "process"}
    BY <1>0, <1>1, NextEndpointType DEF DialFails, Sleep
  <2>2. reader' \in [pc : {"dial", "read", "process", "sleep"}, url : 1 .. URLs, slot : Slots]
    <3>1. URLs \in Nat \ {0}
      OBVIOUS
    <3>2. 1 \in 1 .. URLs
      BY <3>1
    <3>3. CASE DialFails
      BY <3>3, NextEndpointType DEF DialFails
    <3>4. CASE Sleep
      BY <1>0, <3>2, <3>4 DEF Sleep
    <3> QED  BY <1>1, <3>3, <3>4
  <2> QED  BY <2>1, <2>2 DEF TypeOK, StreamInv
<1>2. CASE Processed
  BY <1>0, <1>2 DEF Processed, TypeOK, StreamInv
<1>3. ASSUME NEW g \in Slots, Dial(g) PROVE TypeOK' /\ StreamInv'
  <2>1. reader'.pc = "read" /\ reader'.slot = g
        /\ reader' \in [pc : {"dial", "read", "process", "sleep"}, url : 1 .. URLs, slot : Slots]
    BY <1>0, <1>3 DEF Dial
  <2>2. \A h \in Slots : conns'[h] = IF h = g THEN Dialled ELSE conns[h]
    BY <1>3 DEF Dial, TypeOK
  <2>3. conns' \in [Slots -> Conn]
    BY <1>3, NewConns DEF Dial, TypeOK
  <2>4. Dialled.result = "none"
    BY DEF Dialled, NotDialled
  <2> QED  BY <1>0, <2>1, <2>2, <2>3, <2>4, NewConns DEF TypeOK, StreamInv
<1>4. ASSUME NEW g \in Slots, ReadMessage(g) \/ ReadPong(g) PROVE TypeOK' /\ StreamInv'
  <2> DEFINE c == conns[g]
             f == Tail(c.frames)
  <2>1. c \in Conn /\ GoodConn(c)
    BY <1>0
  <2>2. f \in Seq(Frames)
    <3>1. c.frames # <<>>
      BY <1>4 DEF ReadMessage, ReadPong
    <3> HIDE DEF c
    <3> QED  BY <2>1, <3>1, FrameLists
  <2> DEFINE payload == [c EXCEPT !.frames = f, !.deadline = PongWait, !.activity = TRUE,
                                  !.quiet = 0]
             other == [c EXCEPT !.frames = f, !.deadline = PongWait]
             Old == [pc : {"dial", "read", "process", "sleep"}, url : 1 .. URLs, slot : Slots]
  <2>3. \/ /\ conns' = [conns EXCEPT ![g] = payload]
           /\ reader' = [reader EXCEPT !.pc = "process"]
        \/ conns' = [conns EXCEPT ![g] = other] /\ UNCHANGED reader
    BY <1>4 DEF ReadMessage, ReadPong, TypeOK
  <2>4. reader.pc = "read" /\ reader.slot = g
    BY <1>4 DEF ReadMessage, ReadPong
  <2> HIDE DEF c, f
  <2>5. payload \in Conn /\ GoodConn(payload) /\ payload.result = c.result
    BY <2>1, <2>2, PayloadSeen
  <2>6. other \in Conn /\ GoodConn(other) /\ other.result = c.result
    BY <2>1, <2>2, FramesChange, TimerBounds
  <2> HIDE DEF payload, other
  <2>7. CASE conns' = [conns EXCEPT ![g] = other] /\ UNCHANGED reader
    BY <2>6, <2>7, OneConn DEF c
  <2>8. CASE /\ conns' = [conns EXCEPT ![g] = payload]
             /\ reader' = [reader EXCEPT !.pc = "process"]
    <3>1. conns' \in [Slots -> Conn]
          /\ \A h \in Slots : conns'[h] = IF h = g THEN payload ELSE conns[h]
      BY <2>5, <2>8 DEF TypeOK
    <3>2. reader' \in Old /\ reader'.slot = g
      BY <1>0, <2>4, <2>8
    <3>3. conns[g].result = "none"
      BY <2>4 DEF StreamInv
    <3> QED  BY <1>0, <2>5, <3>1, <3>2, <3>3 DEF TypeOK, StreamInv, c
  <2> QED  BY <2>3, <2>7, <2>8
<1>5. ASSUME NEW g \in Slots, ReadFails(g) PROVE TypeOK' /\ StreamInv'
  <2> DEFINE c == conns[g]
  <2>1. c \in Conn /\ GoodConn(c) /\ c.result = "none"
    BY <1>0, <1>5 DEF ReadFails, StreamInv
  <2>2. PICK d : /\ d = [Closed(c, "reader") EXCEPT
                          !.result = IF c.idleSignal THEN "idle" ELSE "error",
                          !.idleSignal = FALSE, !.done = TRUE,
                          !.frames = <<>>, !.deadline = 0, !.quiet = 0]
                 /\ conns' = [conns EXCEPT ![g] = d]
    BY <1>5 DEF ReadFails
  <2> HIDE DEF c
  <2>3. d \in Conn /\ GoodConn(d)
    BY <2>1, <2>2, ReadFailsGood
  <2>4. /\ conns' \in [Slots -> Conn]
        /\ \A h \in Slots : conns'[h] = IF h = g THEN d ELSE conns[h]
    BY <2>2, <2>3 DEF TypeOK
  <2>5. reader' = NextEndpoint
    BY <1>5 DEF ReadFails
  <2> QED  BY <1>0, <2>3, <2>4, <2>5, NextEndpointType DEF TypeOK, StreamInv
<1> QED  BY <1>1, <1>2, <1>3, <1>4, <1>5 DEF Reader

LEMMA WatchdogStep ==
  ASSUME TypeOK, StreamInv, NEW g \in Slots, Watchdog(g)
  PROVE  TypeOK' /\ StreamInv'
<1> DEFINE c == conns[g]
<1>1. c \in Conn /\ GoodConn(c) /\ UNCHANGED reader /\ conns \in [Slots -> Conn]
  BY DEF TypeOK, StreamInv, Watchdog, WatchDone, WatchActivity, WatchFires, WatchSignals,
     WatchCloses
<1>2. CASE ~WatchCloses(g)
  <2>1. PICK d : /\ conns' = [conns EXCEPT ![g] = d]
                 /\ \/ c.watch = "select" /\ c.done /\ d = [c EXCEPT !.watch = "off"]
                    \/ c.watch = "select" /\ d = [c EXCEPT !.activity = FALSE,
                                                           !.timer = IdleTimeout, !.tick = FALSE]
                    \/ c.watch = "select" /\ d = [c EXCEPT !.tick = FALSE, !.watch = "signal"]
                    \/ c.watch = "signal" /\ d = [c EXCEPT !.idleSignal = TRUE, !.watch = "close"]
    <3>1. CASE WatchDone(g)
      BY <1>1, <3>1 DEF WatchDone
    <3>2. CASE WatchActivity(g)
      BY <1>1, <3>2 DEF WatchActivity
    <3>3. CASE WatchFires(g)
      BY <1>1, <3>3 DEF WatchFires
    <3>4. CASE WatchSignals(g)
      BY <1>1, <3>4 DEF WatchSignals
    <3> QED  BY <1>2, <3>1, <3>2, <3>3, <3>4 DEF Watchdog
  <2> HIDE DEF c
  <2>2. d \in Conn /\ GoodConn(d) /\ d.result = c.result
    BY <1>1, <2>1, WatchdogGood
  <2> QED  BY <1>1, <2>1, <2>2, OneConn DEF c
<1>3. CASE WatchCloses(g)
  <2>1. PICK d : /\ conns' = [conns EXCEPT ![g] = d]
                 /\ c.watch = "close" /\ d = [Closed(c, "watchdog") EXCEPT !.watch = "off"]
    BY <1>1, <1>3 DEF WatchCloses
  <2> HIDE DEF c
  <2>2. d \in Conn /\ GoodConn(d) /\ d.result = c.result
    BY <1>1, <2>1, WatchClosesGood
  <2> QED  BY <1>1, <2>1, <2>2, OneConn DEF c
<1> QED  BY <1>2, <1>3

LEMMA KeepAliveStep ==
  ASSUME TypeOK, StreamInv, NEW g \in Slots, KeepAlive(g)
  PROVE  TypeOK' /\ StreamInv'
<1> DEFINE c == conns[g]
<1>1. c \in Conn /\ GoodConn(c) /\ UNCHANGED reader /\ conns \in [Slots -> Conn]
  BY DEF TypeOK, StreamInv, KeepAlive
<1>2. PICK d : /\ conns' = [conns EXCEPT ![g] = d]
               /\ \/ \E answer \in {<<>>, <<"pong">>} :
                       d = [c EXCEPT !.ping = PingInterval, !.frames = c.frames \o answer]
                  \/ d = [c EXCEPT !.keep = "off"]
  <2>1. CASE /\ c.ping = 0 /\ c.state = "open"
             /\ \E answer \in {<<>>, <<"pong">>} :
                  conns' = [conns EXCEPT ![g].ping = PingInterval, ![g].frames = @ \o answer]
    <3>1. PICK answer \in {<<>>, <<"pong">>} :
             conns' = [conns EXCEPT ![g].ping = PingInterval, ![g].frames = @ \o answer]
      BY <2>1
    <3>2. conns' = [conns EXCEPT
                      ![g] = [c EXCEPT !.ping = PingInterval, !.frames = c.frames \o answer]]
      BY <1>1, <3>1
    <3> QED  BY <3>2
  <2>2. CASE conns' = [conns EXCEPT ![g].keep = "off"]
    BY <1>1, <2>2
  <2> QED  BY <2>1, <2>2 DEF KeepAlive
<1> HIDE DEF c
<1>3. d \in Conn /\ GoodConn(d) /\ d.result = c.result
  <2>1. CASE d = [c EXCEPT !.keep = "off"]
    BY <1>1, <2>1 DEF Conn, GoodConn
  <2>2. ASSUME NEW answer \in {<<>>, <<"pong">>},
               d = [c EXCEPT !.ping = PingInterval, !.frames = c.frames \o answer]
        PROVE  d \in Conn /\ GoodConn(d) /\ d.result = c.result
    <3> DEFINE f == c.frames \o answer
    <3>1. f \in Seq(Frames)
      BY <1>1, FrameLists
    <3>2. d = [c EXCEPT !.ping = PingInterval, !.frames = f]
      BY <2>2
    <3> HIDE DEF f
    <3>3. d \in Conn
      BY <1>1, <3>1, <3>2, TimerBounds DEF Conn
    <3>4. /\ d.state = c.state /\ d.closedBy = c.closedBy /\ d.result = c.result
          /\ d.idleSignal = c.idleSignal /\ d.watch = c.watch /\ d.activity = c.activity
          /\ d.timer = c.timer /\ d.tick = c.tick /\ d.quiet = c.quiet
      BY <1>1, <3>2 DEF Conn
    <3> QED  BY <1>1, <3>3, <3>4 DEF GoodConn
  <2> QED  BY <1>2, <2>1, <2>2
<1> QED  BY <1>1, <1>2, <1>3, OneConn DEF c

LEMMA PeerStep ==
  ASSUME TypeOK, StreamInv, NEW g \in Slots, Peer(g)
  PROVE  TypeOK' /\ StreamInv'
<1> DEFINE c == conns[g]
<1>1. c \in Conn /\ GoodConn(c) /\ UNCHANGED reader /\ conns \in [Slots -> Conn]
  BY DEF TypeOK, StreamInv, Peer, PeerCloses, PeerSends
<1>2. PICK d : /\ conns' = [conns EXCEPT ![g] = d]
               /\ d = Closed(c, "peer") \/ \E f \in Frames : d = [c EXCEPT !.frames = <<f>>]
  BY <1>1 DEF Peer, PeerCloses, PeerSends, Frames
<1> HIDE DEF c
<1>3. d \in Conn /\ GoodConn(d) /\ d.result = c.result
  <2>1. CASE d = Closed(c, "peer")
    BY <1>1, <2>1, ConnClosed, PeerCloseGood
  <2>2. CASE \E f \in Frames : d = [c EXCEPT !.frames = <<f>>]
    <3>1. PICK f \in Seq(Frames) : d = [c EXCEPT !.frames = f]
      BY <1>1, <2>2, FrameLists
    <3> QED  BY <1>1, <3>1, FramesChange, TimerBounds
  <2> QED  BY <1>2, <2>1, <2>2
<1> QED  BY <1>1, <1>2, <1>3, OneConn DEF c

LEMMA TickStep == TypeOK /\ StreamInv /\ Tick => TypeOK' /\ StreamInv'
<1> SUFFICES ASSUME TypeOK, StreamInv, Tick PROVE TypeOK' /\ StreamInv'
  OBVIOUS
<1>1. /\ \A h \in Slots : conns[h] \in Conn /\ GoodConn(conns[h])
      /\ UNCHANGED reader /\ reader.slot \in Slots
  BY DEF TypeOK, StreamInv, Tick
<1>2. ASSUME NEW h \in Slots
      PROVE  conns'[h] \in Conn /\ GoodConn(conns'[h]) /\ conns'[h].result = conns[h].result
  <2> DEFINE c == conns[h]
             d == conns'[h]
  <2>1. d = [c EXCEPT !.deadline = Less(@), !.ping = Less(@), !.timer = Less(@),
               !.tick = @ \/ (c.timer = 1 /\ c.watch = "select"),
               !.quiet = IF @ < IdleTimeout /\ c.state = "open" THEN @ + 1 ELSE @]
    BY DEF Tick
  <2>2. c \in Conn /\ GoodConn(c)
    BY <1>1
  <2> HIDE DEF c, d
  <2>3. d \in Conn /\ GoodConn(d) /\ d.result = c.result
    BY <2>1, <2>2, TickGood
  <2> QED  BY <2>3 DEF c, d
<1>3. conns' \in [Slots -> Conn]
  <2>1. conns' = [h \in Slots |-> conns'[h]]
    BY DEF Tick
  <2> QED  BY <1>2, <2>1
<1> QED  BY <1>1, <1>2, <1>3 DEF TypeOK, StreamInv

LEMMA NextStream == TypeOK /\ StreamInv /\ [Next]_vars => TypeOK' /\ StreamInv'
<1>1. TypeOK /\ StreamInv /\ UNCHANGED vars => TypeOK' /\ StreamInv'
  BY DEF vars, TypeOK, StreamInv
<1> QED  BY <1>1, ReaderStep, WatchdogStep, KeepAliveStep, PeerStep, TickStep DEF Next

LEMMA StreamCorrect == Spec => [](TypeOK /\ StreamInv)
  BY InitStream, NextStream, PTL DEF Spec

-----------------------------------------------------------------------------
(* MHD: what follows *)

\* Every variable keeps its type, the timers their ranges.
THEOREM TypeCorrect == Spec => []TypeOK
  BY StreamCorrect, PTL

\* A stream the watchdog closed is never reported as a broken one: the signal is there
\* before the connection is closed, and nobody takes it but the reader.
THEOREM IdleReported == Spec => []IdleIsReported
<1>1. StreamInv => IdleIsReported
  BY DEF StreamInv, GoodConn, IdleIsReported
<1> QED  BY <1>1, StreamCorrect, PTL

\* The watchdog's timer expires on a stream that was quiet for IdleTimeout, or whose
\* last payload it has not been told of yet, never by an expiry that was overtaken.
THEOREM OnlyQuietExpire == Spec => []OnlyQuietStreamsExpire
<1>1. StreamInv => OnlyQuietStreamsExpire
  BY DEF StreamInv, GoodConn, OnlyQuietStreamsExpire
<1> QED  BY <1>1, StreamCorrect, PTL
=============================================================================
