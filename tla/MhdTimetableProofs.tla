------------------------- MODULE MhdTimetableProofs -------------------------
(***************************************************************************)
(* Theorems about MhdTimetable, for every archive, time shift, record and  *)
(* length of the day: what the store holds after a refresh, and which trip *)
(* a record is matched to.                                                 *)
(***************************************************************************)
EXTENDS MhdTimetable, BatchesProofs

LEMMA Bounds ==
  /\ DayLength \in Nat \ {0} /\ MatchingWindow \in Nat
  /\ Times \subseteq Nat /\ NoFeed \notin Feeds /\ NoClock \notin Nat
  /\ \A z \in Zones : z.at \in Nat /\ z.by \in Int
  BY ConstantsAssumption DEF ConstantsAssumption

-----------------------------------------------------------------------------
(* The stops of a trip *)

IsSorting(s, rows) ==
  /\ s \in [1 .. Cardinality(rows) -> rows]
  /\ \A i, j \in DOMAIN s : i < j => s[i] # s[j] /\ s[i].seq <= s[j].seq

\* A finite set of numbers has a least one.
LEMMA LeastOf ==
  ASSUME NEW S, IsFiniteSet(S), S # {}, \A x \in S : x.seq \in Int
  PROVE  \E x \in S : \A y \in S : x.seq <= y.seq
<1> DEFINE P(R) == R # {} => \E x \in R : \A y \in R : x.seq <= y.seq
           T == {n \in Nat : \A R \in SUBSET S : Cardinality(R) = n => P(R)}
<1>1. 0 \in T
  <2>1. \A R \in SUBSET S : Cardinality(R) = 0 => R = {}
    BY FS_Subset, FS_EmptySet
  <2> QED  BY <2>1
<1>2. ASSUME NEW n \in T PROVE n + 1 \in T
  <2> SUFFICES ASSUME NEW R \in SUBSET S, Cardinality(R) = n + 1, R # {}
               PROVE  \E x \in R : \A y \in R : x.seq <= y.seq
    OBVIOUS
  <2>1. PICK e \in R : TRUE
    OBVIOUS
  <2>2. IsFiniteSet(R)
    BY FS_Subset
  <2>3. Cardinality(R \ {e}) = n
    <3>1. Cardinality(R \ {e}) = Cardinality(R) - 1
      BY <2>1, <2>2, FS_RemoveElement
    <3>2. n \in Nat
      OBVIOUS
    <3> QED  BY <3>1, <3>2
  <2>4. P(R \ {e})
    BY <2>3
  <2>5. CASE R \ {e} = {}
    <3>1. \A y \in R : y = e
      BY <2>5
    <3> QED  BY <2>1, <3>1
  <2>6. CASE R \ {e} # {}
    <3>1. PICK x \in R \ {e} : \A y \in R \ {e} : x.seq <= y.seq
      BY <2>4, <2>6
    <3>2. \A y \in R : y.seq \in Int
      OBVIOUS
    <3>3. CASE x.seq <= e.seq
      BY <3>1, <3>3
    <3>4. CASE ~(x.seq <= e.seq)
      BY <2>1, <3>1, <3>2, <3>4
    <3> QED  BY <3>3, <3>4
  <2> QED  BY <2>5, <2>6
<1>3. T \in SUBSET Nat
  OBVIOUS
<1> HIDE DEF T
<1>4. Cardinality(S) \in T
  BY <1>1, <1>2, <1>3, NatSetInduction, FS_CardinalityType
<1> QED  BY <1>4 DEF T

\* Rows can be put in the order of their stop_sequence.
LEMMA SortingExists ==
  ASSUME NEW rows, IsFiniteSet(rows), \A x \in rows : x.seq \in Int
  PROVE  \E s : IsSorting(s, rows)
<1> DEFINE T == {n \in Nat : \A R \in SUBSET rows : Cardinality(R) = n => \E s : IsSorting(s, R)}
<1>1. 0 \in T
  <2>1. \A R \in SUBSET rows : Cardinality(R) = 0 => R = {}
    BY FS_Subset, FS_EmptySet
  <2>2. 1 .. Cardinality({}) = {}
    BY FS_EmptySet
  <2>3. IsSorting([i \in {} |-> i], {})
    BY <2>2 DEF IsSorting
  <2> QED  BY <2>1, <2>3
<1>2. ASSUME NEW n \in T PROVE n + 1 \in T
  <2> SUFFICES ASSUME NEW R \in SUBSET rows, Cardinality(R) = n + 1 PROVE \E s : IsSorting(s, R)
    OBVIOUS
  <2>0. n \in Nat /\ IsFiniteSet(R) /\ R # {}
    BY FS_Subset, FS_EmptySet
  <2>1. PICK e \in R : \A y \in R : e.seq <= y.seq
    BY <2>0, LeastOf
  <2>2. Cardinality(R \ {e}) = n
    <3>1. Cardinality(R \ {e}) = Cardinality(R) - 1
      BY <2>0, <2>1, FS_RemoveElement
    <3> QED  BY <2>0, <3>1
  <2>3. PICK s : IsSorting(s, R \ {e})
    BY <2>2
  <2>4. /\ s \in [1 .. n -> R \ {e}]
        /\ \A i, j \in 1 .. n : i < j => s[i] # s[j] /\ s[i].seq <= s[j].seq
    BY <2>2, <2>3 DEF IsSorting
  <2> DEFINE t == [i \in 1 .. n + 1 |-> IF i = 1 THEN e ELSE s[i - 1]]
  <2>5. \A i \in 1 .. n + 1 : i # 1 => i - 1 \in 1 .. n /\ t[i] = s[i - 1] /\ t[i] \in R \ {e}
    BY <2>0, <2>4
  <2>6. t \in [1 .. n + 1 -> R] /\ t[1] = e
    BY <2>0, <2>1, <2>5
  <2>7. \A i, j \in 1 .. n + 1 : i < j => t[i] # t[j] /\ t[i].seq <= t[j].seq
    <3> SUFFICES ASSUME NEW i \in 1 .. n + 1, NEW j \in 1 .. n + 1, i < j
                 PROVE  t[i] # t[j] /\ t[i].seq <= t[j].seq
      OBVIOUS
    <3>1. j # 1 /\ t[j] \in R \ {e} /\ t[j] = s[j - 1] /\ j - 1 \in 1 .. n
      BY <2>0, <2>5
    <3> HIDE DEF t
    <3>2. CASE i = 1
      BY <2>1, <2>6, <3>1, <3>2
    <3>3. CASE i # 1
      <4>1. t[i] = s[i - 1] /\ i - 1 \in 1 .. n /\ i - 1 < j - 1
        BY <2>0, <2>5, <3>3
      <4> QED  BY <2>4, <3>1, <4>1
    <3> QED  BY <3>2, <3>3
  <2> HIDE DEF t
  <2>8. IsSorting(t, R)
    BY <2>6, <2>7 DEF IsSorting
  <2> QED  BY <2>8
<1>3. T \in SUBSET Nat
  OBVIOUS
<1> HIDE DEF T
<1>4. Cardinality(rows) \in T
  BY <1>1, <1>2, <1>3, NatSetInduction, FS_CardinalityType
<1> QED  BY <1>4 DEF T

LEMMA StopsType ==
  ASSUME NEW feed \in Feeds, NEW t \in Trips
  PROVE  LET trip == feed.trips[t] stops == StopsOf(trip) IN
         /\ Cardinality(trip.rows) \in Nat /\ Len(stops) = Cardinality(trip.rows)
         /\ DOMAIN stops = 1 .. Len(stops)
         /\ \A i \in DOMAIN stops : /\ stops[i].departure \in Nat \cup {NoClock}
                                    /\ stops[i].arrival \in Nat \cup {NoClock}
<1> DEFINE rows == feed.trips[t].rows
           stops == StopsOf(feed.trips[t])
           n == Cardinality(rows)
<1>1. /\ IsFiniteSet(rows) /\ \A row \in rows : /\ row.seq \in Int
                                               /\ row.departure \in Nat \cup {NoClock}
                                               /\ row.arrival \in Nat \cup {NoClock}
  BY FeedsAssumption DEF FeedsAssumption
<1>2. n \in Nat
  BY <1>1, FS_CardinalityType
<1>3. PICK s : IsSorting(s, rows)
  BY <1>1, SortingExists
<1>4. IsSorting(stops, rows)
  <2>1. \E x \in [1 .. Cardinality(rows) -> rows] :
          \A i, j \in DOMAIN x : i < j => x[i] # x[j] /\ x[i].seq <= x[j].seq
    BY <1>3 DEF IsSorting
  <2> HIDE DEF rows
  <2> QED  BY <2>1 DEF IsSorting, StopsOf, rows
<1>5. stops \in [1 .. n -> rows]
  BY <1>4 DEF IsSorting
<1> HIDE DEF stops, n
<1>6. Len(stops) = n /\ DOMAIN stops = 1 .. n
  BY <1>2, <1>5
<1>7. \A i \in DOMAIN stops : stops[i] \in rows
  BY <1>5
<1> QED  BY <1>1, <1>2, <1>6, <1>7 DEF stops, n

-----------------------------------------------------------------------------
(* activeServiceDates *)

\* f[n] says whether the service is active after the first n exceptions.
After(feed, service, day, N, f) ==
  f = [n \in 0 .. N |->
         IF n = 0 THEN InCalendar(feed, service, day)
         ELSE LET e == feed.exceptions[n] IN
              IF e.service = service /\ e.date = day THEN e.type = 1 ELSE f[n - 1]]

LEMMA AfterExists ==
  ASSUME NEW feed, NEW service, NEW day
  PROVE  \A N \in Nat : \E f : After(feed, service, day, N, f)
<1> DEFINE A(N, f) == After(feed, service, day, N, f)
           T == {N \in Nat : \E f : A(N, f)}
<1>1. 0 \in T
  <2>1. A(0, [n \in 0 .. 0 |-> InCalendar(feed, service, day)])
    BY DEF After
  <2> QED  BY <2>1
<1>2. ASSUME NEW N \in T PROVE N + 1 \in T
  <2>1. N \in Nat
    OBVIOUS
  <2>2. PICK f : A(N, f)
    OBVIOUS
  <2> DEFINE e == feed.exceptions[N + 1]
             last == IF e.service = service /\ e.date = day THEN e.type = 1 ELSE f[N]
             g == [n \in 0 .. N + 1 |-> IF n = N + 1 THEN last ELSE f[n]]
  <2>3. \A n \in 0 .. N : g[n] = f[n]
    BY <2>1
  <2>4. \A n \in 0 .. N + 1 : n # 0 => g[n - 1] = f[n - 1]
    BY <2>1, <2>3
  <2>5. \A n \in 0 .. N + 1 :
          g[n] = IF n = 0 THEN InCalendar(feed, service, day)
                 ELSE LET d == feed.exceptions[n] IN
                      IF d.service = service /\ d.date = day THEN d.type = 1 ELSE g[n - 1]
    <3> SUFFICES ASSUME NEW n \in 0 .. N + 1
                 PROVE  g[n] = IF n = 0 THEN InCalendar(feed, service, day)
                               ELSE LET d == feed.exceptions[n] IN
                                    IF d.service = service /\ d.date = day THEN d.type = 1
                                    ELSE g[n - 1]
      OBVIOUS
    <3>1. CASE n = N + 1
      <4>1. n # 0 /\ n - 1 = N /\ g[N] = f[N] /\ g[n] = last
        BY <2>1, <2>3, <3>1
      <4> HIDE DEF g
      <4> QED  BY <3>1, <4>1
    <3>2. CASE n # N + 1
      <4>1. n \in 0 .. N /\ g[n] = f[n] /\ (n # 0 => g[n - 1] = f[n - 1])
        BY <2>1, <2>3, <2>4, <3>2
      <4> HIDE DEF g
      <4> QED  BY <2>2, <4>1 DEF After
    <3> QED  BY <3>1, <3>2
  <2>6. g = [n \in 0 .. N + 1 |-> g[n]]
    OBVIOUS
  <2> HIDE DEF g
  <2>7. A(N + 1, g)
    BY <2>5, <2>6 DEF After
  <2> QED  BY <2>1, <2>7
<1>3. T \in SUBSET Nat
  OBVIOUS
<1> HIDE DEF T
<1>4. T = Nat
  BY <1>1, <1>2, <1>3, NatSetInduction
<1> QED  BY <1>4 DEF T

LEMMA ActiveSteps ==
  ASSUME NEW feed \in Feeds, NEW service, NEW day
  PROVE  \E f : /\ After(feed, service, day, Len(feed.exceptions), f)
                /\ ActiveOn(feed, service, day) = f[Len(feed.exceptions)]
<1>1. Len(feed.exceptions) \in Nat
  BY FeedsAssumption, LenProperties DEF FeedsAssumption
<1>2. \E f : After(feed, service, day, Len(feed.exceptions), f)
  BY <1>1, AfterExists
<1> DEFINE g == CHOOSE f : After(feed, service, day, Len(feed.exceptions), f)
<1>3. After(feed, service, day, Len(feed.exceptions), g)
  BY <1>2
<1>4. ActiveOn(feed, service, day) = g[Len(feed.exceptions)]
  BY DEF ActiveOn, After
<1> QED  BY <1>3, <1>4

\* The loop over the exceptions of a service gives what the last one of the day says,
\* and what the calendar says if there is none.
LEMMA ActiveRuns ==
  ASSUME NEW feed \in Feeds, NEW service, NEW day
  PROVE  ActiveOn(feed, service, day) <=> RunsOn(feed, service, day)
<1> DEFINE rows == feed.exceptions
           L == Len(rows)
           Said(i) == rows[i].service = service /\ rows[i].date = day
           said == {i \in DOMAIN rows : Said(i)}
<1>1. L \in Nat /\ DOMAIN rows = 1 .. L
  BY FeedsAssumption, LenProperties DEF FeedsAssumption
<1>2. PICK f : /\ After(feed, service, day, L, f)
               /\ ActiveOn(feed, service, day) = f[L]
  BY ActiveSteps
<1>3. f[0] = InCalendar(feed, service, day)
  BY <1>1, <1>2 DEF After
<1>4. \A n \in 1 .. L : f[n] = IF Said(n) THEN rows[n].type = 1 ELSE f[n - 1]
  BY <1>1, <1>2, SMTT(30) DEF After
<1> HIDE DEF rows, L
<1>5. ASSUME NEW k \in 0 .. L, \A n \in k + 1 .. L : ~Said(n)
      PROVE  f[L] = f[k]
  <2> DEFINE T == {n \in Nat : k + n <= L => f[k + n] = f[k]}
  <2>1. 0 \in T
    BY <1>1
  <2>2. ASSUME NEW n \in T PROVE n + 1 \in T
    <3> SUFFICES ASSUME k + (n + 1) <= L PROVE f[k + (n + 1)] = f[k]
      OBVIOUS
    <3>1. n \in Nat
      OBVIOUS
    <3>2. /\ k + (n + 1) \in 1 .. L /\ k + (n + 1) \in k + 1 .. L
          /\ (k + (n + 1)) - 1 = k + n /\ k + n <= L
      BY <1>1, <3>1
    <3>3. f[k + n] = f[k]
      BY <3>2
    <3> QED  BY <1>4, <1>5, <3>2, <3>3
  <2>3. T \in SUBSET Nat
    OBVIOUS
  <2> HIDE DEF T
  <2>4. L - k \in T
    <3>1. T = Nat
      BY <2>1, <2>2, <2>3, NatSetInduction
    <3> QED  BY <1>1, <3>1
  <2>5. k + (L - k) = L
    BY <1>1
  <2> QED  BY <1>1, <2>4, <2>5 DEF T
<1>6. CASE said = {}
  <2>1. f[L] = f[0]
    BY <1>1, <1>5, <1>6
  <2> QED  BY <1>2, <1>3, <1>6, <2>1 DEF RunsOn, rows
<1>7. CASE said # {}
  <2>1. \E m \in said : \A i \in said : m >= i
    <3> DEFINE D == {L - i : i \in said}
    <3>1. D \in SUBSET Nat /\ D # {}
      BY <1>1, <1>7
    <3>2. PICK d \in D : \A x \in D : d <= x
      BY <3>1, LeastNat
    <3>3. PICK m \in said : d = L - m
      BY <3>2
    <3>4. \A i \in said : L - m <= L - i
      BY <3>2, <3>3
    <3> QED  BY <1>1, <3>4, SMTT(30)
  <2> DEFINE m == Max(said)
  <2>2. m \in said /\ \A i \in said : m >= i
    BY <2>1 DEF Max
  <2> HIDE DEF m
  <2>3. m \in 1 .. L /\ m \in 0 .. L /\ Said(m) /\ \A n \in m + 1 .. L : n \in 1 .. L /\ ~(m >= n)
    BY <1>1, <2>2
  <2>4. \A n \in m + 1 .. L : ~Said(n)
    BY <1>1, <2>2, <2>3
  <2>5. f[L] = f[m]
    BY <1>5, <2>3, <2>4
  <2>6. f[m] = (rows[m].type = 1)
    BY <1>4, <2>3
  <2>7. RunsOn(feed, service, day) = (rows[m].type = 1)
    BY <1>7 DEF RunsOn, rows, m
  <2> QED  BY <1>2, <2>5, <2>6, <2>7
<1> QED  BY <1>6, <1>7

-----------------------------------------------------------------------------
(* The invariant *)

\* The trips of done that a refresh which builds S lists: those with two stops and a
\* service date in its week.
UID(S, t) == UIDOf(S.feed.trips[t])
DatesOf(S, t) == ServiceDates(S.feed, S.feed.trips[t].service, S.week)
Of(S, t) == OccurrencesOf(t, S.feed.trips[t], DatesOf(S, t))
Listed(S, done) == {t \in done : Cardinality(S.feed.trips[t].rows) >= 2 /\ DatesOf(S, t) # {}}

\* A definition's pair is that of one of its trips, under which it is indexed if it has one.
Indexes(S, u, t) == /\ S.definitions[u].pair = S.feed.api[t]
                    /\ S.feed.api[t] = None \/ <<S.feed.api[t], u>> \in S.index

\* S is what the trips of done make of a feed, whatever their order was.
StoreInv(S, done) ==
  /\ S.feed \in Feeds /\ S.week \in Int
  /\ DOMAIN S.definitions = {UID(S, t) : t \in Listed(S, done)}
  /\ \A u \in DOMAIN S.definitions :
       /\ S.definitions[u].occurrences = UNION {Of(S, t) : t \in {d \in Listed(S, done) : UID(S, d) = u}}
       /\ \E t \in Listed(S, done) : UID(S, t) = u /\ Indexes(S, u, t)

StoreOf(S) == [feed |-> S.feed, week |-> S.week, definitions |-> S.definitions, index |-> S.index]

TypeOK ==
  /\ zone \in Zones /\ now \in Nat /\ archive \in Feeds
  /\ build = [pc |-> build.pc, store |-> StoreOf(build.store), todo |-> build.todo]
  /\ build.pc \in {"idle", "build"} /\ build.todo \subseteq Trips

TablesInv ==
  /\ build.pc = "build" => StoreInv(build.store, Trips \ build.todo)
  /\ store.feed # NoFeed => StoreInv(store, Trips)

\* The match is one of the store as it is.
MatchInv ==
  \/ match = NoMatch
  \/ /\ store.feed # NoFeed
     /\ match.record \in Records
     /\ IF match.found THEN [uid |-> match.uid, occ |-> match.occ] \in BestMatches(match.record)
                       ELSE Candidates(match.record) = {}

IInv == TypeOK /\ TablesInv /\ MatchInv

-----------------------------------------------------------------------------
(* A refresh *)

\* What a store is only depends on the zone.
LEMMA StoreFrame ==
  ASSUME UNCHANGED zone, NEW S, NEW done
  PROVE  StoreInv(S, done)' <=> StoreInv(S, done)
<1>1. \A reading : Instant(reading)' = Instant(reading) /\ Local(reading)' = Local(reading)
  BY DEF Instant, Local
<1>2. \A day, clock : Clock(day, clock)' = Clock(day, clock)
  BY <1>1 DEF Clock
<1>3. \A t, trip, dates : OccurrencesOf(t, trip, dates)' = OccurrencesOf(t, trip, dates)
  BY <1>2 DEF OccurrencesOf
<1> QED  BY <1>3 DEF StoreInv, Of

LEMMA EmptyStoreInv ==
  ASSUME NEW S, S.feed \in Feeds, S.week \in Int, S.definitions = <<>>
  PROVE  StoreInv(S, {})
<1>1. Listed(S, {}) = {} /\ DOMAIN S.definitions = {}
  BY DEF Listed
<1> QED  BY <1>1 DEF StoreInv

\* A trip without two stops or without a date adds nothing.
LEMMA TripSkipped ==
  ASSUME NEW S, NEW done, StoreInv(S, done), NEW t,
         ~(Cardinality(S.feed.trips[t].rows) >= 2) \/ DatesOf(S, t) = {}
  PROVE  StoreInv(S, done \cup {t})
<1>1. Listed(S, done \cup {t}) = Listed(S, done)
  BY DEF Listed
<1> QED  BY <1>1 DEF StoreInv

\* Any other trip adds its occurrences to the definition of its UID, or a definition.
Adds(S, t, uid, T) ==
  /\ Cardinality(S.feed.trips[t].rows) >= 2 /\ DatesOf(S, t) # {} /\ uid = UID(S, t)
  /\ T.feed = S.feed /\ T.week = S.week
  /\ DOMAIN T.definitions = DOMAIN S.definitions \cup {uid}
  /\ \A u \in DOMAIN S.definitions : u # uid => T.definitions[u] = S.definitions[u]
  /\ T.definitions[uid].occurrences =
       Of(S, t) \cup IF uid \in DOMAIN S.definitions THEN S.definitions[uid].occurrences ELSE {}
  /\ T.definitions[uid].pair =
       IF uid \in DOMAIN S.definitions THEN S.definitions[uid].pair ELSE S.feed.api[t]
  /\ \A e \in S.index : e \in T.index
  /\ uid \notin DOMAIN S.definitions /\ S.feed.api[t] # None => <<S.feed.api[t], uid>> \in T.index

LEMMA TripAdded ==
  ASSUME NEW S, NEW done, StoreInv(S, done), NEW t, NEW uid, NEW T, Adds(S, t, uid, T)
  PROVE  StoreInv(T, done \cup {t})
<1> USE DEF Adds
<1>1. \A d : UID(T, d) = UID(S, d) /\ DatesOf(T, d) = DatesOf(S, d) /\ Of(T, d) = Of(S, d)
  BY DEF UID, DatesOf, Of
<1>2. Listed(T, done \cup {t}) = Listed(S, done) \cup {t}
  BY <1>1 DEF Listed
<1>3. T.feed \in Feeds /\ T.week \in Int
  BY DEF StoreInv
<1> DEFINE TripsOf(u) == {d \in Listed(S, done) : UID(S, d) = u}
           More(u) == {d \in Listed(T, done \cup {t}) : UID(T, d) = u}
<1>4. /\ DOMAIN S.definitions = {UID(S, d) : d \in Listed(S, done)}
      /\ \A u \in DOMAIN S.definitions :
           /\ S.definitions[u].occurrences = UNION {Of(S, d) : d \in TripsOf(u)}
           /\ \E d \in Listed(S, done) : UID(S, d) = u /\ Indexes(S, u, d)
  BY DEF StoreInv
<1>6. DOMAIN T.definitions = {UID(T, d) : d \in Listed(T, done \cup {t})}
  <2>1. \A u : u \in DOMAIN T.definitions <=> u = uid \/ \E d \in Listed(S, done) : UID(S, d) = u
    BY <1>4
  <2>2. \A u : u \in {UID(T, d) : d \in Listed(T, done \cup {t})} <=>
                 u = uid \/ \E d \in Listed(S, done) : UID(S, d) = u
    <3>1. \A u : u \in {UID(T, d) : d \in Listed(T, done \cup {t})} <=>
                  \E d \in Listed(T, done \cup {t}) : UID(T, d) = u
      OBVIOUS
    <3> QED  BY <1>1, <1>2, <3>1
  <2> QED  BY <2>1, <2>2
<1>5. ASSUME NEW u \in DOMAIN T.definitions
      PROVE  /\ T.definitions[u].occurrences =
                  UNION {Of(T, d) : d \in More(u)}
             /\ \E d \in Listed(T, done \cup {t}) : UID(T, d) = u /\ Indexes(T, u, d)
  <2>1. CASE u # uid
    <3>1. u \in DOMAIN S.definitions /\ T.definitions[u] = S.definitions[u]
      BY <2>1
    <3>2. More(u) = TripsOf(u)
      BY <1>1, <1>2, <2>1
    <3>3. T.definitions[u].occurrences =
            UNION {Of(T, d) : d \in More(u)}
      <4>1. \A o : o \in UNION {Of(T, d) : d \in More(u)} <=> \E d \in More(u) : o \in Of(T, d)
        OBVIOUS
      <4>2. \A o : o \in UNION {Of(S, d) : d \in TripsOf(u)} <=> \E d \in TripsOf(u) : o \in Of(S, d)
        OBVIOUS
      <4> HIDE DEF More, TripsOf
      <4>3. \A o : o \in UNION {Of(T, d) : d \in More(u)} <=> o \in UNION {Of(S, d) : d \in TripsOf(u)}
        BY <1>1, <3>2, <4>1, <4>2
      <4> QED  BY <1>4, <3>1, <4>3
    <3>4. PICK d \in Listed(S, done) : UID(S, d) = u /\ Indexes(S, u, d)
      BY <1>4, <3>1
    <3>5. Indexes(T, u, d)
      BY <3>1, <3>4 DEF Indexes
    <3> QED  BY <1>1, <1>2, <3>3, <3>4, <3>5
  <2>2. CASE u = uid /\ uid \in DOMAIN S.definitions
    <3>1. T.definitions[u].occurrences = Of(S, t) \cup S.definitions[u].occurrences
      BY <2>2
    <3>2. S.definitions[u].occurrences = UNION {Of(S, d) : d \in TripsOf(u)}
      BY <1>4, <2>2
    <3>3. More(u) = TripsOf(u) \cup {t}
      BY <1>1, <1>2, <2>2
    <3>4. T.definitions[u].occurrences =
            UNION {Of(T, d) : d \in More(u)}
      <4>1. \A o : o \in UNION {Of(T, d) : d \in More(u)} <=> \E d \in More(u) : o \in Of(S, d)
        <5>1. \A o : o \in UNION {Of(T, d) : d \in More(u)} <=> \E d \in More(u) : o \in Of(T, d)
          OBVIOUS
        <5> QED  BY <1>1, <5>1
      <4>2. \A o : o \in UNION {Of(S, d) : d \in TripsOf(u)} <=> \E d \in TripsOf(u) : o \in Of(S, d)
        OBVIOUS
      <4>3. \A o : (\E d \in TripsOf(u) \cup {t} : o \in Of(S, d)) <=>
                     (\E d \in TripsOf(u) : o \in Of(S, d)) \/ o \in Of(S, t)
        OBVIOUS
      <4> HIDE DEF More, TripsOf
      <4>4. \A o : o \in T.definitions[u].occurrences <=> o \in UNION {Of(T, d) : d \in More(u)}
        BY <3>1, <3>2, <3>3, <4>1, <4>2, <4>3
      <4> QED  BY <3>1, <3>3, <4>4
    <3>5. PICK d \in Listed(S, done) : UID(S, d) = u /\ Indexes(S, u, d)
      BY <1>4, <2>2
    <3>6. Indexes(T, u, d)
      BY <2>2, <3>5 DEF Indexes
    <3> QED  BY <1>1, <1>2, <3>4, <3>5, <3>6
  <2>3. CASE u = uid /\ uid \notin DOMAIN S.definitions
    <3>1. More(u) = {t}
      <4>1. \A d \in Listed(S, done) : UID(S, d) # u
        BY <1>4, <2>3
      <4> QED  BY <1>1, <1>2, <2>3, <4>1
    <3>2. T.definitions[u].occurrences = Of(T, t)
      BY <1>1, <2>3
    <3>3. T.definitions[u].occurrences =
            UNION {Of(T, d) : d \in More(u)}
      <4>1. UNION {Of(T, d) : d \in {t}} = Of(T, t)
        OBVIOUS
      <4> HIDE DEF More
      <4> QED  BY <3>1, <3>2, <4>1
    <3>4. Indexes(T, u, t)
      BY <2>3 DEF Indexes
    <3> QED  BY <1>1, <1>2, <2>3, <3>3, <3>4
  <2> QED  BY <2>1, <2>2, <2>3
<1> QED  BY <1>3, <1>5, <1>6 DEF StoreInv

LEMMA StartRefreshKeeps ==
  ASSUME IInv, StartRefresh
  PROVE  TypeOK' /\ TablesInv'
<1>1. /\ build' = [pc |-> "build", todo |-> Trips, store |-> build'.store]
      /\ build'.store = [feed |-> archive, week |-> WeekStart(now), definitions |-> <<>>, index |-> {}]
      /\ UNCHANGED <<zone, now, archive, store, match>>
  BY DEF StartRefresh, EmptyStore
<1>2. archive \in Feeds /\ WeekStart(now) \in Int
  <2>1. Local(now) \in Int
    BY Bounds DEF IInv, TypeOK, Local
  <2>2. DayOf(now) \in Int
    BY <2>1, Bounds DEF DayOf
  <2> QED  BY <2>2 DEF IInv, TypeOK, WeekStart
<1>3. TypeOK'
  BY <1>1 DEF IInv, TypeOK, StoreOf
<1>4. PICK S : S = build'.store
  OBVIOUS
<1>5. StoreInv(S, {})
  BY <1>1, <1>2, <1>4, EmptyStoreInv
<1>6. StoreInv(build.store, Trips \ build.todo)'
  <2>1. StoreInv(S, {})'
    BY <1>1, <1>5, StoreFrame
  <2>2. (Trips \ build.todo)' = {}
    BY <1>1
  <2> QED  BY <1>4, <2>1, <2>2
<1>7. store.feed # NoFeed => StoreInv(store, Trips)'
  <2>1. PICK R : R = store
    OBVIOUS
  <2>2. StoreInv(R, Trips)' <=> StoreInv(R, Trips)
    BY <1>1, StoreFrame
  <2> QED  BY <1>1, <2>1, <2>2 DEF IInv, TablesInv
<1> QED  BY <1>1, <1>3, <1>6, <1>7 DEF TablesInv

LEMMA BuildChange ==
  ASSUME NEW p, NEW f, NEW w, NEW d, NEW i, NEW todo, NEW d2, NEW i2, NEW todo2,
         NEW b, b = [pc |-> p, todo |-> todo,
                     store |-> [feed |-> f, week |-> w, definitions |-> d, index |-> i]]
  PROVE  [b EXCEPT !.todo = todo2, !.store.definitions = d2, !.store.index = i2] =
           [pc |-> p, todo |-> todo2,
            store |-> [feed |-> f, week |-> w, definitions |-> d2, index |-> i2]]
<1>1. PICK s : s = [feed |-> f, week |-> w, definitions |-> d, index |-> i]
  OBVIOUS
<1>2. PICK s2 : s2 = [feed |-> f, week |-> w, definitions |-> d2, index |-> i2]
  OBVIOUS
<1>3. PICK s1 : s1 = [feed |-> f, week |-> w, definitions |-> d2, index |-> i]
  OBVIOUS
<1>4. [s EXCEPT !.definitions = d2] = s1
  BY <1>1, <1>3
<1>5. [s1 EXCEPT !.index = i2] = s2
  BY <1>2, <1>3
<1>6. [[pc |-> p, store |-> s, todo |-> todo] EXCEPT !.todo = todo2]
           = [pc |-> p, store |-> s, todo |-> todo2]
  OBVIOUS
<1>7. \A x, y : [[pc |-> p, store |-> x, todo |-> todo2] EXCEPT !.store = y]
                = [pc |-> p, store |-> y, todo |-> todo2]
  OBVIOUS
<1>8. PICK b1 : b1 = [b EXCEPT !.todo = todo2]
  OBVIOUS
<1>9. b1 = [pc |-> p, store |-> s, todo |-> todo2] /\ b1.store = s
  BY <1>1, <1>6, <1>8
<1>10. PICK b2 : b2 = [b1 EXCEPT !.store.definitions = d2]
  OBVIOUS
<1>11. b2 = [pc |-> p, store |-> s1, todo |-> todo2] /\ b2.store = s1
  BY <1>4, <1>7, <1>9, <1>10
<1>12. [b2 EXCEPT !.store.index = i2] = [pc |-> p, store |-> s2, todo |-> todo2]
  BY <1>5, <1>7, <1>11
<1>13. [b EXCEPT !.todo = todo2, !.store.definitions = d2, !.store.index = i2] =
        [b2 EXCEPT !.store.index = i2]
  BY <1>8, <1>10
<1> QED  BY <1>2, <1>12, <1>13

LEMMA AddTripKeeps ==
  ASSUME IInv, NEW t \in Trips, AddTrip(t)
  PROVE  TypeOK' /\ TablesInv'
<1> DEFINE b == build.store
           trip == b.feed.trips[t]
           dates == ServiceDates(b.feed, trip.service, b.week)
           uid == UIDOf(trip)
           known == uid \in DOMAIN b.definitions
           old == IF known THEN b.definitions[uid] ELSE Definition(trip, b.feed.api[t])
           new == [old EXCEPT !.occurrences = @ \cup OccurrencesOf(t, trip, dates)]
           done == Trips \ build.todo
<1>1. /\ build.pc = "build" /\ t \in build.todo
      /\ UNCHANGED <<zone, now, archive, store, match>>
  BY DEF AddTrip
<1>2. /\ build = [pc |-> "build", store |-> b, todo |-> build.todo] /\ b = StoreOf(b)
      /\ build.todo \subseteq Trips /\ StoreInv(b, done)
  BY <1>1 DEF IInv, TypeOK, TablesInv
<1>3. build'.todo = build.todo \ {t} /\ Trips \ (build.todo \ {t}) = done \cup {t}
  BY <1>1, <1>2 DEF AddTrip
<1>6. Cardinality(trip.rows) \in Nat
  BY <1>2, StopsType DEF StoreInv
<1>7. /\ build' = [pc |-> "build", store |-> build'.store, todo |-> build.todo \ {t}]
      /\ build'.store = StoreOf(build'.store)
      /\ StoreInv(build'.store, done \cup {t})
  <2>1. CASE Cardinality(trip.rows) < 2 \/ dates = {}
    <3>1. build' = [build EXCEPT !.todo = @ \ {t}]
      BY <2>1 DEF AddTrip
    <3>2. build'.store = b /\ build' = [pc |-> "build", store |-> b, todo |-> build.todo \ {t}]
      BY <1>2, <3>1
    <3>3. StoreInv(b, done \cup {t})
      <4>1. ~(Cardinality(b.feed.trips[t].rows) >= 2) \/ DatesOf(b, t) = {}
        BY <1>6, <2>1 DEF DatesOf
      <4> QED  BY <1>2, <4>1, TripSkipped
    <3> QED  BY <1>2, <3>2, <3>3
  <2>2. CASE ~(Cardinality(trip.rows) < 2 \/ dates = {})
    <3> DEFINE definitions == [u \in DOMAIN b.definitions \cup {uid} |->
                                  IF u = uid THEN new ELSE b.definitions[u]]
               index == IF known \/ new.pair = None THEN b.index
                        ELSE Indexed(b.index, new.pair, uid)
               T == [feed |-> b.feed, week |-> b.week, definitions |-> definitions,
                     index |-> index]
    <3>1. build' = [build EXCEPT !.todo = @ \ {t}, !.store.definitions = definitions,
                                 !.store.index = index]
      BY <2>2 DEF AddTrip
    <3> HIDE DEF definitions, index
    <3>2. build' = [pc |-> "build", store |-> T, todo |-> build.todo \ {t}]
      <4>1. build = [pc |-> "build", todo |-> build.todo,
                     store |-> [feed |-> b.feed, week |-> b.week, definitions |-> b.definitions,
                                index |-> b.index]]
        BY <1>2 DEF StoreOf
      <4>2. PICK c : c = build
        OBVIOUS
      <4>3. build' = [c EXCEPT !.todo = build.todo \ {t}, !.store.definitions = definitions,
                               !.store.index = index]
        BY <3>1, <4>2
      <4>4. c = [pc |-> "build", todo |-> build.todo,
                 store |-> [feed |-> b.feed, week |-> b.week, definitions |-> b.definitions,
                            index |-> b.index]]
        BY <4>1, <4>2
      <4> HIDE DEF b, T
      <4>5. build' = [pc |-> "build", todo |-> build.todo \ {t},
                      store |-> [feed |-> b.feed, week |-> b.week, definitions |-> definitions,
                                 index |-> index]]
        BY <4>3, <4>4, BuildChange
      <4> QED  BY <4>5 DEF T
    <3>3. /\ known => new.pair = b.definitions[uid].pair
          /\ ~known => new.pair = b.feed.api[t]
      BY DEF Definition
    <3>4. new.occurrences = Of(b, t) \cup IF known THEN b.definitions[uid].occurrences ELSE {}
      BY DEF Definition, Of, DatesOf
    <3>5. /\ DOMAIN T.definitions = DOMAIN b.definitions \cup {uid}
          /\ \A u \in DOMAIN b.definitions : u # uid => T.definitions[u] = b.definitions[u]
          /\ T.definitions[uid] = new
      BY DEF definitions
    <3>6. /\ \A e \in b.index : e \in T.index
          /\ ~known /\ b.feed.api[t] # None => <<b.feed.api[t], uid>> \in T.index
      BY <3>3 DEF index, Indexed
    <3>7. T.feed = b.feed /\ T.week = b.week /\ uid = UID(b, t) /\ DatesOf(b, t) # {}
      BY <2>2 DEF UID, DatesOf
    <3>8. StoreInv(T, done \cup {t})
      <4> HIDE DEF T, new, uid, trip, b, done
      <4>1. Cardinality(b.feed.trips[t].rows) >= 2
        BY <1>6, <2>2 DEF b, trip
      <4>2. /\ T.definitions[uid].occurrences =
                  Of(b, t) \cup IF uid \in DOMAIN b.definitions
                                THEN b.definitions[uid].occurrences ELSE {}
            /\ T.definitions[uid].pair = IF uid \in DOMAIN b.definitions
                                        THEN b.definitions[uid].pair ELSE b.feed.api[t]
        BY <3>3, <3>4, <3>5
      <4>3. /\ \A e \in b.index : e \in T.index
            /\ uid \notin DOMAIN b.definitions /\ b.feed.api[t] # None =>
                 <<b.feed.api[t], uid>> \in T.index
        BY <3>6
      <4>4. Adds(b, t, uid, T)
        BY <3>5, <3>7, <4>1, <4>2, <4>3 DEF Adds
      <4> QED  BY <1>2, <4>4, TripAdded
    <3> QED  BY <3>2, <3>8 DEF StoreOf
  <2> QED  BY <2>1, <2>2
<1>8. TypeOK'
  BY <1>1, <1>2, <1>7 DEF IInv, TypeOK
<1>9. StoreInv(build.store, Trips \ build.todo)'
  <2>1. PICK R : R = build'.store
    OBVIOUS
  <2>2. PICK D : D = done \cup {t}
    OBVIOUS
  <2>3. StoreInv(R, D)' <=> StoreInv(R, D)
    BY <1>1, StoreFrame
  <2> QED  BY <1>3, <1>7, <2>1, <2>2, <2>3
<1>10. store.feed # NoFeed => StoreInv(store, Trips)'
  <2>1. PICK R : R = store
    OBVIOUS
  <2>2. StoreInv(R, Trips)' <=> StoreInv(R, Trips)
    BY <1>1, StoreFrame
  <2> QED  BY <1>1, <2>1, <2>2 DEF IInv, TablesInv
<1> QED  BY <1>1, <1>8, <1>9, <1>10 DEF TablesInv

LEMMA FinishRefreshKeeps ==
  ASSUME IInv, FinishRefresh
  PROVE  IInv'
<1>1. /\ build.pc = "build" /\ Trips \ build.todo = Trips
      /\ store' = build.store /\ build' = Idle /\ match' = NoMatch
      /\ UNCHANGED <<zone, now, archive>>
  BY DEF FinishRefresh
<1>2. TypeOK'
  BY <1>1 DEF IInv, TypeOK, Idle, StoreOf, EmptyStore
<1>3. PICK R : R = store'
  OBVIOUS
<1>4. StoreInv(R, Trips)
  BY <1>1, <1>3 DEF IInv, TablesInv
<1>5. StoreInv(R, Trips)'
  BY <1>1, <1>4, StoreFrame
<1>6. TablesInv'
  BY <1>1, <1>3, <1>5 DEF TablesInv, Idle
<1> QED  BY <1>1, <1>2, <1>6 DEF IInv, MatchInv

\* Steps that leave the store and the refresh alone.
LEMMA TablesStay ==
  ASSUME TablesInv, UNCHANGED <<zone, build, store>>
  PROVE  TablesInv'
<1>1. PICK R, D, S : R = build.store /\ D = Trips \ build.todo /\ S = store
  OBVIOUS
<1>2. (StoreInv(R, D)' <=> StoreInv(R, D)) /\ (StoreInv(S, Trips)' <=> StoreInv(S, Trips))
  BY StoreFrame
<1> QED  BY <1>1, <1>2 DEF TablesInv

-----------------------------------------------------------------------------
(* A match *)

\* What a record is matched to only depends on the store and the zone.
LEMMA MatchFrame ==
  ASSUME UNCHANGED <<zone, store>>, NEW r
  PROVE  Candidates(r)' = Candidates(r) /\ BestMatches(r)' = BestMatches(r)
<1>1. Candidates(r)' = Candidates(r)
  BY DEF Candidates
<1>2. \A t : DayOf(t)' = DayOf(t)
  BY DEF DayOf, Local
<1>3. \A c : Bonus(r, c)' = Bonus(r, c)
  BY <1>2 DEF Bonus
<1>4. \A c : Score(r, c)' = Score(r, c)
  BY <1>3 DEF Score
<1> QED  BY <1>1, <1>4 DEF BestMatches

LEMMA MatchStays ==
  ASSUME MatchInv, UNCHANGED <<zone, store, match>>
  PROVE  MatchInv'
<1>1. PICK r : r = match.record
  OBVIOUS
<1>2. Candidates(r)' = Candidates(r) /\ BestMatches(r)' = BestMatches(r)
  BY MatchFrame
<1> QED  BY <1>1, <1>2 DEF MatchInv

LEMMA MatchRecordKeeps ==
  ASSUME IInv, NEW r \in Records, MatchRecord(r)
  PROVE  IInv'
<1>1. store.feed # NoFeed /\ UNCHANGED <<zone, now, archive, build, store>>
  BY DEF MatchRecord
<1>2. Candidates(r)' = Candidates(r) /\ BestMatches(r)' = BestMatches(r)
  BY <1>1, MatchFrame
<1>3. /\ match'.record = r
      /\ IF match'.found THEN [uid |-> match'.uid, occ |-> match'.occ] \in BestMatches(r)
                         ELSE Candidates(r) = {}
  <2>1. CASE Candidates(r) = {} /\ match' = [record |-> r, found |-> FALSE]
    BY <2>1
  <2>2. ASSUME NEW c \in BestMatches(r),
               match' = [record |-> r, found |-> TRUE, uid |-> c.uid, occ |-> c.occ]
        PROVE  <1>3
    <3>1. [uid |-> c.uid, occ |-> c.occ] = c
      <4>1. PICK u, o : c = [uid |-> u, occ |-> o]
        BY DEF BestMatches, Candidates
      <4> QED  BY <4>1
    <3> QED  BY <2>2, <3>1
  <2> QED  BY <2>1, <2>2 DEF MatchRecord
<1>4. MatchInv'
  BY <1>1, <1>2, <1>3 DEF MatchInv
<1>5. TypeOK'
  BY <1>1 DEF IInv, TypeOK
<1> QED  BY <1>1, <1>4, <1>5, TablesStay DEF IInv

LEMMA TickKeeps ==
  ASSUME IInv, Tick
  PROVE  IInv'
<1>1. now' \in Times /\ match' = NoMatch /\ UNCHANGED <<zone, archive, build, store>>
  BY DEF Tick
<1>2. TypeOK'
  BY <1>1, Bounds DEF IInv, TypeOK
<1> QED  BY <1>1, <1>2, TablesStay DEF IInv, MatchInv

LEMMA InitIInv == Init => IInv
<1> SUFFICES ASSUME Init PROVE IInv
  OBVIOUS
<1>1. TypeOK
  BY Bounds DEF Init, TypeOK, Idle, EmptyStore, StoreOf
<1>2. TablesInv
  BY DEF Init, TablesInv, Idle, EmptyStore
<1> QED  BY <1>1, <1>2 DEF Init, IInv, MatchInv

LEMMA NextIInv == IInv /\ [Next]_vars => IInv'
<1> SUFFICES ASSUME IInv, [Next]_vars PROVE IInv'
  OBVIOUS
<1>1. CASE StartRefresh
  <2>1. TypeOK' /\ TablesInv'
    BY <1>1, StartRefreshKeeps
  <2>2. UNCHANGED <<zone, store, match>>
    BY <1>1 DEF StartRefresh
  <2> QED  BY <2>1, <2>2, MatchStays DEF IInv
<1>2. CASE FinishRefresh
  BY <1>2, FinishRefreshKeeps
<1>3. CASE Tick
  BY <1>3, TickKeeps
<1>4. ASSUME NEW t \in Trips, AddTrip(t) PROVE IInv'
  <2>1. TypeOK' /\ TablesInv'
    BY <1>4, AddTripKeeps
  <2>2. UNCHANGED <<zone, store, match>>
    BY <1>4 DEF AddTrip
  <2> QED  BY <2>1, <2>2, MatchStays DEF IInv
<1>5. ASSUME NEW r \in Records, MatchRecord(r) PROVE IInv'
  BY <1>5, MatchRecordKeeps
<1>6. CASE UNCHANGED vars
  <2>1. UNCHANGED <<zone, now, archive, build, store, match>>
    BY <1>6 DEF vars
  <2>2. TypeOK'
    BY <2>1 DEF IInv, TypeOK
  <2> QED  BY <2>1, <2>2, TablesStay, MatchStays DEF IInv
<1> QED  BY <1>1, <1>2, <1>3, <1>4, <1>5, <1>6 DEF Next

\* Whatever the order of the trips and whenever records come: the store being built is what
\* the trips added so far make of their feed, and the match is one of the store as it is.
THEOREM InvariantHolds == Spec => []IInv
<1> QED  BY InitIInv, NextIInv, PTL DEF Spec

-----------------------------------------------------------------------------
(* What the store holds *)

\* The occurrence of a run.
From(S, t) == StopsOf(S.feed.trips[t])[1].departure
To(S, t) == StopsOf(S.feed.trips[t])[Len(StopsOf(S.feed.trips[t]))].arrival
At(S, run) ==
  [trip |-> run.trip, service |-> S.feed.trips[run.trip].service, date |-> run.date,
   start |-> Clock(run.date, From(S, run.trip)), end |-> Clock(run.date, To(S, run.trip))]

LEMMA OccurrencesAreRuns ==
  ASSUME NEW S, StoreInv(S, Trips), NEW t \in Trips, NEW o
  PROVE  t \in Listed(S, Trips) /\ o \in Of(S, t) <=>
           \E run \in Runs(S.feed, S.week) : run.trip = t /\ o = At(S, run)
<1> DEFINE trip == S.feed.trips[t]
           n == Cardinality(trip.rows)
<1>1. S.feed \in Feeds /\ S.week \in Int
  BY DEF StoreInv
<1>2. n \in Nat /\ Len(StopsOf(trip)) = n
  BY <1>1, StopsType
<1>3. \A day : day \in DatesOf(S, t) <=>
                 day \in S.week .. S.week + 6 /\ RunsOn(S.feed, trip.service, day)
  BY <1>1, ActiveRuns DEF DatesOf, ServiceDates
<1>4. Usable(trip) <=> n >= 2 /\ From(S, t) # NoClock /\ To(S, t) # NoClock
  BY <1>2 DEF Usable, From, To
<1>5. \A run : run \in Runs(S.feed, S.week) /\ run.trip = t <=>
                 \E day : run = [trip |-> t, date |-> day] /\ Usable(trip) /\ day \in DatesOf(S, t)
  <2>1. \A run : run \in Runs(S.feed, S.week) /\ run.trip = t <=>
                   /\ run \in [trip : Trips, date : S.week .. S.week + 6] /\ run.trip = t
                   /\ Usable(trip) /\ RunsOn(S.feed, trip.service, run.date)
    BY DEF Runs
  <2>2. \A run : run \in [trip : Trips, date : S.week .. S.week + 6] /\ run.trip = t <=>
                   \E day \in S.week .. S.week + 6 : run = [trip |-> t, date |-> day]
    OBVIOUS
  <2> QED  BY <1>3, <2>1, <2>2
<1>6. o \in Of(S, t) <=> /\ From(S, t) # NoClock /\ To(S, t) # NoClock
                         /\ \E day \in DatesOf(S, t) : o = At(S, [trip |-> t, date |-> day])
  BY DEF Of, OccurrencesOf, From, To, At
<1>7. t \in Listed(S, Trips) <=> n >= 2 /\ DatesOf(S, t) # {}
  BY DEF Listed
<1> QED  BY <1>4, <1>5, <1>6, <1>7

LEMMA Holds ==
  ASSUME NEW S, StoreInv(S, Trips)
  PROVE  /\ \A run \in Runs(S.feed, S.week) :
              /\ UID(S, run.trip) \in DOMAIN S.definitions
              /\ At(S, run) \in S.definitions[UID(S, run.trip)].occurrences
         /\ \A u \in DOMAIN S.definitions : \A o \in S.definitions[u].occurrences :
              \E run \in Runs(S.feed, S.week) : UID(S, run.trip) = u /\ o = At(S, run)
<1>1. /\ DOMAIN S.definitions = {UID(S, t) : t \in Listed(S, Trips)}
      /\ \A u \in DOMAIN S.definitions : \A o : o \in S.definitions[u].occurrences <=>
           \E t \in Listed(S, Trips) : UID(S, t) = u /\ o \in Of(S, t)
  BY DEF StoreInv
<1>2. \A t \in Listed(S, Trips) : t \in Trips
  BY DEF Listed
<1>3. \A run \in Runs(S.feed, S.week) : run.trip \in Trips
  BY DEF Runs
<1>4. ASSUME NEW run \in Runs(S.feed, S.week)
      PROVE  /\ UID(S, run.trip) \in DOMAIN S.definitions
             /\ At(S, run) \in S.definitions[UID(S, run.trip)].occurrences
  <2>1. run.trip \in Listed(S, Trips) /\ At(S, run) \in Of(S, run.trip)
    BY <1>3, OccurrencesAreRuns
  <2> QED  BY <1>1, <2>1
<1>5. ASSUME NEW u \in DOMAIN S.definitions, NEW o \in S.definitions[u].occurrences
      PROVE  \E run \in Runs(S.feed, S.week) : UID(S, run.trip) = u /\ o = At(S, run)
  <2>1. PICK t \in Listed(S, Trips) : UID(S, t) = u /\ o \in Of(S, t)
    BY <1>1
  <2>2. PICK run \in Runs(S.feed, S.week) : run.trip = t /\ o = At(S, run)
    BY <1>2, <2>1, OccurrencesAreRuns
  <2> QED  BY <2>1, <2>2
<1> QED  BY <1>4, <1>5

\* After a refresh the store holds every run of its week once, under the UID of its trip, and
\* nothing else: for any archive and any order of the map of trips (gtfs_store.go,
\* buildDefinitions).
THEOREM StoreComplete == Spec => []OccurrencesComplete
<1>1. IInv => OccurrencesComplete
  <2> SUFFICES ASSUME IInv, store.feed # NoFeed PROVE OccurrencesComplete
    BY DEF OccurrencesComplete
  <2> DEFINE held == UNION {{<<u, [trip |-> o.trip, date |-> o.date]>> :
                               o \in store.definitions[u].occurrences} :
                              u \in DOMAIN store.definitions}
             runs == {<<UIDOf(store.feed.trips[run.trip]), run>> :
                        run \in Runs(store.feed, store.week)}
  <2>1. PICK S : S = store
    OBVIOUS
  <2>2. StoreInv(S, Trips)
    BY <2>1 DEF IInv, TablesInv
  <2>3. \A run \in Runs(S.feed, S.week) : run = [trip |-> run.trip, date |-> run.date]
    BY DEF Runs
  <2>4. \A e : e \in held <=> \E u \in DOMAIN S.definitions : \E o \in S.definitions[u].occurrences :
                                e = <<u, [trip |-> o.trip, date |-> o.date]>>
    BY <2>1
  <2>5. \A e : e \in runs <=> \E run \in Runs(S.feed, S.week) : e = <<UID(S, run.trip), run>>
    BY <2>1 DEF UID
  <2>6. \A run \in Runs(S.feed, S.week) :
          [trip |-> At(S, run).trip, date |-> At(S, run).date] = run
    BY <2>3 DEF At
  <2> HIDE DEF held, runs
  <2>7. ASSUME NEW e \in held PROVE e \in runs
    <3>0. PICK u \in DOMAIN S.definitions :
             \E o \in S.definitions[u].occurrences : e = <<u, [trip |-> o.trip, date |-> o.date]>>
      BY <2>4
    <3>1. PICK o \in S.definitions[u].occurrences : e = <<u, [trip |-> o.trip, date |-> o.date]>>
      BY <3>0
    <3>2. PICK run \in Runs(S.feed, S.week) : UID(S, run.trip) = u /\ o = At(S, run)
      BY <2>2, Holds
    <3> QED  BY <2>5, <2>6, <3>1, <3>2
  <2>8. ASSUME NEW e \in runs PROVE e \in held
    <3>1. PICK run \in Runs(S.feed, S.week) : e = <<UID(S, run.trip), run>>
      BY <2>5
    <3>2. /\ UID(S, run.trip) \in DOMAIN S.definitions
          /\ At(S, run) \in S.definitions[UID(S, run.trip)].occurrences
      BY <2>2, Holds
    <3> QED  BY <2>4, <2>6, <3>1, <3>2
  <2>9. held = runs
    BY <2>7, <2>8
  <2> QED  BY <2>9 DEF OccurrencesComplete, held, runs
<1> QED  BY <1>1, InvariantHolds, PTL

\* A run can be found by the line and route of its trip unless another trip of the same UID
\* has others, or none (gtfs_store.go, lineRouteIndex).
THEOREM Found == Spec => []FoundUnlessTwin
<1>1. IInv => FoundUnlessTwin
  <2> SUFFICES ASSUME IInv, store.feed # NoFeed, NEW run \in Runs(store.feed, store.week)
               PROVE  LET uid == UIDOf(store.feed.trips[run.trip]) IN
                      \/ store.feed.api[run.trip] = None
                      \/ <<store.feed.api[run.trip], uid>> \in store.index
                      \/ \E t \in Trips : /\ Cardinality(store.feed.trips[t].rows) >= 2
                                          /\ UIDOf(store.feed.trips[t]) = uid
                                          /\ store.feed.api[t] # store.feed.api[run.trip]
    BY DEF FoundUnlessTwin
  <2>1. PICK S : S = store
    OBVIOUS
  <2>2. StoreInv(S, Trips)
    BY <2>1 DEF IInv, TablesInv
  <2>3. UID(S, run.trip) \in DOMAIN S.definitions
    BY <2>1, <2>2, Holds
  <2>4. PICK t \in Listed(S, Trips) : UID(S, t) = UID(S, run.trip) /\ Indexes(S, UID(S, run.trip), t)
    BY <2>2, <2>3 DEF StoreInv
  <2>5. t \in Trips /\ Cardinality(S.feed.trips[t].rows) >= 2
    BY DEF Listed
  <2>6. CASE S.feed.api[t] = S.feed.api[run.trip]
    BY <2>1, <2>4, <2>6 DEF Indexes, UID
  <2>7. CASE S.feed.api[t] # S.feed.api[run.trip]
    BY <2>1, <2>4, <2>5, <2>7 DEF UID
  <2> QED  BY <2>6, <2>7
<1> QED  BY <1>1, InvariantHolds, PTL

-----------------------------------------------------------------------------
(* Clocks and time shifts *)

\* The instant of a reading that is shown once is the one that shows it, and the clocks are
\* past the reading exactly from that instant on.
LEMMA ShownOnce ==
  ASSUME zone \in Zones, NEW R \in Int, Cardinality(Showings(R)) = 1
  PROVE  /\ Instant(R) \in Int
         /\ \A t \in Nat : /\ Local(t) >= R => t >= Instant(R)
                           /\ Local(t) <= R => t <= Instant(R)
<1>1. zone.at \in Int /\ zone.by \in Int
  BY Bounds
<1>2. PICK x : Showings(R) = {x}
  <2>1. IsFiniteSet(Showings(R))
    <3>1. IsFiniteSet({R, R - zone.by})
      <4>1. IsFiniteSet({} \cup {R})
        BY FS_EmptySet, FS_AddElement
      <4>2. IsFiniteSet(({} \cup {R}) \cup {R - zone.by})
        BY <4>1, FS_AddElement
      <4>3. ({} \cup {R}) \cup {R - zone.by} = {R, R - zone.by}
        OBVIOUS
      <4> QED  BY <4>2, <4>3
    <3>2. Showings(R) \in SUBSET {R, R - zone.by}
      BY DEF Showings
    <3> QED  BY <3>1, <3>2, FS_Subset
  <2> QED  BY <2>1, FS_Singleton
<1>3. /\ x \in {R, R - zone.by} /\ Local(x) = R
      /\ \A t \in {R, R - zone.by} : Local(t) = R => t = x
  BY <1>2 DEF Showings
<1>4. CASE R - zone.by >= zone.at
  BY <1>1, <1>3, <1>4 DEF Instant, Local
<1>5. CASE ~(R - zone.by >= zone.at)
  BY <1>1, <1>3, <1>5 DEF Instant, Local
<1> QED  BY <1>4, <1>5

\* parseGTFSClock outside of a shift: the instant at which the clocks show the reading.
LEMMA ClockType ==
  ASSUME zone \in Zones, NEW day \in Int, NEW clock \in Nat
  PROVE  Clock(day, clock) \in Int
<1>1. /\ zone.at \in Int /\ zone.by \in Int /\ day * DayLength \in Int
      /\ clock % DayLength \in Int /\ (clock \div DayLength) * DayLength \in Int
  BY Bounds
<1>2. \A x \in Int : Instant(x) \in Int /\ Local(x) \in Int
  BY <1>1 DEF Instant, Local
<1>3. day * DayLength + (clock % DayLength) \in Int
  BY <1>1
<1>4. Local(Instant(day * DayLength + (clock % DayLength))) \in Int
  BY <1>2, <1>3
<1>5. \A x, y \in Int : x + y \in Int
  OBVIOUS
<1> QED  BY <1>1, <1>2, <1>4, <1>5 DEF Clock

LEMMA RunClocks ==
  ASSUME NEW S, StoreInv(S, Trips), NEW run \in Runs(S.feed, S.week)
  PROVE  /\ run.date \in Int
         /\ From(S, run.trip) \in Nat /\ To(S, run.trip) \in Nat
<1> DEFINE stops == StopsOf(S.feed.trips[run.trip])
           n == Len(stops)
<1>1. /\ S.feed \in Feeds /\ S.week \in Int /\ run.trip \in Trips
      /\ run.date \in S.week .. S.week + 6
      /\ Usable(S.feed.trips[run.trip])
  BY DEF StoreInv, Runs
<1>2. /\ n = Cardinality(S.feed.trips[run.trip].rows) /\ n \in Nat /\ DOMAIN stops = 1 .. n
      /\ \A i \in DOMAIN stops : /\ stops[i].departure \in Nat \cup {NoClock}
                                 /\ stops[i].arrival \in Nat \cup {NoClock}
  BY <1>1, StopsType
<1>3. n >= 2 /\ stops[1].departure # NoClock /\ stops[n].arrival # NoClock
  BY <1>1, <1>2 DEF Usable
<1> HIDE DEF stops, n
<1>4. 1 \in DOMAIN stops /\ n \in DOMAIN stops
  <2>1. n \in Nat /\ n >= 2 /\ DOMAIN stops = 1 .. n
    BY <1>2, <1>3
  <2> QED  BY <2>1
<1>5. stops[1].departure \in Nat /\ stops[n].arrival \in Nat
  BY <1>2, <1>3, <1>4
<1> QED  BY <1>1, <1>5 DEF stops, n, From, To

LEMMA ClockInstant ==
  ASSUME zone \in Zones, NEW day \in Int, NEW clock \in Nat, ~InShift(day, clock)
  PROVE  /\ Clock(day, clock) = Instant(day * DayLength + clock)
         /\ day * DayLength + clock \in Int
         /\ Cardinality(Showings(day * DayLength + clock)) = 1
<1> DEFINE r == day * DayLength + (clock % DayLength)
<1>1. /\ zone.at \in Int /\ zone.by \in Int /\ DayLength \in Nat \ {0}
      /\ day * DayLength \in Int
  BY Bounds
<1>2. /\ clock % DayLength \in Nat /\ clock \div DayLength \in Int
      /\ clock = (clock % DayLength) + (clock \div DayLength) * DayLength
      /\ (clock \div DayLength) * DayLength \in Int
  BY <1>1
<1>3. PICK x : x \in {r, r - zone.by} /\ Local(x) = r
  BY DEF InShift, Showings
<1>4. r \in Int
  BY <1>1, <1>2
<1> HIDE DEF r
<1>5. Local(Instant(r)) = r
  BY <1>1, <1>3, <1>4 DEF Local, Instant
<1>6. r + (clock \div DayLength) * DayLength = day * DayLength + clock
  BY <1>1, <1>2 DEF r
<1>7. Clock(day, clock) = Instant(day * DayLength + clock)
  BY <1>5, <1>6 DEF Clock, r
<1> QED  BY <1>1, <1>7 DEF InShift

LEMMA CandidatesAre ==
  ASSUME NEW r, NEW c
  PROVE  c \in Candidates(r) <=>
           \E u \in DOMAIN store.definitions : \E o \in store.definitions[u].occurrences :
             /\ c = [uid |-> u, occ |-> o] /\ <<r.pair, u>> \in store.index
             /\ r.ts \in (o.start - MatchingWindow) .. (o.end + MatchingWindow)
<1> DEFINE users == {u \in DOMAIN store.definitions : <<r.pair, u>> \in store.index}
           Offered(u) == {[uid |-> u, occ |-> o] : o \in store.definitions[u].occurrences}
           InWindow(o) == r.ts \in (o.start - MatchingWindow) .. (o.end + MatchingWindow)
<1>1. c \in UNION {Offered(u) : u \in users} <=> \E u \in users : c \in Offered(u)
  <2> HIDE DEF Offered, users
  <2> QED  OBVIOUS
<1>2. \A u : c \in Offered(u) <=> \E o \in store.definitions[u].occurrences :
                               c = [uid |-> u, occ |-> o]
  OBVIOUS
<1>3. c \in Candidates(r) <=> c \in UNION {Offered(u) : u \in users} /\ InWindow(c.occ)
  BY DEF Candidates
<1>4. \A u, o : c = [uid |-> u, occ |-> o] => c.occ = o
  OBVIOUS
<1>5. \A u : u \in users <=> u \in DOMAIN store.definitions /\ <<r.pair, u>> \in store.index
  OBVIOUS
<1> HIDE DEF Offered, InWindow, users
<1>6. c \in Candidates(r) <=> \E u \in users : \E o \in store.definitions[u].occurrences :
                              c = [uid |-> u, occ |-> o] /\ InWindow(o)
  BY <1>1, <1>2, <1>3, <1>4
<1> QED  BY <1>5, <1>6 DEF InWindow

\* A record of a trip that runs at the record's time by the clocks of the zone is matched to
\* something, outside of time shifts and for every shift (matching.go, matchLiveRecord).
THEOREM RunningMatched == Spec => []RunningTripsAreMatched
<1>1. IInv => RunningTripsAreMatched
  <2> SUFFICES ASSUME IInv, match.record # None, ~match.found,
                      NEW run \in Runs(store.feed, store.week),
                      Local(match.record.ts) - run.date * DayLength \in
                        From(store, run.trip) .. To(store, run.trip),
                      ~InShift(run.date, From(store, run.trip)),
                      ~InShift(run.date, To(store, run.trip)),
                      <<match.record.pair, UIDOf(store.feed.trips[run.trip])>> \in store.index
               PROVE  FALSE
    BY DEF RunningTripsAreMatched, From, To
  <2>1. PICK S, r : S = store /\ r = match.record
    OBVIOUS
  <2>2. /\ zone \in Zones /\ StoreInv(S, Trips) /\ r \in Records /\ Candidates(r) = {}
    BY <2>1 DEF IInv, TypeOK, TablesInv, MatchInv, NoMatch
  <2> DEFINE uid == UID(S, run.trip)
             o == At(S, run)
             from == From(S, run.trip)
             to == To(S, run.trip)
  <2>3. uid \in DOMAIN store.definitions /\ o \in store.definitions[uid].occurrences
    BY <2>1, <2>2, Holds
  <2>5. from \in Nat /\ to \in Nat /\ run.date \in Int
    BY <2>1, <2>2, RunClocks
  <2>6. run.date \in Int /\ run.date * DayLength \in Int /\ r.ts \in Nat /\ Local(r.ts) \in Int
    <3>1. r.ts \in Nat
      BY <2>2, RecordsAssumption DEF RecordsAssumption
    <3> QED  BY <2>2, <2>5, <3>1, Bounds DEF Local
  <2>7. /\ Local(r.ts) >= run.date * DayLength + from
        /\ Local(r.ts) <= run.date * DayLength + to
    <3>1. Local(r.ts) - run.date * DayLength \in from .. to
      BY <2>1
    <3> HIDE DEF from, to
    <3> QED  BY <2>5, <2>6, <3>1
  <2>8. Clock(run.date, from) \in Int /\ r.ts >= Clock(run.date, from)
    BY <2>1, <2>2, <2>5, <2>6, <2>7, ClockInstant, ShownOnce
  <2>9. Clock(run.date, to) \in Int /\ r.ts <= Clock(run.date, to)
    BY <2>1, <2>2, <2>5, <2>6, <2>7, ClockInstant, ShownOnce
  <2>10. r.ts \in (o.start - MatchingWindow) .. (o.end + MatchingWindow)
    <3>1. o.start = Clock(run.date, from) /\ o.end = Clock(run.date, to)
      BY DEF At
    <3> HIDE DEF o, from, to
    <3> QED  BY <2>6, <2>8, <2>9, <3>1, Bounds
  <2>11. [uid |-> uid, occ |-> o] \in Candidates(r)
    <3>1. <<r.pair, uid>> \in store.index
      BY <2>1 DEF UID
    <3> HIDE DEF uid, o
    <3> QED  BY <2>3, <2>10, <3>1, CandidatesAre
  <2> QED  BY <2>2, <2>11
<1> QED  BY <1>1, InvariantHolds, PTL

-----------------------------------------------------------------------------
(* The best match *)

LEMMA CandidateTypes ==
  ASSUME IInv, store.feed # NoFeed, NEW r \in Records, NEW c \in Candidates(r)
  PROVE  /\ Bonus(r, c) \in Int /\ Distance(c.occ.start, r.ts) \in Int
         /\ Evidence(r, c) \in Int
         /\ Score(r, c) = IF Evidence(r, c) > 0 THEN 0 ELSE - Evidence(r, c)
<1>1. PICK S : S = store /\ StoreInv(S, Trips)
  BY DEF IInv, TablesInv
<1>2. PICK u \in DOMAIN S.definitions : \E o \in S.definitions[u].occurrences :
         c = [uid |-> u, occ |-> o]
  BY <1>1, CandidatesAre
<1>3. PICK run \in Runs(S.feed, S.week) : c.occ = At(S, run)
  BY <1>1, <1>2, Holds
<1>4. c.occ.start \in Int
  <2>1. c.occ.start = Clock(run.date, From(S, run.trip))
    BY <1>3 DEF At
  <2> QED  BY <1>1, <2>1, RunClocks, ClockType DEF IInv, TypeOK
<1>5. r.ts \in Nat /\ r.departure \in Nat \cup {None}
  BY RecordsAssumption DEF RecordsAssumption
<1>6. Distance(c.occ.start, r.ts) \in Int
  BY <1>4, <1>5 DEF Distance
<1>7. r.departure # None => Distance(c.occ.start, r.departure) \in Int
  BY <1>4, <1>5 DEF Distance
<1>8. Bonus(r, c) \in Int
  BY <1>7 DEF Bonus
<1> QED  BY <1>6, <1>8 DEF Evidence, Score

\* The chosen occurrence is one whose evidence no candidate exceeds, unless the score, cut at
\* zero, cannot tell them apart: then the text of its departure sorts first, which with
\* hours of one digit may be the later departure (matching.go, matchLiveRecord and
\* matchingBonus; gtfs_store.go, buildDefinitions' sort).
THEOREM BestMatch == Spec => []BestUnlessSaturated
<1>1. IInv => BestUnlessSaturated
  <2> DEFINE best == [uid |-> match.uid, occ |-> match.occ]
             r == match.record
  <2> SUFFICES ASSUME IInv, match.found, NEW c \in Candidates(r)
               PROVE  \/ Evidence(r, c) <= Evidence(r, best)
                      \/ /\ Evidence(r, best) >= 0
                         /\ store.definitions[best.uid].departure <= store.definitions[c.uid].departure
    BY DEF BestUnlessSaturated
  <2>1. store.feed # NoFeed /\ r \in Records /\ best \in BestMatches(r)
    BY DEF IInv, MatchInv, NoMatch
  <2> HIDE DEF best, r
  <2>2. /\ best \in Candidates(r)
        /\ \A e \in Candidates(r) : Score(r, best) <= Score(r, e)
        /\ \A e \in Candidates(r) :
             (\A x \in Candidates(r) : Score(r, e) <= Score(r, x)) =>
               store.definitions[best.uid].departure <= store.definitions[e.uid].departure
    BY <2>1 DEF BestMatches
  <2>3. \A e \in Candidates(r) :
          /\ Evidence(r, e) \in Int
          /\ Score(r, e) = IF Evidence(r, e) > 0 THEN 0 ELSE - Evidence(r, e)
    BY <2>1, CandidateTypes
  <2>4. CASE Score(r, c) = Score(r, best)
    <3>1. store.definitions[best.uid].departure <= store.definitions[c.uid].departure
      BY <2>2, <2>4
    <3>2. Evidence(r, c) <= Evidence(r, best) \/ Evidence(r, best) >= 0
      BY <2>2, <2>3, <2>4
    <3> QED  BY <3>1, <3>2
  <2>5. CASE Score(r, c) # Score(r, best)
    BY <2>2, <2>3, <2>5
  <2> QED  BY <2>4, <2>5 DEF best
<1> QED  BY <1>1, InvariantHolds, PTL
=============================================================================
