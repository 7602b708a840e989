------------------------- MODULE WazeLifecycleProofs --------------------------
(***************************************************************************)
(* Theorems about WazeLifecycle, for every set of segments, every feed and *)
(* every value of the configuration.  As in NdicRuntimeProofs they argue   *)
(* about Log, what a segment's consumers have plus what the round under    *)
(* way has decided and not published yet, and about Current, the segments  *)
(* that Log shows as jammed: a round builds all of its messages before it  *)
(* replaces activeDevices.                                                 *)
(***************************************************************************)
EXTENDS WazeLifecycle, BatchesProofs

Log == Delivered(kpi, loop.states)

PCs == {"sleep", "build", "register", "add", "publish"}
Locals == [pc : PCs, feed : JamSets, todo : SUBSET UIDs, registrations : SUBSET UIDs,
           states : Seq(Message)]
Counters == [fetches : Nat, failures : Nat, errors : Nat, sent : Nat, applied : Nat]

\* The variables are of their types; outside a round nothing is decided and not
\* published, and no aggregate is built for a segment without a jam.
TypeOK ==
  /\ now \in Nat
  /\ jams \in JamSets
  /\ activeDevices \in SUBSET UIDs
  /\ loop \in Locals
  /\ loop.pc = "sleep" => loop.states = <<>> /\ loop.registrations = {}
  /\ loop.todo \subseteq Jammed(loop.feed)
  /\ sdInstances \in SUBSET UIDs
  /\ kpi \in [UIDs -> Seq(Message)]
  /\ requests \in SUBSET UIDs
  /\ requested \in [UIDs -> Nat]
  /\ coreKnown \in SUBSET UIDs
  /\ updates \in Seq(SUBSET UIDs)
  /\ history \in [shown : JamSets, real : JamSets]
  /\ used \in Counters

-----------------------------------------------------------------------------
(* Inductive invariants *)

\* Requests of u, with the one this round will publish.
Expected(u) ==
  requested[u] + IF loop.pc \in {"build", "register"} /\ u \in loop.registrations
                 THEN 1 ELSE 0

\* A content of sdInstances without u is good for one request, which the round
\* that decides on it puts into the set.
RequestInv ==
  /\ loop.pc = "publish" => loop.registrations = {}
  /\ \A u \in UIDs :
       Expected(u) <= used.applied + IF u \in sdInstances \cup loop.registrations
                                     THEN 1 ELSE 0

\* The segments that Log shows as jammed: the old ones until they are swapped,
\* and the ones of the feed for which the messages are built.
Current == IF loop.pc = "build"
           THEN activeDevices \cup (Jammed(loop.feed) \ loop.todo)
           ELSE activeDevices

\* The devices are those of the feed last processed, from the swap on.
RoundInv ==
  /\ loop.pc # "sleep" => loop.feed = history.shown
  /\ loop.pc # "build" => activeDevices = Jammed(history.shown)
  /\ loop.pc \in {"register", "add", "publish"} => loop.todo = {}

LastActive(u) == Log[u] # <<>> /\ Log[u][Len(Log[u])].kind = "active"
\* Unless a list was cut, the consumers are told of the segments of Current.
MirrorInv == used.failures = 0 => \A u \in UIDs : u \in Current <=> LastActive(u)

\* Every start in a log is followed by its jam, and comes first or after an end.
StartsBelong(log) ==
  \A i \in DOMAIN log : log[i].kind = "start" =>
    /\ i # 1 => i - 1 \in DOMAIN log /\ log[i - 1].kind = "close"
    /\ i + 1 \in DOMAIN log /\ log[i + 1].kind = "active" /\ log[i].time < log[i + 1].time
StartInv == used.failures = 0 => \A u \in UIDs : StartsBelong(Log[u]) /\ StartsBelong(kpi[u])

\* No jam is younger than the clock: not in the source, nor in the feed of the
\* round, nor among the states.
ClockInv ==
  /\ \A u \in Jammed(jams) : jams[u] <= now
  /\ \A u \in Jammed(loop.feed) : loop.feed[u] <= now
  /\ \A u \in UIDs : \A i \in DOMAIN Log[u] : Log[u][i].kind = "active" => Log[u][i].time <= now
\* Unless a list was cut, what is not in Current was closed after its active states.
EndInv ==
  used.failures = 0 => \A u \in UIDs \ Current :
    \A i \in DOMAIN Log[u] : Log[u][i].kind = "active" =>
      \E j \in DOMAIN Log[u] :
        j > i /\ Log[u][j].kind = "close" /\ Log[u][j].time >= Log[u][i].time

\* While messages are built, those of a segment that had its turn are one active
\* state and, when it needs one, one start; the others have none.
Due(u, k) == /\ u \in Jammed(loop.feed) \ loop.todo
             /\ k = "active" \/ (k = "start" /\ NeedsStart(u))
FeedKinds == Kinds \cup {"inactive"}
BuildInv ==
  loop.pc = "build" => \A u \in UIDs, k \in FeedKinds :
    Cardinality(Places(loop.states, u, k)) = IF Due(u, k) THEN 1 ELSE 0

-----------------------------------------------------------------------------
(* Types *)

LEMMA Addresses == Addressed(UIDs, Message)
  BY DEF Addressed, Message

LEMMA LogType == TypeOK => Log \in [UIDs -> Seq(Message)]
<1> SUFFICES ASSUME TypeOK PROVE Log \in [UIDs -> Seq(Message)]
  OBVIOUS
<1>1. kpi \in [UIDs -> Seq(Message)] /\ loop.states \in Seq(Message)
  BY DEF TypeOK, Locals
<1> QED  BY <1>1, Addresses, DeliveredType DEF Log

LEMMA SleepingType ==
  /\ Sleeping \in Locals /\ Sleeping.pc = "sleep" /\ Sleeping.feed = AllClear
  /\ Sleeping.todo = {} /\ Sleeping.states = <<>> /\ Sleeping.registrations = {}
  /\ AllClear \in JamSets /\ Jammed(AllClear) = {}
<1>1. AllClear \in JamSets /\ Jammed(AllClear) = {}
  BY DEF AllClear, JamSets, Jammed
<1>2. <<>> \in Seq(Message)
  BY EmptySeq
<1> QED  BY <1>1, <1>2 DEF Sleeping, Locals, PCs

LEMMA JamTimes ==
  ASSUME NEW f \in JamSets, NEW u \in Jammed(f)
  PROVE  u \in UIDs /\ f[u] \in 1 .. MaxTime /\ f[u] \in Nat
<1>1. u \in UIDs /\ f[u] \in 1 .. MaxTime
  BY DEF JamSets, Jammed
<1>2. MaxTime \in Nat
  BY ConstantsAssumption DEF ConstantsAssumption
<1> QED  BY <1>1, <1>2

\* The messages of a segment of the feed, and of one that is gone.
Start(u)   == [uid |-> u, kind |-> "start", time |-> StartTime(u)]
Report(u)  == [uid |-> u, kind |-> "active", time |-> loop.feed[u]]
Closing(u) == [uid |-> u, kind |-> "close", time |-> CloseTime]

LEMMA MessageTypes ==
  ASSUME TypeOK, NEW u \in UIDs
  PROVE  /\ Closing(u) \in Message
         /\ u \in Jammed(loop.feed) =>
              /\ Start(u) \in Message /\ Report(u) \in Message
              /\ Start(u).time < Report(u).time
<1>1. Offset[u] \in Nat \ {0}
  BY ConstantsAssumption DEF ConstantsAssumption
<1>2. loop.feed \in JamSets /\ now \in Nat
  BY DEF TypeOK, Locals
<1>3. u \in Jammed(loop.feed) => loop.feed[u] \in Nat
  BY <1>2, JamTimes
<1> QED  BY <1>1, <1>2, <1>3 DEF Start, Report, Closing, StartTime, CloseTime, Message, Kinds

LEMMA InitTypeOK == Init => TypeOK
<1> SUFFICES ASSUME Init PROVE TypeOK
  OBVIOUS
<1>1. {StartedAt, MaxTime} \subseteq Nat
  BY ConstantsAssumption DEF ConstantsAssumption
<1>2. <<>> \in Seq(Message) /\ <<>> \in Seq(SUBSET UIDs)
  BY EmptySeq
<1> QED  BY <1>1, <1>2, SleepingType DEF Init, TypeOK, Counters

\* What the steps of the round do to the list of states.
LEMMA BuildStates ==
  ASSUME TypeOK, NEW u \in UIDs, BuildMessages(u)
  PROVE  /\ u \in Jammed(loop.feed) /\ loop.pc = "build" /\ loop'.pc = "build"
         /\ loop'.feed = loop.feed /\ loop'.todo = loop.todo \ {u}
         /\ loop'.registrations = IF u \in sdInstances THEN loop.registrations
                                  ELSE loop.registrations \cup {u}
         /\ loop'.states = IF NeedsStart(u)
                           THEN Append(Append(loop.states, Start(u)), Report(u))
                           ELSE Append(loop.states, Report(u))
<1>1. u \in Jammed(loop.feed) /\ loop.states \in Seq(Message) /\ loop \in Locals
      /\ loop.pc = "build"
  BY DEF TypeOK, Locals, BuildMessages
<1>2. loop' = [loop EXCEPT !.todo = @ \ {u},
                 !.registrations = IF u \in sdInstances THEN @ ELSE @ \cup {u},
                 !.states = @ \o (IF NeedsStart(u) THEN <<Start(u)>> ELSE <<>>) \o <<Report(u)>>]
  BY DEF BuildMessages, Start, Report
<1>3. loop'.states = loop.states \o (IF NeedsStart(u) THEN <<Start(u)>> ELSE <<>>)
                                 \o <<Report(u)>>
  BY <1>1, <1>2 DEF Locals
<1>4. /\ loop'.pc = "build" /\ loop'.feed = loop.feed /\ loop'.todo = loop.todo \ {u}
      /\ loop'.registrations = IF u \in sdInstances THEN loop.registrations
                               ELSE loop.registrations \cup {u}
  BY <1>1, <1>2 DEF Locals
<1>5. Start(u) \in Message /\ Report(u) \in Message
  BY <1>1, MessageTypes
<1>6. loop.states \o <<>> = loop.states
  BY <1>1, ConcatEmptySeq
<1>7. /\ Append(loop.states, Start(u)) = loop.states \o <<Start(u)>>
      /\ Append(loop.states, Start(u)) \in Seq(Message)
  BY <1>1, <1>5, AppendIsConcat, AppendProperties
<1>8. /\ Append(loop.states, Report(u)) = loop.states \o <<Report(u)>>
      /\ Append(Append(loop.states, Start(u)), Report(u)) =
           Append(loop.states, Start(u)) \o <<Report(u)>>
  BY <1>1, <1>5, <1>7, AppendIsConcat
<1>9. loop'.states = IF NeedsStart(u)
                     THEN Append(Append(loop.states, Start(u)), Report(u))
                     ELSE Append(loop.states, Report(u))
  BY <1>3, <1>6, <1>7, <1>8
<1> QED  BY <1>1, <1>4, <1>9

\* The closing messages are for the missing segments, one for each.
LEMMA ClosingStates ==
  ASSUME TypeOK, SwapDevices
  PROVE  \E last \in Seq(Message) :
           /\ loop' = [loop EXCEPT !.pc = "register", !.states = @ \o last]
           /\ OnePerInstance(last)
           /\ \A i \in DOMAIN last : last[i].uid \in Missing /\ last[i] = Closing(last[i].uid)
           /\ \A u \in Missing : \E i \in DOMAIN last : last[i].uid = u
<1>1. PICK order \in SetToSeqs(Missing) :
        loop' = [loop EXCEPT !.pc = "register", !.states = @ \o
                   [i \in DOMAIN order |-> [uid |-> order[i], kind |-> "close",
                                            time |-> CloseTime]]]
  BY DEF SwapDevices
<1> DEFINE last == [i \in DOMAIN order |-> [uid |-> order[i], kind |-> "close",
                                            time |-> CloseTime]]
<1>2. IsFiniteSet(Missing) /\ Missing \subseteq UIDs
  <2>1. Missing \subseteq UIDs
    BY DEF Missing, TypeOK
  <2> QED  BY <2>1, ConstantsAssumption, FS_Subset DEF ConstantsAssumption
<1>3. /\ order \in Seq(Missing) /\ DOMAIN order = 1 .. Len(order) /\ Len(order) \in Nat
      /\ \A i, j \in DOMAIN order : i # j => order[i] # order[j]
      /\ \A x \in Missing : \E i \in DOMAIN order : order[i] = x
  BY <1>2, EachOnce, LenProperties
<1>4. \A i \in DOMAIN order : order[i] \in Missing
  BY <1>3, ElementOfSeq
<1>5. \A i \in DOMAIN last : last[i] = Closing(order[i])
  BY DEF Closing
<1>6. \A i \in DOMAIN last : last[i].uid = order[i]
  OBVIOUS
<1>7. DOMAIN last = 1 .. Len(order)
  BY <1>3
<1>8. \A i \in DOMAIN last : last[i] \in Message
  BY <1>2, <1>4, <1>5, MessageTypes
<1>9. loop' = [loop EXCEPT !.pc = "register", !.states = @ \o last]
  BY <1>1
<1>10. last \in [1 .. Len(order) -> Message]
  BY <1>7, <1>8
<1> HIDE DEF last
<1>11. last \in Seq(Message)
  BY <1>3, <1>10
<1>12. OnePerInstance(last)
  BY <1>3, <1>6, <1>7 DEF OnePerInstance
<1>13. \A i \in DOMAIN last : last[i].uid \in Missing /\ last[i] = Closing(last[i].uid)
  BY <1>3, <1>4, <1>5, <1>6, <1>7
<1>14. \A u \in Missing : \E i \in DOMAIN last : last[i].uid = u
  BY <1>3, <1>6, <1>7
<1> QED  BY <1>9, <1>11, <1>12, <1>13, <1>14

LEMMA LoopType == TypeOK /\ Loop => TypeOK'
<1> SUFFICES ASSUME TypeOK, Loop PROVE TypeOK'
  OBVIOUS
<1> USE DEF coreVars
<1>0. /\ loop \in Locals /\ loop.pc \in PCs /\ loop.feed \in JamSets
      /\ loop.todo \in SUBSET UIDs /\ loop.registrations \in SUBSET UIDs
      /\ loop.states \in Seq(Message) /\ kpi \in [UIDs -> Seq(Message)]
      /\ loop.todo \subseteq Jammed(loop.feed)
  BY DEF TypeOK, Locals
<1>9. /\ used \in Counters /\ used.fetches \in Nat /\ used.failures \in Nat
      /\ used.errors \in Nat
  BY DEF TypeOK, Counters
<1>10. Fail => used' \in Counters
  BY <1>9 DEF Fail, Counters
<1>1. CASE FetchFails
  <2>1. used' \in Counters
    <3> DEFINE e == used.fetches + 1
               f == used.failures + 1
    <3>1. used' = [used EXCEPT !.fetches = e, !.failures = f] /\ e \in Nat /\ f \in Nat
      BY <1>1, <1>9 DEF FetchFails
    <3> HIDE DEF e, f
    <3> QED  BY <1>9, <3>1 DEF Counters
  <2> QED  BY <1>1, <2>1 DEF FetchFails, TypeOK
<1>11. ASSUME NEW f \in JamSets, Process(f)
       PROVE  /\ loop' \in Locals /\ loop'.pc = "build" /\ loop'.todo \subseteq Jammed(loop'.feed)
              /\ history' \in [shown : JamSets, real : JamSets]
  <2>1. Jammed(f) \in SUBSET UIDs /\ jams \in JamSets
    BY DEF Jammed, TypeOK
  <2> QED  BY <1>0, <1>11, <2>1 DEF Process, Locals, PCs
<1>2. CASE Fetch
  <2>1. used' \in Counters
    BY <1>2, <1>9 DEF Fetch, Counters
  <2>2. Process(jams) /\ jams \in JamSets
    BY <1>2 DEF Fetch, TypeOK
  <2>3. /\ loop' \in Locals /\ loop'.pc = "build" /\ loop'.todo \subseteq Jammed(loop'.feed)
        /\ history' \in [shown : JamSets, real : JamSets]
    BY <1>11, <2>2
  <2> QED  BY <1>2, <2>1, <2>3 DEF Fetch, TypeOK
<1>3. CASE FetchErrorPage
  <2>1. used' \in Counters
    <3> DEFINE e == used.fetches + 1
               f == used.errors + 1
    <3>1. used' = [used EXCEPT !.fetches = e, !.errors = f] /\ e \in Nat /\ f \in Nat
      BY <1>3, <1>9 DEF FetchErrorPage
    <3> HIDE DEF e, f
    <3> QED  BY <1>9, <3>1 DEF Counters
  <2>2. Process(AllClear) /\ AllClear \in JamSets
    BY <1>3, SleepingType DEF FetchErrorPage
  <2>3. /\ loop' \in Locals /\ loop'.pc = "build" /\ loop'.todo \subseteq Jammed(loop'.feed)
        /\ history' \in [shown : JamSets, real : JamSets]
    BY <1>11, <2>2
  <2> QED  BY <1>3, <2>1, <2>3 DEF FetchErrorPage, TypeOK
<1>4. ASSUME NEW u \in UIDs, BuildMessages(u) PROVE TypeOK'
  <2>1. loop'.states \in Seq(Message)
    <3>1. Start(u) \in Message /\ Report(u) \in Message
      BY <1>4, BuildStates, MessageTypes
    <3>2. /\ Append(loop.states, Start(u)) \in Seq(Message)
          /\ Append(loop.states, Report(u)) \in Seq(Message)
          /\ Append(Append(loop.states, Start(u)), Report(u)) \in Seq(Message)
      BY <1>0, <3>1, AppendProperties
    <3> QED  BY <1>4, <3>2, BuildStates
  <2>2. \E r, s : loop' = [loop EXCEPT !.todo = loop.todo \ {u}, !.registrations = r, !.states = s]
    BY <1>0, <1>4 DEF BuildMessages, Locals
  <2>3. loop'.registrations \in SUBSET UIDs /\ loop'.pc = "build"
        /\ loop'.feed = loop.feed /\ loop'.todo = loop.todo \ {u}
    BY <1>0, <1>4, BuildStates
  <2>4. loop' \in Locals
    BY <1>0, <2>1, <2>2, <2>3 DEF Locals, PCs
  <2> QED  BY <1>0, <1>4, <2>3, <2>4 DEF BuildMessages, TypeOK
<1>5. CASE SwapDevices
  <2>1. PICK last \in Seq(Message) :
          loop' = [loop EXCEPT !.pc = "register", !.states = @ \o last]
    BY <1>5, ClosingStates
  <2>2. loop.states \o last \in Seq(Message)
    BY <1>0, ConcatProperties
  <2>3. loop' \in Locals /\ loop'.pc = "register" /\ loop'.feed = loop.feed
        /\ loop'.todo = loop.todo
    BY <1>0, <2>1, <2>2 DEF Locals, PCs
  <2>4. activeDevices' \in SUBSET UIDs
    BY <1>5 DEF SwapDevices, Jammed
  <2> QED  BY <1>0, <1>5, <2>3, <2>4 DEF SwapDevices, TypeOK
<1>6. CASE PublishRegistrations
  <2>1. loop' \in Locals /\ loop'.pc = "add" /\ loop'.feed = loop.feed
        /\ loop'.todo = loop.todo
    BY <1>0, <1>6 DEF PublishRegistrations, Locals, PCs
  <2>2. PICK S \in SUBSET UIDs : Request(S)
    BY <1>0, <1>6 DEF PublishRegistrations
  <2>3. requests' \in SUBSET UIDs /\ requested' \in [UIDs -> Nat]
    BY <2>2 DEF Request, TypeOK
  <2>4. used' \in Counters
    BY <1>6, <1>9, <1>10 DEF PublishRegistrations
  <2> QED  BY <1>0, <1>6, <2>1, <2>3, <2>4 DEF PublishRegistrations, TypeOK
<1>7. CASE AddInstances
  <2>1. loop' \in Locals /\ loop'.pc = "publish" /\ loop'.feed = loop.feed
        /\ loop'.todo = loop.todo
    BY <1>0, <1>7 DEF AddInstances, Locals, PCs
  <2>2. sdInstances' \in SUBSET UIDs
    BY <1>0, <1>7 DEF AddInstances, TypeOK
  <2> QED  BY <1>0, <1>7, <2>1, <2>2 DEF AddInstances, TypeOK
<1>8. CASE PublishStates
  <2>1. /\ loop' \in Locals /\ loop'.pc = "sleep" /\ loop'.states = <<>>
        /\ loop'.registrations = {} /\ loop'.todo = {}
    BY <1>8, SleepingType DEF PublishStates
  <2>2. used' \in Counters
    BY <1>8, <1>9, <1>10 DEF PublishStates
  <2>3. \A n \in 0 .. Len(loop.states) : Published(n) \in [UIDs -> Seq(Message)]
    <3> TAKE n \in 0 .. Len(loop.states)
    <3> DEFINE list == loop.states
    <3>1. list \in Seq(Message) /\ n \in 0 .. Len(list)
      BY <1>0
    <3> HIDE DEF list
    <3>2. SubSeq(list, 1, n) \in Seq(Message)
      BY <3>1, CutType
    <3> QED  BY <1>0, <3>2, Addresses, DeliveredType DEF Published, list
  <2>4. kpi' \in [UIDs -> Seq(Message)]
    <3>1. Len(loop.states) \in Nat
      BY <1>0, LenProperties
    <3>2. FailedPrefixes(Len(loop.states), BatchLimit) \subseteq 0 .. Len(loop.states)
      BY <3>1 DEF FailedPrefixes
    <3> QED  BY <1>8, <2>3, <3>1, <3>2 DEF PublishStates
  <2> QED  BY <1>8, <2>1, <2>2, <2>4 DEF PublishStates, TypeOK
<1> QED  BY <1>1, <1>2, <1>3, <1>4, <1>5, <1>6, <1>7, <1>8 DEF Loop

\* A feed to process: the source's, or none.
LEMMA FetchedFeed ==
  ASSUME TypeOK, Fetch \/ FetchErrorPage
  PROVE  /\ loop.pc = "sleep" /\ loop'.pc = "build" /\ loop'.feed \in {jams, AllClear}
         /\ loop'.todo = Jammed(loop'.feed) /\ loop'.feed = history'.shown
         /\ loop'.states = <<>> /\ loop.registrations = {} /\ loop'.registrations = {}
<1>1. PICK f \in {jams, AllClear} : Process(f)
  BY DEF Fetch, FetchErrorPage
<1>2. loop.pc = "sleep" /\ loop \in Locals /\ loop.states = <<>> /\ loop.registrations = {}
  BY DEF TypeOK, Fetch, FetchErrorPage, Awake
<1>3. /\ loop' = [loop EXCEPT !.pc = "build", !.feed = f, !.todo = Jammed(f)]
      /\ history'.shown = f
  BY <1>1 DEF Process
<1> QED  BY <1>2, <1>3 DEF Locals

Environment == \/ Instances \/ Tick
               \/ \E u \in UIDs, t \in {Clear} \cup 1 .. MaxTime : JamChanges(u, t)

LEMMA EnvironmentType == TypeOK /\ Environment => TypeOK'
<1> SUFFICES ASSUME TypeOK, Environment PROVE TypeOK'
  OBVIOUS
<1> USE DEF coreVars
<1>0. updates \in Seq(SUBSET UIDs) /\ used \in Counters
  BY DEF TypeOK
<1>1. CASE ApplyUpdate
  <2>1. Head(updates) \in SUBSET UIDs /\ Tail(updates) \in Seq(SUBSET UIDs)
    BY <1>0, <1>1, HeadTailProperties DEF ApplyUpdate
  <2>2. used' \in Counters
    <3> DEFINE a == used.applied + 1
    <3>1. used' = [used EXCEPT !.applied = a] /\ a \in Nat
      BY <1>0, <1>1 DEF ApplyUpdate, Counters
    <3> HIDE DEF a
    <3> QED  BY <1>0, <3>1 DEF Counters
  <2> QED  BY <1>1, <2>1, <2>2 DEF ApplyUpdate, TypeOK
<1>2. CASE UpdateTakenElsewhere
  <2>1. Tail(updates) \in Seq(SUBSET UIDs)
    BY <1>0, <1>2, HeadTailProperties DEF UpdateTakenElsewhere
  <2> QED  BY <1>2, <2>1 DEF UpdateTakenElsewhere, TypeOK
<1>3. ASSUME NEW S \in SUBSET UIDs, CoreSends(S) PROVE TypeOK'
  <2>1. coreKnown' \in SUBSET UIDs /\ requests' \in SUBSET UIDs
    BY <1>3 DEF CoreSends, TypeOK
  <2>2. updates' \in Seq(SUBSET UIDs)
    BY <1>0, <1>3, <2>1, AppendProperties DEF CoreSends
  <2>3. used' \in Counters
    BY <1>0, <1>3, SMTT(30) DEF CoreSends, Counters
  <2> QED  BY <1>3, <2>1, <2>2, <2>3 DEF CoreSends, TypeOK
<1>4. ASSUME NEW u \in UIDs, NEW t \in {Clear} \cup 1 .. MaxTime, JamChanges(u, t)
      PROVE  TypeOK'
  <2>1. jams' \in JamSets
    BY <1>4 DEF JamChanges, JamSets, TypeOK
  <2> QED  BY <1>4, <2>1 DEF JamChanges, TypeOK
<1>5. CASE Tick
  BY <1>5 DEF Tick, TypeOK
<1> QED  BY <1>1, <1>2, <1>3, <1>4, <1>5 DEF Environment, Instances

LEMMA NextTypeOK == TypeOK /\ [Next]_vars => TypeOK'
<1>1. TypeOK /\ UNCHANGED vars => TypeOK'
  BY DEF TypeOK, vars, coreVars
<1>2. Next <=> Loop \/ Environment
  BY DEF Next, Environment
<1> QED  BY <1>1, <1>2, LoopType, EnvironmentType

\* The variables keep their types, and the loop its discipline: nothing decided
\* is left over between two rounds, and messages are built for jammed segments only.
THEOREM TypeCorrect == Spec => []TypeOK
  BY InitTypeOK, NextTypeOK, PTL DEF Spec

-----------------------------------------------------------------------------
(* Log *)

LEMMA SameLog == kpi' = kpi /\ loop'.states = loop.states => Log' = Log
  BY DEF Log

\* One more message of the list is one more in the log of its segment.
LEMMA LongerList ==
  ASSUME TypeOK, NEW list \in Seq(Message), NEW m \in Message
  PROVE  /\ Delivered(kpi, list) \in [UIDs -> Seq(Message)]
         /\ Delivered(kpi, Append(list, m)) = [Delivered(kpi, list) EXCEPT ![m.uid] = Append(@, m)]
<1>1. kpi \in [UIDs -> Seq(Message)]
  BY DEF TypeOK
<1> QED  BY <1>1, Addresses, DeliveredType, DeliveredAppend

LEMMA BuildLog ==
  ASSUME TypeOK, NEW u \in UIDs, BuildMessages(u)
  PROVE  Log' = [Log EXCEPT ![u] = IF NeedsStart(u)
                                   THEN Append(Append(@, Start(u)), Report(u))
                                   ELSE Append(@, Report(u))]
<1> DEFINE s == Start(u)
           r == Report(u)
           list == loop.states
           longer == Append(list, s)
<1>1. /\ kpi' = kpi
      /\ loop'.states = IF NeedsStart(u) THEN Append(longer, r) ELSE Append(list, r)
  BY BuildStates DEF BuildMessages
<1>2. s \in Message /\ r \in Message /\ s.uid = u /\ r.uid = u /\ list \in Seq(Message)
  BY BuildStates, MessageTypes DEF Start, Report, TypeOK, Locals
<1>3. Log = Delivered(kpi, list) /\ Log' = Delivered(kpi, loop'.states)
  BY <1>1 DEF Log
<1> HIDE DEF s, r, list, longer
<1>4. longer \in Seq(Message)
  BY <1>2, AppendProperties DEF longer
<1>5. /\ Log \in [UIDs -> Seq(Message)]
      /\ Delivered(kpi, longer) = [Log EXCEPT ![u] = Append(@, s)]
      /\ Delivered(kpi, Append(list, r)) = [Log EXCEPT ![u] = Append(@, r)]
  BY <1>2, <1>3, LongerList DEF longer
<1>6. Delivered(kpi, Append(longer, r)) = [Delivered(kpi, longer) EXCEPT ![u] = Append(@, r)]
  BY <1>2, <1>4, LongerList
<1>7. CASE NeedsStart(u)
  <2>1. Log' = [Log EXCEPT ![u] = Append(Append(@, s), r)]
    BY <1>1, <1>3, <1>5, <1>6, <1>7
  <2> QED  BY <1>7, <2>1 DEF s, r
<1>8. CASE ~NeedsStart(u)
  BY <1>1, <1>3, <1>5, <1>8 DEF r
<1> QED  BY <1>7, <1>8

LEMMA ClosingLog ==
  ASSUME TypeOK, SwapDevices, NEW u \in UIDs
  PROVE  Log'[u] = IF u \in Missing THEN Append(Log[u], Closing(u)) ELSE Log[u]
<1>1. PICK last \in Seq(Message) :
        /\ loop' = [loop EXCEPT !.pc = "register", !.states = @ \o last]
        /\ OnePerInstance(last)
        /\ \A i \in DOMAIN last : last[i].uid \in Missing /\ last[i] = Closing(last[i].uid)
        /\ \A v \in Missing : \E i \in DOMAIN last : last[i].uid = v
  BY ClosingStates
<1> DEFINE list == loop.states
<1>2. /\ list \in Seq(Message) /\ kpi \in [UIDs -> Seq(Message)] /\ loop \in Locals
      /\ kpi' = kpi
  BY DEF TypeOK, Locals, SwapDevices
<1>3. Log' = Delivered(kpi, list \o last) /\ Log = Delivered(kpi, list)
  BY <1>1, <1>2 DEF Log, Locals
<1> HIDE DEF list
<1>4. /\ \A i \in DOMAIN last : Log'[last[i].uid] = Append(Log[last[i].uid], last[i])
      /\ (\A i \in DOMAIN last : last[i].uid # u) => Log'[u] = Log[u]
  <2>1. /\ \A i \in DOMAIN last :
             Delivered(kpi, list \o last)[last[i].uid] =
               Append(Delivered(kpi, list)[last[i].uid], last[i])
        /\ \A v \in UIDs : (\A i \in DOMAIN last : last[i].uid # v) =>
             Delivered(kpi, list \o last)[v] = Delivered(kpi, list)[v]
    <3>1. list \in Seq(Message) /\ kpi \in [UIDs -> Seq(Message)] /\ OnePerInstance(last)
      BY <1>1, <1>2
    <3> QED  BY <3>1, Addresses, DeliveredOnce
  <2> QED  BY <1>3, <2>1
<1>5. CASE u \in Missing
  <2>1. PICK i \in DOMAIN last : last[i].uid = u
    BY <1>1, <1>5
  <2>2. last[i] = Closing(u) /\ Log'[u] = Append(Log[u], last[i])
    BY <1>1, <1>4, <2>1
  <2> QED  BY <1>5, <2>2
<1>6. CASE u \notin Missing
  BY <1>1, <1>4, <1>6
<1> QED  BY <1>5, <1>6

LEMMA PublishedLog ==
  ASSUME TypeOK, PublishStates
  PROVE  /\ Log' = kpi' /\ loop' = Sleeping
         /\ \A u \in UIDs : Begins(Log'[u], Log[u])
         /\ used'.failures = 0 => Log' = Log /\ used' = used
<1>1. loop' = Sleeping /\ Log' = kpi'
  BY SleepingType, DeliveredEmpty DEF PublishStates, Log
<1>2. loop.states \in Seq(Message) /\ Len(loop.states) \in Nat /\ used \in Counters
      /\ kpi \in [UIDs -> Seq(Message)]
  BY LenProperties DEF TypeOK, Locals
<1>3. Published(Len(loop.states)) = Log
  BY <1>2, SubSeqFull DEF Published, Log
<1>4. FailedPrefixes(Len(loop.states), BatchLimit) \subseteq 0 .. Len(loop.states)
      /\ Len(loop.states) \in 0 .. Len(loop.states)
  BY <1>2 DEF FailedPrefixes
<1>5. \A n \in 0 .. Len(loop.states) : \A u \in UIDs : Begins(Published(n)[u], Log[u])
  BY <1>2, Addresses, DeliveredBegins DEF Published, Log
<1>6. Fail => used'.failures # 0
  BY <1>2 DEF Fail, Counters
<1>7. CASE kpi' = Published(Len(loop.states)) /\ UNCHANGED used
  BY <1>1, <1>3, <1>4, <1>5, <1>7
<1>8. CASE Fail /\ \E n \in FailedPrefixes(Len(loop.states), BatchLimit) : kpi' = Published(n)
  BY <1>1, <1>4, <1>5, <1>6, <1>8
<1> QED  BY <1>7, <1>8 DEF PublishStates

\* The other steps leave Log alone.
LEMMA OtherLog ==
  ASSUME TypeOK, [Next]_vars, \A u \in UIDs : ~BuildMessages(u), ~SwapDevices, ~PublishStates
  PROVE  Log' = Log /\ kpi' = kpi /\ loop'.states = loop.states
<1>1. kpi' = kpi /\ loop'.states = loop.states
  BY DEF Next, vars, coreVars, Loop, Instances, FetchFails, Fetch, FetchErrorPage, Process,
     PublishRegistrations, AddInstances, ApplyUpdate, UpdateTakenElsewhere, CoreSends,
     JamChanges, Tick, TypeOK, Locals
<1> QED  BY <1>1, SameLog

LEMMA InitLog == Init => Log = kpi /\ \A u \in UIDs : Log[u] = <<>> /\ DOMAIN Log[u] = {}
<1> SUFFICES ASSUME Init PROVE Log = kpi /\ \A u \in UIDs : Log[u] = <<>> /\ DOMAIN Log[u] = {}
  OBVIOUS
<1>1. Log = kpi /\ \A u \in UIDs : Log[u] = <<>>
  BY SleepingType, DeliveredEmpty DEF Init, Log
<1> QED  BY <1>1, EmptySeq

-----------------------------------------------------------------------------
(* Where the messages of a step stand in Log *)

LEMMA BuildLogs ==
  ASSUME TypeOK, NEW u \in UIDs, BuildMessages(u)
  PROVE  /\ \A v \in UIDs \ {u} : Log'[v] = Log[v]
         /\ Log'[u] \in Seq(Message) /\ Log'[u] # <<>> /\ Len(Log[u]) \in Nat
         /\ Log'[u][Len(Log'[u])] = Report(u)
         /\ DOMAIN Log[u] = 1 .. Len(Log[u]) /\ DOMAIN Log'[u] = 1 .. Len(Log'[u])
         /\ \A i \in DOMAIN Log[u] : Log'[u][i] = Log[u][i]
         /\ NeedsStart(u) => /\ Len(Log'[u]) = Len(Log[u]) + 2
                             /\ Log'[u][Len(Log[u]) + 1] = Start(u)
         /\ ~NeedsStart(u) => Len(Log'[u]) = Len(Log[u]) + 1
<1> DEFINE s == Start(u)
           r == Report(u)
           old == Log[u]
           once == Append(old, s)
<1>1. s \in Message /\ r \in Message
  BY BuildStates, MessageTypes
<1>2. Log \in [UIDs -> Seq(Message)] /\ old \in Seq(Message)
  BY LogType
<1>3. /\ \A v \in UIDs \ {u} : Log'[v] = Log[v]
      /\ Log'[u] = IF NeedsStart(u) THEN Append(once, r) ELSE Append(old, r)
  BY <1>2, BuildLog
<1> HIDE DEF s, r, old, once
<1>4. CASE NeedsStart(u)
  <2>1. /\ once \in Seq(Message) /\ Len(old) \in Nat /\ DOMAIN old = 1 .. Len(old)
        /\ Len(once) = Len(old) + 1 /\ DOMAIN once = 1 .. Len(old) + 1 /\ once[Len(old) + 1] = s
        /\ \A i \in DOMAIN old : once[i] = old[i]
    BY <1>1, <1>2, AppendLog DEF once
  <2>2. /\ Append(once, r) \in Seq(Message) /\ Append(once, r) # <<>>
        /\ Len(Append(once, r)) = Len(once) + 1 /\ DOMAIN Append(once, r) = 1 .. Len(once) + 1
        /\ Append(once, r)[Len(once) + 1] = r
        /\ \A i \in DOMAIN once : Append(once, r)[i] = once[i]
    BY <1>1, <2>1, AppendLog
  <2>3. Log'[u] = Append(once, r) /\ Len(once) + 1 = Len(old) + 2
    BY <1>3, <1>4, <2>1
  <2>4. /\ Len(old) + 1 \in DOMAIN once /\ \A i \in DOMAIN old : i \in DOMAIN once
    BY <2>1
  <2> QED  BY <1>3, <1>4, <2>1, <2>2, <2>3, <2>4 DEF old, s, r
<1>5. CASE ~NeedsStart(u)
  <2>1. Log'[u] = Append(old, r)
    BY <1>3, <1>5
  <2>2. /\ Log'[u] \in Seq(Message) /\ Log'[u] # <<>> /\ Len(old) \in Nat
        /\ DOMAIN old = 1 .. Len(old) /\ Len(Log'[u]) = Len(old) + 1
        /\ DOMAIN Log'[u] = 1 .. Len(old) + 1 /\ Log'[u][Len(old) + 1] = r
        /\ \A i \in DOMAIN old : Log'[u][i] = old[i]
    BY <1>1, <1>2, <2>1, AppendLog
  <2> QED  BY <1>3, <1>5, <2>2 DEF old, r
<1> QED  BY <1>4, <1>5

LEMMA ClosingLogs ==
  ASSUME TypeOK, SwapDevices, NEW u \in UIDs
  PROVE  /\ u \notin Missing => Log'[u] = Log[u]
         /\ u \in Missing =>
              /\ Log'[u] \in Seq(Message) /\ Log'[u] # <<>> /\ Len(Log[u]) \in Nat
              /\ DOMAIN Log[u] = 1 .. Len(Log[u]) /\ DOMAIN Log'[u] = 1 .. Len(Log[u]) + 1
              /\ Len(Log'[u]) = Len(Log[u]) + 1
              /\ Log'[u][Len(Log[u]) + 1] = Closing(u)
              /\ \A i \in DOMAIN Log[u] : Log'[u][i] = Log[u][i]
<1>1. CASE u \in Missing
  <2> DEFINE c == Closing(u)
             old == Log[u]
  <2>1. c \in Message /\ old \in Seq(Message) /\ Log'[u] = Append(old, c)
    BY <1>1, MessageTypes, LogType, ClosingLog
  <2> HIDE DEF c, old
  <2>2. /\ Log'[u] \in Seq(Message) /\ Log'[u] # <<>>
        /\ Len(old) \in Nat /\ DOMAIN old = 1 .. Len(old)
        /\ Len(Log'[u]) = Len(old) + 1 /\ DOMAIN Log'[u] = 1 .. Len(old) + 1
        /\ Log'[u][Len(old) + 1] = c
        /\ \A i \in DOMAIN old : Log'[u][i] = old[i]
    BY <2>1, AppendLog
  <2> QED  BY <1>1, <2>2 DEF c, old
<1>2. CASE u \notin Missing
  BY <1>2, ClosingLog
<1> QED  BY <1>1, <1>2

LEMMA PublishedLogs ==
  ASSUME TypeOK, PublishStates, NEW u \in UIDs, NEW i \in DOMAIN Log'[u]
  PROVE  i \in DOMAIN Log[u] /\ Log'[u][i] = Log[u][i]
<1>1. TypeOK'
  BY NextTypeOK DEF Next, Loop
<1>2. Log'[u] \in Seq(Message) /\ Log[u] \in Seq(Message)
  <2>1. kpi' \in [UIDs -> Seq(Message)] /\ Log' = kpi'
    BY <1>1, PublishedLog DEF TypeOK
  <2> QED  BY <2>1, LogType
<1>3. Begins(Log'[u], Log[u])
  BY PublishedLog
<1> QED  BY <1>2, <1>3, BeginsLog

LEMMA LogTimes ==
  ASSUME TypeOK, NEW u \in UIDs, NEW i \in DOMAIN Log[u]
  PROVE  Log[u][i].time \in Int /\ i \in Nat \ {0} /\ Log[u][i].kind \in Kinds
<1>1. Log[u] \in Seq(Message)
  BY LogType
<1>2. Log[u][i] \in Message /\ i \in Nat \ {0}
  BY <1>1, ElementOfSeq, LenProperties
<1> QED  BY <1>2 DEF Message

\* Failures are counted and never forgotten.
LEMMA FailuresStay == TypeOK /\ [Next]_vars => (used'.failures = 0 => used.failures = 0)
<1> SUFFICES ASSUME TypeOK, [Next]_vars, used'.failures = 0 PROVE used.failures = 0
  OBVIOUS
<1>1. used \in Counters /\ used.failures \in Nat
  BY DEF TypeOK, Counters
<1>2. used' = used \/ used'.failures = used.failures \/ used'.failures = used.failures + 1
  BY <1>1 DEF Counters, Next, vars, coreVars, Loop, Instances, FetchFails, Fetch,
     FetchErrorPage, BuildMessages, SwapDevices, PublishRegistrations, AddInstances,
     PublishStates, Fail, ApplyUpdate, UpdateTakenElsewhere, CoreSends, JamChanges, Tick
<1> QED  BY <1>1, <1>2

-----------------------------------------------------------------------------
(* Requests *)

LEMMA InitRequestInv == Init => RequestInv
  BY SleepingType DEF Init, RequestInv, Expected

LEMMA NextRequestInv == TypeOK /\ RequestInv /\ [Next]_vars => RequestInv'
<1> SUFFICES ASSUME TypeOK, RequestInv, [Next]_vars PROVE RequestInv'
  OBVIOUS
<1> USE DEF coreVars
<1>0. /\ requested \in [UIDs -> Nat] /\ used.applied \in Nat /\ loop \in Locals
      /\ used \in Counters /\ loop.registrations \subseteq UIDs
  BY DEF TypeOK, Counters, Locals
<1>1. CASE Fetch \/ FetchErrorPage
  <2>1. /\ loop.pc = "sleep" /\ loop.registrations = {} /\ loop'.registrations = {}
        /\ loop'.pc = "build"
    BY <1>1, FetchedFeed
  <2>2. used'.applied = used.applied
    BY <1>0, <1>1 DEF Fetch, FetchErrorPage, Counters
  <2> QED  BY <1>0, <1>1, <2>1, <2>2 DEF Fetch, FetchErrorPage, RequestInv, Expected
<1>2. ASSUME NEW u \in UIDs, BuildMessages(u) PROVE RequestInv'
  <2>1. /\ loop.pc = "build" /\ loop'.pc = "build"
        /\ loop'.registrations = IF u \in sdInstances THEN loop.registrations
                                 ELSE loop.registrations \cup {u}
    BY <1>2, BuildStates
  <2> QED  BY <1>0, <1>2, <2>1 DEF BuildMessages, RequestInv, Expected
<1>3. CASE SwapDevices
  <2>1. /\ loop.pc = "build" /\ loop'.pc = "register"
        /\ loop'.registrations = loop.registrations
    BY <1>0, <1>3, ClosingStates DEF SwapDevices, Locals
  <2> QED  BY <1>0, <1>3, <2>1 DEF SwapDevices, RequestInv, Expected
<1>4. CASE PublishRegistrations
  <2>1. /\ loop.pc = "register" /\ loop'.pc = "add"
        /\ loop'.registrations = loop.registrations
    BY <1>0, <1>4 DEF PublishRegistrations, Locals
  <2>2. PICK S \in SUBSET loop.registrations : Request(S)
    BY <1>4 DEF PublishRegistrations
  <2>3. used'.applied = used.applied
    BY <1>0, <1>4 DEF PublishRegistrations, Fail, Counters
  <2>4. \A u \in UIDs : requested'[u] <= Expected(u)
    BY <1>0, <2>1, <2>2 DEF Request, Expected
  <2> QED  BY <1>0, <1>4, <2>1, <2>2, <2>3, <2>4 DEF PublishRegistrations, Request, RequestInv, Expected
<1>5. CASE AddInstances
  <2>1. /\ loop.pc = "add" /\ loop'.pc = "publish" /\ loop'.registrations = {}
    BY <1>0, <1>5 DEF AddInstances, Locals
  <2> QED  BY <1>0, <1>5, <2>1 DEF AddInstances, RequestInv, Expected
<1>6. CASE PublishStates
  <2>1. loop.pc = "publish" /\ loop.registrations = {}
    BY <1>6 DEF PublishStates, RequestInv
  <2>2. loop'.pc = "sleep" /\ loop'.registrations = {}
    BY <1>6, SleepingType DEF PublishStates
  <2>3. used'.applied = used.applied
    BY <1>0, <1>6 DEF PublishStates, Fail, Counters
  <2> QED  BY <1>0, <1>6, <2>1, <2>2, <2>3 DEF PublishStates, RequestInv, Expected
<1>7. CASE ApplyUpdate
  <2>1. used'.applied = used.applied + 1
    BY <1>0, <1>7 DEF ApplyUpdate, Counters
  <2>2. \A u \in UIDs : Expected(u)' <= used.applied + 1
    BY <1>0, <1>7 DEF ApplyUpdate, RequestInv, Expected
  <2>3. \A u \in UIDs : Expected(u)' \in Nat
    BY <1>0, <1>7 DEF ApplyUpdate, Expected
  <2> QED  BY <1>0, <1>7, <2>1, <2>2, <2>3 DEF ApplyUpdate, RequestInv
<1>8. CASE \/ FetchFails \/ UpdateTakenElsewhere \/ \E S \in SUBSET UIDs : CoreSends(S)
           \/ \E u \in UIDs, t \in {Clear} \cup 1 .. MaxTime : JamChanges(u, t)
           \/ Tick \/ UNCHANGED vars
  <2>1. /\ requested' = requested /\ loop' = loop /\ sdInstances' = sdInstances
        /\ used'.applied = used.applied
    BY <1>0, <1>8 DEF FetchFails, UpdateTakenElsewhere, CoreSends, JamChanges, Tick, vars, Counters
  <2> QED  BY <2>1 DEF RequestInv, Expected
<1> QED  BY <1>1, <1>2, <1>3, <1>4, <1>5, <1>6, <1>7, <1>8 DEF Next, Loop, Instances

\* A segment is requested at most once for every content of the set of known
\* instances, wherever the updates that replace the set fall between the decision,
\* the publication and the marking.
THEOREM OncePerContent == Spec => []RequestsBounded
<1>1. TypeOK /\ RequestInv => RequestsBounded
  <2> SUFFICES ASSUME TypeOK, RequestInv, NEW u \in UIDs PROVE requested[u] <= 1 + used.applied
    BY DEF RequestsBounded
  <2>1. requested[u] \in Nat /\ used.applied \in Nat
    BY DEF TypeOK, Counters
  <2> QED  BY <2>1 DEF RequestInv, Expected
<1> QED  BY <1>1, InitRequestInv, NextRequestInv, TypeCorrect, PTL DEF Spec

-----------------------------------------------------------------------------
(* The devices of a round *)

LEMMA InitRoundInv == Init => RoundInv
  BY SleepingType DEF Init, RoundInv

LEMMA NextRoundInv == TypeOK /\ RoundInv /\ [Next]_vars => RoundInv'
<1> SUFFICES ASSUME TypeOK, RoundInv, [Next]_vars PROVE RoundInv'
  OBVIOUS
<1> USE DEF coreVars
<1>0. loop \in Locals
  BY DEF TypeOK
<1>1. CASE Fetch \/ FetchErrorPage
  <2> QED  BY <1>1, FetchedFeed DEF RoundInv
<1>2. ASSUME NEW u \in UIDs, BuildMessages(u) PROVE RoundInv'
  <2>1. loop.pc = "build" /\ loop'.pc = "build" /\ loop'.feed = loop.feed
    BY <1>2, BuildStates
  <2> QED  BY <1>2, <2>1 DEF BuildMessages, RoundInv
<1>3. CASE SwapDevices
  <2>1. /\ loop.pc = "build" /\ loop'.pc = "register" /\ loop'.feed = loop.feed
        /\ loop'.todo = {}
    BY <1>0, <1>3, ClosingStates DEF SwapDevices, Locals
  <2> QED  BY <1>3, <2>1 DEF SwapDevices, RoundInv
<1>4. CASE PublishRegistrations \/ AddInstances
  <2>1. /\ loop.pc \in {"register", "add"} /\ loop'.pc \in {"add", "publish"}
        /\ loop'.feed = loop.feed /\ loop'.todo = loop.todo
    BY <1>0, <1>4 DEF PublishRegistrations, AddInstances, Locals
  <2> QED  BY <1>4, <2>1 DEF PublishRegistrations, AddInstances, RoundInv
<1>5. CASE PublishStates
  BY <1>5, SleepingType DEF PublishStates, RoundInv
<1>6. CASE FetchFails \/ Environment \/ UNCHANGED vars
  <2>1. loop' = loop /\ activeDevices' = activeDevices /\ history' = history
    BY <1>6 DEF FetchFails, Environment, Instances, ApplyUpdate, UpdateTakenElsewhere,
       CoreSends, JamChanges, Tick, vars
  <2> QED  BY <2>1 DEF RoundInv
<1> QED  BY <1>1, <1>2, <1>3, <1>4, <1>5, <1>6 DEF Next, Loop, Environment

-----------------------------------------------------------------------------
(* The consumers mirror the feed *)

\* Of the steps, only those that add messages change Current.
LEMMA CurrentSteps ==
  ASSUME TypeOK, RoundInv, [Next]_vars
  PROVE  /\ (\A u \in UIDs : ~BuildMessages(u)) /\ ~SwapDevices => Current' = Current
         /\ \A u \in UIDs : BuildMessages(u) => Current' = Current \cup {u}
         /\ SwapDevices => Current' = Current \ Missing /\ Missing \subseteq Current
                           /\ Missing = Current \ Jammed(loop.feed)
<1> USE DEF coreVars
<1>0. loop \in Locals /\ loop.todo \subseteq Jammed(loop.feed)
  BY DEF TypeOK
<1>1. CASE Fetch \/ FetchErrorPage
  <2>1. /\ loop.pc = "sleep" /\ loop'.pc = "build" /\ activeDevices' = activeDevices
        /\ Jammed(loop'.feed) \ loop'.todo = {}
    BY <1>1, FetchedFeed DEF Fetch, FetchErrorPage
  <2> QED  BY <2>1 DEF Current, BuildMessages, SwapDevices
<1>2. ASSUME NEW u \in UIDs, BuildMessages(u) PROVE Current' = Current \cup {u}
  <2>1. /\ loop.pc = "build" /\ loop'.pc = "build" /\ activeDevices' = activeDevices
        /\ loop'.feed = loop.feed /\ loop'.todo = loop.todo \ {u} /\ u \in Jammed(loop.feed)
    BY <1>2, BuildStates DEF BuildMessages
  <2> QED  BY <2>1 DEF Current
<1>3. ASSUME SwapDevices PROVE Current' = Current \ Missing /\ Missing \subseteq Current
                               /\ Missing = Current \ Jammed(loop.feed)
  <2>1. /\ loop.pc = "build" /\ loop'.pc = "register" /\ loop.todo = {}
        /\ activeDevices' = Jammed(loop.feed)
    BY <1>0, <1>3, ClosingStates DEF SwapDevices, Locals
  <2> QED  BY <2>1 DEF Current, Missing
<1>4. CASE \/ PublishRegistrations \/ AddInstances \/ PublishStates
  <2>1. activeDevices' = activeDevices /\ loop.pc # "build" /\ loop'.pc # "build"
    BY <1>0, <1>4, SleepingType DEF PublishRegistrations, AddInstances, PublishStates, Locals
  <2> QED  BY <2>1 DEF Current, BuildMessages, SwapDevices
<1>5. CASE FetchFails \/ Environment \/ UNCHANGED vars
  <2>1. loop' = loop /\ activeDevices' = activeDevices
    BY <1>5 DEF FetchFails, Environment, Instances, ApplyUpdate, UpdateTakenElsewhere,
       CoreSends, JamChanges, Tick, vars
  <2> QED  BY <1>2, <1>3, <2>1 DEF Current
<1> QED  BY <1>1, <1>2, <1>3, <1>4, <1>5 DEF Next, Loop, Environment

LEMMA InitMirrorInv == Init => MirrorInv
  BY InitLog, SleepingType DEF Init, MirrorInv, LastActive, Current

LEMMA NextMirrorInv == TypeOK /\ RoundInv /\ MirrorInv /\ [Next]_vars => MirrorInv'
<1> SUFFICES ASSUME TypeOK, RoundInv, MirrorInv, [Next]_vars, used'.failures = 0
             PROVE  \A u \in UIDs : (u \in Current)' <=> LastActive(u)'
  BY DEF MirrorInv
<1>1. \A u \in UIDs : u \in Current <=> LastActive(u)
  BY FailuresStay DEF MirrorInv
<1>2. ASSUME NEW u \in UIDs, BuildMessages(u)
      PROVE  \A v \in UIDs : (v \in Current)' <=> LastActive(v)'
  <2>1. LastActive(u)' /\ \A v \in UIDs \ {u} : Log'[v] = Log[v]
    <3>1. /\ \A v \in UIDs \ {u} : Log'[v] = Log[v]
          /\ Log'[u] # <<>> /\ Log'[u][Len(Log'[u])] = Report(u)
      BY <1>2, BuildLogs
    <3>2. Report(u).kind = "active"
      BY DEF Report
    <3> QED  BY <3>1, <3>2 DEF LastActive
  <2>2. Current' = Current \cup {u}
    BY <1>2, CurrentSteps
  <2> QED  BY <1>1, <2>1, <2>2 DEF LastActive
<1>3. CASE SwapDevices
  <2>1. Current' = Current \ Missing
    BY <1>3, CurrentSteps
  <2>2. ASSUME NEW u \in UIDs, u \in Missing PROVE ~LastActive(u)'
    <3>1. Log'[u][Len(Log'[u])] = Closing(u)
      BY <1>3, <2>2, ClosingLogs
    <3> QED  BY <3>1 DEF LastActive, Closing
  <2>3. \A u \in UIDs : u \notin Missing => Log'[u] = Log[u]
    BY <1>3, ClosingLogs
  <2> QED  BY <1>1, <2>1, <2>2, <2>3 DEF LastActive
<1>4. CASE (\A u \in UIDs : ~BuildMessages(u)) /\ ~SwapDevices
  <2>1. Current' = Current
    BY <1>4, CurrentSteps
  <2>2. Log' = Log
    BY <1>4, PublishedLog, OtherLog
  <2> QED  BY <1>1, <2>1, <2>2 DEF LastActive
<1> QED  BY <1>2, <1>3, <1>4

\* Between two rounds, and unless a publication failed, the segments whose latest
\* message carries a delay are those of the feed last processed, whatever the
\* source, the updates and the clock did while it was processed.
THEOREM MirrorsFeed == Spec => []ConsumersMirrorFeed
<1>1. TypeOK /\ RoundInv /\ MirrorInv => ConsumersMirrorFeed
  <2> SUFFICES ASSUME TypeOK, RoundInv, MirrorInv, Quiet, NEW u \in UIDs
               PROVE  u \in Jammed(history.shown) <=>
                        kpi[u] # <<>> /\ kpi[u][Len(kpi[u])].kind = "active"
    BY DEF ConsumersMirrorFeed
  <2>1. Log = kpi /\ Current = Jammed(history.shown)
    BY DeliveredEmpty DEF Quiet, TypeOK, RoundInv, Log, Current
  <2> QED  BY <2>1 DEF Quiet, MirrorInv, LastActive
<1> QED
  BY <1>1, InitRoundInv, NextRoundInv, InitMirrorInv, NextMirrorInv, TypeCorrect, PTL DEF Spec

-----------------------------------------------------------------------------
(* Starts *)

LEMMA NextStartInv ==
  TypeOK /\ RoundInv /\ MirrorInv /\ StartInv /\ [Next]_vars => StartInv'
<1> SUFFICES ASSUME TypeOK, RoundInv, MirrorInv, StartInv, [Next]_vars, used'.failures = 0,
                    NEW u \in UIDs
             PROVE  StartsBelong(Log'[u]) /\ StartsBelong(kpi'[u])
  BY DEF StartInv
<1>1. /\ used.failures = 0 /\ StartsBelong(Log[u]) /\ StartsBelong(kpi[u])
      /\ u \in Current <=> LastActive(u)
  BY FailuresStay DEF StartInv, MirrorInv
<1>2. ASSUME NEW v \in UIDs, BuildMessages(v)
      PROVE  StartsBelong(Log'[u]) /\ StartsBelong(kpi'[u])
  <2>1. StartsBelong(kpi'[u])
    BY <1>1, <1>2 DEF BuildMessages
  <2>2. CASE u # v
    BY <1>1, <1>2, <2>1, <2>2, BuildLogs
  <2>3. CASE u = v
    <3> DEFINE old == Log[u]
               new == Log'[u]
               s == Start(u)
               r == Report(u)
    <3>1. /\ Len(old) \in Nat /\ DOMAIN old = 1 .. Len(old) /\ DOMAIN new = 1 .. Len(new)
          /\ new[Len(new)] = r /\ \A i \in DOMAIN old : new[i] = old[i]
          /\ NeedsStart(u) => Len(new) = Len(old) + 2 /\ new[Len(old) + 1] = s
          /\ ~NeedsStart(u) => Len(new) = Len(old) + 1
      BY <1>2, <2>3, BuildLogs
    <3>2. s.kind = "start" /\ r.kind = "active" /\ s.time < r.time
      BY <1>2, <2>3, BuildStates, MessageTypes DEF Start, Report
    <3>3. StartsBelong(old)
      BY <1>1
    <3>4. NeedsStart(u) /\ Len(old) # 0 => old[Len(old)].kind = "close"
      <4> SUFFICES ASSUME NeedsStart(u), Len(old) # 0 PROVE old[Len(old)].kind = "close"
        OBVIOUS
      <4>1. u \notin Current
        BY <1>2, <2>3, BuildStates DEF Current, NeedsStart, BuildMessages
      <4>2. old[Len(old)].kind # "active"
        BY <1>1, <4>1, <3>1, EmptySeq DEF LastActive
      <4>3. Len(old) \in DOMAIN old /\ Len(old) + 1 \notin DOMAIN old
        BY <3>1
      <4>4. old[Len(old)].kind # "start"
        BY <3>3, <4>3 DEF StartsBelong
      <4>5. old[Len(old)].kind \in Kinds
        BY <4>3, LogTimes
      <4> QED  BY <4>2, <4>4, <4>5 DEF Kinds
    <3> HIDE DEF old, new, s, r
    <3>5. StartsBelong(new)
      <4> SUFFICES ASSUME NEW i \in DOMAIN new, new[i].kind = "start"
                   PROVE  /\ i # 1 => i - 1 \in DOMAIN new /\ new[i - 1].kind = "close"
                          /\ i + 1 \in DOMAIN new /\ new[i + 1].kind = "active"
                          /\ new[i].time < new[i + 1].time
        BY DEF StartsBelong
      <4>1. CASE i \in DOMAIN old
        <5>1. old[i].kind = "start" /\ new[i] = old[i]
          BY <3>1, <4>1
        <5>2. /\ i # 1 => i - 1 \in DOMAIN old /\ old[i - 1].kind = "close"
              /\ i + 1 \in DOMAIN old /\ old[i + 1].kind = "active"
              /\ old[i].time < old[i + 1].time
          BY <3>3, <4>1, <5>1 DEF StartsBelong
        <5>3. \A j \in DOMAIN old : j \in DOMAIN new /\ new[j] = old[j]
          <6> DEFINE m == Len(old)
                     n == Len(new)
          <6>1. m \in Nat /\ (n = m + 2 \/ n = m + 1)
            BY <3>1
          <6>2. DOMAIN old = 1 .. m /\ DOMAIN new = 1 .. n /\ \A j \in DOMAIN old : new[j] = old[j]
            BY <3>1
          <6> HIDE DEF m, n
          <6> QED  BY <6>1, <6>2
        <5> QED  BY <5>1, <5>2, <5>3
      <4>2. CASE i \notin DOMAIN old
        <5>1. i # Len(new)
          BY <3>1, <3>2
        <5>2. NeedsStart(u) /\ i = Len(old) + 1 /\ Len(new) = i + 1 /\ new[i] = s
          <6> DEFINE m == Len(old)
                     n == Len(new)
          <6>1. i \in 1 .. n /\ i \notin 1 .. m /\ m \in Nat
            BY <3>1, <4>2
          <6>2. NeedsStart(u) => n = m + 2 /\ new[m + 1] = s
            BY <3>1
          <6>3. ~NeedsStart(u) => n = m + 1
            BY <3>1
          <6> HIDE DEF m, n
          <6>4. i # n
            BY <5>1 DEF n
          <6>5. NeedsStart(u)
            BY <6>1, <6>3, <6>4
          <6>6. i = m + 1 /\ n = i + 1
            BY <6>1, <6>2, <6>4, <6>5
          <6> QED  BY <6>2, <6>5, <6>6 DEF m, n
        <5>3. i # 1 => i - 1 \in DOMAIN old /\ new[i - 1] = old[i - 1] /\ i - 1 \in DOMAIN new
                       /\ Len(old) # 0 /\ i - 1 = Len(old)
          BY <3>1, <5>2
        <5>4. i + 1 \in DOMAIN new /\ new[i + 1] = r
          BY <3>1, <5>2
        <5> QED  BY <3>2, <3>4, <5>2, <5>3, <5>4
      <4> QED  BY <4>1, <4>2
    <3> QED  BY <2>1, <3>5 DEF new
  <2> QED  BY <2>2, <2>3
<1>3. CASE SwapDevices
  <2>1. StartsBelong(kpi'[u])
    BY <1>1, <1>3 DEF SwapDevices
  <2>2. CASE u \notin Missing
    BY <1>1, <1>3, <2>1, <2>2, ClosingLogs
  <2>3. CASE u \in Missing
    <3> DEFINE old == Log[u]
               new == Log'[u]
               c == Closing(u)
    <3>1. /\ Len(old) \in Nat /\ DOMAIN old = 1 .. Len(old) /\ DOMAIN new = 1 .. Len(old) + 1
          /\ new[Len(old) + 1] = c /\ \A i \in DOMAIN old : new[i] = old[i]
      BY <1>3, <2>3, ClosingLogs
    <3>2. c.kind = "close"
      BY DEF Closing
    <3>3. StartsBelong(old)
      BY <1>1
    <3> HIDE DEF old, new, c
    <3>4. StartsBelong(new)
      <4> SUFFICES ASSUME NEW i \in DOMAIN new, new[i].kind = "start"
                   PROVE  /\ i # 1 => i - 1 \in DOMAIN new /\ new[i - 1].kind = "close"
                          /\ i + 1 \in DOMAIN new /\ new[i + 1].kind = "active"
                          /\ new[i].time < new[i + 1].time
        BY DEF StartsBelong
      <4>1. i \in DOMAIN old /\ new[i] = old[i]
        BY <3>1, <3>2
      <4>2. /\ i # 1 => i - 1 \in DOMAIN old /\ old[i - 1].kind = "close"
            /\ i + 1 \in DOMAIN old /\ old[i + 1].kind = "active"
            /\ old[i].time < old[i + 1].time
        BY <3>3, <4>1 DEF StartsBelong
      <4>3. \A j \in DOMAIN old : j \in DOMAIN new /\ new[j] = old[j]
        BY <3>1
      <4> QED  BY <4>1, <4>2, <4>3
    <3> QED  BY <2>1, <3>4 DEF new
  <2> QED  BY <2>2, <2>3
<1>4. CASE PublishStates
  BY <1>1, <1>4, PublishedLog
<1>5. CASE (\A v \in UIDs : ~BuildMessages(v)) /\ ~SwapDevices /\ ~PublishStates
  BY <1>1, <1>5, OtherLog
<1> QED  BY <1>2, <1>3, <1>4, <1>5

\* A synthetic start comes first of all or after an end, and the next message is the
\* jam it belongs to, later in event time: nothing separates the two, and a jam that
\* is only reported again gets no start.
THEOREM StartsAtBeginnings == Spec => []StartsBelongToBeginnings
<1>1. Init => StartInv
  BY InitLog DEF Init, StartInv, StartsBelong
<1>2. TypeOK /\ StartInv => StartsBelongToBeginnings
  <2> SUFFICES ASSUME TypeOK, StartInv, used.failures = 0, NEW u \in UIDs,
                      NEW i \in Sent(u, "start")
               PROVE  /\ i = 1 \/ i - 1 \in Sent(u, "close")
                      /\ i + 1 \in Sent(u, "active") /\ kpi[u][i].time < kpi[u][i + 1].time
    BY DEF StartsBelongToBeginnings
  <2> QED  BY DEF StartInv, StartsBelong, Sent
<1> QED
  BY <1>1, <1>2, InitRoundInv, NextRoundInv, InitMirrorInv, NextMirrorInv, NextStartInv,
     TypeCorrect, PTL DEF Spec

-----------------------------------------------------------------------------
(* Ends in event time *)

LEMMA InitClockInv == Init => ClockInv
<1> SUFFICES ASSUME Init PROVE ClockInv
  OBVIOUS
<1>1. loop.feed = AllClear /\ \A u \in UIDs : DOMAIN Log[u] = {}
  BY InitLog, SleepingType DEF Init
<1> QED  BY <1>1, SleepingType DEF Init, ClockInv

LEMMA NextClockInv == TypeOK /\ ClockInv /\ [Next]_vars => ClockInv'
<1> SUFFICES ASSUME TypeOK, ClockInv, [Next]_vars PROVE ClockInv'
  OBVIOUS
<1> USE DEF coreVars
<1>0. /\ now \in Nat /\ jams \in JamSets /\ loop \in Locals /\ loop.feed \in JamSets
      /\ \A u \in Jammed(jams) : jams[u] \in Nat /\ jams[u] <= now
      /\ \A u \in Jammed(loop.feed) : loop.feed[u] \in Nat /\ loop.feed[u] <= now
      /\ \A u \in UIDs : \A i \in DOMAIN Log[u] :
           /\ Log[u][i].time \in Int
           /\ Log[u][i].kind = "active" => Log[u][i].time <= now
  BY JamTimes, LogTimes DEF TypeOK, Locals, ClockInv
<1>1. CASE Fetch \/ FetchErrorPage
  <2>1. now' = now /\ jams' = jams /\ loop'.feed \in {jams, AllClear}
    BY <1>1, FetchedFeed DEF Fetch, FetchErrorPage
  <2>2. Log' = Log
    BY <1>1, SameLog, FetchedFeed DEF Fetch, FetchErrorPage, Awake, TypeOK
  <2> QED  BY <1>0, <2>1, <2>2, SleepingType DEF ClockInv
<1>2. ASSUME NEW u \in UIDs, BuildMessages(u) PROVE ClockInv'
  <2>1. now' = now /\ jams' = jams /\ loop'.feed = loop.feed /\ u \in Jammed(loop.feed)
    BY <1>2, BuildStates DEF BuildMessages
  <2>2. ASSUME NEW v \in UIDs, NEW i \in DOMAIN Log'[v], Log'[v][i].kind = "active"
        PROVE  Log'[v][i].time <= now
    <3>1. CASE v # u
      <4>1. Log'[v] = Log[v]
        BY <1>2, <3>1, BuildLogs
      <4> QED  BY <1>0, <2>2, <4>1
    <3>2. CASE v = u /\ i \in DOMAIN Log[u]
      <4>1. Log'[u][i] = Log[u][i]
        BY <1>2, <3>2, BuildLogs
      <4> QED  BY <1>0, <2>2, <3>2, <4>1
    <3>3. CASE v = u /\ i \notin DOMAIN Log[u]
      <4> DEFINE m == Len(Log[u])
                 n == Len(Log'[u])
      <4>1. /\ m \in Nat /\ i \in 1 .. n /\ i \notin 1 .. m
            /\ (n = m + 1 \/ (n = m + 2 /\ Log'[u][m + 1] = Start(u)))
            /\ Log'[u][n] = Report(u)
        BY <1>2, <2>2, <3>3, BuildLogs
      <4>2. Start(u).kind = "start" /\ Report(u).time = loop.feed[u]
        BY DEF Start, Report
      <4> HIDE DEF m, n
      <4>3. i = n \/ (i = m + 1 /\ n = m + 2)
        BY <4>1
      <4>4. i = n
        BY <2>2, <3>3, <4>1, <4>2, <4>3
      <4> QED  BY <1>0, <2>1, <3>3, <4>1, <4>2, <4>4
    <3> QED  BY <3>1, <3>2, <3>3
  <2> QED  BY <1>0, <2>1, <2>2 DEF ClockInv
<1>3. CASE SwapDevices
  <2>1. now' = now /\ jams' = jams /\ loop'.feed = loop.feed
    BY <1>0, <1>3, ClosingStates DEF SwapDevices, Locals
  <2>2. ASSUME NEW v \in UIDs, NEW i \in DOMAIN Log'[v], Log'[v][i].kind = "active"
        PROVE  i \in DOMAIN Log[v] /\ Log'[v][i] = Log[v][i]
    <3>1. CASE v \notin Missing
      BY <1>3, <2>2, <3>1, ClosingLogs
    <3>2. CASE v \in Missing
      <4>1. i # Len(Log[v]) + 1
        <5>1. Log'[v][Len(Log[v]) + 1] = Closing(v)
          BY <1>3, <3>2, ClosingLogs
        <5>2. Closing(v).kind = "close"
          BY DEF Closing
        <5> QED  BY <2>2, <5>1, <5>2
      <4>2. /\ Len(Log[v]) \in Nat /\ DOMAIN Log[v] = 1 .. Len(Log[v])
            /\ DOMAIN Log'[v] = 1 .. Len(Log[v]) + 1
            /\ \A j \in DOMAIN Log[v] : Log'[v][j] = Log[v][j]
        BY <1>3, <3>2, ClosingLogs
      <4>3. i \in DOMAIN Log[v]
        BY <2>2, <4>1, <4>2
      <4> QED  BY <4>2, <4>3
    <3> QED  BY <3>1, <3>2
  <2> QED  BY <1>0, <2>1, <2>2 DEF ClockInv
<1>4. CASE PublishStates
  <2>1. now' = now /\ jams' = jams /\ loop'.feed = AllClear
    BY <1>4, SleepingType DEF PublishStates
  <2>2. \A u \in UIDs : \A i \in DOMAIN Log'[u] : i \in DOMAIN Log[u] /\ Log'[u][i] = Log[u][i]
    BY <1>4, PublishedLogs
  <2> QED  BY <1>0, <2>1, <2>2, SleepingType DEF ClockInv
<1>5. ASSUME NEW u \in UIDs, NEW t \in {Clear} \cup 1 .. MaxTime, JamChanges(u, t)
      PROVE  ClockInv'
  <2>1. now' = now /\ loop' = loop /\ Log' = Log
    BY <1>5, SameLog DEF JamChanges
  <2>2. \A v \in Jammed(jams') : jams'[v] <= now
    BY <1>0, <1>5 DEF JamChanges, Jammed, JamSets
  <2> QED  BY <1>0, <2>1, <2>2 DEF ClockInv
<1>6. CASE Tick
  <2>1. now' = now + 1 /\ jams' = jams /\ loop' = loop /\ Log' = Log
    BY <1>6, SameLog DEF Tick
  <2> QED  BY <1>0, <2>1 DEF ClockInv
<1>7. CASE FetchFails \/ PublishRegistrations \/ AddInstances \/ Instances \/ UNCHANGED vars
  <2>1. now' = now /\ jams' = jams /\ kpi' = kpi /\ loop'.feed = loop.feed
        /\ loop'.states = loop.states
    BY <1>0, <1>7 DEF FetchFails, PublishRegistrations, AddInstances, Instances, ApplyUpdate,
       UpdateTakenElsewhere, CoreSends, vars, Locals
  <2> QED  BY <1>0, <2>1, SameLog DEF ClockInv
<1> QED  BY <1>1, <1>2, <1>3, <1>4, <1>5, <1>6, <1>7 DEF Next, Loop

LEMMA InitEndInv == Init => EndInv
  BY InitLog DEF Init, EndInv

LEMMA NextEndInv == TypeOK /\ RoundInv /\ ClockInv /\ EndInv /\ [Next]_vars => EndInv'
<1> SUFFICES ASSUME TypeOK, RoundInv, ClockInv, EndInv, [Next]_vars, used'.failures = 0,
                    NEW u \in UIDs, (u \notin Current)',
                    NEW i \in DOMAIN Log'[u], Log'[u][i].kind = "active"
             PROVE  \E j \in DOMAIN Log'[u] :
                      j > i /\ Log'[u][j].kind = "close" /\ Log'[u][j].time >= Log'[u][i].time
  BY DEF EndInv
<1>1. used.failures = 0
  BY FailuresStay
<1>2. CASE Log'[u] = Log[u] /\ u \notin Current
  BY <1>1, <1>2 DEF EndInv
<1>3. ASSUME NEW v \in UIDs, BuildMessages(v)
      PROVE  Log'[u] = Log[u] /\ u \notin Current
  <2>1. Current' = Current \cup {v}
    BY <1>3, CurrentSteps
  <2>2. u \notin Current /\ u # v
    BY <2>1
  <2> QED  BY <1>3, <2>2, BuildLogs
<1>4. CASE SwapDevices /\ u \notin Missing
  <2>1. Current' = Current \ Missing
    BY <1>4, CurrentSteps
  <2>2. u \notin Current
    BY <1>4, <2>1
  <2>3. Log'[u] = Log[u]
    BY <1>4, ClosingLogs
  <2> QED  BY <1>2, <2>2, <2>3
<1>5. CASE SwapDevices /\ u \in Missing
  <2> DEFINE old == Log[u]
             new == Log'[u]
             n == Len(old) + 1
  <2>1. /\ Len(old) \in Nat /\ DOMAIN old = 1 .. Len(old) /\ DOMAIN new = 1 .. n
        /\ new[n] = Closing(u) /\ \A j \in DOMAIN old : new[j] = old[j]
    BY <1>5, ClosingLogs
  <2>2. Closing(u).kind = "close" /\ Closing(u).time = now
    BY DEF Closing, CloseTime
  <2>3. \A j \in DOMAIN old : old[j].kind = "active" => old[j].time <= now
    BY DEF ClockInv
  <2>4. \A j \in DOMAIN old : old[j].time \in Int
    BY LogTimes
  <2>5. i \in DOMAIN new /\ new[i].kind = "active" /\ now \in Nat
    BY DEF TypeOK
  <2> SUFFICES \E j \in DOMAIN new :
                 j > i /\ new[j].kind = "close" /\ new[j].time >= new[i].time
    OBVIOUS
  <2> HIDE DEF old, new
  <2>6. i # n
    BY <2>1, <2>2, <2>5
  <2>7. i \in DOMAIN old /\ n \in DOMAIN new /\ n > i
    BY <2>1, <2>5, <2>6
  <2>8. new[n].kind = "close" /\ new[n].time >= new[i].time
    BY <2>1, <2>2, <2>3, <2>4, <2>5, <2>7
  <2> QED  BY <2>7, <2>8
<1>6. CASE (\A v \in UIDs : ~BuildMessages(v)) /\ ~SwapDevices
  <2>1. Current' = Current
    BY <1>6, CurrentSteps
  <2>2. Log' = Log
    BY <1>6, PublishedLog, OtherLog
  <2> QED  BY <1>2, <2>1, <2>2
<1> QED  BY <1>2, <1>3, <1>4, <1>5, <1>6

\* The end of a jam is dated after all of its reports, unless a publication failed:
\* no report is younger than the clock, which dates the end.
THEOREM EndsVisible == Spec => []EndsVisibleInEventTime
<1>1. TypeOK /\ RoundInv /\ EndInv => EndsVisibleInEventTime
  <2> SUFFICES ASSUME TypeOK, RoundInv, EndInv, Quiet, NEW u \in UIDs \ Jammed(history.shown),
                      NEW i \in Sent(u, "active")
               PROVE  \E j \in Sent(u, "close") : j > i /\ kpi[u][j].time >= kpi[u][i].time
    BY DEF EndsVisibleInEventTime
  <2>1. Log = kpi /\ Current = Jammed(history.shown)
    BY DeliveredEmpty DEF Quiet, TypeOK, RoundInv, Log, Current
  <2>2. PICK j \in DOMAIN kpi[u] :
          j > i /\ kpi[u][j].kind = "close" /\ kpi[u][j].time >= kpi[u][i].time
    BY <2>1 DEF Quiet, EndInv, Sent
  <2> QED  BY <2>2 DEF Sent
<1> QED
  BY <1>1, InitRoundInv, NextRoundInv, InitClockInv, NextClockInv, InitEndInv, NextEndInv,
     TypeCorrect, PTL DEF Spec

-----------------------------------------------------------------------------
(* The messages of a round while they are built *)

LEMMA InitBuildInv == Init => BuildInv
  BY SleepingType DEF Init, BuildInv

LEMMA NextBuildInv == TypeOK /\ BuildInv /\ [Next]_vars => BuildInv'
<1> SUFFICES ASSUME TypeOK, BuildInv, [Next]_vars, loop'.pc = "build", NEW v \in UIDs,
                    NEW k \in FeedKinds
             PROVE  Cardinality(Places(loop'.states, v, k)) = IF Due(v, k)' THEN 1 ELSE 0
  BY DEF BuildInv
<1> USE DEF coreVars
<1>0. loop \in Locals /\ loop.states \in Seq(Message)
  BY DEF TypeOK, Locals
<1>1. CASE Fetch \/ FetchErrorPage
  <2>1. loop'.states = <<>> /\ Jammed(loop'.feed) \ loop'.todo = {}
    BY <1>1, FetchedFeed
  <2> QED  BY <2>1, NoPlaces DEF Due
<1>2. ASSUME NEW u \in UIDs, BuildMessages(u)
      PROVE  Cardinality(Places(loop'.states, v, k)) = IF Due(v, k)' THEN 1 ELSE 0
  <2> DEFINE list == loop.states
             s == Start(u)
             r == Report(u)
             once == Append(list, s)
             N == Cardinality(Places(list, v, k))
  <2>1. /\ loop.pc = "build" /\ u \in Jammed(loop.feed) /\ u \in loop.todo
        /\ loop'.feed = loop.feed /\ loop'.todo = loop.todo \ {u}
        /\ activeDevices' = activeDevices
        /\ loop'.states = IF NeedsStart(u) THEN Append(once, r) ELSE Append(list, r)
    BY <1>2, BuildStates DEF BuildMessages
  <2>2. /\ s \in Message /\ s.uid = u /\ s.kind = "start"
        /\ r \in Message /\ r.uid = u /\ r.kind = "active" /\ list \in Seq(Message)
    BY <1>0, <2>1, MessageTypes DEF Start, Report
  <2>3. N = IF Due(v, k) THEN 1 ELSE 0
    BY <2>1 DEF BuildInv
  <2>4. /\ NeedsStart(v)' <=> NeedsStart(v)
        /\ v # u => (Due(v, k)' <=> Due(v, k))
        /\ ~Due(u, k)
        /\ Due(u, k)' <=> k = "active" \/ (k = "start" /\ NeedsStart(u))
    BY <2>1 DEF NeedsStart, Due
  <2> HIDE DEF list, s, r, once
  <2>5. Cardinality(Places(once, v, k)) = N + (IF s.uid = v /\ s.kind = k THEN 1 ELSE 0)
    BY <2>2, PlacesAppend DEF once
  <2>6. Cardinality(Places(Append(list, r), v, k)) =
          N + (IF r.uid = v /\ r.kind = k THEN 1 ELSE 0)
    BY <2>2, PlacesAppend
  <2>7. Cardinality(Places(Append(once, r), v, k)) =
          Cardinality(Places(once, v, k)) + (IF r.uid = v /\ r.kind = k THEN 1 ELSE 0)
    <3>1. once \in Seq(Message)
      BY <2>2, AppendProperties DEF once
    <3> QED  BY <2>2, <3>1, PlacesAppend
  <2> HIDE DEF N
  <2>8. CASE NeedsStart(u)
    <3>1. Cardinality(Places(loop'.states, v, k)) =
            N + (IF s.uid = v /\ s.kind = k THEN 1 ELSE 0)
              + (IF r.uid = v /\ r.kind = k THEN 1 ELSE 0)
      BY <2>1, <2>5, <2>7, <2>8
    <3> QED  BY <2>2, <2>3, <2>4, <2>8, <3>1
  <2>9. CASE ~NeedsStart(u)
    <3>1. Cardinality(Places(loop'.states, v, k)) =
            N + (IF r.uid = v /\ r.kind = k THEN 1 ELSE 0)
      BY <2>1, <2>6, <2>9
    <3> QED  BY <2>2, <2>3, <2>4, <2>9, <3>1
  <2> QED  BY <2>8, <2>9
<1>3. CASE SwapDevices \/ PublishRegistrations \/ AddInstances \/ PublishStates
  BY <1>0, <1>3, ClosingStates, SleepingType DEF SwapDevices, PublishRegistrations,
     AddInstances, PublishStates, Locals
<1>4. CASE FetchFails \/ Environment \/ UNCHANGED vars
  <2>1. loop' = loop /\ activeDevices' = activeDevices
    BY <1>4 DEF FetchFails, Environment, Instances, ApplyUpdate, UpdateTakenElsewhere,
       CoreSends, JamChanges, Tick, vars
  <2>2. Due(v, k)' <=> Due(v, k)
    BY <2>1 DEF Due, NeedsStart
  <2> QED  BY <2>1, <2>2 DEF BuildInv
<1> QED  BY <1>1, <1>2, <1>3, <1>4 DEF Next, Loop, Environment

-----------------------------------------------------------------------------
(* Every change of activity has a message of its own *)

ActiveNow == [u \in UIDs |-> u \in activeDevices]
Outbox == [u \in UIDs |-> [k \in FeedKinds |-> Pending(u, k)]]
KindsSent == [u \in UIDs |-> [i \in DOMAIN kpi[u] |-> kpi[u][i].kind]]

\* The step of the abstract specification that the swap is, in terms of these three.
Decided(on, off, again, first) ==
  /\ {on, off, again, first} \subseteq SUBSET UIDs
  /\ \A u \in on \cup first : ~ActiveNow[u]
  /\ \A u \in off \cup again : ActiveNow[u]
  /\ off \cap again = {}
  /\ ActiveNow' = [u \in UIDs |-> (ActiveNow[u] \/ u \in on) /\ u \notin off]
  /\ Outbox' = [u \in UIDs |-> [k \in FeedKinds |-> Outbox[u][k] +
                  IF \/ k = "start" /\ u \in first
                     \/ k = "active" /\ u \in on \cup again
                     \/ k = "close" /\ u \in off
                  THEN 1 ELSE 0]]
  /\ KindsSent' = KindsSent

LEMMA FeedDecides ==
  ASSUME NEW on, NEW off, NEW again, NEW first, Decided(on, off, again, first)
  PROVE  Feed!Next
<1> DEFINE how == [u \in UIDs |-> "close"]
<1>1. how \in [UIDs -> {"inactive", "close"}] /\ \A u \in UIDs : how[u] = "close"
  OBVIOUS
<1>2. FeedKinds = Feed!Kinds
  BY DEF FeedKinds, Kinds, Feed!Kinds
<1> HIDE DEF how
<1>3. Outbox' = [u \in UIDs |-> [k \in Feed!Kinds |-> Outbox[u][k] +
                   IF \/ k = "start" /\ u \in first
                      \/ k = "active" /\ u \in on \cup again
                      \/ u \in off /\ k = how[u]
                   THEN 1 ELSE 0]]
  BY <1>1, <1>2 DEF Decided
<1>4. on \in SUBSET UIDs /\ off \in SUBSET UIDs /\ again \in SUBSET UIDs
      /\ first \in SUBSET UIDs
  BY DEF Decided
<1>5. Feed!Decide(on, off, again, first)
  BY <1>1, <1>3 DEF Decided, Feed!Decide, ActiveNow, Outbox, KindsSent, FeedKinds
<1> QED  BY <1>4, <1>5 DEF Feed!Next, Feed!Change

LEMMA FeedSwap == TypeOK /\ BuildInv /\ SwapDevices => Feed!Next
<1> SUFFICES ASSUME TypeOK, BuildInv, SwapDevices PROVE Feed!Next
  OBVIOUS
<1> DEFINE J == Jammed(loop.feed)
           on == J \ activeDevices
           again == J \cap activeDevices
           first == {u \in J : NeedsStart(u)}
           off == Missing
           one(v, k) == IF \/ k = "start" /\ v \in first
                           \/ k = "active" /\ v \in on \cup again
                           \/ k = "close" /\ v \in off
                        THEN 1 ELSE 0
<1>1. /\ loop.states \in Seq(Message) /\ activeDevices \in SUBSET UIDs /\ loop.pc = "build"
      /\ loop.todo = {} /\ activeDevices' = J /\ J \in SUBSET UIDs
  BY DEF TypeOK, Locals, SwapDevices, Jammed
<1>2. PICK last \in Seq(Message) :
        /\ loop' = [loop EXCEPT !.pc = "register", !.states = @ \o last]
        /\ OnePerInstance(last)
        /\ \A i \in DOMAIN last : last[i].uid \in Missing /\ last[i] = Closing(last[i].uid)
        /\ \A u \in Missing : \E i \in DOMAIN last : last[i].uid = u
  BY ClosingStates
<1>3. loop'.states = loop.states \o last /\ loop'.pc = "register"
  BY <1>2 DEF TypeOK, Locals
<1>4. \A i \in DOMAIN last : last[i].kind = "close"
  BY <1>2 DEF Closing
<1>5. ASSUME NEW v \in UIDs, NEW k \in FeedKinds
      PROVE  Pending(v, k)' = one(v, k)
  <2> DEFINE list == loop.states
  <2>1. Pending(v, k)' = Cardinality(Places(list \o last, v, k))
    BY <1>3 DEF Pending, Places
  <2>2. list \in Seq(Message)
    BY <1>1
  <2>3. Cardinality(Places(list, v, k)) = IF Due(v, k) THEN 1 ELSE 0
    BY <1>1 DEF BuildInv
  <2> HIDE DEF list
  <2>4. Cardinality(Places(list \o last, v, k)) =
          Cardinality(Places(list, v, k)) + Cardinality(Places(last, v, k))
    BY <1>2, <2>2, PlacesConcat
  <2>5. Cardinality(Places(last, v, k)) =
          IF \E i \in DOMAIN last : last[i].uid = v /\ last[i].kind = k THEN 1 ELSE 0
    BY <1>2, PlacesOnce
  <2>6. (\E i \in DOMAIN last : last[i].uid = v /\ last[i].kind = k)
           <=> v \in Missing /\ k = "close"
    BY <1>2, <1>4
  <2>7. Due(v, k) <=> v \in J /\ (k = "active" \/ (k = "start" /\ NeedsStart(v)))
    BY <1>1 DEF Due
  <2>8. one(v, k) = (IF Due(v, k) THEN 1 ELSE 0)
                    + (IF v \in Missing /\ k = "close" THEN 1 ELSE 0)
    <3>1. v \in on \cup again <=> v \in J
      OBVIOUS
    <3>2. v \in first <=> v \in J /\ NeedsStart(v)
      OBVIOUS
    <3>3. ~(Due(v, k) /\ k = "close")
      BY <2>7
    <3> HIDE DEF on, again, first, J
    <3> QED  BY <2>7, <3>1, <3>2, <3>3
  <2> HIDE DEF one
  <2> QED  BY <2>1, <2>3, <2>4, <2>5, <2>6, <2>8
<1>6. \A v \in UIDs : \A k \in FeedKinds : Outbox[v][k] = 0
  BY <1>1 DEF Outbox, Pending
<1>7. Outbox' = [v \in UIDs |-> [k \in FeedKinds |-> Outbox[v][k] + one(v, k)]]
  <2>1. \A v \in UIDs : \A k \in FeedKinds : Pending(v, k)' = Outbox[v][k] + one(v, k)
    BY <1>5, <1>6
  <2> HIDE DEF one
  <2> QED  BY <2>1 DEF Outbox
<1>8. ActiveNow' = [v \in UIDs |-> (ActiveNow[v] \/ v \in on) /\ v \notin off]
  <2>1. \A v \in UIDs : (v \in activeDevices') <=> ((v \in activeDevices \/ v \in on) /\ v \notin off)
    BY <1>1 DEF Missing
  <2>2. \A v \in UIDs : ActiveNow[v] = (v \in activeDevices)
    BY DEF ActiveNow
  <2> HIDE DEF on, off
  <2>3. ASSUME NEW v \in UIDs
        PROVE  (v \in activeDevices') = ((ActiveNow[v] \/ v \in on) /\ v \notin off)
    <3> DEFINE new == (v \in activeDevices \/ v \in on) /\ v \notin off
    <3>1. (v \in activeDevices') = new
      BY <2>1
    <3>2. new = ((ActiveNow[v] \/ v \in on) /\ v \notin off)
      BY <2>2
    <3> QED  BY <3>1, <3>2, Zenon
  <2> QED  BY <2>3, Zenon DEF ActiveNow
<1>9. KindsSent' = KindsSent
  BY DEF KindsSent, SwapDevices
<1>10. /\ on \in SUBSET UIDs /\ again \in SUBSET UIDs /\ first \in SUBSET UIDs
       /\ off \in SUBSET UIDs /\ off \cap again = {}
       /\ \A v \in on \cup first : ~ActiveNow[v]
       /\ \A v \in off \cup again : ActiveNow[v]
  BY <1>1 DEF Missing, ActiveNow, NeedsStart
<1> HIDE DEF on, off, again, first
<1>11. Decided(on, off, again, first)
  BY <1>7, <1>8, <1>9, <1>10 DEF Decided
<1> QED  BY <1>11, FeedDecides

LEMMA FeedCardinality == \A S : Feed!Cardinality(S) = Cardinality(S)
  BY DEF Feed!Cardinality, Cardinality

LEMMA FeedDispatches ==
  ASSUME ActiveNow' = ActiveNow,
         kpi \in [UIDs -> Seq(Message)], kpi' \in [UIDs -> Seq(Message)],
         \A u \in UIDs : Begins(kpi[u], kpi'[u]),
         \A u \in UIDs : \A k \in FeedKinds :
           Outbox'[u][k] \in 0 .. (Outbox[u][k] - Cardinality(NewPlaces(kpi[u], kpi'[u], k)))
  PROVE  Feed!Next
<1>1. FeedKinds = Feed!Kinds
  BY DEF FeedKinds, Kinds, Feed!Kinds
<1>2. ASSUME NEW u \in UIDs
      PROVE  /\ Len(KindsSent'[u]) >= Len(KindsSent[u])
             /\ SubSeq(KindsSent'[u], 1, Len(KindsSent[u])) = KindsSent[u]
             /\ \A k : {i \in DOMAIN KindsSent'[u] \ DOMAIN KindsSent[u] : KindsSent'[u][i] = k}
                         = NewPlaces(kpi[u], kpi'[u], k)
  <2> DEFINE s == kpi[u]
             t == kpi'[u]
  <2>1. s \in Seq(Message) /\ t \in Seq(Message) /\ Begins(s, t)
    OBVIOUS
  <2>2. KindsSent[u] = KindsOf(s) /\ KindsSent'[u] = KindsOf(t)
    BY DEF KindsSent, KindsOf
  <2>3. \A m \in Message : m.kind \in Kinds
    BY DEF Message
  <2> HIDE DEF s, t
  <2>4. /\ Len(KindsOf(t)) >= Len(KindsOf(s))
        /\ SubSeq(KindsOf(t), 1, Len(KindsOf(s))) = KindsOf(s)
        /\ \A k : {i \in DOMAIN KindsOf(t) \ DOMAIN KindsOf(s) : KindsOf(t)[i] = k} =
                    NewPlaces(s, t, k)
    BY <2>1, <2>3, KindsOfLog
  <2> QED  BY <2>2, <2>4 DEF s, t
<1>3. ASSUME NEW u \in UIDs, NEW k \in Feed!Kinds
      PROVE  Feed!Gained(u, k) = Cardinality(NewPlaces(kpi[u], kpi'[u], k))
  <2>1. Feed!Gained(u, k) = Cardinality({i \in DOMAIN KindsSent'[u] \ DOMAIN KindsSent[u] :
                                           KindsSent'[u][i] = k})
    BY FeedCardinality DEF Feed!Gained, KindsSent
  <2> QED  BY <1>2, <2>1
<1>4. ASSUME NEW u \in UIDs, NEW k \in Feed!Kinds
      PROVE  Outbox'[u][k] \in 0 .. (Outbox[u][k] - Feed!Gained(u, k))
  BY <1>1, <1>3
<1>5. Feed!Dispatch
  BY <1>1, <1>2, <1>4 DEF Feed!Dispatch, ActiveNow, Outbox, KindsSent, FeedKinds
<1> QED  BY <1>5 DEF Feed!Next

LEMMA FeedPublished == TypeOK /\ PublishStates => Feed!Next
<1> SUFFICES ASSUME TypeOK, PublishStates PROVE Feed!Next
  OBVIOUS
<1>1. /\ kpi \in [UIDs -> Seq(Message)] /\ loop.states \in Seq(Message)
      /\ Len(loop.states) \in Nat /\ loop.pc = "publish"
  BY LenProperties DEF TypeOK, Locals, PublishStates
<1>2. kpi' \in [UIDs -> Seq(Message)]
  <2>1. TypeOK'
    BY NextTypeOK DEF Next, Loop
  <2> QED  BY <2>1 DEF TypeOK
<1>3. PICK n \in 0 .. Len(loop.states) : kpi' = Published(n)
  <2>1. FailedPrefixes(Len(loop.states), BatchLimit) \subseteq 0 .. Len(loop.states)
    BY <1>1 DEF FailedPrefixes
  <2>2. Len(loop.states) \in 0 .. Len(loop.states)
    BY <1>1
  <2> QED  BY <2>1, <2>2 DEF PublishStates
<1>4. ASSUME NEW u \in UIDs, NEW k
      PROVE  /\ Begins(kpi[u], kpi'[u])
             /\ Cardinality(NewPlaces(kpi[u], kpi'[u], k)) \in Nat
             /\ Cardinality(NewPlaces(kpi[u], kpi'[u], k)) <=
                  Cardinality(Places(loop.states, u, k))
  <2> DEFINE list == loop.states
  <2>1. list \in Seq(Message) /\ n \in 0 .. Len(list)
    BY <1>1, <1>3
  <2>2. kpi' = Delivered(kpi, SubSeq(list, 1, n))
    BY <1>3 DEF Published
  <2> HIDE DEF list
  <2>3. LET cut == Delivered(kpi, SubSeq(list, 1, n))[u] IN
        /\ Begins(kpi[u], cut)
        /\ Cardinality(NewPlaces(kpi[u], cut, k)) \in Nat
        /\ Cardinality(NewPlaces(kpi[u], cut, k)) <= Cardinality(Places(list, u, k))
    BY <1>1, <2>1, Addresses, CutCounts
  <2> QED  BY <2>2, <2>3 DEF list
<1>5. ASSUME NEW u \in UIDs, NEW k \in FeedKinds
      PROVE  Outbox'[u][k] \in 0 .. (Outbox[u][k] - Cardinality(NewPlaces(kpi[u], kpi'[u], k)))
  <2>1. loop'.states = <<>>
    BY SleepingType DEF PublishStates
  <2>2. Outbox'[u][k] = 0
    <3>1. Places(loop'.states, u, k) = {} /\ Cardinality(Places(loop'.states, u, k)) = 0
      BY <2>1, NoPlaces
    <3> QED  BY <3>1 DEF Outbox, Pending, Places
  <2>3. Outbox[u][k] = Cardinality(Places(loop.states, u, k))
    BY <1>1 DEF Outbox, Pending, Places
  <2>4. Cardinality(Places(loop.states, u, k)) \in Nat
    BY <1>1, FinitePlaces
  <2> QED  BY <1>4, <2>2, <2>3, <2>4
<1>6. ActiveNow' = ActiveNow
  BY DEF ActiveNow, PublishStates
<1> QED  BY <1>1, <1>2, <1>4, <1>5, <1>6, FeedDispatches

\* The other steps change neither the activity nor what is decided and not published.
LEMMA FeedStutters ==
  ASSUME TypeOK, [Next]_vars, ~SwapDevices, ~PublishStates
  PROVE  UNCHANGED Feed!vars
<1> USE DEF coreVars
<1>0. loop \in Locals
  BY DEF TypeOK
<1>1. kpi' = kpi /\ activeDevices' = activeDevices
  BY DEF Next, vars, Loop, Instances, FetchFails, Fetch, FetchErrorPage, BuildMessages,
     PublishRegistrations, AddInstances, ApplyUpdate, UpdateTakenElsewhere, CoreSends,
     JamChanges, Tick
<1>2. \A u, k : Pending(u, k)' = Pending(u, k)
  <2>1. CASE Fetch \/ FetchErrorPage
    <3>1. loop.pc = "sleep" /\ loop.states = <<>> /\ loop'.pc = "build"
      BY <2>1, FetchedFeed DEF TypeOK
    <3>2. \A u, k : Places(loop.states, u, k) = {} /\ Cardinality(Places(loop.states, u, k)) = 0
      BY <3>1, NoPlaces
    <3> QED  BY <3>1, <3>2 DEF Pending, Places
  <2>2. CASE \E u \in UIDs : BuildMessages(u)
    <3>1. loop.pc = "build" /\ loop'.pc = "build"
      BY <2>2, BuildStates
    <3> QED  BY <3>1 DEF Pending
  <2>3. CASE PublishRegistrations \/ AddInstances
    <3>1. loop.pc # "build" /\ loop'.pc # "build" /\ loop'.states = loop.states
      BY <1>0, <2>3 DEF PublishRegistrations, AddInstances, Locals
    <3> QED  BY <3>1 DEF Pending
  <2>4. CASE FetchFails \/ Environment \/ UNCHANGED vars
    <3>1. loop' = loop
      BY <2>4 DEF FetchFails, Environment, Instances, ApplyUpdate, UpdateTakenElsewhere,
         CoreSends, JamChanges, Tick, vars
    <3> QED  BY <3>1 DEF Pending
  <2> QED  BY <2>1, <2>2, <2>3, <2>4 DEF Next, Loop, Environment
<1> QED  BY <1>1, <1>2 DEF Feed!vars

\* Every change of the set of active devices is announced by one message of its own,
\* published once, in the order decided, or lost with the list a failure cut,
\* although the messages are built before the set is replaced.
THEOREM FeedImplemented == Spec => ImplementsFeed
<1>1. Init => Feed!Init
  <2> SUFFICES ASSUME Init PROVE Feed!Init
    OBVIOUS
  <2>1. loop.states = <<>> /\ kpi = [u \in UIDs |-> <<>>] /\ activeDevices = {}
    BY SleepingType DEF Init
  <2>2. \A u, k : Pending(u, k) = 0
    <3>1. \A u, k : Places(loop.states, u, k) = {} /\ Cardinality(Places(loop.states, u, k)) = 0
      BY <2>1, NoPlaces
    <3> QED  BY <3>1 DEF Pending, Places
  <2>3. FeedKinds = Feed!Kinds
    BY DEF FeedKinds, Kinds, Feed!Kinds
  <2>4. Outbox = [u \in UIDs |-> [k \in Feed!Kinds |-> 0]]
    BY <2>2, <2>3 DEF Outbox
  <2>5. KindsSent = [u \in UIDs |-> <<>>]
    BY <2>1 DEF KindsSent
  <2>6. ActiveNow = [u \in UIDs |-> FALSE]
    <3>1. \A u \in UIDs : (u \in activeDevices) = FALSE
      BY <2>1
    <3> QED  BY <3>1, Zenon DEF ActiveNow
  <2> QED  BY <2>4, <2>5, <2>6 DEF Feed!Init, Outbox, KindsSent, ActiveNow, FeedKinds
<1>2. TypeOK /\ BuildInv /\ [Next]_vars => [Feed!Next]_(Feed!vars)
  BY FeedSwap, FeedPublished, FeedStutters
<1> QED
  BY <1>1, <1>2, InitBuildInv, NextBuildInv, TypeCorrect, PTL DEF Spec, ImplementsFeed, Feed!Spec
=============================================================================
