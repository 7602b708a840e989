-------------------------- MODULE NdicRuntimeProofs --------------------------
(***************************************************************************)
(* Theorems about NdicRuntime, for every set of segments, every sequence   *)
(* of publications and every value of the configuration.  They all argue   *)
(* about Log, what a segment's consumers have plus what the round under    *)
(* way has decided and not published yet: publishing a whole list leaves   *)
(* it as it is, and a list cut by a failure leaves a beginning of it.      *)
(***************************************************************************)
EXTENDS NdicRuntime, BatchesProofs

Log == Delivered(kpi, loop.states)

PCs == {"sleep", "next", "mark", "update", "close", "publish"}
Locals == [pc : PCs, wake : Int, pub : Publication \cup {NoPublication},
           todo : SUBSET UIDs, uid : UIDs, registrations : SUBSET UIDs,
           states : Seq(Message)]
Counters == [fetches : Nat, failures : Nat, sent : Nat, applied : Nat]

\* The variables are of their types; outside a round nothing is decided and not
\* published, in a round there is a publication.
TypeOK ==
  /\ now \in Nat
  /\ source \in Publication \cup {NoPublication}
  /\ instanceStates \in [UIDs -> InstanceState]
  /\ loop \in Locals
  /\ loop.pc = "sleep" => loop.states = <<>> /\ loop.registrations = {}
  /\ loop.pc # "sleep" => loop.pub \in Publication \ {NoPublication}
  /\ sdInstances \in SUBSET UIDs
  /\ kpi \in [UIDs -> Seq(Message)]
  /\ requests \in SUBSET UIDs
  /\ requested \in [UIDs -> Nat]
  /\ lost \in SUBSET UIDs
  /\ coreKnown \in SUBSET UIDs
  /\ updates \in Seq(SUBSET UIDs)
  /\ history \in [last : SUBSET UIDs, early : [1 .. MaxTime -> Nat]]
  /\ used \in Counters

-----------------------------------------------------------------------------
(* Inductive invariants *)

\* The core has heard of u, or a request for it failed.
Announced(u) == u \in coreKnown \/ requested[u] > 0 \/ u \in lost
ToBeAnnounced(u) == Announced(u) \/ u \in loop.registrations

\* What the loop takes for known, remembers as active or has decided on is
\* announced or will be in this round, before its states are published.
AnnounceInv ==
  /\ \A u \in sdInstances : ToBeAnnounced(u)
  /\ \A i \in DOMAIN updates : updates[i] \subseteq coreKnown
  /\ loop.pc \in {"mark", "update"} => ToBeAnnounced(loop.uid)
  /\ \A u \in UIDs : Log[u] # <<>> \/ instanceStates[u].active => ToBeAnnounced(u)
  /\ loop.pc \in {"close", "publish", "sleep"} => loop.registrations = {}
  /\ StatesAreAnnounced

\* A segment that was not seen is not active and has no message, decided or
\* published.
StartInv ==
  /\ \A u \in UIDs : instanceStates[u].active => instanceStates[u].seen
  /\ \A u \in UIDs : ~instanceStates[u].seen => Log[u] = <<>>
  /\ \A u \in UIDs : \A i \in DOMAIN Log[u] : Log[u][i].kind = "start" => i = 1

\* Once t was processed early, the loop is busy with t or a later publication,
\* sleeps until t is no longer early, or t is not early any more.
FreshInv ==
  \A t \in 1 .. MaxTime :
    /\ history.early[t] <= 1
    /\ history.early[t] = 1 =>
         \/ now >= t + FetchDelay
         \/ loop.pc = "sleep" /\ loop.wake >= t + FetchDelay
         \/ loop.pc # "sleep" /\ loop.pub.time >= t

\* The segments of the round become active one by one; then the others end.
Handled(u) == loop.pc \in {"mark", "update"} /\ u = loop.uid
RoundInv ==
  /\ loop.pc = "sleep" => \A u \in UIDs : instanceStates[u].active <=> u \in history.last
  /\ loop.pc # "sleep" =>
       /\ history.last = loop.pub.segments
       /\ loop.todo \subseteq loop.pub.segments
       /\ loop.pc \in {"mark", "update"} => loop.uid \in loop.pub.segments
       /\ \A u \in loop.pub.segments \ loop.todo : instanceStates[u].active \/ Handled(u)
  /\ loop.pc \in {"close", "publish"} => loop.todo = {}
  /\ loop.pc = "publish" =>
       \A u \in UIDs : instanceStates[u].active => u \in loop.pub.segments
\* Unless a list was cut, what the loop remembers is what the consumers were told last.
MirrorInv ==
  used.failures = 0 =>
    \A u \in UIDs : instanceStates[u].active <=>
                      Log[u] # <<>> /\ Log[u][Len(Log[u])].kind = "active"

\* Active states of u are not younger than t.
Until(u, t) == \A i \in DOMAIN Log[u] : Log[u][i].kind = "active" => Log[u][i].time <= t
\* The closing message of u in the round of p will be later than its active states.
Past(u, p) == u \in p.segments \/ \A i \in DOMAIN Log[u] :
                Log[u][i].kind = "active" => Log[u][i].time + Jitter < p.time

\* Nothing is younger than the source's publication, and what is still active is in
\* it or older than it by more than the jitter.
SourceTimes ==
  /\ source = NoPublication =>
       loop.pc = "sleep" /\ \A u \in UIDs : Log[u] = <<>> /\ ~instanceStates[u].active
  /\ source # NoPublication => \A u \in UIDs :
       Until(u, source.time) /\ (instanceStates[u].active => Past(u, source))
\* The same of the publication of the round, which the source may have replaced.
RoundTimes ==
  loop.pc # "sleep" =>
    /\ loop.pub = source \/ loop.pub.time + Jitter < source.time
    /\ \A u \in UIDs :
         Until(u, loop.pub.time) /\ (instanceStates[u].active => Past(u, loop.pub))
\* Unless a list was cut, what is not active was closed after its active states.
EndTimes ==
  used.failures = 0 => \A u \in UIDs : ~instanceStates[u].active =>
    \A i \in DOMAIN Log[u] : Log[u][i].kind = "active" =>
      \E j \in DOMAIN Log[u] :
        j > i /\ Log[u][j].kind = "close" /\ Log[u][j].time >= Log[u][i].time

-----------------------------------------------------------------------------
(* Types *)

LEMMA Addresses == Addressed(UIDs, Message)
  BY DEF Addressed, Message

LEMMA LogType == TypeOK => Log \in [UIDs -> Seq(Message)]
<1> SUFFICES ASSUME TypeOK PROVE Log \in [UIDs -> Seq(Message)]
  OBVIOUS
<1>1. kpi \in [UIDs -> Seq(Message)] /\ loop.states \in Seq(Message)
  BY DEF TypeOK, Locals
<1> QED  BY <1>1, Addresses, DeliveredType DEF Log

LEMMA SleepingType ==
  ASSUME NEW w \in Int
  PROVE  /\ Sleeping(w) \in Locals
         /\ Sleeping(w).pc = "sleep" /\ Sleeping(w).wake = w
         /\ Sleeping(w).states = <<>> /\ Sleeping(w).registrations = {}
<1>1. AnyUID \in UIDs
  BY ConstantsAssumption DEF ConstantsAssumption, AnyUID
<1>2. <<>> \in Seq(Message)
  BY EmptySeq
<1> QED  BY <1>1, <1>2 DEF Sleeping, Locals, PCs

LEMMA ReportType ==
  ASSUME NEW p \in Publication, NEW u \in UIDs
  PROVE  /\ p.time \in Nat /\ p.time \in 1 .. MaxTime /\ p.segments \in SUBSET UIDs
         /\ EventTime(p, u) \in Int
         /\ u \in p.segments => EventTime(p, u) <= p.time
<1>1. /\ p.time \in 1 .. MaxTime /\ p.segments \in SUBSET UIDs /\ p.event[u] \in 0 .. MaxTime
      /\ u \in p.segments => p.event[u] = 0 \/ p.time - p.event[u] \in Lags
  BY DEF Publication
<1>2. MaxTime \in Nat /\ Lags \subseteq Nat
  BY ConstantsAssumption DEF ConstantsAssumption
<1> QED  BY <1>1, <1>2 DEF EventTime

\* The messages of a segment that was in the publication.
Start(u, d) == [uid |-> u, kind |-> "start", time |-> StartedAt + d]
Report(p, u) == [uid |-> u, kind |-> "active", time |-> EventTime(p, u)]
Closing(u, d) == [uid |-> u, kind |-> "close", time |-> CloseTime + d[u]]

LEMMA MessageTypes ==
  ASSUME TypeOK, NEW u \in UIDs
  PROVE  /\ \A d \in Int : Start(u, d) \in Message
         /\ loop.pc # "sleep" => Report(loop.pub, u) \in Message
         /\ \A d \in [Missing -> Offsets] :
              loop.pc # "sleep" /\ u \in Missing => Closing(u, d) \in Message
<1>1. StartedAt \in Int /\ Jitter \in Nat
  BY ConstantsAssumption DEF ConstantsAssumption
<1>2. loop.pc # "sleep" => loop.pub \in Publication
  BY DEF TypeOK
<1>3. loop.pc # "sleep" => loop.pub.time \in Nat /\ EventTime(loop.pub, u) \in Int
  BY <1>2, ReportType
<1>4. ASSUME NEW d \in [Missing -> Offsets], u \in Missing PROVE d[u] \in Int
  BY <1>1, <1>4 DEF Offsets
<1> QED  BY <1>1, <1>3, <1>4 DEF Start, Report, Closing, CloseTime, Message, Kinds

LEMMA InitTypeOK == Init => TypeOK
<1> SUFFICES ASSUME Init PROVE TypeOK
  OBVIOUS
<1>1. {StartedAt, MaxTime} \subseteq Nat
  BY ConstantsAssumption DEF ConstantsAssumption
<1>2. loop \in Locals /\ loop.pc = "sleep" /\ loop.states = <<>> /\ loop.registrations = {}
  BY <1>1, SleepingType DEF Init
<1>3. <<>> \in Seq(Message) /\ <<>> \in Seq(SUBSET UIDs)
  BY EmptySeq
<1> QED  BY <1>1, <1>2, <1>3 DEF Init, TypeOK, InstanceState, Counters

\* One step of the loop, of each action what the other proofs need of it.
LEMMA SegmentStates ==
  ASSUME TypeOK, UpdateSegment
  PROVE  /\ loop.uid \in UIDs
         /\ \E d \in Int : loop'.states =
              IF NeedsStart(loop.uid)
              THEN Append(Append(loop.states, Start(loop.uid, d)), Report(loop.pub, loop.uid))
              ELSE Append(loop.states, Report(loop.pub, loop.uid))
<1> DEFINE u == loop.uid
<1>1. u \in UIDs /\ loop.states \in Seq(Message) /\ loop.pc # "sleep" /\ loop \in Locals
  BY DEF TypeOK, Locals, UpdateSegment
<1>2. PICK d \in IF NeedsStart(u) THEN Offsets ELSE {0} :
        loop' = [loop EXCEPT !.pc = "next", !.states = @
          \o (IF NeedsStart(u) THEN <<Start(u, d)>> ELSE <<>>) \o <<Report(loop.pub, u)>>]
  BY DEF UpdateSegment, Start, Report
<1>3. d \in Int
  BY <1>2, ConstantsAssumption DEF ConstantsAssumption, Offsets
<1>4. loop'.states = loop.states \o (IF NeedsStart(u) THEN <<Start(u, d)>> ELSE <<>>)
                                 \o <<Report(loop.pub, u)>>
  BY <1>1, <1>2 DEF Locals
<1>5. Start(u, d) \in Message /\ Report(loop.pub, u) \in Message
  BY <1>1, <1>3, MessageTypes
<1> HIDE DEF u
<1>6. loop.states \o <<>> = loop.states
  BY <1>1, ConcatEmptySeq
<1>7. /\ Append(loop.states, Start(u, d)) = loop.states \o <<Start(u, d)>>
      /\ Append(loop.states, Start(u, d)) \in Seq(Message)
  BY <1>1, <1>5, AppendIsConcat, AppendProperties
<1>8. /\ Append(loop.states, Report(loop.pub, u)) = loop.states \o <<Report(loop.pub, u)>>
      /\ Append(Append(loop.states, Start(u, d)), Report(loop.pub, u)) =
           Append(loop.states, Start(u, d)) \o <<Report(loop.pub, u)>>
  BY <1>1, <1>5, <1>7, AppendIsConcat
<1>9. CASE NeedsStart(u)
  BY <1>1, <1>3, <1>4, <1>7, <1>8, <1>9 DEF u
<1>10. CASE ~NeedsStart(u)
  BY <1>1, <1>3, <1>4, <1>6, <1>8, <1>10 DEF u
<1> QED  BY <1>9, <1>10

\* The closing messages are for the missing segments, one for each.
LEMMA ClosingStates ==
  ASSUME TypeOK, CloseMissing
  PROVE  \E last \in Seq(Message), d \in [Missing -> Offsets] :
           /\ loop' = [loop EXCEPT !.pc = "publish", !.states = @ \o last]
           /\ OnePerInstance(last)
           /\ \A i \in DOMAIN last : last[i].uid \in Missing /\ last[i] = Closing(last[i].uid, d)
           /\ \A u \in Missing : \E i \in DOMAIN last : last[i].uid = u
<1>1. PICK order \in SetToSeqs(Missing), d \in [Missing -> Offsets] :
        loop' = [loop EXCEPT !.pc = "publish", !.states = @ \o
                   [i \in DOMAIN order |-> [uid |-> order[i], kind |-> "close",
                                            time |-> CloseTime + d[order[i]]]]]
  BY DEF CloseMissing
<1> DEFINE last == [i \in DOMAIN order |-> [uid |-> order[i], kind |-> "close",
                                            time |-> CloseTime + d[order[i]]]]
<1>2. IsFiniteSet(Missing) /\ Missing \subseteq UIDs
  <2>1. Missing \subseteq UIDs
    BY DEF Missing
  <2> QED  BY <2>1, ConstantsAssumption, FS_Subset DEF ConstantsAssumption
<1>3. /\ order \in Seq(Missing) /\ DOMAIN order = 1 .. Len(order) /\ Len(order) \in Nat
      /\ \A i, j \in DOMAIN order : i # j => order[i] # order[j]
      /\ \A x \in Missing : \E i \in DOMAIN order : order[i] = x
  BY <1>2, EachOnce, LenProperties
<1>4. \A i \in DOMAIN order : order[i] \in Missing
  BY <1>3, ElementOfSeq
<1>5. \A i \in DOMAIN last : last[i] = Closing(order[i], d)
  BY DEF Closing
<1>6. \A i \in DOMAIN last : last[i].uid = order[i]
  OBVIOUS
<1>7. DOMAIN last = 1 .. Len(order)
  BY <1>3
<1>8. \A i \in DOMAIN last : last[i] \in Message
  BY <1>2, <1>4, <1>5, MessageTypes DEF CloseMissing
<1>9. loop' = [loop EXCEPT !.pc = "publish", !.states = @ \o last]
  BY <1>1
<1>10. last \in [1 .. Len(order) -> Message]
  BY <1>7, <1>8
<1> HIDE DEF last
<1>11. last \in Seq(Message)
  BY <1>3, <1>10
<1>12. OnePerInstance(last)
  BY <1>3, <1>6, <1>7 DEF OnePerInstance
<1>13. \A i \in DOMAIN last : last[i].uid \in Missing /\ last[i] = Closing(last[i].uid, d)
  BY <1>3, <1>4, <1>5, <1>6, <1>7
<1>14. \A u \in Missing : \E i \in DOMAIN last : last[i].uid = u
  BY <1>3, <1>6, <1>7
<1> QED  BY <1>9, <1>11, <1>12, <1>13, <1>14

LEMMA WakeType ==
  ASSUME TypeOK
  PROVE  /\ Wake(NoPublication) \in Int
         /\ loop.pc # "sleep" => /\ Wake(loop.pub) \in Int
                                 /\ Wake(loop.pub) >= loop.pub.time + FetchDelay
<1>1. FetchDelay \in Nat /\ now \in Nat
  BY ConstantsAssumption DEF ConstantsAssumption, TypeOK
<1>2. loop.pc # "sleep" => loop.pub.time \in Nat /\ loop.pub # NoPublication
  <2>1. loop.pc # "sleep" => loop.pub \in Publication /\ loop.pub # NoPublication
    BY DEF TypeOK
  <2>2. AnyUID \in UIDs
    BY ConstantsAssumption DEF ConstantsAssumption, AnyUID
  <2> QED  BY <2>1, <2>2, ReportType
<1> QED  BY <1>1, <1>2 DEF Wake

LEMMA LoopType == TypeOK /\ Loop => TypeOK'
<1> SUFFICES ASSUME TypeOK, Loop PROVE TypeOK'
  OBVIOUS
<1> USE DEF coreVars
<1>0. /\ loop \in Locals /\ loop.pc \in PCs /\ loop.pub \in Publication \cup {NoPublication}
      /\ loop.todo \in SUBSET UIDs /\ loop.uid \in UIDs /\ loop.registrations \in SUBSET UIDs
      /\ loop.states \in Seq(Message) /\ kpi \in [UIDs -> Seq(Message)]
  BY DEF TypeOK, Locals
<1>9. used \in Counters /\ used.fetches \in Nat /\ used.failures \in Nat
  BY DEF TypeOK, Counters
<1>11. /\ history \in [last : SUBSET UIDs, early : [1 .. MaxTime -> Nat]]
       /\ history.early \in [1 .. MaxTime -> Nat]
  BY DEF TypeOK
<1>10. Fail => used' \in Counters
  BY <1>9 DEF Fail, Counters
<1>1. CASE FetchFails
  <2>1. /\ loop' \in Locals /\ loop'.pc = "sleep" /\ loop'.states = <<>>
        /\ loop'.registrations = {}
    BY <1>1, WakeType, SleepingType DEF FetchFails
  <2>2. used' \in Counters
    <3> DEFINE e == used.fetches + 1
               f == IF source = NoPublication THEN used.failures ELSE used.failures + 1
    <3>1. used' = [used EXCEPT !.fetches = e, !.failures = f]
      BY <1>1 DEF FetchFails
    <3>2. e \in Nat /\ f \in Nat
      BY <1>9
    <3> HIDE DEF e, f
    <3> QED  BY <1>9, <3>1, <3>2 DEF Counters
  <2> QED  BY <1>1, <2>1, <2>2 DEF FetchFails, TypeOK
<1>2. CASE Fetch
  <2>1. source \in Publication \ {NoPublication}
    BY <1>2 DEF Fetch, TypeOK
  <2>2. source.time \in 1 .. MaxTime /\ source.segments \in SUBSET UIDs
    BY <1>0, <2>1, ReportType
  <2>3. loop' \in Locals /\ loop'.pc = "next" /\ loop'.pub = source
    BY <1>0, <1>2, <2>1, <2>2 DEF Fetch, Locals, PCs
  <2>4. used' \in Counters
    BY <1>2, <1>9 DEF Fetch, Counters
  <2>5. history' \in [last : SUBSET UIDs, early : [1 .. MaxTime -> Nat]]
    <3> DEFINE n == IF now < source.time + FetchDelay THEN history.early[source.time] + 1
                    ELSE history.early[source.time]
    <3>1. history' = [history EXCEPT !.last = source.segments, !.early[source.time] = n]
      BY <1>2 DEF Fetch
    <3>2. n \in Nat
      <4>1. history.early[source.time] \in Nat
        BY <1>11, <2>2
      <4> QED  BY <4>1
    <3> HIDE DEF n
    <3> QED  BY <1>11, <2>2, <3>1, <3>2
  <2> QED  BY <1>2, <2>1, <2>3, <2>4, <2>5 DEF Fetch, TypeOK
<1>3. ASSUME NEW u \in UIDs, CheckSegment(u) PROVE TypeOK'
  <2>1. loop' \in Locals /\ loop'.pc # "sleep" /\ loop'.pub = loop.pub
    BY <1>0, <1>3 DEF CheckSegment, Locals, PCs
  <2> QED  BY <1>3, <2>1 DEF CheckSegment, TypeOK
<1>4. CASE MarkRegistered
  <2>1. loop' \in Locals /\ loop'.pc # "sleep" /\ loop'.pub = loop.pub
    BY <1>0, <1>4 DEF MarkRegistered, Locals, PCs
  <2> QED  BY <1>0, <1>4, <2>1 DEF MarkRegistered, TypeOK
<1>5. CASE UpdateSegment
  <2>1. loop'.states \in Seq(Message)
    <3>1. PICK d \in Int : loop'.states =
            IF NeedsStart(loop.uid)
            THEN Append(Append(loop.states, Start(loop.uid, d)), Report(loop.pub, loop.uid))
            ELSE Append(loop.states, Report(loop.pub, loop.uid))
      BY <1>5, SegmentStates
    <3>2. Start(loop.uid, d) \in Message /\ Report(loop.pub, loop.uid) \in Message
      BY <1>0, <1>5, MessageTypes DEF UpdateSegment
    <3> QED  BY <1>0, <3>1, <3>2, AppendProperties
  <2>2. \E s : loop' = [loop EXCEPT !.pc = "next", !.states = s]
    BY <1>0, <1>5 DEF UpdateSegment, Locals
  <2>3. loop' \in Locals /\ loop'.pc # "sleep" /\ loop'.pub = loop.pub
    BY <1>0, <2>1, <2>2 DEF Locals, PCs
  <2>4. instanceStates' \in [UIDs -> InstanceState]
    BY <1>5 DEF UpdateSegment, TypeOK, InstanceState
  <2> QED  BY <1>5, <2>3, <2>4 DEF UpdateSegment, TypeOK
<1>6. CASE PublishRegistrations
  <2>1. loop' \in Locals /\ loop'.pc # "sleep" /\ loop'.pub = loop.pub
    BY <1>0, <1>6 DEF PublishRegistrations, Locals, PCs
  <2>2. PICK S \in SUBSET UIDs : Request(S)
    BY <1>0, <1>6 DEF PublishRegistrations
  <2>3. requests' \in SUBSET UIDs /\ requested' \in [UIDs -> Nat]
    BY <2>2 DEF Request, TypeOK
  <2>4. lost' \in SUBSET UIDs /\ used' \in Counters
    <3>1. (used' = used \/ Fail) /\ \E S1 \in SUBSET loop.registrations :
            lost' = lost \/ lost' = lost \cup (loop.registrations \ S1)
      BY <1>6 DEF PublishRegistrations
    <3>2. lost \in SUBSET UIDs
      BY DEF TypeOK
    <3> QED  BY <1>0, <1>9, <1>10, <3>1, <3>2
  <2> QED  BY <1>6, <2>1, <2>3, <2>4 DEF PublishRegistrations, TypeOK
<1>7. CASE CloseMissing
  <2>1. PICK last \in Seq(Message) :
          loop' = [loop EXCEPT !.pc = "publish", !.states = @ \o last]
    BY <1>7, ClosingStates
  <2>2. loop.states \o last \in Seq(Message)
    BY <1>0, ConcatProperties
  <2>3. loop' \in Locals /\ loop'.pc # "sleep" /\ loop'.pub = loop.pub
    BY <1>0, <2>1, <2>2 DEF Locals, PCs
  <2>4. instanceStates' \in [UIDs -> InstanceState]
    <3>1. \A u \in UIDs : /\ instanceStates[u] \in InstanceState
                          /\ [instanceStates[u] EXCEPT !.active = FALSE] \in InstanceState
      BY DEF TypeOK, InstanceState
    <3> QED  BY <1>7, <3>1 DEF CloseMissing
  <2> QED  BY <1>7, <2>3, <2>4 DEF CloseMissing, TypeOK
<1>8. CASE PublishStates
  <2>1. /\ loop' \in Locals /\ loop'.pc = "sleep" /\ loop'.states = <<>>
        /\ loop'.registrations = {}
    BY <1>8, WakeType, SleepingType DEF PublishStates
  <2>2. used' \in Counters
    BY <1>8, <1>9, <1>10 DEF PublishStates
  <2>3. \A n \in 0 .. Len(loop.states) : Published(n) \in [UIDs -> Seq(Message)]
    <3> TAKE n \in 0 .. Len(loop.states)
    <3>1. SubSeq(loop.states, 1, n) \in Seq(Message)
      <4>1. Len(loop.states) \in Nat
        BY <1>0, LenProperties
      <4>2. \A i \in 1 .. n : loop.states[i] \in Message
        BY <1>0, <4>1, ElementOfSeq
      <4> QED  BY <4>1, <4>2, SubSeqProperties
    <3> QED  BY <1>0, <3>1, Addresses, DeliveredType DEF Published
  <2>4. kpi' \in [UIDs -> Seq(Message)]
    <3>1. Len(loop.states) \in Nat
      BY <1>0, LenProperties
    <3>2. FailedPrefixes(Len(loop.states), BatchLimit) \subseteq 0 .. Len(loop.states)
      BY <3>1 DEF FailedPrefixes
    <3> QED  BY <1>8, <2>3, <3>1, <3>2 DEF PublishStates
  <2> QED  BY <1>8, <2>1, <2>2, <2>4 DEF PublishStates, TypeOK
<1> QED  BY <1>1, <1>2, <1>3, <1>4, <1>5, <1>6, <1>7, <1>8 DEF Loop

LEMMA OthersType ==
  TypeOK /\ (Instances \/ (\E p \in Publication : NewPublication(p)) \/ Tick) => TypeOK'
<1> SUFFICES ASSUME TypeOK, Instances \/ (\E p \in Publication : NewPublication(p)) \/ Tick
             PROVE  TypeOK'
  OBVIOUS
<1> USE DEF coreVars
<1>0. updates \in Seq(SUBSET UIDs) /\ used \in Counters
  BY DEF TypeOK
<1>1. CASE ApplyUpdate
  <2>1. Head(updates) \in SUBSET UIDs /\ Tail(updates) \in Seq(SUBSET UIDs)
    BY <1>0, <1>1, HeadTailProperties DEF ApplyUpdate
  <2>2. used' \in Counters
    BY <1>0, <1>1 DEF ApplyUpdate, Counters
  <2> QED  BY <1>1, <2>1, <2>2 DEF ApplyUpdate, TypeOK
<1>2. CASE UpdateTakenElsewhere
  <2>1. Tail(updates) \in Seq(SUBSET UIDs)
    BY <1>0, <1>2, HeadTailProperties DEF UpdateTakenElsewhere
  <2> QED  BY <1>2, <2>1 DEF UpdateTakenElsewhere, TypeOK
<1>3. ASSUME NEW S \in SUBSET UIDs, CoreSends(S) PROVE TypeOK'
  <2>1. coreKnown' \in SUBSET UIDs /\ requests' \in SUBSET UIDs
    BY <1>3 DEF CoreSends, TypeOK
  <2>2. updates' \in Seq(SUBSET UIDs)
    BY <1>0, <1>3, <2>1, AppendProperties DEF CoreSends
  <2>3. used' \in Counters
    BY <1>0, <1>3 DEF CoreSends, Counters
  <2> QED  BY <1>3, <2>1, <2>2, <2>3 DEF CoreSends, TypeOK
<1>4. ASSUME NEW p \in Publication, NewPublication(p) PROVE TypeOK'
  BY <1>4 DEF NewPublication, TypeOK
<1>5. CASE Tick
  BY <1>5 DEF Tick, TypeOK
<1> QED  BY <1>1, <1>2, <1>3, <1>4, <1>5 DEF Instances

LEMMA NextTypeOK == TypeOK /\ [Next]_vars => TypeOK'
<1>1. TypeOK /\ UNCHANGED vars => TypeOK'
  BY DEF TypeOK, vars, coreVars
<1> QED  BY <1>1, LoopType, OthersType DEF Next

\* The variables keep their types, and the loop its discipline: nothing decided
\* is left over between two rounds, and a round has a publication.
THEOREM TypeCorrect == Spec => []TypeOK
  BY InitTypeOK, NextTypeOK, PTL DEF Spec

-----------------------------------------------------------------------------
(* Log *)

LEMMA SameLog == kpi' = kpi /\ loop'.states = loop.states => Log' = Log
  BY DEF Log

LEMMA SegmentLog ==
  ASSUME TypeOK, UpdateSegment
  PROVE  \E d \in Int : Log' = [Log EXCEPT ![loop.uid] =
           IF NeedsStart(loop.uid)
           THEN Append(Append(@, Start(loop.uid, d)), Report(loop.pub, loop.uid))
           ELSE Append(@, Report(loop.pub, loop.uid))]
<1> DEFINE u == loop.uid
           r == Report(loop.pub, u)
<1>1. PICK d \in Int : loop'.states = IF NeedsStart(u)
                                      THEN Append(Append(loop.states, Start(u, d)), r)
                                      ELSE Append(loop.states, r)
  BY SegmentStates
<1> DEFINE s == Start(u, d)
<1>2. u \in UIDs /\ loop.states \in Seq(Message) /\ kpi' = kpi /\ loop.pc # "sleep"
  BY DEF TypeOK, Locals, UpdateSegment
<1>3. s \in Message /\ r \in Message /\ s.uid = u /\ r.uid = u
  BY <1>2, MessageTypes DEF Start, Report
<1>4. Log' = Delivered(kpi, loop'.states)
  BY <1>2 DEF Log
<1>5. Log \in [UIDs -> Seq(Message)]
  BY LogType
<1> DEFINE longer == Append(loop.states, s)
<1> HIDE DEF u, r, s, longer
<1>6. longer \in Seq(Message)
  BY <1>2, <1>3, AppendProperties DEF longer
<1>7. Delivered(kpi, longer) = [Log EXCEPT ![u] = Append(@, s)]
  <2>1. Delivered(kpi, longer) = [Log EXCEPT ![s.uid] = Append(@, s)]
    <3> DEFINE list == loop.states
    <3> HIDE DEF list
    <3>1. list \in Seq(Message) /\ s \in Message
      BY <1>2, <1>3 DEF list
    <3>2. Delivered(kpi, Append(list, s)) = [Delivered(kpi, list) EXCEPT ![s.uid] = Append(@, s)]
      BY <3>1, DeliveredAppend
    <3> QED  BY <3>2 DEF longer, Log, list
  <2> QED  BY <1>3, <2>1
<1>8. Delivered(kpi, Append(longer, r)) = [Delivered(kpi, longer) EXCEPT ![u] = Append(@, r)]
  BY <1>3, <1>6, DeliveredAppend
<1>9. Delivered(kpi, Append(loop.states, r)) = [Log EXCEPT ![u] = Append(@, r)]
  <2>1. Delivered(kpi, Append(loop.states, r)) = [Log EXCEPT ![r.uid] = Append(@, r)]
    <3> DEFINE list == loop.states
    <3> HIDE DEF list
    <3>1. list \in Seq(Message) /\ r \in Message
      BY <1>2, <1>3 DEF list
    <3>2. Delivered(kpi, Append(list, r)) = [Delivered(kpi, list) EXCEPT ![r.uid] = Append(@, r)]
      BY <3>1, DeliveredAppend
    <3> QED  BY <3>2 DEF Log, list
  <2> QED  BY <1>3, <2>1
<1>10. CASE NeedsStart(u)
  <2>1. Log' = [Log EXCEPT ![u] = Append(Append(@, s), r)]
    BY <1>1, <1>2, <1>4, <1>5, <1>7, <1>8, <1>10 DEF longer, s
  <2> QED  BY <1>10, <2>1 DEF u, r, s
<1>11. CASE ~NeedsStart(u)
  BY <1>1, <1>4, <1>9, <1>11 DEF u, r
<1> QED  BY <1>10, <1>11

LEMMA ClosingLog ==
  ASSUME TypeOK, CloseMissing
  PROVE  \E d \in [Missing -> Offsets] : \A u \in UIDs :
           Log'[u] = IF u \in Missing THEN Append(Log[u], Closing(u, d)) ELSE Log[u]
<1>1. PICK last \in Seq(Message), d \in [Missing -> Offsets] :
        /\ loop' = [loop EXCEPT !.pc = "publish", !.states = @ \o last]
        /\ OnePerInstance(last)
        /\ \A i \in DOMAIN last : last[i].uid \in Missing /\ last[i] = Closing(last[i].uid, d)
        /\ \A u \in Missing : \E i \in DOMAIN last : last[i].uid = u
  BY ClosingStates
<1>2. /\ loop.states \in Seq(Message) /\ kpi \in [UIDs -> Seq(Message)] /\ loop \in Locals
      /\ kpi' = kpi
  BY DEF TypeOK, Locals, CloseMissing
<1>3. Log' = Delivered(kpi, loop.states \o last)
  BY <1>1, <1>2 DEF Log, Locals
<1> DEFINE list == loop.states
<1> HIDE DEF list
<1>6. /\ \A i \in DOMAIN last :
           Delivered(kpi, list \o last)[last[i].uid] =
             Append(Delivered(kpi, list)[last[i].uid], last[i])
      /\ \A u \in UIDs : (\A i \in DOMAIN last : last[i].uid # u) =>
           Delivered(kpi, list \o last)[u] = Delivered(kpi, list)[u]
  <2>1. list \in Seq(Message) /\ kpi \in [UIDs -> Seq(Message)] /\ OnePerInstance(last)
    BY <1>1, <1>2 DEF list
  <2> QED  BY <2>1, Addresses, DeliveredOnce
<1>4. /\ \A i \in DOMAIN last : Log'[last[i].uid] = Append(Log[last[i].uid], last[i])
      /\ \A u \in UIDs : (\A i \in DOMAIN last : last[i].uid # u) => Log'[u] = Log[u]
  BY <1>3, <1>6 DEF Log, list
<1>5. ASSUME NEW u \in UIDs
      PROVE  Log'[u] = IF u \in Missing THEN Append(Log[u], Closing(u, d)) ELSE Log[u]
  <2>1. CASE u \in Missing
    <3>1. PICK i \in DOMAIN last : last[i].uid = u
      BY <1>1, <2>1
    <3>2. last[i] = Closing(u, d) /\ Log'[u] = Append(Log[u], last[i])
      BY <1>1, <1>4, <3>1
    <3> QED  BY <2>1, <3>2
  <2>2. CASE u \notin Missing
    <3>1. \A i \in DOMAIN last : last[i].uid # u
      BY <1>1, <2>2
    <3> QED  BY <1>4, <2>2, <3>1
  <2> QED  BY <2>1, <2>2
<1> QED  BY <1>5

LEMMA PublishedLog ==
  ASSUME TypeOK, PublishStates
  PROVE  /\ Log' = kpi' /\ loop'.pc = "sleep" /\ loop'.registrations = {}
         /\ loop'.wake = Wake(loop.pub)
         /\ \A u \in UIDs : Begins(Log'[u], Log[u])
         /\ used'.failures = 0 => Log' = Log /\ used' = used
<1>1. loop' = Sleeping(Wake(loop.pub)) /\ loop.pc # "sleep"
  BY DEF PublishStates
<1>2. loop'.pc = "sleep" /\ loop'.registrations = {} /\ loop'.states = <<>>
      /\ loop'.wake = Wake(loop.pub)
  BY <1>1, SleepingType, WakeType
<1>3. Log' = kpi'
  BY <1>2, DeliveredEmpty DEF Log
<1>4. loop.states \in Seq(Message) /\ Len(loop.states) \in Nat /\ used \in Counters
      /\ kpi \in [UIDs -> Seq(Message)]
  BY LenProperties DEF TypeOK, Locals
<1>5. Published(Len(loop.states)) = Log
  BY <1>4, SubSeqFull DEF Published, Log
<1>6. FailedPrefixes(Len(loop.states), BatchLimit) \subseteq 0 .. Len(loop.states)
  BY <1>4 DEF FailedPrefixes
<1>7. \A n \in 0 .. Len(loop.states) : \A u \in UIDs : Begins(Published(n)[u], Log[u])
  BY <1>4, Addresses, DeliveredBegins DEF Published, Log
<1>8. Fail => used'.failures # 0
  BY <1>4 DEF Fail, Counters
<1>9. Len(loop.states) \in 0 .. Len(loop.states)
  BY <1>4
<1>10. CASE kpi' = Published(Len(loop.states)) /\ UNCHANGED used
  BY <1>2, <1>3, <1>5, <1>7, <1>9, <1>10
<1>11. CASE Fail /\ \E n \in FailedPrefixes(Len(loop.states), BatchLimit) : kpi' = Published(n)
  BY <1>2, <1>3, <1>6, <1>7, <1>8, <1>11
<1> QED  BY <1>10, <1>11 DEF PublishStates

\* What was published is how Log begins.
LEMMA PublishedBegins == ASSUME TypeOK, NEW u \in UIDs PROVE Begins(kpi[u], Log[u])
<1>1. /\ kpi \in [UIDs -> Seq(Message)] /\ loop.states \in Seq(Message)
      /\ Len(loop.states) \in Nat
  BY LenProperties DEF TypeOK, Locals
<1>2. Begins(Delivered(kpi, SubSeq(loop.states, 1, 0))[u], Log[u])
  BY <1>1, Addresses, DeliveredBegins DEF Log
<1>3. SubSeq(loop.states, 1, 0) = <<>>
  BY <1>1, SubSeqEmpty
<1> QED  BY <1>2, <1>3, DeliveredEmpty

-----------------------------------------------------------------------------
(* Segments are announced before their states *)

LEMMA InitAnnounceInv == Init => AnnounceInv
<1> SUFFICES ASSUME Init PROVE AnnounceInv
  OBVIOUS
<1>1. loop.pc = "sleep" /\ loop.registrations = {} /\ loop.states = <<>>
  BY DEF Init, Sleeping
<1>2. Log = [u \in UIDs |-> <<>>]
  BY <1>1, DeliveredEmpty DEF Init, Log
<1> QED  BY <1>1, <1>2 DEF Init, AnnounceInv, StatesAreAnnounced

\* An announcement is not taken back.
LEMMA AnnouncedForGood ==
  ASSUME TypeOK, [Next]_vars, NEW u \in UIDs, Announced(u)
  PROVE  Announced(u)'
<1>1. requested \in [UIDs -> Nat]
  BY DEF TypeOK
<1>2. CASE PublishRegistrations
  <2>1. coreKnown' = coreKnown /\ lost \subseteq lost'
    BY <1>2 DEF PublishRegistrations
  <2>2. \E S : requested' = [v \in UIDs |-> IF v \in S THEN requested[v] + 1 ELSE requested[v]]
    BY <1>2 DEF PublishRegistrations, Request
  <2>3. requested[u] > 0 => requested'[u] > 0
    BY <1>1, <2>2
  <2> QED  BY <2>1, <2>3 DEF Announced
<1>3. CASE ~PublishRegistrations
  <2>1. coreKnown \subseteq coreKnown' /\ lost' = lost /\ requested' = requested
    BY <1>3 DEF Next, vars, coreVars, Loop, Instances, FetchFails, Fetch, CheckSegment,
       MarkRegistered, UpdateSegment, CloseMissing, PublishStates, ApplyUpdate,
       UpdateTakenElsewhere, CoreSends, NewPublication, Tick
  <2> QED  BY <2>1 DEF Announced
<1> QED  BY <1>2, <1>3

LEMMA NextAnnounceInv == TypeOK /\ AnnounceInv /\ [Next]_vars => AnnounceInv'
<1> SUFFICES ASSUME TypeOK, AnnounceInv, [Next]_vars PROVE AnnounceInv'
  OBVIOUS
<1> USE DEF coreVars
<1>0. /\ loop \in Locals /\ loop.uid \in UIDs /\ loop.registrations \in SUBSET UIDs
      /\ loop.todo \in SUBSET UIDs /\ sdInstances \in SUBSET UIDs
      /\ Log \in [UIDs -> Seq(Message)]
  BY LogType DEF TypeOK, Locals
<1>01. \A u \in UIDs : Announced(u) => Announced(u)'
  BY AnnouncedForGood
<1>1. CASE FetchFails
  <2>1. loop' = Sleeping(Wake(NoPublication)) /\ loop.registrations = {} /\ loop.states = <<>>
    BY <1>1 DEF FetchFails, Awake, TypeOK
  <2>2. loop'.pc = "sleep" /\ loop'.registrations = {} /\ loop'.states = <<>>
    BY <2>1, WakeType, SleepingType
  <2>3. Log' = Log
    BY <1>1, <2>1, <2>2, SameLog DEF FetchFails
  <2> QED
    BY <1>1, <2>1, <2>2, <2>3 DEF FetchFails, AnnounceInv, StatesAreAnnounced, Announced,
       ToBeAnnounced
<1>2. CASE Fetch
  <2>1. /\ loop.pc = "sleep" /\ loop'.pc = "next" /\ loop'.registrations = loop.registrations
        /\ loop'.states = loop.states /\ loop'.uid = loop.uid
    BY <1>0, <1>2 DEF Fetch, Awake, Locals
  <2>2. Log' = Log
    BY <1>2, <2>1, SameLog DEF Fetch
  <2> QED
    BY <1>2, <2>1, <2>2 DEF Fetch, AnnounceInv, StatesAreAnnounced, Announced, ToBeAnnounced
<1>3. ASSUME NEW u \in UIDs, CheckSegment(u) PROVE AnnounceInv'
  <2>1. /\ loop.pc = "next" /\ loop'.states = loop.states /\ loop'.uid = u
        /\ loop'.pc = IF u \in sdInstances THEN "update" ELSE "mark"
        /\ loop'.registrations = IF u \in sdInstances THEN loop.registrations
                                 ELSE loop.registrations \cup {u}
    BY <1>0, <1>3 DEF CheckSegment, Locals
  <2>2. Log' = Log
    BY <1>3, <2>1, SameLog DEF CheckSegment
  <2>3. \A v \in UIDs : ToBeAnnounced(v) => ToBeAnnounced(v)'
    BY <1>3, <2>1 DEF CheckSegment, Announced, ToBeAnnounced
  <2>4. ToBeAnnounced(u)'
    BY <1>3, <2>1, <2>3 DEF AnnounceInv, ToBeAnnounced
  <2> QED
    BY <1>0, <1>3, <2>1, <2>2, <2>3, <2>4 DEF CheckSegment, AnnounceInv, StatesAreAnnounced,
       Announced
<1>4. CASE MarkRegistered
  <2>1. /\ loop'.states = loop.states /\ loop'.uid = loop.uid /\ loop.pc = "mark"
        /\ loop'.pc = "update" /\ loop'.registrations = loop.registrations
    BY <1>0, <1>4 DEF MarkRegistered, Locals
  <2>2. Log' = Log
    BY <1>4, <2>1, SameLog DEF MarkRegistered
  <2>3. \A v \in UIDs : ToBeAnnounced(v) => ToBeAnnounced(v)'
    BY <1>4, <2>1 DEF MarkRegistered, Announced, ToBeAnnounced
  <2> QED
    BY <1>0, <1>4, <2>1, <2>2, <2>3 DEF MarkRegistered, AnnounceInv, StatesAreAnnounced,
       Announced
<1>5. CASE UpdateSegment
  <2>1. /\ loop'.uid = loop.uid /\ loop.pc = "update" /\ loop'.pc = "next"
        /\ loop'.registrations = loop.registrations
    BY <1>0, <1>5 DEF UpdateSegment, Locals
  <2>2. \A v \in UIDs : v # loop.uid => Log'[v] = Log[v]
    <3>1. PICK d \in Int : Log' = [Log EXCEPT ![loop.uid] =
            IF NeedsStart(loop.uid)
            THEN Append(Append(@, Start(loop.uid, d)), Report(loop.pub, loop.uid))
            ELSE Append(@, Report(loop.pub, loop.uid))]
      BY <1>5, SegmentLog
    <3> QED  BY <1>0, <3>1
  <2>3. \A v \in UIDs : ToBeAnnounced(v) => ToBeAnnounced(v)'
    BY <1>5, <2>1 DEF UpdateSegment, Announced, ToBeAnnounced
  <2>4. \A v \in UIDs : v # loop.uid =>
          instanceStates'[v].active = instanceStates[v].active
    BY <1>5 DEF UpdateSegment, TypeOK
  <2> QED
    BY <1>0, <1>5, <2>1, <2>2, <2>3, <2>4 DEF UpdateSegment, AnnounceInv,
       StatesAreAnnounced, Announced
<1>6. CASE PublishRegistrations
  <2>1. /\ loop'.states = loop.states /\ loop'.pc = "close" /\ loop'.registrations = {}
    BY <1>0, <1>6 DEF PublishRegistrations, Locals
  <2>2. Log' = Log
    BY <1>6, <2>1, SameLog DEF PublishRegistrations
  <2>3. \A v \in loop.registrations : Announced(v)'
    <3>1. requested \in [UIDs -> Nat]
      BY DEF TypeOK
    <3> QED  BY <1>0, <1>6, <3>1 DEF PublishRegistrations, Request, Announced
  <2>4. \A v \in UIDs : ToBeAnnounced(v) => ToBeAnnounced(v)'
    BY <1>01, <2>3 DEF ToBeAnnounced
  <2> QED
    BY <1>0, <1>01, <1>6, <2>1, <2>2, <2>4 DEF PublishRegistrations, AnnounceInv,
       StatesAreAnnounced, Announced
<1>7. CASE CloseMissing
  <2>1. /\ loop.pc = "close" /\ loop'.pc = "publish" /\ loop'.registrations = loop.registrations
    BY <1>0, <1>7, ClosingStates DEF CloseMissing, Locals
  <2>2. \A v \in UIDs : Log'[v] # <<>> => Log[v] # <<>> \/ instanceStates[v].active
    BY <1>7, ClosingLog DEF Missing
  <2>3. \A v \in UIDs : instanceStates'[v].active => instanceStates[v].active
    BY <1>7 DEF CloseMissing, TypeOK, InstanceState
  <2>4. \A v \in UIDs : ToBeAnnounced(v)' <=> ToBeAnnounced(v)
    BY <1>7, <2>1 DEF CloseMissing, Announced, ToBeAnnounced
  <2> QED
    BY <1>0, <1>7, <2>1, <2>2, <2>3, <2>4 DEF CloseMissing, AnnounceInv, StatesAreAnnounced,
       Announced
<1>8. CASE PublishStates
  <2>1. /\ Log' = kpi' /\ loop'.pc = "sleep" /\ loop'.registrations = {}
        /\ loop.pc = "publish"
    BY <1>8, PublishedLog DEF PublishStates
  <2>2. \A v \in UIDs : Log'[v] # <<>> => Log[v] # <<>>
    <3> SUFFICES ASSUME NEW v \in UIDs, Log[v] = <<>> PROVE Log'[v] = <<>>
      OBVIOUS
    <3>1. Log'[v] \in Seq(Message)
      <4>1. TypeOK'
        BY NextTypeOK
      <4> QED  BY <2>1, <4>1 DEF TypeOK
    <3>2. Begins(Log'[v], Log[v])
      BY <1>8, PublishedLog
    <3> QED  BY <3>1, <3>2, EmptySeq, LenProperties DEF Begins
  <2>3. \A v \in UIDs : ToBeAnnounced(v)' <=> Announced(v)
    BY <1>8, <2>1 DEF PublishStates, Announced, ToBeAnnounced
  <2>4. loop.registrations = {}
    BY <2>1 DEF AnnounceInv
  <2> QED
    BY <1>0, <1>8, <2>1, <2>2, <2>3, <2>4 DEF PublishStates, AnnounceInv, StatesAreAnnounced,
       Announced, ToBeAnnounced
<1>9. CASE ApplyUpdate
  <2>0. updates \in Seq(SUBSET UIDs) /\ updates # <<>>
    BY <1>9 DEF TypeOK, ApplyUpdate
  <2>1. 1 \in DOMAIN updates /\ Head(updates) = updates[1]
    BY <2>0, EmptySeq, LenProperties, HeadTailProperties
  <2>2. Len(updates) \in Nat /\ DOMAIN updates = 1 .. Len(updates)
        /\ Tail(updates) \in Seq(SUBSET UIDs) /\ Len(Tail(updates)) = Len(updates) - 1
        /\ \A i \in 1 .. Len(Tail(updates)) : Tail(updates)[i] = updates[i + 1]
    BY <2>0, HeadTailProperties, LenProperties
  <2>3. \A i \in DOMAIN updates' : updates'[i] \subseteq coreKnown
    <3>1. \A i \in 1 .. Len(Tail(updates)) : i + 1 \in DOMAIN updates
      BY <2>2
    <3>2. DOMAIN Tail(updates) = 1 .. Len(Tail(updates))
      BY <2>2, LenProperties
    <3> QED  BY <1>9, <2>2, <3>1, <3>2 DEF ApplyUpdate, AnnounceInv
  <2>4. \A u \in sdInstances' : Announced(u)
    BY <1>9, <2>1 DEF ApplyUpdate, AnnounceInv, Announced
  <2>5. Log' = Log
    BY <1>9, SameLog DEF ApplyUpdate
  <2>6. \A v \in UIDs : ToBeAnnounced(v)' <=> ToBeAnnounced(v)
    BY <1>9 DEF ApplyUpdate, Announced, ToBeAnnounced
  <2>7. sdInstances' \subseteq UIDs
    <3>1. TypeOK'
      BY NextTypeOK
    <3> QED  BY <3>1 DEF TypeOK
  <2> QED
    BY <1>0, <1>9, <2>3, <2>4, <2>5, <2>6, <2>7 DEF ApplyUpdate, AnnounceInv,
       StatesAreAnnounced, Announced, ToBeAnnounced
<1>10. CASE UpdateTakenElsewhere
  <2>0. updates \in Seq(SUBSET UIDs) /\ updates # <<>>
    BY <1>10 DEF TypeOK, UpdateTakenElsewhere
  <2>2. Len(updates) \in Nat /\ DOMAIN updates = 1 .. Len(updates)
        /\ Tail(updates) \in Seq(SUBSET UIDs) /\ Len(Tail(updates)) = Len(updates) - 1
        /\ \A i \in 1 .. Len(Tail(updates)) : Tail(updates)[i] = updates[i + 1]
    BY <2>0, HeadTailProperties, LenProperties
  <2>3. \A i \in DOMAIN updates' : updates'[i] \subseteq coreKnown
    <3>1. \A i \in 1 .. Len(Tail(updates)) : i + 1 \in DOMAIN updates
      BY <2>2
    <3>2. DOMAIN Tail(updates) = 1 .. Len(Tail(updates))
      BY <2>2, LenProperties
    <3> QED  BY <1>10, <2>2, <3>1, <3>2 DEF UpdateTakenElsewhere, AnnounceInv
  <2>5. Log' = Log
    BY <1>10, SameLog DEF UpdateTakenElsewhere
  <2> QED
    BY <1>0, <1>10, <2>3, <2>5 DEF UpdateTakenElsewhere, AnnounceInv, StatesAreAnnounced,
       Announced, ToBeAnnounced
<1>11. ASSUME NEW S \in SUBSET UIDs, CoreSends(S) PROVE AnnounceInv'
  <2>1. updates \in Seq(SUBSET UIDs) /\ coreKnown' \in SUBSET UIDs /\ coreKnown \subseteq coreKnown'
    BY <1>11 DEF TypeOK, CoreSends
  <2>2. \A i \in DOMAIN updates' : updates'[i] \subseteq coreKnown'
    <3>1. updates' = Append(updates, coreKnown')
      BY <1>11 DEF CoreSends
    <3>2. /\ Len(updates) \in Nat /\ DOMAIN updates = 1 .. Len(updates)
          /\ DOMAIN updates' = 1 .. Len(updates) + 1
          /\ updates'[Len(updates) + 1] = coreKnown'
          /\ \A i \in 1 .. Len(updates) : updates'[i] = updates[i]
      BY <2>1, <3>1, AppendProperties, LenProperties
    <3>3. ASSUME NEW i \in DOMAIN updates' PROVE updates'[i] \subseteq coreKnown'
      <4>1. CASE i = Len(updates) + 1
        BY <3>2, <4>1
      <4>2. CASE i # Len(updates) + 1
        <5>1. i \in DOMAIN updates /\ updates'[i] = updates[i]
          BY <3>2, <4>2
        <5> QED  BY <2>1, <5>1 DEF AnnounceInv
      <4> QED  BY <4>1, <4>2
    <3> QED  BY <3>3
  <2>3. Log' = Log
    BY <1>11, SameLog DEF CoreSends
  <2>4. \A v \in UIDs : ToBeAnnounced(v) => ToBeAnnounced(v)'
    BY <1>01, <1>11 DEF CoreSends, ToBeAnnounced
  <2> QED
    BY <1>0, <1>01, <1>11, <2>2, <2>3, <2>4 DEF CoreSends, AnnounceInv, StatesAreAnnounced,
       Announced
<1>12. ASSUME NEW p \in Publication, NewPublication(p) PROVE AnnounceInv'
  <2>1. Log' = Log
    BY <1>12, SameLog DEF NewPublication
  <2> QED
    BY <1>12, <2>1 DEF NewPublication, AnnounceInv, StatesAreAnnounced, Announced,
       ToBeAnnounced
<1>13. CASE Tick \/ UNCHANGED vars
  <2>1. Log' = Log
    BY <1>13, SameLog DEF Tick, vars
  <2> QED
    BY <1>13, <2>1 DEF Tick, vars, AnnounceInv, StatesAreAnnounced, Announced, ToBeAnnounced
<1> QED
  BY <1>1, <1>2, <1>3, <1>4, <1>5, <1>6, <1>7, <1>8, <1>9, <1>10, <1>11, <1>12, <1>13
  DEF Next, Loop, Instances

\* A segment of which the consumers have a state is known to the core or was
\* requested, or its request failed, however the updates that replace the set of
\* known instances fall between the loop's check, its mark and its publications.
THEOREM Announcements == Spec => []StatesAreAnnounced
<1>1. AnnounceInv => StatesAreAnnounced
  BY DEF AnnounceInv
<1> QED  BY <1>1, InitAnnounceInv, NextAnnounceInv, TypeCorrect, PTL DEF Spec

-----------------------------------------------------------------------------
(* Where the messages of a step stand in Log *)

LEMMA SegmentMessages ==
  ASSUME TypeOK, UpdateSegment
  PROVE  LET u == loop.uid
             n == Len(Log[u])
             report == Report(loop.pub, u)
         IN /\ \A v \in UIDs : v # u => Log'[v] = Log[v]
            /\ Log'[u] \in Seq(Message) /\ Log'[u] # <<>>
            /\ Log'[u][Len(Log'[u])] = report
            /\ \A i \in DOMAIN Log[u] : i \in DOMAIN Log'[u] /\ Log'[u][i] = Log[u][i]
            /\ \A i \in DOMAIN Log'[u] \ DOMAIN Log[u] :
                 \/ Log'[u][i] = report
                 \/ NeedsStart(u) /\ i = n + 1 /\ Log'[u][i].kind = "start"
<1> DEFINE u == loop.uid
           n == Len(Log[u])
           r == Report(loop.pub, u)
<1>1. u \in UIDs /\ loop.pc # "sleep" /\ Log \in [UIDs -> Seq(Message)]
  BY LogType DEF TypeOK, Locals, UpdateSegment
<1>2. PICK d \in Int : Log' = [Log EXCEPT ![u] = IF NeedsStart(u)
                                                 THEN Append(Append(@, Start(u, d)), r)
                                                 ELSE Append(@, r)]
  BY SegmentLog
<1> DEFINE s == Start(u, d)
           once == Append(Log[u], s)
<1>3. s \in Message /\ r \in Message /\ s.kind = "start" /\ Log[u] \in Seq(Message)
  BY <1>1, MessageTypes DEF Start
<1>4. Log'[u] = IF NeedsStart(u) THEN Append(once, r) ELSE Append(Log[u], r)
  BY <1>1, <1>2
<1>5. \A v \in UIDs : v # u => Log'[v] = Log[v]
  BY <1>1, <1>2
<1> HIDE DEF u, r, s, once, n
<1>6. CASE NeedsStart(u)
  <2>1. /\ once \in Seq(Message) /\ n \in Nat /\ DOMAIN Log[u] = 1 .. n
        /\ Len(once) = n + 1 /\ DOMAIN once = 1 .. n + 1 /\ once[n + 1] = s
        /\ \A i \in DOMAIN Log[u] : once[i] = Log[u][i]
    BY <1>3, AppendLog DEF once, n
  <2>2. /\ Log'[u] \in Seq(Message) /\ Log'[u] # <<>>
        /\ Len(Log'[u]) = n + 2 /\ DOMAIN Log'[u] = 1 .. n + 2 /\ Log'[u][n + 2] = r
        /\ \A i \in DOMAIN once : Log'[u][i] = once[i]
    <3>1. /\ Append(once, r) \in Seq(Message) /\ Append(once, r) # <<>>
          /\ Len(Append(once, r)) = Len(once) + 1 /\ DOMAIN Append(once, r) = 1 .. Len(once) + 1
          /\ Append(once, r)[Len(once) + 1] = r
          /\ \A i \in DOMAIN once : Append(once, r)[i] = once[i]
      BY <1>3, <2>1, AppendLog
    <3>2. Log'[u] = Append(once, r) /\ Len(once) + 1 = n + 2
      BY <1>4, <1>6, <2>1
    <3> QED  BY <3>1, <3>2
  <2>3. \A i \in DOMAIN Log[u] : i \in DOMAIN Log'[u] /\ Log'[u][i] = Log[u][i]
    BY <2>1, <2>2
  <2>4. \A i \in DOMAIN Log'[u] \ DOMAIN Log[u] :
          Log'[u][i] = r \/ (i = n + 1 /\ Log'[u][i].kind = "start")
    <3> SUFFICES ASSUME NEW i \in DOMAIN Log'[u] \ DOMAIN Log[u]
                 PROVE  Log'[u][i] = r \/ (i = n + 1 /\ Log'[u][i].kind = "start")
      OBVIOUS
    <3>1. i = n + 1 \/ i = n + 2
      BY <2>1, <2>2
    <3>2. Log'[u][n + 1] = s
      BY <2>1, <2>2
    <3> QED  BY <1>3, <2>2, <3>1, <3>2
  <2> QED  BY <1>5, <1>6, <2>2, <2>3, <2>4 DEF u, r, n
<1>7. CASE ~NeedsStart(u)
  <2>1. Log'[u] = Append(Log[u], r)
    BY <1>4, <1>7
  <2>2. /\ Log'[u] \in Seq(Message) /\ Log'[u] # <<>> /\ n \in Nat /\ DOMAIN Log[u] = 1 .. n
        /\ Len(Log'[u]) = n + 1 /\ DOMAIN Log'[u] = 1 .. n + 1 /\ Log'[u][n + 1] = r
        /\ \A i \in DOMAIN Log[u] : Log'[u][i] = Log[u][i]
    BY <1>3, <2>1, AppendLog DEF n
  <2>3. \A i \in DOMAIN Log'[u] \ DOMAIN Log[u] : Log'[u][i] = r
    <3>1. \A i \in DOMAIN Log'[u] \ DOMAIN Log[u] : i = n + 1
      BY <2>2
    <3> QED  BY <2>2, <3>1
  <2>4. \A i \in DOMAIN Log[u] : i \in DOMAIN Log'[u]
    BY <2>2
  <2> QED  BY <1>5, <2>2, <2>3, <2>4 DEF u, r, n
<1> QED  BY <1>6, <1>7

LEMMA ClosingMessages ==
  ASSUME TypeOK, CloseMissing
  PROVE  \E d \in [Missing -> Offsets] : \A u \in UIDs :
           /\ u \notin Missing => Log'[u] = Log[u]
           /\ u \in Missing =>
                /\ Log'[u] \in Seq(Message) /\ Log'[u] # <<>>
                /\ Len(Log[u]) \in Nat /\ Len(Log'[u]) = Len(Log[u]) + 1
                /\ Log'[u][Len(Log[u]) + 1] = Closing(u, d)
                /\ Len(Log[u]) + 1 \in DOMAIN Log'[u]
                /\ \A i \in DOMAIN Log[u] :
                     /\ i \in DOMAIN Log'[u] /\ Log'[u][i] = Log[u][i]
                     /\ i < Len(Log[u]) + 1
                /\ \A i \in DOMAIN Log'[u] : i = Len(Log[u]) + 1 \/ i \in DOMAIN Log[u]
<1>1. PICK d \in [Missing -> Offsets] : \A u \in UIDs :
        Log'[u] = IF u \in Missing THEN Append(Log[u], Closing(u, d)) ELSE Log[u]
  BY ClosingLog
<1>2. ASSUME NEW u \in UIDs, u \in Missing
      PROVE  /\ Log'[u] \in Seq(Message) /\ Log'[u] # <<>>
             /\ Len(Log[u]) \in Nat /\ Len(Log'[u]) = Len(Log[u]) + 1
             /\ Log'[u][Len(Log[u]) + 1] = Closing(u, d)
             /\ Len(Log[u]) + 1 \in DOMAIN Log'[u]
             /\ \A i \in DOMAIN Log[u] :
                  /\ i \in DOMAIN Log'[u] /\ Log'[u][i] = Log[u][i]
                  /\ i < Len(Log[u]) + 1
             /\ \A i \in DOMAIN Log'[u] : i = Len(Log[u]) + 1 \/ i \in DOMAIN Log[u]
  <2> DEFINE c == Closing(u, d)
  <2>1. c \in Message /\ Log[u] \in Seq(Message)
    <3>1. loop.pc # "sleep"
      BY DEF CloseMissing
    <3> QED  BY <1>2, <3>1, MessageTypes, LogType
  <2>2. Log'[u] = Append(Log[u], c)
    BY <1>1, <1>2
  <2> HIDE DEF c
  <2>3. /\ Log'[u] \in Seq(Message) /\ Log'[u] # <<>>
        /\ Len(Log[u]) \in Nat /\ DOMAIN Log[u] = 1 .. Len(Log[u])
        /\ Len(Log'[u]) = Len(Log[u]) + 1 /\ DOMAIN Log'[u] = 1 .. Len(Log[u]) + 1
        /\ Log'[u][Len(Log[u]) + 1] = c
        /\ \A i \in DOMAIN Log[u] : Log'[u][i] = Log[u][i]
    BY <2>1, <2>2, AppendLog
  <2> QED  BY <2>3 DEF c
<1> QED  BY <1>1, <1>2

LEMMA PublishedMessages ==
  ASSUME TypeOK, PublishStates, NEW u \in UIDs
  PROVE  /\ \A i \in DOMAIN Log'[u] : i \in DOMAIN Log[u] /\ Log'[u][i] = Log[u][i]
         /\ Log[u] = <<>> => Log'[u] = <<>>
<1>1. TypeOK'
  BY NextTypeOK DEF Next, Loop
<1>2. Log'[u] \in Seq(Message) /\ Log[u] \in Seq(Message)
  <2>1. kpi' \in [UIDs -> Seq(Message)]
    BY <1>1 DEF TypeOK
  <2>2. Log' = kpi'
    BY PublishedLog
  <2> QED  BY <2>1, <2>2, LogType
<1>3. Begins(Log'[u], Log[u])
  BY PublishedLog
<1> QED  BY <1>2, <1>3, BeginsLog

\* The other steps leave Log and what the loop remembers of the segments alone.
LEMMA OtherStates ==
  ASSUME TypeOK, [Next]_vars, ~UpdateSegment, ~CloseMissing, ~PublishStates
  PROVE  kpi' = kpi /\ instanceStates' = instanceStates /\ loop'.states = loop.states
<1>1. /\ kpi' = kpi /\ instanceStates' = instanceStates
      /\ loop'.states = loop.states \/ (FetchFails /\ loop.pc = "sleep")
  BY DEF Next, vars, coreVars, Loop, Instances, FetchFails, Fetch, CheckSegment, Awake,
     MarkRegistered, PublishRegistrations, ApplyUpdate, UpdateTakenElsewhere, CoreSends,
     NewPublication, Tick, TypeOK, Locals
<1>2. FetchFails /\ loop.pc = "sleep" => loop'.states = loop.states
  <2> SUFFICES ASSUME FetchFails, loop.pc = "sleep" PROVE loop'.states = loop.states
    OBVIOUS
  <2>1. loop' = Sleeping(Wake(NoPublication)) /\ loop.states = <<>>
    BY DEF FetchFails, TypeOK
  <2> QED  BY <2>1, WakeType, SleepingType
<1> QED  BY <1>1, <1>2

LEMMA OtherSteps ==
  ASSUME TypeOK, [Next]_vars, ~UpdateSegment, ~CloseMissing, ~PublishStates
  PROVE  Log' = Log /\ instanceStates' = instanceStates /\ kpi' = kpi
  BY OtherStates, SameLog

LEMMA InitLog ==
  Init => /\ loop.pc = "sleep"
          /\ \A u \in UIDs : Log[u] = <<>> /\ kpi[u] = <<>>
          /\ \A u \in UIDs : ~instanceStates[u].active /\ ~instanceStates[u].seen
<1> SUFFICES ASSUME Init
             PROVE  /\ loop.pc = "sleep"
                    /\ \A u \in UIDs : Log[u] = <<>> /\ kpi[u] = <<>>
                    /\ \A u \in UIDs : ~instanceStates[u].active /\ ~instanceStates[u].seen
  OBVIOUS
<1>1. loop.pc = "sleep" /\ loop.states = <<>>
  BY DEF Init, Sleeping
<1>2. Log = kpi
  BY <1>1, DeliveredEmpty DEF Log
<1> QED  BY <1>1, <1>2 DEF Init

\* What the loop remembers of the segments after a step.
LEMMA RememberedStates ==
  ASSUME TypeOK, [Next]_vars
  PROVE  /\ UpdateSegment =>
              /\ instanceStates'[loop.uid].active /\ instanceStates'[loop.uid].seen
              /\ \A u \in UIDs : u # loop.uid => instanceStates'[u] = instanceStates[u]
         /\ CloseMissing => \A u \in UIDs :
              /\ instanceStates'[u].active <=> instanceStates[u].active /\ u \notin Missing
              /\ instanceStates'[u].seen = instanceStates[u].seen
         /\ PublishStates => instanceStates' = instanceStates
<1>1. instanceStates \in [UIDs -> InstanceState] /\ loop.uid \in UIDs
  BY DEF TypeOK, Locals
<1>2. ASSUME UpdateSegment
      PROVE  /\ instanceStates'[loop.uid].active /\ instanceStates'[loop.uid].seen
             /\ \A u \in UIDs : u # loop.uid => instanceStates'[u] = instanceStates[u]
  BY <1>1, <1>2 DEF UpdateSegment
<1>3. ASSUME CloseMissing, NEW u \in UIDs
      PROVE  /\ instanceStates'[u].active <=> instanceStates[u].active /\ u \notin Missing
             /\ instanceStates'[u].seen = instanceStates[u].seen
  BY <1>1, <1>3 DEF CloseMissing, InstanceState
<1>4. PublishStates => instanceStates' = instanceStates
  BY DEF PublishStates
<1> QED  BY <1>2, <1>3, <1>4

-----------------------------------------------------------------------------
(* The synthetic start comes first *)

LEMMA NextStartInv == TypeOK /\ StartInv /\ [Next]_vars => StartInv'
<1> SUFFICES ASSUME TypeOK, StartInv, [Next]_vars PROVE StartInv'
  OBVIOUS
<1>0. loop.uid \in UIDs
  BY DEF TypeOK, Locals
<1>1. CASE UpdateSegment
  <2> DEFINE u == loop.uid
             n == Len(Log[u])
  <2>1. /\ \A v \in UIDs : v # u => Log'[v] = Log[v]
        /\ \A i \in DOMAIN Log[u] : i \in DOMAIN Log'[u] /\ Log'[u][i] = Log[u][i]
        /\ \A i \in DOMAIN Log'[u] \ DOMAIN Log[u] :
             \/ Log'[u][i] = Report(loop.pub, u)
             \/ NeedsStart(u) /\ i = n + 1 /\ Log'[u][i].kind = "start"
    BY <1>1, SegmentMessages
  <2>2. NeedsStart(u) => n + 1 = 1
    BY <1>0, EmptySeq DEF NeedsStart, StartInv
  <2>3. Report(loop.pub, u).kind # "start"
    BY DEF Report
  <2>4. \A i \in DOMAIN Log'[u] : Log'[u][i].kind = "start" => i = 1
    BY <1>0, <2>1, <2>2, <2>3 DEF StartInv
  <2>5. \A v \in UIDs : v # u => instanceStates'[v] = instanceStates[v]
    BY <1>1, RememberedStates
  <2>6. instanceStates'[u].seen
    BY <1>1, RememberedStates
  <2> HIDE DEF u, n
  <2> QED  BY <2>1, <2>4, <2>5, <2>6 DEF StartInv
<1>2. CASE CloseMissing
  <2>1. PICK d \in [Missing -> Offsets] : \A u \in UIDs :
          /\ u \notin Missing => Log'[u] = Log[u]
          /\ u \in Missing =>
               /\ Log'[u][Len(Log[u]) + 1] = Closing(u, d)
               /\ \A i \in DOMAIN Log[u] : i \in DOMAIN Log'[u] /\ Log'[u][i] = Log[u][i]
               /\ \A i \in DOMAIN Log'[u] : i = Len(Log[u]) + 1 \/ i \in DOMAIN Log[u]
    BY <1>2, ClosingMessages
  <2>2. \A u \in UIDs : Closing(u, d).kind # "start"
    BY DEF Closing
  <2>3. ASSUME NEW u \in UIDs, NEW i \in DOMAIN Log'[u], Log'[u][i].kind = "start"
        PROVE  i = 1
    BY <2>1, <2>2, <2>3 DEF StartInv
  <2>4. \A u \in Missing : instanceStates[u].active
    BY DEF Missing
  <2>5. \A u \in UIDs : instanceStates[u].active => instanceStates[u].seen
    BY DEF StartInv
  <2>6. \A u \in UIDs : instanceStates'[u].seen = instanceStates[u].seen
    BY <1>2, RememberedStates
  <2>7. \A u \in UIDs : instanceStates'[u].active => instanceStates'[u].seen
    BY <1>2, <2>5, <2>6, RememberedStates
  <2>8. ASSUME NEW u \in UIDs, ~instanceStates'[u].seen PROVE Log'[u] = <<>>
    BY <2>1, <2>4, <2>5, <2>6, <2>8 DEF StartInv
  <2> QED  BY <2>3, <2>7, <2>8 DEF StartInv
<1>3. CASE PublishStates
  <2>1. instanceStates' = instanceStates
    BY <1>3, RememberedStates
  <2>2. \A u \in UIDs : /\ \A i \in DOMAIN Log'[u] : i \in DOMAIN Log[u] /\ Log'[u][i] = Log[u][i]
                        /\ Log[u] = <<>> => Log'[u] = <<>>
    BY <1>3, PublishedMessages
  <2> QED  BY <2>1, <2>2 DEF StartInv
<1>4. CASE ~UpdateSegment /\ ~CloseMissing /\ ~PublishStates
  BY <1>4, OtherSteps DEF StartInv
<1> QED  BY <1>1, <1>2, <1>3, <1>4

\* The synthetic start is the first message the consumers get of its segment,
\* wherever a failure cuts a list and however often the segment comes and goes.
THEOREM StartFirst == Spec => []StartComesFirst
<1>1. Init => StartInv
  BY InitLog DEF StartInv
<1>2. ASSUME TypeOK, StartInv PROVE StartComesFirst
  <2> SUFFICES ASSUME NEW u \in UIDs, NEW i \in DOMAIN kpi[u], kpi[u][i].kind = "start"
               PROVE  i = 1
    BY DEF StartComesFirst, Sent
  <2>1. kpi[u] \in Seq(Message) /\ Log[u] \in Seq(Message) /\ Begins(kpi[u], Log[u])
    BY <1>2, LogType, PublishedBegins DEF TypeOK
  <2>2. i \in DOMAIN Log[u] /\ Log[u][i] = kpi[u][i]
    BY <2>1, BeginsLog
  <2> QED  BY <1>2, <2>2 DEF StartInv
<1> QED  BY <1>1, <1>2, NextStartInv, TypeCorrect, PTL DEF Spec

-----------------------------------------------------------------------------
(* A publication is processed once while it is young *)

LEMMA NextFreshInv == TypeOK /\ FreshInv /\ [Next]_vars => FreshInv'
<1> SUFFICES ASSUME TypeOK, FreshInv, [Next]_vars, NEW t \in 1 .. MaxTime
             PROVE  /\ history'.early[t] <= 1
                    /\ history'.early[t] = 1 =>
                         \/ now' >= t + FetchDelay
                         \/ loop'.pc = "sleep" /\ loop'.wake >= t + FetchDelay
                         \/ loop'.pc # "sleep" /\ loop'.pub.time >= t
  BY DEF FreshInv
<1>0. /\ now \in Nat /\ FetchDelay \in Nat /\ t \in Nat /\ MaxTime \in Nat
      /\ history.early \in [1 .. MaxTime -> Nat] /\ history.early[t] \in Nat
      /\ loop \in Locals /\ loop.wake \in Int
      /\ history \in [last : SUBSET UIDs, early : [1 .. MaxTime -> Nat]]
  <2>1. FetchDelay \in Nat /\ MaxTime \in Nat
    BY ConstantsAssumption DEF ConstantsAssumption
  <2>2. now \in Nat /\ history.early \in [1 .. MaxTime -> Nat] /\ loop \in Locals
        /\ history \in [last : SUBSET UIDs, early : [1 .. MaxTime -> Nat]]
    BY DEF TypeOK
  <2> QED  BY <2>1, <2>2 DEF Locals
<1>01. /\ history.early[t] <= 1
       /\ history.early[t] = 1 => \/ now >= t + FetchDelay
                                  \/ loop.pc = "sleep" /\ loop.wake >= t + FetchDelay
                                  \/ loop.pc # "sleep" /\ loop.pub.time >= t
  BY DEF FreshInv
<1>1. CASE FetchFails
  <2>1. /\ loop' = Sleeping(Wake(NoPublication)) /\ loop.pc = "sleep" /\ loop.wake <= now
        /\ now' = now /\ history' = history
    BY <1>1 DEF FetchFails, Awake
  <2>2. loop'.pc = "sleep" /\ loop'.wake = now + FetchDelay
    <3>1. Wake(NoPublication) = now + FetchDelay
      BY DEF Wake
    <3> QED  BY <2>1, <3>1, WakeType, SleepingType
  <2> QED  BY <1>0, <1>01, <2>1, <2>2
<1>2. CASE Fetch
  <2>1. source \in Publication /\ source.time \in 1 .. MaxTime
    <3>1. source \in Publication
      BY <1>2 DEF Fetch, TypeOK
    <3>2. AnyUID \in UIDs
      BY ConstantsAssumption DEF ConstantsAssumption, AnyUID
    <3> QED  BY <3>1, <3>2, ReportType
  <2>2. /\ loop.pc = "sleep" /\ loop.wake <= now /\ now' = now
        /\ loop'.pc = "next" /\ loop'.pub = source
    BY <1>0, <1>2 DEF Fetch, Awake, Locals
  <2>3. history'.early = [history.early EXCEPT ![source.time] =
                            IF now < source.time + FetchDelay THEN @ + 1 ELSE @]
    BY <1>0, <1>2 DEF Fetch
  <2>4. CASE source.time = t
    <3>1. history'.early[t] = IF now < t + FetchDelay THEN history.early[t] + 1
                              ELSE history.early[t]
      BY <1>0, <2>1, <2>3, <2>4
    <3> QED  BY <1>0, <1>01, <2>2, <2>4, <3>1
  <2>5. CASE source.time # t
    <3>1. history'.early[t] = history.early[t]
      BY <1>0, <2>1, <2>3, <2>5
    <3> QED  BY <1>0, <1>01, <2>2, <3>1
  <2> QED  BY <2>4, <2>5
<1>3. CASE PublishStates
  <2>1. /\ loop'.pc = "sleep" /\ loop'.wake = Wake(loop.pub) /\ loop.pc # "sleep"
        /\ now' = now /\ history' = history
    BY <1>3, PublishedLog DEF PublishStates
  <2>2. Wake(loop.pub) >= loop.pub.time + FetchDelay /\ loop.pub.time \in Nat /\ Wake(loop.pub) \in Int
    <3>1. loop.pub \in Publication
      BY <2>1 DEF TypeOK
    <3>2. AnyUID \in UIDs
      BY ConstantsAssumption DEF ConstantsAssumption, AnyUID
    <3> QED  BY <2>1, <3>1, <3>2, WakeType, ReportType
  <2> QED  BY <1>0, <1>01, <2>1, <2>2
<1>4. CASE MarkRegistered \/ UpdateSegment \/ PublishRegistrations \/ CloseMissing
           \/ \E u \in UIDs : CheckSegment(u)
  <2>1. /\ loop.pc # "sleep" /\ now' = now /\ history' = history
        /\ loop'.pc # "sleep" /\ loop'.pub = loop.pub
    BY <1>0, <1>4 DEF MarkRegistered, UpdateSegment, PublishRegistrations, CloseMissing,
       CheckSegment, Locals
  <2> QED  BY <1>01, <2>1
<1>5. CASE Instances \/ (\E p \in Publication : NewPublication(p)) \/ Tick \/ UNCHANGED vars
  <2>1. now' >= now /\ now' \in Nat /\ history' = history /\ loop' = loop
    BY <1>0, <1>5 DEF Instances, ApplyUpdate, UpdateTakenElsewhere, CoreSends,
       NewPublication, Tick, vars
  <2> QED  BY <1>0, <1>01, <2>1
<1> QED  BY <1>1, <1>2, <1>3, <1>4, <1>5 DEF Next, Loop

\* No publication is processed twice while it is younger than the fetch delay,
\* although a failed round sleeps its own delay and a stale one sleeps not at all.
THEOREM FreshOnce == Spec => []FreshProcessedOnce
<1>1. Init => FreshInv
  <2>1. MaxTime \in Nat
    BY ConstantsAssumption DEF ConstantsAssumption
  <2> QED  BY <2>1 DEF Init, FreshInv
<1>2. FreshInv => FreshProcessedOnce
  BY DEF FreshInv, FreshProcessedOnce
<1> QED  BY <1>1, <1>2, NextFreshInv, TypeCorrect, PTL DEF Spec

-----------------------------------------------------------------------------
(* The consumers mirror the publication *)

LEMMA NextRoundInv == TypeOK /\ RoundInv /\ [Next]_vars => RoundInv'
<1> SUFFICES ASSUME TypeOK, RoundInv, [Next]_vars PROVE RoundInv'
  OBVIOUS
<1>0. loop \in Locals /\ loop.uid \in UIDs /\ loop.todo \in SUBSET UIDs
  BY DEF TypeOK, Locals
<1>01. loop.pc # "sleep" => loop.pub.segments \in SUBSET UIDs
  <2>1. loop.pc # "sleep" => loop.pub \in Publication
    BY DEF TypeOK
  <2>2. AnyUID \in UIDs
    BY ConstantsAssumption DEF ConstantsAssumption, AnyUID
  <2> QED  BY <2>1, <2>2, ReportType
<1>1. CASE FetchFails
  <2>1. /\ loop' = Sleeping(Wake(NoPublication)) /\ loop.pc = "sleep"
        /\ instanceStates' = instanceStates /\ history' = history
    BY <1>1 DEF FetchFails, Awake
  <2>2. loop'.pc = "sleep"
    BY <2>1, WakeType, SleepingType
  <2> QED  BY <2>1, <2>2 DEF RoundInv
<1>2. CASE Fetch
  <2>1. /\ loop'.pc = "next" /\ loop'.pub = source /\ loop'.todo = source.segments
        /\ instanceStates' = instanceStates
    BY <1>0, <1>2 DEF Fetch, Locals
  <2>2. history'.last = source.segments
    <3>1. history \in [last : SUBSET UIDs, early : [1 .. MaxTime -> Nat]]
      BY DEF TypeOK
    <3> QED  BY <1>2, <3>1 DEF Fetch
  <2> QED  BY <2>1, <2>2 DEF RoundInv, Handled
<1>3. ASSUME NEW u \in UIDs, CheckSegment(u) PROVE RoundInv'
  <2>1. /\ loop.pc = "next" /\ u \in loop.todo /\ loop'.uid = u /\ loop'.todo = loop.todo \ {u}
        /\ loop'.pc \in {"mark", "update"} /\ loop'.pub = loop.pub
        /\ instanceStates' = instanceStates /\ history' = history
    BY <1>0, <1>3 DEF CheckSegment, Locals
  <2> QED  BY <2>1 DEF RoundInv, Handled
<1>4. CASE MarkRegistered
  <2>1. /\ loop.pc = "mark" /\ loop'.uid = loop.uid /\ loop'.todo = loop.todo
        /\ loop'.pc = "update" /\ loop'.pub = loop.pub
        /\ instanceStates' = instanceStates /\ history' = history
    BY <1>0, <1>4 DEF MarkRegistered, Locals
  <2> QED  BY <2>1 DEF RoundInv, Handled
<1>5. CASE UpdateSegment
  <2>1. /\ loop.pc = "update" /\ loop'.todo = loop.todo
        /\ loop'.pc = "next" /\ loop'.pub = loop.pub /\ history' = history
    BY <1>0, <1>5 DEF UpdateSegment, Locals
  <2>2. /\ instanceStates'[loop.uid].active
        /\ \A u \in UIDs : u # loop.uid => instanceStates'[u] = instanceStates[u]
    BY <1>5, RememberedStates
  <2> QED  BY <1>01, <2>1, <2>2 DEF RoundInv, Handled
<1>6. CASE PublishRegistrations
  <2>1. /\ loop.pc = "next" /\ loop.todo = {} /\ loop'.todo = {}
        /\ loop'.pc = "close" /\ loop'.pub = loop.pub
        /\ instanceStates' = instanceStates /\ history' = history
    BY <1>0, <1>6 DEF PublishRegistrations, Locals
  <2> QED  BY <2>1 DEF RoundInv, Handled
<1>7. CASE CloseMissing
  <2>1. /\ loop.pc = "close" /\ loop'.todo = loop.todo
        /\ loop'.pc = "publish" /\ loop'.pub = loop.pub /\ history' = history
    BY <1>0, <1>7, ClosingStates DEF CloseMissing, Locals
  <2>2. \A u \in UIDs : instanceStates'[u].active <=> instanceStates[u].active /\ u \notin Missing
    BY <1>7, RememberedStates
  <2>3. \A u \in UIDs : u \in Missing <=> instanceStates[u].active /\ u \notin loop.pub.segments
    BY DEF Missing
  <2> QED  BY <1>01, <2>1, <2>2, <2>3 DEF RoundInv, Handled
<1>8. CASE PublishStates
  <2>1. /\ loop.pc = "publish" /\ loop'.pc = "sleep" /\ history' = history
        /\ instanceStates' = instanceStates
    BY <1>8, PublishedLog, RememberedStates DEF PublishStates
  <2> QED  BY <1>01, <2>1 DEF RoundInv, Handled
<1>9. CASE Instances \/ (\E p \in Publication : NewPublication(p)) \/ Tick \/ UNCHANGED vars
  <2>1. history' = history /\ loop' = loop /\ instanceStates' = instanceStates
    BY <1>9 DEF Instances, ApplyUpdate, UpdateTakenElsewhere, CoreSends, NewPublication,
       Tick, vars
  <2> QED  BY <2>1 DEF RoundInv, Handled
<1> QED  BY <1>1, <1>2, <1>3, <1>4, <1>5, <1>6, <1>7, <1>8, <1>9 DEF Next, Loop

\* Failures are counted and never forgotten.
LEMMA FailuresStay ==
  ASSUME TypeOK, [Next]_vars, used'.failures = 0
  PROVE  /\ used.failures = 0
         /\ PublishStates => Log' = Log
<1>1. used \in Counters /\ used.failures \in Nat
  BY DEF TypeOK, Counters
<1>2. Fail => used'.failures = used.failures + 1
  BY <1>1 DEF Fail, Counters
<1>3. FetchFails => used'.failures >= used.failures
  <2> DEFINE f == IF source = NoPublication THEN used.failures ELSE used.failures + 1
  <2>1. FetchFails => used'.failures = f
    BY <1>1 DEF FetchFails, Counters
  <2> QED  BY <1>1, <2>1
<1>4. CASE FetchFails
  BY <1>1, <1>3, <1>4 DEF FetchFails, PublishStates, Awake
<1>5. CASE PublishStates
  <2>1. used' = used /\ Log' = Log
    BY <1>5, PublishedLog
  <2> QED  BY <2>1
<1>6. CASE PublishRegistrations
  BY <1>1, <1>2, <1>6 DEF PublishRegistrations, PublishStates
<1>7. CASE Fetch
  BY <1>1, <1>7 DEF Fetch, Counters, PublishStates, Awake
<1>8. CASE ~FetchFails /\ ~PublishStates /\ ~PublishRegistrations /\ ~Fetch
  <2>1. used'.failures = used.failures
    BY <1>1, <1>8 DEF Next, vars, Loop, Instances, CheckSegment, MarkRegistered,
       UpdateSegment, CloseMissing, ApplyUpdate, UpdateTakenElsewhere, CoreSends,
       NewPublication, Tick, Counters
  <2> QED  BY <1>8, <2>1
<1> QED  BY <1>4, <1>5, <1>6, <1>7, <1>8

LEMMA NextMirrorInv == TypeOK /\ MirrorInv /\ [Next]_vars => MirrorInv'
<1> DEFINE Active(log) == log # <<>> /\ log[Len(log)].kind = "active"
<1> SUFFICES ASSUME TypeOK, MirrorInv, [Next]_vars, used'.failures = 0, NEW u \in UIDs
             PROVE  instanceStates'[u].active <=> Active(Log'[u])
  BY DEF MirrorInv
<1>0. loop.uid \in UIDs
  BY DEF TypeOK, Locals
<1>01. used.failures = 0 /\ (PublishStates => Log' = Log)
  BY FailuresStay
<1>02. \A v \in UIDs : instanceStates[v].active <=> Active(Log[v])
  BY <1>01 DEF MirrorInv
<1>1. CASE UpdateSegment
  <2>1. CASE u = loop.uid
    <3>1. Log'[u] # <<>> /\ Log'[u][Len(Log'[u])] = Report(loop.pub, u)
      BY <1>1, <2>1, SegmentMessages
    <3>2. Report(loop.pub, u).kind = "active"
      BY DEF Report
    <3> QED  BY <1>1, <2>1, <3>1, <3>2, RememberedStates
  <2>2. CASE u # loop.uid
    <3>1. Log'[u] = Log[u]
      BY <1>1, <2>2, SegmentMessages
    <3>2. instanceStates'[u] = instanceStates[u]
      BY <1>1, <2>2, RememberedStates
    <3> QED  BY <1>02, <3>1, <3>2
  <2> QED  BY <2>1, <2>2
<1>2. CASE CloseMissing
  <2>1. instanceStates'[u].active <=> instanceStates[u].active /\ u \notin Missing
    BY <1>2, RememberedStates
  <2>2. PICK d \in [Missing -> Offsets] :
          /\ u \notin Missing => Log'[u] = Log[u]
          /\ u \in Missing =>
               /\ Len(Log[u]) \in Nat /\ Len(Log'[u]) = Len(Log[u]) + 1
               /\ Log'[u][Len(Log[u]) + 1] = Closing(u, d)
    BY <1>2, ClosingMessages
  <2>3. Closing(u, d).kind # "active"
    BY DEF Closing
  <2>4. CASE u \in Missing
    <3>1. ~Active(Log'[u])
      BY <2>2, <2>3, <2>4
    <3> QED  BY <2>1, <2>4, <3>1
  <2>5. CASE u \notin Missing
    BY <1>02, <2>1, <2>2, <2>5
  <2> QED  BY <2>4, <2>5
<1>3. CASE PublishStates
  BY <1>01, <1>02, <1>3, RememberedStates
<1>4. CASE ~UpdateSegment /\ ~CloseMissing /\ ~PublishStates
  BY <1>02, <1>4, OtherSteps
<1> QED  BY <1>1, <1>2, <1>3, <1>4

\* Between two rounds, as long as nothing failed, the segments that the consumers
\* were told last are active are exactly those of the last publication.
THEOREM MirrorsPublication == Spec => []ConsumersMirrorPublication
<1>1. Init => RoundInv /\ MirrorInv
  <2> SUFFICES ASSUME Init PROVE RoundInv /\ MirrorInv
    OBVIOUS
  <2>1. history.last = {}
    BY DEF Init
  <2> QED  BY <2>1, InitLog DEF RoundInv, MirrorInv
<1>2. TypeOK /\ RoundInv /\ MirrorInv => ConsumersMirrorPublication
  <2> SUFFICES ASSUME TypeOK, RoundInv, MirrorInv, Quiet, NEW u \in UIDs
               PROVE  u \in history.last <=>
                        kpi[u] # <<>> /\ kpi[u][Len(kpi[u])].kind = "active"
    BY DEF ConsumersMirrorPublication
  <2>1. loop.pc = "sleep" /\ used.failures = 0
    BY DEF Quiet
  <2>2. Log = kpi
    BY <2>1, DeliveredEmpty DEF TypeOK, Log
  <2> QED  BY <2>1, <2>2 DEF RoundInv, MirrorInv
<1> QED  BY <1>1, <1>2, NextRoundInv, NextMirrorInv, TypeCorrect, PTL DEF Spec

-----------------------------------------------------------------------------
(* Ends are later than what they end *)

LEMMA TimesAreNumbers ==
  ASSUME TypeOK
  PROVE  /\ \A p \in {source, loop.pub} : p # NoPublication =>
              p \in Publication /\ p.time \in Nat /\ p.segments \in SUBSET UIDs
         /\ \A u \in UIDs : \A i \in DOMAIN Log[u] : Log[u][i] \in Message /\ Log[u][i].time \in Int
         /\ Jitter \in Nat /\ loop.uid \in UIDs
         /\ loop.pc # "sleep" => loop.pub # NoPublication
<1>1. \A p \in {source, loop.pub} : p # NoPublication => p \in Publication
  BY DEF TypeOK, Locals
<1>2. AnyUID \in UIDs
  BY ConstantsAssumption DEF ConstantsAssumption, AnyUID
<1>3. \A p \in Publication : p.time \in Nat /\ p.segments \in SUBSET UIDs
  BY <1>2, ReportType
<1>4. \A u \in UIDs : Log[u] \in Seq(Message)
  BY LogType
<1>5. \A u \in UIDs : \A i \in DOMAIN Log[u] : Log[u][i] \in Message
  BY <1>4, LenProperties, ElementOfSeq
<1>6. \A m \in Message : m.time \in Int
  BY DEF Message
<1>7. loop.pc # "sleep" => loop.pub # NoPublication
  BY DEF TypeOK
<1>8. Jitter \in Nat /\ loop.uid \in UIDs
  BY ConstantsAssumption DEF ConstantsAssumption, TypeOK, Locals
<1> QED  BY <1>1, <1>3, <1>5, <1>6, <1>7, <1>8

\* The active messages a step adds are those of the round's segment.
LEMMA ActiveMessages ==
  ASSUME TypeOK, [Next]_vars, NEW u \in UIDs, NEW i \in DOMAIN Log'[u],
         Log'[u][i].kind = "active"
  PROVE  \/ i \in DOMAIN Log[u] /\ Log'[u][i] = Log[u][i]
         \/ UpdateSegment /\ u = loop.uid /\ Log'[u][i] = Report(loop.pub, u)
<1>1. CASE UpdateSegment
  <2>1. CASE u = loop.uid
    <3>1. \/ i \in DOMAIN Log[u] /\ Log'[u][i] = Log[u][i]
          \/ Log'[u][i] = Report(loop.pub, u)
          \/ Log'[u][i].kind = "start"
      BY <1>1, <2>1, SegmentMessages
    <3> QED  BY <1>1, <2>1, <3>1
  <2>2. CASE u # loop.uid
    BY <1>1, <2>2, SegmentMessages
  <2> QED  BY <2>1, <2>2
<1>2. CASE CloseMissing
  <2>1. PICK d \in [Missing -> Offsets] :
          /\ u \notin Missing => Log'[u] = Log[u]
          /\ u \in Missing =>
               /\ Log'[u][Len(Log[u]) + 1] = Closing(u, d)
               /\ \A k \in DOMAIN Log[u] : Log'[u][k] = Log[u][k]
               /\ \A k \in DOMAIN Log'[u] : k = Len(Log[u]) + 1 \/ k \in DOMAIN Log[u]
    BY <1>2, ClosingMessages
  <2>2. Closing(u, d).kind # "active"
    BY DEF Closing
  <2> QED  BY <2>1, <2>2
<1>3. CASE PublishStates
  BY <1>3, PublishedMessages
<1>4. CASE ~UpdateSegment /\ ~CloseMissing /\ ~PublishStates
  BY <1>4, OtherSteps
<1> QED  BY <1>1, <1>2, <1>3, <1>4

\* What becomes active is the round's segment.
LEMMA Activations ==
  ASSUME TypeOK, [Next]_vars, NEW u \in UIDs, instanceStates'[u].active
  PROVE  \/ instanceStates[u].active
         \/ UpdateSegment /\ u = loop.uid
<1>1. CASE UpdateSegment
  BY <1>1, RememberedStates
<1>2. CASE CloseMissing
  BY <1>2, RememberedStates
<1>3. CASE PublishStates
  BY <1>3, RememberedStates
<1>4. CASE ~UpdateSegment /\ ~CloseMissing /\ ~PublishStates
  BY <1>4, OtherSteps
<1> QED  BY <1>1, <1>2, <1>3, <1>4

\* How the publications at hand change.
LEMMA PublicationSteps ==
  ASSUME TypeOK, [Next]_vars
  PROVE  /\ \/ source' = source
            \/ /\ \E p \in Publication : NewPublication(p)
               /\ source' \in Publication /\ source' # source
               /\ source # NoPublication => source'.time > source.time + Jitter
               /\ loop' = loop
         /\ loop'.pc # "sleep" =>
              \/ Fetch /\ loop'.pub = source /\ source # NoPublication /\ loop.pc = "sleep"
              \/ loop.pc # "sleep" /\ loop'.pub = loop.pub
         /\ UpdateSegment => loop'.pc # "sleep"
<1>0. loop \in Locals
  BY DEF TypeOK
<1>1. CASE \E p \in Publication : NewPublication(p)
  <2>1. PICK p \in Publication : NewPublication(p)
    BY <1>1
  <2>2. loop' = loop /\ source' = p /\ (source # NoPublication => p.time > source.time + Jitter)
    BY <2>1 DEF NewPublication
  <2>3. loop.pc = "update" => loop.pc # "sleep"
    OBVIOUS
  <2> QED  BY <1>0, <1>1, <2>2, <2>3 DEF UpdateSegment
<1>2. CASE FetchFails \/ PublishStates
  <2>1. loop'.pc = "sleep" /\ source' = source
    <3>1. FetchFails => loop' = Sleeping(Wake(NoPublication)) /\ source' = source
      BY DEF FetchFails
    <3>2. PublishStates => loop'.pc = "sleep" /\ source' = source
      BY PublishedLog DEF PublishStates
    <3> QED  BY <1>2, <3>1, <3>2, WakeType, SleepingType
  <2>2. ~UpdateSegment
    BY <1>2 DEF FetchFails, PublishStates, UpdateSegment, Awake
  <2> QED  BY <2>1, <2>2
<1>3. CASE Fetch
  BY <1>0, <1>3 DEF Fetch, Awake, Locals, UpdateSegment
<1>4. CASE MarkRegistered \/ UpdateSegment \/ PublishRegistrations \/ CloseMissing
           \/ \E u \in UIDs : CheckSegment(u)
  BY <1>0, <1>4 DEF MarkRegistered, UpdateSegment, PublishRegistrations, CloseMissing,
     CheckSegment, Locals
<1>5. CASE Instances \/ Tick \/ UNCHANGED vars
  BY <1>0, <1>5 DEF Instances, ApplyUpdate, UpdateTakenElsewhere, CoreSends, Tick, vars,
     UpdateSegment
<1> QED  BY <1>1, <1>2, <1>3, <1>4, <1>5 DEF Next, Loop

LEMMA NextTimes ==
  TypeOK /\ RoundInv /\ SourceTimes /\ RoundTimes /\ [Next]_vars => SourceTimes' /\ RoundTimes'
<1> SUFFICES ASSUME TypeOK, RoundInv, SourceTimes, RoundTimes, [Next]_vars
             PROVE  SourceTimes' /\ RoundTimes'
  OBVIOUS
<1> DEFINE InLog(u, i) == i \in DOMAIN Log[u] /\ Log'[u][i] = Log[u][i]
           New(u) == UpdateSegment /\ u = loop.uid
<1>1. /\ \A p \in {source, loop.pub} : p # NoPublication =>
           p \in Publication /\ p.time \in Nat /\ p.segments \in SUBSET UIDs
      /\ \A u \in UIDs : \A i \in DOMAIN Log[u] : Log[u][i].time \in Int
      /\ Jitter \in Nat /\ loop.uid \in UIDs
      /\ loop.pc # "sleep" => loop.pub # NoPublication
  BY TimesAreNumbers
<1>2. /\ \/ source' = source
         \/ /\ \E p \in Publication : NewPublication(p)
            /\ source' \in Publication /\ source' # source
            /\ source # NoPublication => source'.time > source.time + Jitter
            /\ loop' = loop
      /\ loop'.pc # "sleep" =>
           \/ Fetch /\ loop'.pub = source /\ source # NoPublication /\ loop.pc = "sleep"
           \/ loop.pc # "sleep" /\ loop'.pub = loop.pub
      /\ UpdateSegment => loop'.pc # "sleep"
  BY PublicationSteps
<1>3. source' # NoPublication => source' \in Publication /\ source'.time \in Nat
  <2>1. AnyUID \in UIDs
    BY ConstantsAssumption DEF ConstantsAssumption, AnyUID
  <2> QED  BY <1>1, <1>2, <2>1, ReportType
<1>4. ASSUME NEW u \in UIDs, NEW i \in DOMAIN Log'[u], Log'[u][i].kind = "active"
      PROVE  InLog(u, i) \/ (New(u) /\ Log'[u][i] = Report(loop.pub, u))
  BY <1>4, ActiveMessages
<1>5. \A u \in UIDs : instanceStates'[u].active => instanceStates[u].active \/ New(u)
  BY Activations
<1>6. ASSUME NEW u \in UIDs, New(u)
      PROVE  /\ loop.pc # "sleep" /\ source' = source /\ u \in loop.pub.segments
             /\ loop.pub # NoPublication /\ source # NoPublication
             /\ Report(loop.pub, u).time <= loop.pub.time
             /\ Report(loop.pub, u).time \in Int
             /\ loop.pub.time <= source.time
  <2>1. loop.pc = "update"
    BY <1>6 DEF UpdateSegment
  <2>2. source' = source
    BY <1>6 DEF UpdateSegment
  <2>3. u \in loop.pub.segments /\ loop.pub # NoPublication
    BY <1>1, <1>6, <2>1 DEF RoundInv
  <2>4. Report(loop.pub, u).time <= loop.pub.time /\ Report(loop.pub, u).time \in Int
    <3>1. EventTime(loop.pub, u) <= loop.pub.time /\ EventTime(loop.pub, u) \in Int
      BY <1>1, <2>3, ReportType
    <3> QED  BY <3>1 DEF Report
  <2>5. source # NoPublication
    BY <2>1 DEF SourceTimes
  <2>6. loop.pub.time <= source.time
    BY <1>1, <2>1, <2>3, <2>5 DEF RoundTimes
  <2> QED  BY <2>1, <2>2, <2>3, <2>4, <2>5, <2>6
<1>7. ASSUME NEW u \in UIDs, NEW i, InLog(u, i)
      PROVE  /\ source # NoPublication
             /\ Log[u][i].kind = "active" => Log[u][i].time <= source.time
             /\ Log[u][i].time \in Int
  <2>1. DOMAIN <<>> = {}
    OBVIOUS
  <2>2. source # NoPublication
    BY <1>7, <2>1 DEF SourceTimes
  <2> QED  BY <1>1, <1>7, <2>2 DEF SourceTimes, Until
<1> HIDE DEF InLog, New
<1>8. SourceTimes'
  <2>1. ASSUME source' = NoPublication, NEW u \in UIDs
        PROVE  loop'.pc = "sleep" /\ Log'[u] = <<>> /\ ~instanceStates'[u].active
    <3>1. source = NoPublication
      BY <1>2, <2>1, NoPublicationAssumption
    <3>2. loop.pc = "sleep" /\ Log[u] = <<>> /\ ~instanceStates[u].active
      BY <3>1 DEF SourceTimes
    <3>3. ~UpdateSegment /\ ~CloseMissing /\ ~PublishStates
      BY <3>2 DEF UpdateSegment, CloseMissing, PublishStates
    <3> QED  BY <1>2, <3>1, <3>2, <3>3, OtherSteps
  <2>2. ASSUME source' # NoPublication, NEW u \in UIDs,
               NEW i \in DOMAIN Log'[u], Log'[u][i].kind = "active"
        PROVE  Log'[u][i].time <= source'.time
    <3>1. CASE InLog(u, i)
      <4>1. /\ source # NoPublication /\ Log'[u][i].time <= source.time
            /\ Log'[u][i].time \in Int
        BY <1>7, <2>2, <3>1 DEF InLog
      <4> QED  BY <1>1, <1>2, <1>3, <2>2, <4>1
    <3>2. CASE New(u) /\ Log'[u][i] = Report(loop.pub, u)
      BY <1>1, <1>6, <3>2
    <3> QED  BY <1>4, <2>2, <3>1, <3>2
  <2>3. ASSUME source' # NoPublication, NEW u \in UIDs, instanceStates'[u].active,
               u \notin source'.segments,
               NEW i \in DOMAIN Log'[u], Log'[u][i].kind = "active"
        PROVE  Log'[u][i].time + Jitter < source'.time
    <3>1. CASE New(u)
      <4>1. loop.pub # source
        BY <1>6, <2>3, <3>1
      <4>2. loop.pub.time + Jitter < source.time
        BY <1>6, <3>1, <4>1 DEF RoundTimes
      <4>3. Log'[u][i].time <= loop.pub.time /\ Log'[u][i].time \in Int
        <5>1. CASE InLog(u, i)
          BY <1>1, <1>6, <2>3, <3>1, <5>1 DEF RoundTimes, Until, InLog
        <5>2. CASE Log'[u][i] = Report(loop.pub, u)
          BY <1>6, <3>1, <5>2
        <5> QED  BY <1>4, <2>3, <5>1, <5>2
      <4> QED  BY <1>1, <1>6, <3>1, <4>2, <4>3
    <3>2. CASE ~New(u)
      <4>1. InLog(u, i) /\ instanceStates[u].active
        BY <1>4, <1>5, <2>3, <3>2
      <4>2. /\ source # NoPublication /\ Log'[u][i].time <= source.time
            /\ Log'[u][i].time \in Int
        BY <1>7, <2>3, <4>1 DEF InLog
      <4>3. CASE source' = source
        <5>1. Past(u, source)
          BY <4>1, <4>2 DEF SourceTimes
        <5> QED  BY <2>3, <4>1, <4>3, <5>1 DEF Past, InLog
      <4>4. CASE source' # source
        BY <1>1, <1>2, <1>3, <2>3, <4>2, <4>4
      <4> QED  BY <4>3, <4>4
    <3> QED  BY <3>1, <3>2
  <2>4. \E u : u \in UIDs
    BY ConstantsAssumption DEF ConstantsAssumption
  <2>5. source' # NoPublication => \A u \in UIDs : Until(u, source.time)'
    BY <2>2 DEF Until
  <2>6. source' # NoPublication =>
          \A u \in UIDs : instanceStates'[u].active => Past(u, source)'
    BY <2>3 DEF Past
  <2> QED  BY <2>1, <2>4, <2>5, <2>6 DEF SourceTimes
<1>9. RoundTimes'
  <2> SUFFICES ASSUME loop'.pc # "sleep"
               PROVE  /\ loop'.pub = source' \/ loop'.pub.time + Jitter < source'.time
                      /\ \A u \in UIDs : /\ Until(u, loop.pub.time)'
                                         /\ instanceStates'[u].active => Past(u, loop.pub)'
    BY DEF RoundTimes
  <2>1. CASE Fetch
    <3>1. loop'.pub = source /\ source # NoPublication /\ source' = source
      BY <1>2, <2>1 DEF Fetch
    <3>2. loop.pc = "sleep"
      BY <2>1 DEF Fetch, Awake
    <3>3. Log' = Log /\ instanceStates' = instanceStates
      BY <3>2, OtherSteps DEF UpdateSegment, CloseMissing, PublishStates
    <3>4. \A u \in UIDs : /\ Until(u, source.time)
                          /\ instanceStates[u].active => Past(u, source)
      BY <3>1 DEF SourceTimes
    <3> QED  BY <3>1, <3>3, <3>4 DEF Until, Past
  <2>2. CASE ~Fetch
    <3>1. loop.pc # "sleep" /\ loop'.pub = loop.pub /\ loop.pub # NoPublication
      BY <1>1, <1>2, <2>2
    <3>2. source # NoPublication
      BY <3>1 DEF SourceTimes
    <3>3. loop.pub = source \/ loop.pub.time + Jitter < source.time
      BY <3>1 DEF RoundTimes
    <3>4. loop'.pub = source' \/ loop'.pub.time + Jitter < source'.time
      <4>1. CASE source' = source
        BY <3>1, <3>3, <4>1
      <4>2. CASE source' # source
        <5>1. source'.time > source.time + Jitter /\ source'.time \in Nat
          BY <1>2, <1>3, <3>2, <4>2, NoPublicationAssumption
        <5>2. loop.pub.time <= source.time
          BY <1>1, <3>1, <3>2, <3>3
        <5> QED  BY <1>1, <3>1, <3>2, <5>1, <5>2
      <4> QED  BY <4>1, <4>2
    <3>5. ASSUME NEW u \in UIDs, NEW i \in DOMAIN Log'[u], Log'[u][i].kind = "active"
          PROVE  Log'[u][i].time <= loop'.pub.time
      <4>1. CASE InLog(u, i)
        BY <3>1, <3>5, <4>1 DEF RoundTimes, Until, InLog
      <4>2. CASE New(u) /\ Log'[u][i] = Report(loop.pub, u)
        BY <1>6, <3>1, <4>2
      <4> QED  BY <1>4, <3>5, <4>1, <4>2
    <3>6. ASSUME NEW u \in UIDs, instanceStates'[u].active, u \notin loop'.pub.segments,
                 NEW i \in DOMAIN Log'[u], Log'[u][i].kind = "active"
          PROVE  Log'[u][i].time + Jitter < loop'.pub.time
      <4>1. ~New(u)
        BY <1>6, <3>1, <3>6
      <4>2. InLog(u, i) /\ instanceStates[u].active
        BY <1>4, <1>5, <3>6, <4>1
      <4>3. Past(u, loop.pub)
        BY <3>1, <4>2 DEF RoundTimes
      <4> QED  BY <3>1, <3>6, <4>2, <4>3 DEF Past, InLog
    <3>7. \A u \in UIDs : Until(u, loop.pub.time)'
      BY <3>5 DEF Until
    <3>8. \A u \in UIDs : instanceStates'[u].active => Past(u, loop.pub)'
      BY <3>6 DEF Past
    <3> QED  BY <3>4, <3>7, <3>8
  <2> QED  BY <2>1, <2>2
<1> QED  BY <1>8, <1>9

LEMMA NextEndTimes ==
  TypeOK /\ RoundTimes /\ EndTimes /\ [Next]_vars => EndTimes'
<1> SUFFICES ASSUME TypeOK, RoundTimes, EndTimes, [Next]_vars, used'.failures = 0,
                    NEW u \in UIDs, ~instanceStates'[u].active,
                    NEW i \in DOMAIN Log'[u], Log'[u][i].kind = "active"
             PROVE  \E j \in DOMAIN Log'[u] :
                      /\ j > i /\ Log'[u][j].kind = "close"
                      /\ Log'[u][j].time >= Log'[u][i].time
  BY DEF EndTimes
<1>0. used.failures = 0 /\ (PublishStates => Log' = Log)
  BY FailuresStay
<1>1. ~instanceStates[u].active => \A k \in DOMAIN Log[u] : Log[u][k].kind = "active" =>
        \E j \in DOMAIN Log[u] :
          j > k /\ Log[u][j].kind = "close" /\ Log[u][j].time >= Log[u][k].time
  BY <1>0 DEF EndTimes
<1>2. CASE CloseMissing
  <2>1. PICK d \in [Missing -> Offsets] :
          /\ u \notin Missing => Log'[u] = Log[u]
          /\ u \in Missing =>
               /\ Len(Log[u]) \in Nat
               /\ Log'[u][Len(Log[u]) + 1] = Closing(u, d)
               /\ Len(Log[u]) + 1 \in DOMAIN Log'[u]
               /\ \A k \in DOMAIN Log[u] : Log'[u][k] = Log[u][k] /\ k < Len(Log[u]) + 1
               /\ \A k \in DOMAIN Log'[u] : k = Len(Log[u]) + 1 \/ k \in DOMAIN Log[u]
    BY <1>2, ClosingMessages
  <2>2. CASE u \in Missing
    <3>1. /\ Closing(u, d).kind = "close" /\ Closing(u, d).time = loop.pub.time + d[u]
          /\ d[u] \in Int /\ d[u] >= -Jitter
      <4>1. d[u] \in Offsets /\ Jitter \in Nat
        BY <2>2, ConstantsAssumption DEF ConstantsAssumption
      <4> QED  BY <4>1 DEF Closing, CloseTime, Offsets
    <3>2. i \in DOMAIN Log[u] /\ Log'[u][i] = Log[u][i] /\ i < Len(Log[u]) + 1
      BY <2>1, <2>2, <3>1
    <3>3. Log[u][i].time + Jitter < loop.pub.time
      <4>1. instanceStates[u].active /\ u \notin loop.pub.segments
        BY <2>2 DEF Missing
      <4>2. Past(u, loop.pub)
        BY <1>2, <4>1 DEF CloseMissing, RoundTimes
      <4> QED  BY <3>2, <4>1, <4>2 DEF Past
    <3>4. Log[u][i].time \in Int /\ Jitter \in Nat /\ loop.pub.time \in Nat
      <4>1. loop.pub # NoPublication
        BY <1>2 DEF CloseMissing, TypeOK
      <4> QED  BY <3>2, <4>1, TimesAreNumbers
    <3>5. Closing(u, d).time >= Log[u][i].time
      BY <3>1, <3>3, <3>4
    <3>6. DOMAIN Log[u] \subseteq Int
      <4>1. Log[u] \in Seq(Message)
        BY LogType
      <4> QED  BY <4>1, LenProperties
    <3> QED  BY <2>1, <2>2, <3>1, <3>2, <3>5, <3>6
  <2>3. CASE u \notin Missing
    <3>1. ~instanceStates[u].active
      BY <1>2, <2>3, RememberedStates
    <3> QED  BY <1>1, <2>1, <2>3, <3>1
  <2> QED  BY <2>2, <2>3
<1>3. CASE UpdateSegment
  <2>1. u # loop.uid
    BY <1>3, RememberedStates
  <2>2. Log'[u] = Log[u] /\ instanceStates'[u] = instanceStates[u]
    BY <1>3, <2>1, SegmentMessages, RememberedStates
  <2> QED  BY <1>1, <2>2
<1>4. CASE PublishStates
  BY <1>0, <1>1, <1>4, RememberedStates
<1>5. CASE ~UpdateSegment /\ ~CloseMissing /\ ~PublishStates
  BY <1>1, <1>5, OtherSteps
<1> QED  BY <1>2, <1>3, <1>4, <1>5

\* Between two rounds, as long as nothing failed, every active state of a segment
\* that is gone is followed by a closing message that is not older, whatever the
\* jitter and although active states carry the measurements' own times.
THEOREM EndsVisible == Spec => []EndsVisibleInEventTime
<1> DEFINE Inv == RoundInv /\ SourceTimes /\ RoundTimes /\ EndTimes
<1>1. Init => Inv
  <2> SUFFICES ASSUME Init PROVE Inv
    OBVIOUS
  <2>1. history.last = {} /\ source = NoPublication
    BY DEF Init
  <2>2. DOMAIN <<>> = {}
    OBVIOUS
  <2> QED  BY <2>1, <2>2, InitLog DEF RoundInv, SourceTimes, RoundTimes, EndTimes
<1>2. TypeOK /\ Inv => EndsVisibleInEventTime
  <2> SUFFICES ASSUME TypeOK, Inv, Quiet, NEW u \in UIDs, ~instanceStates[u].active,
                      NEW i \in Sent(u, "active")
               PROVE  \E j \in Sent(u, "close") : j > i /\ kpi[u][j].time >= kpi[u][i].time
    BY DEF EndsVisibleInEventTime
  <2>1. loop.pc = "sleep" /\ used.failures = 0
    BY DEF Quiet
  <2>2. Log = kpi
    BY <2>1, DeliveredEmpty DEF TypeOK, Log
  <2>3. i \in DOMAIN Log[u] /\ Log[u][i].kind = "active"
    BY <2>2 DEF Sent
  <2> QED  BY <2>1, <2>2, <2>3 DEF EndTimes, Sent
<1>3. TypeOK /\ Inv /\ [Next]_vars => Inv'
  BY NextRoundInv, NextTimes, NextEndTimes
<1> QED  BY <1>1, <1>2, <1>3, TypeCorrect, PTL DEF Spec

-----------------------------------------------------------------------------
(* Every change of activity has a message of its own *)

FeedKinds == Kinds \cup {"inactive"}
ActiveNow == [u \in UIDs |-> instanceStates[u].active]
Outbox == [u \in UIDs |-> [k \in FeedKinds |-> Pending(u, k)]]
KindsSent == [u \in UIDs |-> [i \in DOMAIN kpi[u] |-> kpi[u][i].kind]]

\* The steps of the abstract specification, in terms of these three.
Decided(on, off, again, first) ==
  /\ {on, off, again, first} \subseteq SUBSET UIDs
  /\ \A u \in on \cup first : ~ActiveNow[u]
  /\ \A u \in off \cup again : ActiveNow[u]
  /\ off \cap again = {}
  /\ ActiveNow' = [u \in UIDs |-> (ActiveNow[u] \/ u \in on) /\ u \notin off]
  /\ Outbox' = [u \in UIDs |-> [k \in FeedKinds |-> Outbox[u][k] +
                  IF \/ k = "start" /\ u \in first
                     \/ k = "active" /\ u \in on \cup again
                     \/ k = "close" /\ u \in off
                  THEN 1 ELSE 0]]
  /\ KindsSent' = KindsSent

LEMMA FeedDecides ==
  ASSUME NEW on, NEW off, NEW again, NEW first, Decided(on, off, again, first)
  PROVE  Feed!Next
<1> DEFINE how == [u \in UIDs |-> "close"]
<1>1. how \in [UIDs -> {"inactive", "close"}] /\ \A u \in UIDs : how[u] = "close"
  OBVIOUS
<1>2. FeedKinds = Feed!Kinds
  BY DEF FeedKinds, Kinds, Feed!Kinds
<1> HIDE DEF how
<1>3. Outbox' = [u \in UIDs |-> [k \in Feed!Kinds |-> Outbox[u][k] +
                   IF \/ k = "start" /\ u \in first
                      \/ k = "active" /\ u \in on \cup again
                      \/ u \in off /\ k = how[u]
                   THEN 1 ELSE 0]]
  BY <1>1, <1>2 DEF Decided
<1>4. on \in SUBSET UIDs /\ off \in SUBSET UIDs /\ again \in SUBSET UIDs
      /\ first \in SUBSET UIDs
  BY DEF Decided
<1>5. Feed!Decide(on, off, again, first)
  BY <1>1, <1>3 DEF Decided, Feed!Decide, ActiveNow, Outbox, KindsSent, FeedKinds
<1> QED  BY <1>4, <1>5 DEF Feed!Next, Feed!Change

LEMMA FeedCardinality == \A S : Feed!Cardinality(S) = Cardinality(S)
  BY DEF Feed!Cardinality, Cardinality

LEMMA FeedDispatches ==
  ASSUME ActiveNow' = ActiveNow,
         kpi \in [UIDs -> Seq(Message)], kpi' \in [UIDs -> Seq(Message)],
         \A u \in UIDs : Begins(kpi[u], kpi'[u]),
         \A u \in UIDs : \A k \in FeedKinds :
           Outbox'[u][k] \in 0 .. (Outbox[u][k] - Cardinality(NewPlaces(kpi[u], kpi'[u], k)))
  PROVE  Feed!Next
<1>1. FeedKinds = Feed!Kinds
  BY DEF FeedKinds, Kinds, Feed!Kinds
<1>2. ASSUME NEW u \in UIDs
      PROVE  /\ Len(KindsSent'[u]) >= Len(KindsSent[u])
             /\ SubSeq(KindsSent'[u], 1, Len(KindsSent[u])) = KindsSent[u]
             /\ \A k : {i \in DOMAIN KindsSent'[u] \ DOMAIN KindsSent[u] : KindsSent'[u][i] = k}
                         = NewPlaces(kpi[u], kpi'[u], k)
  <2>1. kpi[u] \in Seq(Message) /\ kpi'[u] \in Seq(Message) /\ Begins(kpi[u], kpi'[u])
    OBVIOUS
  <2>2. KindsSent[u] = KindsOf(kpi[u]) /\ KindsSent'[u] = KindsOf(kpi'[u])
    BY DEF KindsSent, KindsOf
  <2>3. \A m \in Message : m.kind \in Kinds
    BY DEF Message
  <2> DEFINE s == kpi[u]
             t == kpi'[u]
  <2>4. s \in Seq(Message) /\ t \in Seq(Message) /\ Begins(s, t)
    BY <2>1
  <2> HIDE DEF s, t
  <2>5. /\ Len(KindsOf(t)) >= Len(KindsOf(s))
        /\ SubSeq(KindsOf(t), 1, Len(KindsOf(s))) = KindsOf(s)
        /\ \A k : {i \in DOMAIN KindsOf(t) \ DOMAIN KindsOf(s) : KindsOf(t)[i] = k} =
                    NewPlaces(s, t, k)
    BY <2>3, <2>4, KindsOfLog
  <2> QED  BY <2>2, <2>5 DEF s, t
<1>3. ASSUME NEW u \in UIDs, NEW k \in Feed!Kinds
      PROVE  Feed!Gained(u, k) = Cardinality(NewPlaces(kpi[u], kpi'[u], k))
  <2>1. Feed!Gained(u, k) = Cardinality({i \in DOMAIN KindsSent'[u] \ DOMAIN KindsSent[u] :
                                           KindsSent'[u][i] = k})
    BY FeedCardinality DEF Feed!Gained, KindsSent
  <2> QED  BY <1>2, <2>1
<1>4. ASSUME NEW u \in UIDs, NEW k \in Feed!Kinds
      PROVE  Outbox'[u][k] \in 0 .. (Outbox[u][k] - Feed!Gained(u, k))
  BY <1>1, <1>3
<1>5. Feed!Dispatch
  BY <1>1, <1>2, <1>4 DEF Feed!Dispatch, ActiveNow, Outbox, KindsSent, FeedKinds
<1> QED  BY <1>5 DEF Feed!Next

LEMMA PendingPlaces ==
  \A u, k : /\ Pending(u, k) = Cardinality(Places(loop.states, u, k))
            /\ Pending(u, k)' = Cardinality(Places(loop'.states, u, k))
  BY DEF Pending, Places

LEMMA FeedSegment == TypeOK /\ StartInv /\ UpdateSegment => Feed!Next
<1> SUFFICES ASSUME TypeOK, StartInv, UpdateSegment PROVE Feed!Next
  OBVIOUS
<1> DEFINE u == loop.uid
           on == IF instanceStates[u].active THEN {} ELSE {u}
           again == IF instanceStates[u].active THEN {u} ELSE {}
           first == IF NeedsStart(u) THEN {u} ELSE {}
           off == {}
           N(v, k) == Cardinality(Places(loop.states, v, k))
           one(v, k) == IF \/ k = "start" /\ v \in first
                           \/ k = "active" /\ v \in on \cup again
                           \/ k = "close" /\ v \in off
                        THEN 1 ELSE 0
<1>1. u \in UIDs /\ loop.states \in Seq(Message) /\ loop.pc # "sleep"
      /\ instanceStates \in [UIDs -> InstanceState]
  BY DEF TypeOK, Locals, UpdateSegment
<1>2. NeedsStart(u) => ~instanceStates[u].active
  BY <1>1 DEF NeedsStart, StartInv
<1>3. PICK d \in Int : loop'.states =
        IF NeedsStart(u) THEN Append(Append(loop.states, Start(u, d)), Report(loop.pub, u))
                         ELSE Append(loop.states, Report(loop.pub, u))
  BY SegmentStates
<1> DEFINE s == Start(u, d)
           r == Report(loop.pub, u)
           once == Append(loop.states, s)
<1>4. /\ s \in Message /\ s.uid = u /\ s.kind = "start"
      /\ r \in Message /\ r.uid = u /\ r.kind = "active"
  BY <1>1, MessageTypes DEF Start, Report
<1>5. once \in Seq(Message)
  BY <1>1, <1>4, AppendProperties
<1>6. loop'.states = IF NeedsStart(u) THEN Append(once, r) ELSE Append(loop.states, r)
  BY <1>3
<1> HIDE DEF s, r, once
<1>7. ASSUME NEW v \in UIDs, NEW k \in FeedKinds
      PROVE  Pending(v, k)' = N(v, k) + one(v, k)
  <2>1. N(v, k) \in Nat
    BY <1>1, FinitePlaces
  <2>2. Cardinality(Places(once, v, k)) = N(v, k) + (IF s.uid = v /\ s.kind = k THEN 1 ELSE 0)
    BY <1>1, <1>4, PlacesAppend DEF once
  <2>3. Cardinality(Places(Append(once, r), v, k)) =
          Cardinality(Places(once, v, k)) + (IF r.uid = v /\ r.kind = k THEN 1 ELSE 0)
    BY <1>4, <1>5, PlacesAppend
  <2>4. Cardinality(Places(Append(loop.states, r), v, k)) =
          N(v, k) + (IF r.uid = v /\ r.kind = k THEN 1 ELSE 0)
    BY <1>1, <1>4, PlacesAppend
  <2>5. Pending(v, k)' = Cardinality(Places(loop'.states, v, k))
    BY PendingPlaces
  <2>6. v \in on \cup again <=> v = u
    OBVIOUS
  <2> HIDE DEF N
  <2>7. CASE NeedsStart(u)
    <3>1. Pending(v, k)' = N(v, k) + (IF s.uid = v /\ s.kind = k THEN 1 ELSE 0)
                                   + (IF r.uid = v /\ r.kind = k THEN 1 ELSE 0)
      BY <1>6, <2>2, <2>3, <2>5, <2>7
    <3>2. v \in first <=> v = u
      BY <2>7
    <3> HIDE DEF on, again, first, u
    <3> QED  BY <1>4, <2>1, <2>6, <3>1, <3>2
  <2>8. CASE ~NeedsStart(u)
    <3>1. Pending(v, k)' = N(v, k) + (IF r.uid = v /\ r.kind = k THEN 1 ELSE 0)
      BY <1>6, <2>4, <2>5, <2>8
    <3>2. v \notin first
      BY <2>8
    <3> HIDE DEF on, again, first, u
    <3> QED  BY <1>4, <2>1, <2>6, <3>1, <3>2
  <2> QED  BY <2>7, <2>8
<1>8. \A v \in UIDs : \A k \in FeedKinds : Outbox[v][k] = N(v, k)
  BY PendingPlaces DEF Outbox
<1>9. Outbox' = [v \in UIDs |-> [k \in FeedKinds |-> Outbox[v][k] + one(v, k)]]
  <2>1. \A v \in UIDs : \A k \in FeedKinds : Pending(v, k)' = Outbox[v][k] + one(v, k)
    BY <1>7, <1>8
  <2> HIDE DEF one
  <2> QED  BY <2>1 DEF Outbox
<1>10. ActiveNow' = [v \in UIDs |-> (ActiveNow[v] \/ v \in on) /\ v \notin off]
  <2>1. instanceStates' = [instanceStates EXCEPT ![u] = [active |-> TRUE, seen |-> TRUE]]
    BY DEF UpdateSegment
  <2>2. \A v \in UIDs : instanceStates'[v].active =
                          (instanceStates[v].active \/ v \in on)
    BY <1>1, <2>1 DEF InstanceState
  <2> QED  BY <2>2 DEF ActiveNow
<1>11. KindsSent' = KindsSent
  BY DEF KindsSent, UpdateSegment
<1>12. /\ on \in SUBSET UIDs /\ again \in SUBSET UIDs /\ first \in SUBSET UIDs
       /\ \A v \in on \cup first : ~ActiveNow[v]
       /\ \A v \in off \cup again : ActiveNow[v]
       /\ off \in SUBSET UIDs /\ off \cap again = {}
  BY <1>1, <1>2 DEF ActiveNow
<1> HIDE DEF on, off, again, first
<1>13. Decided(on, off, again, first)
  BY <1>9, <1>10, <1>11, <1>12 DEF Decided
<1> QED  BY <1>13, FeedDecides

LEMMA FeedClosing == TypeOK /\ CloseMissing => Feed!Next
<1> SUFFICES ASSUME TypeOK, CloseMissing PROVE Feed!Next
  OBVIOUS
<1> DEFINE on == {}
           again == {}
           first == {}
           off == Missing
           N(v, k) == Cardinality(Places(loop.states, v, k))
           one(v, k) == IF \/ k = "start" /\ v \in first
                           \/ k = "active" /\ v \in on \cup again
                           \/ k = "close" /\ v \in off
                        THEN 1 ELSE 0
<1>1. loop.states \in Seq(Message) /\ instanceStates \in [UIDs -> InstanceState]
  BY DEF TypeOK, Locals
<1>2. PICK last \in Seq(Message), d \in [Missing -> Offsets] :
        /\ loop' = [loop EXCEPT !.pc = "publish", !.states = @ \o last]
        /\ OnePerInstance(last)
        /\ \A i \in DOMAIN last : last[i].uid \in Missing /\ last[i] = Closing(last[i].uid, d)
        /\ \A u \in Missing : \E i \in DOMAIN last : last[i].uid = u
  BY ClosingStates
<1>3. loop'.states = loop.states \o last
  BY <1>2 DEF TypeOK, Locals
<1>4. \A i \in DOMAIN last : last[i].kind = "close"
  BY <1>2 DEF Closing
<1>5. ASSUME NEW v \in UIDs, NEW k \in FeedKinds
      PROVE  Pending(v, k)' = N(v, k) + one(v, k)
  <2>1. Pending(v, k)' = N(v, k) + Cardinality(Places(last, v, k))
    BY <1>1, <1>2, <1>3, PendingPlaces, PlacesConcat
  <2>2. Cardinality(Places(last, v, k)) =
          IF \E i \in DOMAIN last : last[i].uid = v /\ last[i].kind = k THEN 1 ELSE 0
    BY <1>2, PlacesOnce
  <2>3. (\E i \in DOMAIN last : last[i].uid = v /\ last[i].kind = k)
           <=> v \in Missing /\ k = "close"
    BY <1>2, <1>4
  <2> HIDE DEF N
  <2> QED  BY <2>1, <2>2, <2>3
<1>6. \A v \in UIDs : \A k \in FeedKinds : Outbox[v][k] = N(v, k)
  BY PendingPlaces DEF Outbox
<1>7. Outbox' = [v \in UIDs |-> [k \in FeedKinds |-> Outbox[v][k] + one(v, k)]]
  <2>1. \A v \in UIDs : \A k \in FeedKinds : Pending(v, k)' = Outbox[v][k] + one(v, k)
    BY <1>5, <1>6
  <2> HIDE DEF one
  <2> QED  BY <2>1 DEF Outbox
<1>8. ActiveNow' = [v \in UIDs |-> (ActiveNow[v] \/ v \in on) /\ v \notin off]
  <2>1. instanceStates' = [v \in UIDs |-> IF v \in Missing
                             THEN [instanceStates[v] EXCEPT !.active = FALSE]
                             ELSE instanceStates[v]]
    BY DEF CloseMissing
  <2>2. \A v \in UIDs : instanceStates'[v].active =
                          (instanceStates[v].active /\ v \notin Missing)
    BY <1>1, <2>1 DEF InstanceState
  <2>3. \A v \in UIDs : instanceStates[v].active \in BOOLEAN
    BY <1>1 DEF InstanceState
  <2> QED  BY <2>2, <2>3 DEF ActiveNow
<1>9. KindsSent' = KindsSent
  BY DEF KindsSent, CloseMissing
<1>10. /\ on \in SUBSET UIDs /\ again \in SUBSET UIDs /\ first \in SUBSET UIDs
       /\ off \in SUBSET UIDs /\ off \cap again = {}
       /\ \A v \in on \cup first : ~ActiveNow[v]
       /\ \A v \in off \cup again : ActiveNow[v]
  BY DEF Missing, ActiveNow
<1> HIDE DEF on, off, again, first
<1>11. Decided(on, off, again, first)
  BY <1>7, <1>8, <1>9, <1>10 DEF Decided
<1> QED  BY <1>11, FeedDecides

LEMMA FeedPublished == TypeOK /\ PublishStates => Feed!Next
<1> SUFFICES ASSUME TypeOK, PublishStates PROVE Feed!Next
  OBVIOUS
<1>1. /\ kpi \in [UIDs -> Seq(Message)] /\ loop.states \in Seq(Message)
      /\ Len(loop.states) \in Nat
  BY LenProperties DEF TypeOK, Locals
<1>2. kpi' \in [UIDs -> Seq(Message)]
  <2>1. TypeOK'
    BY NextTypeOK DEF Next, Loop
  <2> QED  BY <2>1 DEF TypeOK
<1>3. PICK n \in 0 .. Len(loop.states) : kpi' = Published(n)
  <2>1. FailedPrefixes(Len(loop.states), BatchLimit) \subseteq 0 .. Len(loop.states)
    BY <1>1 DEF FailedPrefixes
  <2>2. Len(loop.states) \in 0 .. Len(loop.states)
    BY <1>1
  <2> QED  BY <2>1, <2>2 DEF PublishStates
<1>4. ASSUME NEW u \in UIDs, NEW k
      PROVE  /\ Begins(kpi[u], kpi'[u])
             /\ Cardinality(NewPlaces(kpi[u], kpi'[u], k)) \in Nat
             /\ Cardinality(NewPlaces(kpi[u], kpi'[u], k)) <=
                  Cardinality(Places(loop.states, u, k))
  <2> DEFINE list == loop.states
  <2>1. list \in Seq(Message) /\ n \in 0 .. Len(list)
    BY <1>1, <1>3
  <2>2. kpi' = Delivered(kpi, SubSeq(list, 1, n))
    BY <1>3 DEF Published
  <2> HIDE DEF list
  <2>3. LET cut == Delivered(kpi, SubSeq(list, 1, n))[u] IN
        /\ Begins(kpi[u], cut)
        /\ Cardinality(NewPlaces(kpi[u], cut, k)) \in Nat
        /\ Cardinality(NewPlaces(kpi[u], cut, k)) <= Cardinality(Places(list, u, k))
    BY <1>1, <2>1, Addresses, CutCounts
  <2> QED  BY <2>2, <2>3 DEF list
<1>5. ASSUME NEW u \in UIDs, NEW k \in FeedKinds
      PROVE  Outbox'[u][k] \in 0 .. (Outbox[u][k] - Cardinality(NewPlaces(kpi[u], kpi'[u], k)))
  <2>1. loop'.states = <<>>
    BY WakeType, SleepingType DEF PublishStates
  <2>2. Pending(u, k)' = 0
    BY <2>1, PendingPlaces, NoPlaces
  <2>3. Outbox'[u][k] = 0
    BY <2>2 DEF Outbox
  <2>4. Outbox[u][k] = Cardinality(Places(loop.states, u, k))
    BY PendingPlaces DEF Outbox
  <2>5. Cardinality(Places(loop.states, u, k)) \in Nat
    BY <1>1, FinitePlaces
  <2> QED  BY <1>4, <2>3, <2>4, <2>5
<1>6. ActiveNow' = ActiveNow
  BY DEF ActiveNow, PublishStates
<1> QED  BY <1>1, <1>2, <1>4, <1>5, <1>6, FeedDispatches

\* Every change of the recorded activity is announced by one message of its own,
\* published once, in the order decided, or lost with the list a failure cut.
THEOREM FeedImplemented == Spec => ImplementsFeed
<1>1. Init => Feed!Init
  <2> SUFFICES ASSUME Init PROVE Feed!Init
    OBVIOUS
  <2>1. loop.states = <<>> /\ kpi = [u \in UIDs |-> <<>>]
        /\ instanceStates = [u \in UIDs |-> [active |-> FALSE, seen |-> FALSE]]
    BY DEF Init, Sleeping
  <2>2. \A u, k : Pending(u, k) = 0
    BY <2>1, PendingPlaces, NoPlaces
  <2>3. FeedKinds = Feed!Kinds
    BY DEF FeedKinds, Kinds, Feed!Kinds
  <2>4. Outbox = [u \in UIDs |-> [k \in Feed!Kinds |-> 0]]
    BY <2>2, <2>3 DEF Outbox
  <2>5. KindsSent = [u \in UIDs |-> <<>>]
    BY <2>1 DEF KindsSent
  <2>6. ActiveNow = [u \in UIDs |-> FALSE]
    BY <2>1 DEF ActiveNow
  <2> QED  BY <2>4, <2>5, <2>6 DEF Feed!Init, Outbox, KindsSent, ActiveNow, FeedKinds
<1>2. TypeOK /\ StartInv /\ [Next]_vars => [Feed!Next]_(Feed!vars)
  <2> SUFFICES ASSUME TypeOK, StartInv, [Next]_vars PROVE Feed!Next \/ UNCHANGED Feed!vars
    OBVIOUS
  <2>1. CASE ~UpdateSegment /\ ~CloseMissing /\ ~PublishStates
    <3>1. kpi' = kpi /\ instanceStates' = instanceStates /\ loop'.states = loop.states
      BY <2>1, OtherStates
    <3> QED  BY <3>1 DEF Feed!vars, Pending
  <2> QED  BY <2>1, FeedSegment, FeedClosing, FeedPublished
<1>3. Init => StartInv
  BY InitLog DEF StartInv
<1> QED  BY <1>1, <1>2, <1>3, NextStartInv, TypeCorrect, PTL DEF Spec, ImplementsFeed, Feed!Spec
=============================================================================
