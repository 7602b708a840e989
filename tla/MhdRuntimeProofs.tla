-------------------------- MODULE MhdRuntimeProofs --------------------------
(***************************************************************************)
(* Theorems about MhdRuntime, for every set of trips, every timetable and  *)
(* every value of the configuration.                                       *)
(***************************************************************************)
EXTENDS MhdRuntime, BatchesProofs

USE ConstantsAssumption DEF ConstantsAssumption, NeedsStart, Reports

LEMMA AnyUIDType == AnyUID \in UIDs
  BY DEF AnyUID

LEMMA WsLocalsType ==
  /\ Reading \in WsLocals
  /\ \A p \in WsPCs : [ws EXCEPT !.pc = p] \in WsLocals \/ ws \notin WsLocals
  /\ \A p \in WsPCs, b \in BOOLEAN :
       [ws EXCEPT !.pc = p, !.wasActive = b] \in WsLocals \/ ws \notin WsLocals
<1>1. Reading \in WsLocals
  BY AnyUIDType DEF Reading, WsLocals, WsPCs
<1>2. \A p \in WsPCs : [ws EXCEPT !.pc = p] \in WsLocals \/ ws \notin WsLocals
  BY DEF WsLocals
<1>3. \A p \in WsPCs, b \in BOOLEAN :
        [ws EXCEPT !.pc = p, !.wasActive = b] \in WsLocals \/ ws \notin WsLocals
  BY DEF WsLocals
<1> QED  BY <1>1, <1>2, <1>3

(* Sequences are kept apart from the other types. *)

LEMMA AppendType == \A s \in Messages : \A m \in Message : Append(s, m) \in Messages
  BY DEF Messages

LEMMA SnapshotsType ==
  /\ <<>> \in Messages
  /\ <<>> \in Snapshots
  /\ \A q \in Snapshots : \A S \in SUBSET UIDs : Append(q, S) \in Snapshots
  /\ \A q \in Snapshots : q # <<>> => Head(q) \in SUBSET UIDs /\ Tail(q) \in Snapshots
  BY DEF Snapshots, Messages

LEMMA InitTypeOK == Init => TypeOK
  BY AnyUIDType, SnapshotsType DEF Init, TypeOK, InstanceState, Closing, NoState, NotDue,
     Reading, WsPCs, WsLocals, Bounds

LEMMA PublishStateType ==
  ASSUME TypeOK, NEW u \in UIDs, NEW m \in Message, PublishState(u, m)
  PROVE  kpi' \in [UIDs -> Messages] /\ used' \in Bounds
<1>1. kpi \in [UIDs -> Messages] /\ used \in Bounds
  BY DEF TypeOK
<1>2. CASE kpi' = Appended(u, m) /\ UNCHANGED used
  <2>1. Append(kpi[u], m) \in Messages
    BY <1>1, AppendType
  <2> QED  BY <1>1, <1>2, <2>1 DEF Appended
<1>3. CASE Fail /\ UNCHANGED kpi
  BY <1>1, <1>3 DEF Fail, Bounds
<1> QED  BY <1>2, <1>3 DEF PublishState

LEMMA PublishRegistrationsType ==
  ASSUME TypeOK, NEW S \in SUBSET UIDs, PublishRegistrations(S)
  PROVE  /\ requests' \in SUBSET UIDs
         /\ requested' \in [UIDs -> Nat]
         /\ lost' \in SUBSET UIDs
         /\ used' \in Bounds
  BY DEF TypeOK, PublishRegistrations, Fail, Bounds

LEMMA WebSocketType == TypeOK /\ WebSocket => TypeOK'
<1> SUFFICES ASSUME TypeOK, WebSocket PROVE TypeOK'
  OBVIOUS
<1> USE DEF stateVars, regVars, coreVars
<1>1. ASSUME NEW u \in UIDs, NEW o \in Occurrences[u], NEW ts \in 0 .. now,
             NEW i \in BOOLEAN, ReceiveRecord(u, o, ts, i)
      PROVE  TypeOK'
  <2>1. o.end \in Nat
    BY ScheduleAssumption DEF ScheduleAssumption
  <2>2. used' \in Bounds
    BY <1>1 DEF TypeOK, ReceiveRecord, Bounds
  <2>3. ws' \in WsLocals
    <3>1. ts \in Int /\ o.end + TripEndReserve \in Int /\ ws \in WsLocals
      BY <2>1 DEF TypeOK
    <3>2. ws' = [ws EXCEPT !.pc = "check", !.uid = u, !.closeAt = o.end + TripEndReserve,
                           !.ts = ts, !.inactive = i]
      BY <1>1 DEF ReceiveRecord
    <3> QED  BY <3>1, <3>2 DEF WsLocals, WsPCs
  <2> QED  BY <1>1, <2>2, <2>3 DEF TypeOK, ReceiveRecord
<1>2. CASE CheckRegistered
  BY <1>2 DEF TypeOK, CheckRegistered, WsPCs, WsLocals
<1>3. CASE RequestRegistration
  <2>1. PublishRegistrations({ws.uid}) /\ {ws.uid} \in SUBSET UIDs
    BY <1>3 DEF RequestRegistration, TypeOK, WsLocals
  <2>2. /\ requests' \in SUBSET UIDs
        /\ requested' \in [UIDs -> Nat]
        /\ lost' \in SUBSET UIDs
        /\ used' \in Bounds
    BY <2>1, PublishRegistrationsType
  <2> QED  BY <1>3, <2>2 DEF TypeOK, RequestRegistration, WsPCs, WsLocals
<1>4. CASE MarkRegistered
  BY <1>4 DEF TypeOK, MarkRegistered, WsPCs, WsLocals
<1>5. CASE UpdateState
  <2>1. instanceStates' \in [UIDs -> InstanceState]
    BY <1>5 DEF TypeOK, UpdateState, InstanceState, WsLocals
  <2>2. instanceStates[ws.uid].active \in BOOLEAN
    BY DEF TypeOK, InstanceState, WsLocals
  <2>3. ws' \in WsLocals
    <3>1. \/ ws' = Reading
          \/ \E pc \in WsPCs : ws' = [ws EXCEPT !.pc = pc,
                                     !.wasActive = instanceStates[ws.uid].active]
      BY <1>5 DEF UpdateState, WsPCs, WsLocals
    <3>2. ws \in WsLocals
      BY DEF TypeOK
    <3>3. CASE ws' = Reading
      BY <3>3, WsLocalsType
    <3>4. ASSUME NEW pc \in WsPCs,
                 ws' = [ws EXCEPT !.pc = pc, !.wasActive = instanceStates[ws.uid].active]
          PROVE  ws' \in WsLocals
      BY <2>2, <3>2, <3>4, WsLocalsType
    <3> QED  BY <3>1, <3>3, <3>4
  <2> QED  BY <1>5, <2>1, <2>3 DEF TypeOK, UpdateState
<1>6. CASE PublishStart
  <2>1. PICK d \in Offsets : PublishState(ws.uid, [kind |-> "start", time |-> StartedAt + d])
    BY <1>6 DEF PublishStart
  <2>2. [kind |-> "start", time |-> StartedAt + d] \in Message /\ ws.uid \in UIDs
    BY DEF Message, Kinds, Offsets, TypeOK, WsLocals
  <2>3. kpi' \in [UIDs -> Messages] /\ used' \in Bounds
    BY <2>1, <2>2, PublishStateType
  <2>4. ws' = Reading \/ ws' = [ws EXCEPT !.pc = "report"]
    BY <1>6 DEF PublishStart
  <2>5. ws' \in WsLocals
    BY <2>4, WsLocalsType DEF TypeOK, WsPCs
  <2> QED  BY <1>6, <2>3, <2>5 DEF TypeOK, PublishStart
<1>7. CASE PublishReport
  <2> DEFINE m == [kind |-> IF ws.inactive THEN "inactive" ELSE "active", time |-> ws.ts]
  <2>1. m \in Message /\ ws.uid \in UIDs
    BY DEF Message, Kinds, TypeOK, WsLocals
  <2>2. PublishState(ws.uid, m)
    BY <1>7 DEF PublishReport
  <2> HIDE DEF m
  <2>3. kpi' \in [UIDs -> Messages] /\ used' \in Bounds
    BY <2>1, <2>2, PublishStateType
  <2> QED  BY <1>7, <2>3, WsLocalsType DEF TypeOK, PublishReport
<1> QED  BY <1>1, <1>2, <1>3, <1>4, <1>5, <1>6, <1>7 DEF WebSocket

LEMMA ClosingLoopType == TypeOK /\ ClosingLoop => TypeOK'
<1> SUFFICES ASSUME TypeOK, ClosingLoop PROVE TypeOK'
  OBVIOUS
<1> USE DEF stateVars, regVars, coreVars
<1>1. CASE CloseExpired
  <2>1. instanceStates' \in [UIDs -> InstanceState]
    <3>1. \A u \in UIDs : instanceStates[u] \in InstanceState
      BY DEF TypeOK
    <3>2. \A s \in InstanceState : [s EXCEPT !.active = FALSE] \in InstanceState
      BY DEF InstanceState
    <3>3. instanceStates' = [u \in UIDs |-> IF u \in Expired
                                          THEN [instanceStates[u] EXCEPT !.active = FALSE]
                                          ELSE instanceStates[u]]
      BY <1>1 DEF CloseExpired
    <3> QED  BY <3>1, <3>2, <3>3
  <2>2. toClose' \in [UIDs -> Closing]
    BY <1>1 DEF TypeOK, CloseExpired, InstanceState, Closing, NotDue, Offsets
  <2> QED  BY <1>1, <2>1, <2>2 DEF TypeOK, CloseExpired
<1>2. ASSUME NEW u \in UIDs, PublishClose(u)
      PROVE  TypeOK'
  <2>1. [kind |-> "close", time |-> toClose[u].time] \in Message
    BY DEF Message, Kinds, TypeOK, Closing
  <2>2. kpi' \in [UIDs -> Messages] /\ used' \in Bounds
    BY <1>2, <2>1, PublishStateType DEF PublishClose
  <2>3. toClose' \in [UIDs -> Closing]
    BY <1>2 DEF TypeOK, PublishClose, Closing, NotDue
  <2> QED  BY <1>2, <2>2, <2>3 DEF TypeOK, PublishClose
<1> QED  BY <1>1, <1>2 DEF ClosingLoop

LEMMA RefreshType == TypeOK /\ Refresh => TypeOK'
<1> SUFFICES ASSUME TypeOK, Refresh PROVE TypeOK'
  OBVIOUS
<1> USE DEF stateVars, regVars, coreVars
<1>1. CASE RefreshWeek
  <2>1. used' \in Bounds
    BY <1>1 DEF TypeOK, RefreshWeek, Bounds
  <2>2. PICK S \in SUBSET UIDs :
          week' = S /\ refresh' = [refresh EXCEPT !.pc = "scan", !.todo = S, !.batch = {}]
    BY <1>1 DEF RefreshWeek
  <2> QED  BY <1>1, <2>1, <2>2 DEF TypeOK, RefreshWeek
<1>2. ASSUME NEW u \in UIDs, ScanWeekUID(u) PROVE TypeOK'
  BY <1>2 DEF TypeOK, ScanWeekUID
<1>3. CASE MarkWeekUID
  BY <1>3, AnyUIDType DEF TypeOK, MarkWeekUID
<1>4. CASE PublishBatch
  <2>1. PublishRegistrations(refresh.batch) /\ refresh.batch \in SUBSET UIDs
    BY <1>4 DEF PublishBatch, TypeOK
  <2>2. /\ requests' \in SUBSET UIDs
        /\ requested' \in [UIDs -> Nat]
        /\ lost' \in SUBSET UIDs
        /\ used' \in Bounds
    BY <2>1, PublishRegistrationsType
  <2> QED  BY <1>4, <2>2 DEF TypeOK, PublishBatch
<1> QED  BY <1>1, <1>2, <1>3, <1>4 DEF Refresh

LEMMA InstancesType == TypeOK /\ Instances => TypeOK'
<1> SUFFICES ASSUME TypeOK, Instances PROVE TypeOK'
  OBVIOUS
<1> USE DEF stateVars, regVars, coreVars
<1>1. CASE ApplyUpdate
  <2>1. used' \in Bounds
    <3>1. used' = [used EXCEPT !.applied = @ + 1] /\ used \in Bounds
      BY <1>1 DEF TypeOK, ApplyUpdate
    <3> QED  BY <3>1 DEF Bounds
  <2> QED  BY <1>1, <2>1, SnapshotsType DEF TypeOK, ApplyUpdate
<1>2. CASE UpdateTakenElsewhere
  BY <1>2, SnapshotsType DEF TypeOK, UpdateTakenElsewhere
<1>3. ASSUME NEW u \in UIDs, CoreRegister(u) PROVE TypeOK'
  <2>1. used' \in Bounds
    <3>1. used' = [used EXCEPT !.sent = @ + 1] /\ used.sent < MaxUpdates /\ used \in Bounds
      BY <1>3 DEF TypeOK, CoreRegister
    <3> QED  BY <3>1 DEF Bounds
  <2>2. coreKnown' \in SUBSET UIDs /\ updates \in Snapshots
    BY <1>3 DEF TypeOK, CoreRegister
  <2>3. updates' \in Snapshots
    BY <1>3, <2>2, SnapshotsType DEF CoreRegister
  <2> QED  BY <1>3, <2>1, <2>2, <2>3 DEF TypeOK, CoreRegister
<1> QED  BY <1>1, <1>2, <1>3 DEF Instances

(* Every step keeps every variable within its type, whatever the bounds, the
   timetable and the configuration: no record, refresh or update takes the
   runtime's tables out of the values the code declares for them. *)
THEOREM TypeCorrect == Spec => []TypeOK
<1>1. TypeOK /\ [Next]_vars => TypeOK'
  <2> SUFFICES ASSUME TypeOK, [Next]_vars PROVE TypeOK'
    OBVIOUS
  <2> USE DEF stateVars, regVars, coreVars
  <2>1. CASE Tick
    BY <2>1 DEF TypeOK, Tick
  <2>2. CASE UNCHANGED vars
    BY <2>2 DEF TypeOK, vars
  <2> QED
    BY <2>1, <2>2, WebSocketType, ClosingLoopType, RefreshType, InstancesType DEF Next
<1> QED  BY <1>1, InitTypeOK, PTL DEF Spec

-----------------------------------------------------------------------------
(* Announcements *)

(* Where a trip can be on its way to a published state, it is announced. *)
AnnouncedInv ==
  /\ \A u \in sdInstances : Announced(u)
  /\ \A i \in 1 .. Len(updates) : updates[i] \subseteq coreKnown
  /\ ws.pc \in {"mark", "update", "start", "report"} => Announced(ws.uid)
  /\ \A u \in UIDs : instanceStates[u].active \/ toClose[u].due => Announced(u)
  /\ StatesAreAnnounced

LEMMA SnapshotOps ==
  ASSUME NEW q \in Snapshots, NEW K \in SUBSET UIDs,
         \A i \in 1 .. Len(q) : q[i] \subseteq K
  PROVE  /\ \A S \in SUBSET K : \A i \in 1 .. Len(Append(q, S)) : Append(q, S)[i] \subseteq K
         /\ q # <<>> => /\ Head(q) \subseteq K
                        /\ \A i \in 1 .. Len(Tail(q)) : Tail(q)[i] \subseteq K
  BY SMTT(30) DEF Snapshots

(* What publishing does to announcements: whatever was handed over is
   requested or lost. *)
LEMMA PublishAnnounces ==
  ASSUME TypeOK, NEW S \in SUBSET UIDs, PublishRegistrations(S), NEW u \in UIDs
  PROVE  /\ u \in S => requested'[u] > 0 \/ u \in lost'
         /\ requested[u] > 0 => requested'[u] > 0
         /\ u \in lost => u \in lost'
<1> requested[u] \in Nat
  BY DEF TypeOK
<1>1. CASE /\ requested' = [v \in UIDs |-> IF v \in S THEN requested[v] + 1 ELSE requested[v]]
           /\ UNCHANGED lost
  BY <1>1
<1>2. ASSUME NEW done \in SUBSET S,
             requested' = [v \in UIDs |-> IF v \in done THEN requested[v] + 1
                                                        ELSE requested[v]],
             lost' = lost \cup (S \ done)
      PROVE  /\ u \in S => requested'[u] > 0 \/ u \in lost'
             /\ requested[u] > 0 => requested'[u] > 0
             /\ u \in lost => u \in lost'
  BY <1>2
<1> QED  BY <1>1, <1>2 DEF PublishRegistrations

(* An announcement is never taken back. *)
LEMMA AnnouncedStable ==
  ASSUME TypeOK, Next, NEW u \in UIDs, Announced(u)
  PROVE  Announced(u)'
<1> USE DEF stateVars, regVars, coreVars, Announced
<1>1. CASE RequestRegistration
  BY <1>1, PublishAnnounces DEF RequestRegistration, TypeOK, WsLocals
<1>2. CASE PublishBatch
  BY <1>2, PublishAnnounces DEF PublishBatch, TypeOK
<1>3. CASE MarkWeekUID
  BY <1>3 DEF MarkWeekUID, TypeOK
<1>4. CASE RefreshWeek
  BY <1>4 DEF RefreshWeek, TypeOK
<1>5. CASE Tick \/ ClosingLoop
  BY <1>5 DEF Tick, ClosingLoop, CloseExpired, PublishClose
<1>6. CASE Instances
  BY <1>6 DEF Instances, ApplyUpdate, UpdateTakenElsewhere, CoreRegister
<1>7. ASSUME NEW v \in UIDs, ScanWeekUID(v) PROVE Announced(u)'
  BY <1>7 DEF ScanWeekUID, TypeOK
<1>8. CASE WebSocket /\ ~RequestRegistration
  BY <1>8 DEF WebSocket, ReceiveRecord, CheckRegistered, MarkRegistered, UpdateState,
     PublishStart, PublishReport
<1> QED  BY <1>1, <1>2, <1>3, <1>4, <1>5, <1>6, <1>7, <1>8 DEF Next, Refresh

LEMMA InitAnnounced == Init => AnnouncedInv
  BY DEF Init, AnnouncedInv, Reading, NoState, NotDue, StatesAreAnnounced, Snapshots

(* A published message extends the messages of one announced trip. *)
LEMMA PublishKeepsAnnounced ==
  ASSUME TypeOK, AnnouncedInv, Next, NEW v \in UIDs, NEW m \in Message,
         PublishState(v, m), Announced(v)
  PROVE  StatesAreAnnounced'
<1> SUFFICES ASSUME NEW u \in UIDs, kpi'[u] # <<>> PROVE Announced(u)'
  BY DEF StatesAreAnnounced
<1>1. Announced(u)
  <2>1. u # v => kpi'[u] = kpi[u]
    BY DEF PublishState, Appended, TypeOK
  <2> QED  BY <2>1 DEF AnnouncedInv, StatesAreAnnounced
<1> QED  BY <1>1, AnnouncedStable

LEMMA NextAnnounced == TypeOK /\ AnnouncedInv /\ Next => AnnouncedInv'
<1> SUFFICES ASSUME TypeOK, AnnouncedInv, Next PROVE AnnouncedInv'
  OBVIOUS
<1> USE DEF stateVars, regVars, coreVars
<1>1. \A u \in UIDs : Announced(u) => Announced(u)'
  BY AnnouncedStable
<1>2. (\A u \in sdInstances : Announced(u))'
  <2>1. CASE ApplyUpdate
    <3>1. Head(updates) \subseteq coreKnown
      BY <2>1, SnapshotOps DEF ApplyUpdate, AnnouncedInv, TypeOK
    <3> QED  BY <2>1, <3>1 DEF ApplyUpdate, Announced
  <2>2. CASE MarkRegistered
    <3>1. sdInstances' = sdInstances \cup {ws.uid} /\ Announced(ws.uid)
      BY <2>2 DEF MarkRegistered, AnnouncedInv
    <3> QED  BY <1>1, <3>1 DEF AnnouncedInv, TypeOK, WsLocals
  <2>3. CASE MarkWeekUID
    <3>1. sdInstances' = sdInstances \cup {refresh.uid}
          /\ refresh' = [refresh EXCEPT !.pc = "scan", !.uid = AnyUID,
                                       !.batch = @ \cup {refresh.uid}]
      BY <2>3 DEF MarkWeekUID
    <3>2. refresh'.batch = refresh.batch \cup {refresh.uid}
      BY <3>1 DEF TypeOK
    <3>3. \A u \in sdInstances' : u \in sdInstances \/ u \in refresh'.batch
      BY <3>1, <3>2
    <3>4. \A u \in UIDs : u \in refresh'.batch => Announced(u)'
      BY DEF Announced
    <3>5. sdInstances' \subseteq UIDs
      BY <3>1 DEF TypeOK
    <3> QED  BY <1>1, <3>3, <3>4, <3>5 DEF AnnouncedInv
  <2>4. CASE UNCHANGED sdInstances
    BY <1>1, <2>4 DEF AnnouncedInv, TypeOK
  <2> QED
    BY <2>1, <2>2, <2>3, <2>4 DEF Next, WebSocket, ClosingLoop, Refresh, Instances, Tick,
       ReceiveRecord, CheckRegistered, RequestRegistration, UpdateState, PublishStart,
       PublishReport, CloseExpired, PublishClose, RefreshWeek, ScanWeekUID, PublishBatch,
       UpdateTakenElsewhere, CoreRegister
<1>3. (\A i \in 1 .. Len(updates) : updates[i] \subseteq coreKnown)'
  <2>1. CASE ApplyUpdate \/ UpdateTakenElsewhere
    BY <2>1, SnapshotOps DEF ApplyUpdate, UpdateTakenElsewhere, AnnouncedInv, TypeOK
  <2>2. ASSUME NEW u \in UIDs, CoreRegister(u)
        PROVE  (\A i \in 1 .. Len(updates) : updates[i] \subseteq coreKnown)'
    <3>1. /\ coreKnown' = coreKnown \cup {u}
          /\ updates' = Append(updates, coreKnown')
      BY <2>2 DEF CoreRegister
    <3>2. coreKnown' \in SUBSET UIDs /\ updates \in Snapshots
      BY <3>1 DEF TypeOK
    <3>3. \A i \in 1 .. Len(updates) : updates[i] \subseteq coreKnown'
      BY <3>1 DEF AnnouncedInv
    <3>4. \A S \in SUBSET coreKnown' :
            \A i \in 1 .. Len(Append(updates, S)) : Append(updates, S)[i] \subseteq coreKnown'
      BY <3>2, <3>3, SnapshotOps
    <3> QED  BY <3>1, <3>4
  <2>3. CASE UNCHANGED <<updates, coreKnown>>
    BY <2>3 DEF AnnouncedInv
  <2> QED
    BY <2>1, <2>2, <2>3 DEF Next, WebSocket, ClosingLoop, Refresh, Instances, Tick,
       ReceiveRecord, CheckRegistered, RequestRegistration, MarkRegistered, UpdateState,
       PublishStart, PublishReport, CloseExpired, PublishClose, RefreshWeek, ScanWeekUID,
       MarkWeekUID, PublishBatch
<1>4. (ws.pc \in {"mark", "update", "start", "report"} => Announced(ws.uid))'
  <2>1. CASE RequestRegistration
    <3>1. ws' = [ws EXCEPT !.pc = "mark"] /\ PublishRegistrations({ws.uid})
      BY <2>1 DEF RequestRegistration
    <3>2. ws.uid \in UIDs /\ ws'.uid = ws.uid
      BY <3>1 DEF TypeOK, WsLocals
    <3> QED  BY <3>1, <3>2, PublishAnnounces DEF Announced
  <2>2. CASE CheckRegistered
    <3>1. ws' = [ws EXCEPT !.pc = IF ws.uid \in sdInstances THEN "update" ELSE "request"]
      BY <2>2 DEF CheckRegistered
    <3>2. ws'.uid = ws.uid /\ (ws'.pc = "update" => ws.uid \in sdInstances)
          /\ ws'.pc \in {"update", "request"} /\ ws.uid \in UIDs
      BY <3>1 DEF TypeOK, WsLocals
    <3> QED  BY <1>1, <3>2 DEF AnnouncedInv
  <2>3. CASE MarkRegistered \/ UpdateState \/ PublishStart \/ PublishReport
    <3>1. Announced(ws.uid) /\ ws.uid \in UIDs
      BY <2>3 DEF MarkRegistered, UpdateState, PublishStart, PublishReport, AnnouncedInv,
         TypeOK, WsLocals
    <3>2. ws' = Reading \/ ws'.uid = ws.uid
      <4>1. ws \in WsLocals
        BY DEF TypeOK
      <4>2. CASE MarkRegistered
        BY <4>1, <4>2 DEF MarkRegistered, WsLocals
      <4>3. CASE UpdateState
        BY <4>1, <4>3 DEF UpdateState, WsLocals
      <4>4. CASE PublishStart
        BY <4>1, <4>4 DEF PublishStart, WsLocals
      <4>5. CASE PublishReport
        BY <4>5 DEF PublishReport
      <4> QED  BY <2>3, <4>2, <4>3, <4>4, <4>5
    <3> QED  BY <1>1, <3>1, <3>2 DEF Reading
  <2>4. ASSUME NEW u \in UIDs, NEW o \in Occurrences[u], NEW ts \in 0 .. now,
               NEW i \in BOOLEAN, ReceiveRecord(u, o, ts, i)
        PROVE  ws'.pc = "check"
    BY <2>4 DEF ReceiveRecord, TypeOK, WsLocals
  <2>5. CASE UNCHANGED ws
    BY <1>1, <2>5 DEF AnnouncedInv, TypeOK, WsLocals
  <2> QED
    BY <2>1, <2>2, <2>3, <2>4, <2>5 DEF Next, WebSocket, ClosingLoop, Refresh, Instances, Tick,
       CloseExpired, PublishClose, RefreshWeek, ScanWeekUID,
       MarkWeekUID, PublishBatch, ApplyUpdate, UpdateTakenElsewhere, CoreRegister
<1>5. (\A u \in UIDs : instanceStates[u].active \/ toClose[u].due => Announced(u))'
  <2>1. CASE UpdateState
    <3>1. Announced(ws.uid) /\ UNCHANGED toClose
          /\ \A u \in UIDs : u # ws.uid => instanceStates'[u] = instanceStates[u]
      BY <2>1 DEF UpdateState, AnnouncedInv, TypeOK
    <3> QED  BY <1>1, <3>1 DEF AnnouncedInv
  <2>2. CASE CloseExpired
    <3>1. \A u \in UIDs : instanceStates'[u].active \/ toClose'[u].due
                            => instanceStates[u].active
      BY <2>2 DEF CloseExpired, Expired, NotDue, TypeOK, InstanceState, Closing
    <3> QED  BY <1>1, <3>1 DEF AnnouncedInv
  <2>3. ASSUME NEW v \in UIDs, PublishClose(v)
        PROVE  (\A u \in UIDs : instanceStates[u].active \/ toClose[u].due => Announced(u))'
    <3>1. UNCHANGED instanceStates /\ \A u \in UIDs : toClose'[u].due => toClose[u].due
      BY <2>3 DEF PublishClose, NotDue, TypeOK, Closing
    <3> QED  BY <1>1, <3>1 DEF AnnouncedInv
  <2>4. CASE UNCHANGED <<instanceStates, toClose>>
    BY <1>1, <2>4 DEF AnnouncedInv
  <2> QED
    BY <2>1, <2>2, <2>3, <2>4 DEF Next, WebSocket, ClosingLoop, Refresh, Instances, Tick,
       ReceiveRecord, CheckRegistered, RequestRegistration, MarkRegistered, PublishStart,
       PublishReport, RefreshWeek, ScanWeekUID, MarkWeekUID, PublishBatch, ApplyUpdate,
       UpdateTakenElsewhere, CoreRegister
<1>6. StatesAreAnnounced'
  <2>1. CASE PublishStart
    <3>1. PICK d \in Offsets : PublishState(ws.uid, [kind |-> "start", time |-> StartedAt + d])
      BY <2>1 DEF PublishStart
    <3>2. /\ [kind |-> "start", time |-> StartedAt + d] \in Message
          /\ ws.uid \in UIDs
          /\ Announced(ws.uid)
      BY <2>1 DEF Message, Kinds, Offsets, TypeOK, WsLocals, AnnouncedInv, PublishStart
    <3> QED  BY <3>1, <3>2, PublishKeepsAnnounced
  <2>2. CASE PublishReport
    <3> DEFINE m == [kind |-> IF ws.inactive THEN "inactive" ELSE "active", time |-> ws.ts]
    <3>1. m \in Message /\ ws.uid \in UIDs /\ Announced(ws.uid)
      BY <2>2 DEF Message, Kinds, TypeOK, WsLocals, AnnouncedInv, PublishReport
    <3>2. PublishState(ws.uid, m)
      BY <2>2 DEF PublishReport
    <3> HIDE DEF m
    <3> QED  BY <3>1, <3>2, PublishKeepsAnnounced
  <2>3. ASSUME NEW v \in UIDs, PublishClose(v) PROVE StatesAreAnnounced'
    <3>1. /\ [kind |-> "close", time |-> toClose[v].time] \in Message
          /\ Announced(v)
      BY <2>3 DEF Message, Kinds, TypeOK, Closing, AnnouncedInv, PublishClose
    <3> QED  BY <2>3, <3>1, PublishKeepsAnnounced DEF PublishClose
  <2>4. CASE UNCHANGED kpi
    BY <1>1, <2>4 DEF AnnouncedInv, StatesAreAnnounced
  <2> QED
    BY <2>1, <2>2, <2>3, <2>4 DEF Next, WebSocket, ClosingLoop, Refresh, Instances, Tick,
       ReceiveRecord, CheckRegistered, RequestRegistration, MarkRegistered, UpdateState,
       CloseExpired, RefreshWeek, ScanWeekUID, MarkWeekUID, PublishBatch, ApplyUpdate,
       UpdateTakenElsewhere, CoreRegister
<1> QED  BY <1>2, <1>3, <1>4, <1>5, <1>6 DEF AnnouncedInv

(* No state is ever published for a trip the core was not told of: not by the
   records, not by the closing loop, and not while the refresh still holds its
   batch or an update has replaced the set of known instances. *)
THEOREM AnnouncedBeforeStates == Spec => []StatesAreAnnounced
<1>1. TypeOK /\ AnnouncedInv /\ [Next]_vars => AnnouncedInv'
  <2>1. CASE UNCHANGED vars
    BY <2>1 DEF vars, stateVars, regVars, coreVars, AnnouncedInv, StatesAreAnnounced, Announced
  <2> QED  BY <2>1, NextAnnounced
<1>2. AnnouncedInv => StatesAreAnnounced
  BY DEF AnnouncedInv
<1> QED  BY <1>1, <1>2, InitAnnounced, TypeCorrect, PTL DEF Spec

-----------------------------------------------------------------------------
(* Registration requests *)

Bit(b) == IF b THEN 1 ELSE 0

(* Every request is accounted for: by the refresh, which asks once per trip, or
   by a content of sdInstances that did not have the trip. *)
RequestsInv ==
  /\ \A u \in UIDs :
       requested[u] + Bit(ws.pc = "request" /\ ws.uid = u) + Bit(u \in refresh.batch)
         <= used.applied + Bit(u \in registeredWeekUIDs)
            + Bit(u \in sdInstances \/ (ws.uid = u /\ ws.pc \in {"request", "mark"}))
  /\ refresh.pc = "mark" => refresh.uid \notin registeredWeekUIDs
  /\ refresh.batch \subseteq registeredWeekUIDs

LEMMA InitRequests == Init => RequestsInv
  BY DEF Init, RequestsInv, Reading, Bit

LEMMA NextRequests == TypeOK /\ RequestsInv /\ Next => RequestsInv'
<1> SUFFICES ASSUME TypeOK, RequestsInv, Next PROVE RequestsInv'
  OBVIOUS
<1> USE DEF stateVars, regVars, coreVars
<1>1. CASE CheckRegistered
  <2>1. ws' = [ws EXCEPT !.pc = IF ws.uid \in sdInstances THEN "update" ELSE "request"]
        /\ ws \in WsLocals /\ ws.pc = "check"
    BY <1>1 DEF CheckRegistered, TypeOK
  <2>2. ws'.uid = ws.uid /\ ws'.pc = IF ws.uid \in sdInstances THEN "update" ELSE "request"
    BY <2>1 DEF WsLocals
  <2> QED  BY <1>1, <2>1, <2>2 DEF CheckRegistered, RequestsInv, Bit, TypeOK, Bounds
<1>2. CASE RequestRegistration
  <2>1. ws' = [ws EXCEPT !.pc = "mark"] /\ ws \in WsLocals /\ ws.pc = "request"
    BY <1>2 DEF RequestRegistration, TypeOK
  <2>2. ws'.uid = ws.uid /\ ws'.pc = "mark"
    BY <2>1 DEF WsLocals
  <2>3. \A u \in UIDs : requested'[u] <= requested[u] + Bit(u = ws.uid)
    BY <1>2 DEF RequestRegistration, PublishRegistrations, TypeOK, Bit
  <2>4. requested' \in [UIDs -> Nat] /\ used'.applied = used.applied /\ used.applied \in Nat
    BY <1>2, PublishRegistrationsType DEF RequestRegistration, PublishRegistrations, Fail,
       TypeOK, WsLocals, Bounds
  <2>5. UNCHANGED <<refresh, registeredWeekUIDs, sdInstances>>
    BY <1>2 DEF RequestRegistration
  <2> QED  BY <2>1, <2>2, <2>3, <2>4, <2>5 DEF RequestsInv, Bit, TypeOK
<1>3. CASE MarkRegistered
  <2>1. ws' = [ws EXCEPT !.pc = "update"] /\ ws \in WsLocals /\ ws.pc = "mark"
    BY <1>3 DEF MarkRegistered, TypeOK
  <2>2. ws'.uid = ws.uid /\ ws'.pc = "update"
    BY <2>1 DEF WsLocals
  <2> QED  BY <1>3, <2>1, <2>2 DEF MarkRegistered, RequestsInv, Bit, TypeOK, Bounds
<1>4. ASSUME NEW v \in UIDs, ScanWeekUID(v) PROVE RequestsInv'
  <2>1. /\ UNCHANGED <<ws, sdInstances, requested, used>>
        /\ registeredWeekUIDs \subseteq registeredWeekUIDs'
        /\ refresh'.batch = refresh.batch
        /\ refresh'.pc = "mark" => refresh'.uid \notin registeredWeekUIDs'
        /\ refresh'.pc \in {"scan", "mark"}
    BY <1>4 DEF ScanWeekUID, TypeOK
  <2>2. requested \in [UIDs -> Nat] /\ used.applied \in Nat
    BY DEF TypeOK, Bounds
  <2>3. \A u \in UIDs : Bit(u \in registeredWeekUIDs) <= Bit(u \in registeredWeekUIDs')
                       /\ Bit(u \in registeredWeekUIDs) \in Nat
                       /\ Bit(u \in registeredWeekUIDs') \in Nat
    BY <2>1 DEF Bit
  <2> QED  BY <2>1, <2>2, <2>3 DEF RequestsInv, Bit
<1>5. CASE MarkWeekUID
  <2>1. /\ refresh'.pc = "scan" /\ refresh'.batch = refresh.batch \cup {refresh.uid}
        /\ refresh.uid \notin registeredWeekUIDs
        /\ registeredWeekUIDs' = registeredWeekUIDs \cup {refresh.uid}
        /\ sdInstances' = sdInstances \cup {refresh.uid}
        /\ UNCHANGED <<ws, requested, used>>
    BY <1>5 DEF MarkWeekUID, RequestsInv, TypeOK
  <2> QED  BY <2>1 DEF RequestsInv, Bit, TypeOK, Bounds
<1>6. CASE PublishBatch
  <2>1. \A u \in UIDs : requested'[u] <= requested[u] + Bit(u \in refresh.batch)
    BY <1>6 DEF PublishBatch, PublishRegistrations, TypeOK, Bit
  <2>2. requested' \in [UIDs -> Nat] /\ used'.applied = used.applied /\ used.applied \in Nat
    BY <1>6, PublishRegistrationsType DEF PublishBatch, PublishRegistrations, Fail,
       TypeOK, Bounds
  <2>3. /\ refresh'.pc = "wait" /\ refresh'.batch = {}
        /\ UNCHANGED <<ws, registeredWeekUIDs, sdInstances>>
    BY <1>6 DEF PublishBatch, TypeOK
  <2> QED  BY <2>1, <2>2, <2>3 DEF RequestsInv, Bit, TypeOK
<1>7. CASE RefreshWeek
  <2>1. /\ refresh.batch = {} /\ refresh'.batch = {} /\ refresh'.pc = "scan"
        /\ used'.applied = used.applied
        /\ UNCHANGED <<ws, registeredWeekUIDs, sdInstances, requested>>
    BY <1>7 DEF RefreshWeek, RequestsInv, TypeOK, Bounds
  <2> QED  BY <2>1 DEF RequestsInv, Bit
<1>8. CASE ApplyUpdate
  <2>1. /\ used'.applied = used.applied + 1 /\ used.applied \in Nat
        /\ UNCHANGED <<ws, refresh, registeredWeekUIDs, requested>>
    <3>1. /\ used' = [used EXCEPT !.applied = @ + 1]
          /\ UNCHANGED <<ws, refresh, registeredWeekUIDs, requested>>
      BY <1>8 DEF ApplyUpdate
    <3> QED  BY <3>1 DEF TypeOK, Bounds
  <2> QED  BY <2>1 DEF RequestsInv, Bit, TypeOK
<1>9. ASSUME NEW u \in UIDs, CoreRegister(u) PROVE RequestsInv'
  <2>1. /\ used' = [used EXCEPT !.sent = @ + 1]
        /\ UNCHANGED <<ws, refresh, registeredWeekUIDs, sdInstances, requested>>
    BY <1>9 DEF CoreRegister
  <2>2. used'.applied = used.applied
    BY <2>1 DEF TypeOK, Bounds
  <2> QED  BY <2>1, <2>2 DEF RequestsInv, Bit
<1>10. CASE WebSocket /\ ~CheckRegistered /\ ~RequestRegistration /\ ~MarkRegistered
  <2>1. /\ ws.pc \notin {"request", "mark"} /\ ws'.pc \notin {"request", "mark"}
        /\ used'.applied = used.applied
        /\ UNCHANGED <<refresh, registeredWeekUIDs, sdInstances, requested>>
    <3>1. ASSUME NEW u \in UIDs, NEW o \in Occurrences[u], NEW ts \in 0 .. now,
                 NEW i \in BOOLEAN, ReceiveRecord(u, o, ts, i)
          PROVE  /\ ws.pc \notin {"request", "mark"} /\ ws'.pc \notin {"request", "mark"}
                 /\ used'.applied = used.applied
                 /\ UNCHANGED <<refresh, registeredWeekUIDs, sdInstances, requested>>
      BY <3>1 DEF ReceiveRecord, TypeOK, WsLocals, Bounds
    <3>2. CASE UpdateState
      BY <3>2 DEF UpdateState, Reading, TypeOK, WsLocals
    <3>3. CASE PublishStart \/ PublishReport
      <4>1. /\ ws.pc \notin {"request", "mark"}
            /\ ws' = Reading \/ ws' = [ws EXCEPT !.pc = "report"]
            /\ UNCHANGED <<refresh, registeredWeekUIDs, sdInstances, requested>>
            /\ UNCHANGED used \/ Fail
        BY <3>3 DEF PublishStart, PublishReport, PublishState
      <4> QED  BY <4>1 DEF Reading, Fail, TypeOK, WsLocals, Bounds
    <3> QED  BY <1>10, <3>1, <3>2, <3>3 DEF WebSocket
  <2> QED  BY <2>1 DEF RequestsInv, Bit
<1>11. CASE ClosingLoop \/ Tick \/ UpdateTakenElsewhere
  <2>1. /\ UNCHANGED used \/ Fail
        /\ UNCHANGED <<ws, refresh, registeredWeekUIDs, sdInstances, requested>>
    <3>1. CASE ClosingLoop
      BY <3>1 DEF ClosingLoop, CloseExpired, PublishClose, PublishState
    <3>2. CASE Tick
      BY <3>2 DEF Tick
    <3>3. CASE UpdateTakenElsewhere
      BY <3>3 DEF UpdateTakenElsewhere
    <3> QED  BY <1>11, <3>1, <3>2, <3>3
  <2>2. used'.applied = used.applied
    BY <2>1 DEF Fail, TypeOK, Bounds
  <2> QED  BY <2>1, <2>2 DEF RequestsInv, Bit
<1> QED
  BY <1>1, <1>2, <1>3, <1>4, <1>5, <1>6, <1>7, <1>8, <1>9, <1>10, <1>11
     DEF Next, Refresh, Instances

(* However the two registering goroutines and the core's updates interleave, a
   trip is requested at most once per content of sdInstances and once more. *)
THEOREM RequestsAreBounded == Spec => []RequestsBounded
<1>1. TypeOK /\ RequestsInv /\ [Next]_vars => RequestsInv'
  <2>1. CASE UNCHANGED vars
    BY <2>1 DEF vars, stateVars, regVars, coreVars, RequestsInv
  <2> QED  BY <2>1, NextRequests
<1>2. TypeOK /\ RequestsInv => RequestsBounded
  BY DEF TypeOK, RequestsInv, RequestsBounded, Bit, Bounds
<1> QED  BY <1>1, <1>2, InitRequests, TypeCorrect, PTL DEF Spec

-----------------------------------------------------------------------------
(* The dates of closing messages *)

IsReserveEnd(u, t) == \E o \in Occurrences[u] : t = o.end + TripEndReserve
IsCloseDate(u, t)  == (\E o \in Occurrences[u] : o.end < t) /\ t - Jitter <= now

(* A trip that is on carries the end of an occurrence of its own. *)
CloseInv ==
  /\ \A u \in UIDs : instanceStates[u].active => IsReserveEnd(u, instanceStates[u].closeAt)
  /\ ws.pc \in {"check", "request", "mark", "update"} => IsReserveEnd(ws.uid, ws.closeAt)
  /\ \A u \in UIDs : toClose[u].due => IsCloseDate(u, toClose[u].time)
  /\ CloseDatedAfterTrip

LEMMA SentAppend ==
  ASSUME NEW s \in Messages, NEW m \in Message, NEW i \in DOMAIN Append(s, m)
  PROVE  (i \in DOMAIN s /\ Append(s, m)[i] = s[i]) \/ Append(s, m)[i] = m
  BY DEF Messages

LEMMA CloseDateStable ==
  ASSUME TypeOK, now' \in Nat, now <= now', NEW u \in UIDs, NEW t \in Int, IsCloseDate(u, t)
  PROVE  IsCloseDate(u, t)'
  BY ConstantsAssumption DEF ConstantsAssumption, IsCloseDate, TypeOK

(* Publishing adds one message; the closing messages stay well dated when that
   one is no closing message or is well dated itself. *)
LEMMA PublishKeepsDates ==
  ASSUME TypeOK, CloseDatedAfterTrip, UNCHANGED now, NEW v \in UIDs, NEW m \in Message,
         PublishState(v, m), m.kind = "close" => IsCloseDate(v, m.time)
  PROVE  CloseDatedAfterTrip'
<1> SUFFICES ASSUME NEW u \in UIDs, NEW i \in DOMAIN kpi'[u], kpi'[u][i].kind = "close"
             PROVE  IsCloseDate(u, kpi'[u][i].time)
  BY DEF CloseDatedAfterTrip, IsCloseDate, Sent
<1>1. ASSUME i \in DOMAIN kpi[u], kpi'[u][i] = kpi[u][i]
      PROVE  IsCloseDate(u, kpi'[u][i].time)
  BY <1>1 DEF CloseDatedAfterTrip, IsCloseDate, Sent
<1>2. CASE kpi' = Appended(v, m) /\ u = v
  <2>1. kpi'[u] = Append(kpi[u], m) /\ kpi[u] \in Messages
    BY <1>2 DEF Appended, TypeOK
  <2> QED  BY <1>1, <1>2, <2>1, SentAppend, SMTT(30)
<1>3. CASE UNCHANGED kpi \/ (kpi' = Appended(v, m) /\ u # v)
  <2>1. kpi'[u] = kpi[u]
    BY <1>3 DEF Appended, TypeOK
  <2> QED  BY <1>1, <2>1
<1> QED  BY <1>2, <1>3 DEF PublishState

LEMMA InitClose == Init => CloseInv
  BY DEF Init, CloseInv, Reading, NoState, NotDue, CloseDatedAfterTrip, Sent

LEMMA NextClose == TypeOK /\ CloseInv /\ Next => CloseInv'
<1> SUFFICES ASSUME TypeOK, CloseInv, Next PROVE CloseInv'
  OBVIOUS
<1> USE DEF stateVars, regVars, coreVars
<1>1. ASSUME NEW u \in UIDs, NEW o \in Occurrences[u], NEW ts \in 0 .. now,
             NEW i \in BOOLEAN, ReceiveRecord(u, o, ts, i)
      PROVE  CloseInv'
  <2>1. ws'.uid = u /\ ws'.closeAt = o.end + TripEndReserve
    BY <1>1 DEF ReceiveRecord, TypeOK, WsLocals
  <2>2. UNCHANGED <<now, instanceStates, toClose, kpi>>
    BY <1>1 DEF ReceiveRecord
  <2> QED
    BY <2>1, <2>2 DEF CloseInv, IsReserveEnd, IsCloseDate, CloseDatedAfterTrip, Sent
<1>2. CASE CheckRegistered \/ RequestRegistration \/ MarkRegistered
  <2>1. /\ UNCHANGED <<now, instanceStates, toClose, kpi>>
        /\ ws.pc \in {"check", "request", "mark"}
        /\ \E p \in WsPCs : ws' = [ws EXCEPT !.pc = p]
    BY <1>2 DEF CheckRegistered, RequestRegistration, MarkRegistered, WsPCs
  <2>2. ws'.uid = ws.uid /\ ws'.closeAt = ws.closeAt
    BY <2>1 DEF TypeOK, WsLocals
  <2> QED
    BY <2>1, <2>2 DEF CloseInv, IsReserveEnd, IsCloseDate, CloseDatedAfterTrip, Sent
<1>3. CASE UpdateState
  <2>1. /\ UNCHANGED <<now, toClose, kpi>>
        /\ instanceStates'[ws.uid].closeAt = ws.closeAt
        /\ \A u \in UIDs : u # ws.uid => instanceStates'[u] = instanceStates[u]
        /\ ws.pc = "update"
        /\ ws'.pc \notin {"check", "request", "mark", "update"}
    BY <1>3 DEF UpdateState, TypeOK, WsLocals, Reading
  <2> QED
    BY <2>1 DEF CloseInv, IsReserveEnd, IsCloseDate, CloseDatedAfterTrip, Sent
<1>4. CASE PublishStart \/ PublishReport
  <2>1. /\ UNCHANGED <<now, instanceStates, toClose>>
        /\ ws' = Reading \/ (ws' = [ws EXCEPT !.pc = "report"])
    BY <1>4 DEF PublishStart, PublishReport
  <2>2. ws'.pc \notin {"check", "request", "mark", "update"}
    BY <2>1 DEF Reading, TypeOK, WsLocals
  <2>3. \E m \in Message : m.kind # "close" /\ PublishState(ws.uid, m) /\ ws.uid \in UIDs
    <3>1. ws.uid \in UIDs /\ ws.ts \in Int /\ ws.inactive \in BOOLEAN
      BY DEF TypeOK, WsLocals
    <3>2. CASE PublishStart
      <4>1. PICK d \in Offsets :
              PublishState(ws.uid, [kind |-> "start", time |-> StartedAt + d])
        BY <3>2 DEF PublishStart
      <4>2. [kind |-> "start", time |-> StartedAt + d] \in Message
        BY DEF Message, Kinds, Offsets
      <4> QED  BY <3>1, <4>1, <4>2
    <3>3. CASE PublishReport
      <4> DEFINE m == [kind |-> IF ws.inactive THEN "inactive" ELSE "active",
                       time |-> ws.ts]
      <4>1. PublishState(ws.uid, m)
        BY <3>3 DEF PublishReport
      <4>2. m \in Message /\ m.kind # "close"
        BY <3>1 DEF Message, Kinds
      <4> HIDE DEF m
      <4> QED  BY <3>1, <4>1, <4>2
    <3> QED  BY <1>4, <3>2, <3>3
  <2>4. CloseDatedAfterTrip'
    BY <2>1, <2>3, PublishKeepsDates DEF CloseInv
  <2> QED
    BY <2>1, <2>2, <2>4 DEF CloseInv, IsReserveEnd, IsCloseDate
<1>5. CASE CloseExpired
  <2>1. \A u \in UIDs : instanceStates'[u].active =>
          instanceStates'[u] = instanceStates[u]
    BY <1>5 DEF CloseExpired, TypeOK, InstanceState
  <2>2. ASSUME NEW u \in UIDs, toClose'[u].due
        PROVE  IsCloseDate(u, toClose'[u].time)
    <3>1. PICK d \in [UIDs -> Offsets] :
            toClose' = [v \in UIDs |-> IF v \in Expired
                          THEN [due |-> TRUE, time |-> instanceStates[v].closeAt + d[v]]
                          ELSE NotDue]
      BY <1>5 DEF CloseExpired
    <3>2. u \in Expired /\ toClose'[u].time = instanceStates[u].closeAt + d[u]
      BY <2>2, <3>1 DEF NotDue
    <3>3. PICK o \in Occurrences[u] : instanceStates[u].closeAt = o.end + TripEndReserve
      BY <3>2 DEF CloseInv, IsReserveEnd, Expired
    <3>4. o.end \in Nat /\ d[u] \in Int /\ -Jitter <= d[u] /\ d[u] <= Jitter
      BY ScheduleAssumption DEF ScheduleAssumption, Offsets
    <3>5. instanceStates[u].closeAt <= now
      BY <3>2 DEF Expired
    <3> QED
      BY <3>2, <3>3, <3>4, <3>5, ReserveAssumption, ConstantsAssumption
         DEF ReserveAssumption, ConstantsAssumption, IsCloseDate, TypeOK
  <2>3. UNCHANGED <<now, ws, kpi>>
    BY <1>5 DEF CloseExpired
  <2> QED
    BY <2>1, <2>2, <2>3 DEF CloseInv, IsReserveEnd, IsCloseDate, CloseDatedAfterTrip, Sent
<1>6. ASSUME NEW v \in UIDs, PublishClose(v) PROVE CloseInv'
  <2>1. /\ UNCHANGED <<now, instanceStates, ws>>
        /\ \A u \in UIDs : toClose'[u].due => toClose'[u] = toClose[u]
        /\ toClose[v].due
        /\ PublishState(v, [kind |-> "close", time |-> toClose[v].time])
    BY <1>6 DEF PublishClose, NotDue, TypeOK
  <2>2. [kind |-> "close", time |-> toClose[v].time] \in Message
    BY DEF Message, Kinds, TypeOK, Closing
  <2>3. CloseDatedAfterTrip'
    BY <2>1, <2>2, PublishKeepsDates DEF CloseInv
  <2> QED  BY <2>1, <2>3 DEF CloseInv, IsReserveEnd, IsCloseDate
<1>7. CASE Tick
  <2>1. now' \in Nat /\ now <= now' /\ UNCHANGED <<instanceStates, ws, toClose, kpi>>
    BY <1>7 DEF Tick, TypeOK
  <2>2. \A u \in UIDs : \A t \in Int : IsCloseDate(u, t) => IsCloseDate(u, t)'
    BY <2>1, CloseDateStable
  <2>3. \A u \in UIDs : toClose[u].time \in Int
    BY DEF TypeOK, Closing
  <2>4. \A u \in UIDs : \A i \in DOMAIN kpi[u] : kpi[u][i].time \in Int
    <3>1. \A s \in Messages : \A i \in DOMAIN s : s[i] \in Message
      BY DEF Messages
    <3>2. \A m \in Message : m.time \in Int
      BY DEF Message
    <3> QED  BY <3>1, <3>2 DEF TypeOK
  <2>5. CloseDatedAfterTrip'
    BY <2>1, <2>2, <2>4 DEF CloseInv, CloseDatedAfterTrip, IsCloseDate, Sent
  <2>6. (\A u \in UIDs : toClose[u].due => IsCloseDate(u, toClose[u].time))'
    BY <2>1, <2>2, <2>3 DEF CloseInv
  <2> QED  BY <2>1, <2>5, <2>6 DEF CloseInv, IsReserveEnd
<1>8. CASE Refresh \/ Instances
  <2>1. UNCHANGED <<now, instanceStates, ws, toClose, kpi>>
    <3>1. CASE Refresh
      BY <3>1 DEF Refresh, RefreshWeek, ScanWeekUID, MarkWeekUID, PublishBatch
    <3>2. CASE Instances
      BY <3>2 DEF Instances, ApplyUpdate, UpdateTakenElsewhere, CoreRegister
    <3> QED  BY <1>8, <3>1, <3>2
  <2> QED
    BY <2>1 DEF CloseInv, IsReserveEnd, IsCloseDate, CloseDatedAfterTrip, Sent
<1> QED
  BY <1>1, <1>2, <1>3, <1>4, <1>5, <1>6, <1>7, <1>8 DEF Next, WebSocket, ClosingLoop

LEMMA NextCloseOrStutter == TypeOK /\ CloseInv /\ [Next]_vars => CloseInv'
<1>1. CASE UNCHANGED vars
  BY <1>1 DEF vars, stateVars, CloseInv, IsReserveEnd, IsCloseDate, CloseDatedAfterTrip, Sent
<1> QED  BY <1>1, NextClose

(* The closing loop never dates the end of a trip inside the trip's timetable,
   nor later than the clock and the jitter allow. *)
THEOREM ClosesAreDatedAfterTrips == Spec => []CloseDatedAfterTrip
<1>1. CloseInv => CloseDatedAfterTrip
  BY DEF CloseInv
<1> QED  BY <1>1, InitClose, NextCloseOrStutter, TypeCorrect, PTL DEF Spec

-----------------------------------------------------------------------------
(* Records and messages *)

\* A trip without an entry has no message and is not on; while its synthetic start
\* waits to be published, nothing but closing messages was.
StartInv ==
  /\ \A u \in UIDs : instanceStates[u].active \/ toClose[u].due => instanceStates[u].seen
  /\ \A u \in UIDs : ~instanceStates[u].seen => kpi[u] = <<>>
  /\ ws.pc \in {"start", "report"} => instanceStates[ws.uid].seen
  /\ ws.pc = "start" => \A j \in DOMAIN kpi[ws.uid] : kpi[ws.uid][j].kind = "close"
  /\ StartComesFirst

\* The last message of u is a closing one, but for a start.
EndedLast(u) == ClosedBefore(kpi[u], Len(kpi[u]) + 1)
LastKind(u) == kpi[u][Len(kpi[u])].kind

\* What the WebSocket goroutine has still to publish is what it left the trip in,
\* unless the closing loop came in between: then its message is on the way, or is
\* the last one.
PendingReport ==
  ws.pc \in {"start", "report"} =>
    IF ws.inactive THEN ~instanceStates[ws.uid].active
    ELSE \/ instanceStates[ws.uid].active \/ toClose[ws.uid].due
         \/ ws.pc = "start" /\ kpi[ws.uid] # <<>> /\ LastKind(ws.uid) = "close"
         \/ ws.pc = "report" /\ EndedLast(ws.uid)

\* While an end waits for a trip that is on again, nothing came behind the report
\* that switched it on.
PendingEnd ==
  \A u \in UIDs :
    toClose[u].due /\ instanceStates[u].active
      /\ ~(ws.uid = u /\ ws.pc \in {"start", "report"}) =>
        kpi[u] # <<>> /\ LastKind(u) = "active"

OvertakeInv ==
  used.failures = 0 => PendingReport /\ PendingEnd /\ OvertakenOnlyByClosing

IsEndDate(u, t) == \E o \in Occurrences[u] : o.end + TripEndReserve - Jitter <= t

\* Closing messages are dated no earlier than the reserve after an occurrence, less
\* the jitter.
EndDateInv ==
  /\ \A u \in UIDs : toClose[u].due => IsEndDate(u, toClose[u].time)
  /\ \A u \in UIDs : \A i \in Sent(u, "close") : IsEndDate(u, kpi[u][i].time)

\* When the source keeps the order of a trip's records, no published active state
\* is later than what the runtime remembers of the source.
SourceInv ==
  /\ ws.pc \in {"check", "request", "mark", "update"} => ws.ts >= instanceStates[ws.uid].source
  /\ ws.pc \in {"start", "report"} => ws.ts = instanceStates[ws.uid].source
  /\ \A u \in UIDs : \A i \in Sent(u, "active") : kpi[u][i].time <= instanceStates[u].source

\* Publishing one message adds it to its trip's, or fails.
LEMMA PublishedState ==
  ASSUME TypeOK, NEW v \in UIDs, NEW m \in Message, PublishState(v, m)
  PROVE  /\ \A u \in UIDs \ {v} : kpi'[u] = kpi[u]
         /\ kpi[v] \in Seq(Message) /\ kpi'[v] \in Seq(Message)
         /\ Len(kpi[v]) \in Nat /\ DOMAIN kpi[v] = 1 .. Len(kpi[v])
         /\ \/ /\ kpi' = kpi /\ used'.failures # 0
            \/ /\ kpi'[v] = Append(kpi[v], m) /\ used' = used
               /\ Len(kpi'[v]) = Len(kpi[v]) + 1 /\ DOMAIN kpi'[v] = 1 .. Len(kpi[v]) + 1
               /\ kpi'[v] # <<>> /\ kpi'[v][Len(kpi[v]) + 1] = m
               /\ \A i \in DOMAIN kpi[v] : kpi'[v][i] = kpi[v][i]
<1>1. kpi \in [UIDs -> Seq(Message)] /\ used \in Bounds
  BY DEF TypeOK, Messages
<1> DEFINE s == kpi[v]
<1>2. s \in Seq(Message) /\ m \in Message
  BY <1>1
<1> HIDE DEF s
<1>3. /\ Append(s, m) \in Seq(Message) /\ Append(s, m) # <<>>
      /\ Len(s) \in Nat /\ DOMAIN s = 1 .. Len(s)
      /\ Len(Append(s, m)) = Len(s) + 1 /\ DOMAIN Append(s, m) = 1 .. Len(s) + 1
      /\ Append(s, m)[Len(s) + 1] = m
      /\ \A i \in DOMAIN s : Append(s, m)[i] = s[i]
  BY <1>2, AppendLog, SMTT(30)
<1>4. CASE kpi' = Appended(v, m) /\ UNCHANGED used
  <2>1. kpi'[v] = Append(s, m) /\ \A u \in UIDs \ {v} : kpi'[u] = kpi[u]
    BY <1>1, <1>4 DEF Appended, s
  <2> QED  BY <1>2, <1>3, <1>4, <2>1 DEF s
<1>5. CASE Fail /\ UNCHANGED kpi
  <2>1. used'.failures # 0
    BY <1>1, <1>5, SMTT(30) DEF Fail, Bounds
  <2> QED  BY <1>1, <1>2, <1>3, <1>5, <2>1 DEF s
<1> QED  BY <1>4, <1>5 DEF PublishState

\* A published message stays where it is; a new one, if there is one, is the one
\* handed over.
LEMMA PublishedMessages ==
  ASSUME TypeOK, NEW v \in UIDs, NEW m \in Message, PublishState(v, m)
  PROVE  \A u \in UIDs :
           /\ \A i \in DOMAIN kpi[u] : i \in DOMAIN kpi'[u] /\ kpi'[u][i] = kpi[u][i]
           /\ \A i \in DOMAIN kpi'[u] :
                \/ i \in DOMAIN kpi[u]
                \/ u = v /\ i = Len(kpi[v]) + 1 /\ kpi'[u][i] = m
<1> SUFFICES ASSUME NEW u \in UIDs
             PROVE  /\ \A i \in DOMAIN kpi[u] : i \in DOMAIN kpi'[u] /\ kpi'[u][i] = kpi[u][i]
                    /\ \A i \in DOMAIN kpi'[u] :
                         \/ i \in DOMAIN kpi[u]
                         \/ u = v /\ i = Len(kpi[v]) + 1 /\ kpi'[u][i] = m
  OBVIOUS
<1>1. CASE u # v \/ kpi' = kpi
  <2>1. kpi'[u] = kpi[u]
    BY <1>1, PublishedState
  <2> QED  BY <2>1
<1>2. CASE u = v /\ kpi' # kpi
  <2> DEFINE old == kpi[v]
             new == kpi'[v]
  <2>1. /\ Len(old) \in Nat /\ DOMAIN old = 1 .. Len(old) /\ DOMAIN new = 1 .. Len(old) + 1
        /\ new[Len(old) + 1] = m /\ \A k \in DOMAIN old : new[k] = old[k]
    BY <1>2, PublishedState
  <2> SUFFICES /\ \A i \in DOMAIN old : i \in DOMAIN new /\ new[i] = old[i]
               /\ \A i \in DOMAIN new : i \in DOMAIN old \/ (i = Len(old) + 1 /\ new[i] = m)
    BY <1>2
  <2> HIDE DEF old, new
  <2> QED  BY <2>1
<1> QED  BY <1>1, <1>2

\* What the steps do to the state of the trips, to what waits to be published and to
\* what is published.
LEMMA UpdatedState ==
  ASSUME TypeOK, UpdateState
  PROVE  /\ ws.uid \in UIDs /\ ws.pc = "update" /\ UNCHANGED <<now, toClose, kpi, used>>
         /\ instanceStates'[ws.uid] = [active |-> ~ws.inactive, seen |-> TRUE,
                                       source |-> ws.ts, closeAt |-> ws.closeAt]
         /\ \A u \in UIDs \ {ws.uid} : instanceStates'[u] = instanceStates[u]
         /\ LET s == instanceStates[ws.uid] IN
            IF NeedsStart(s) \/ Reports(s.active)
            THEN /\ ws'.pc = IF NeedsStart(s) THEN "start" ELSE "report"
                 /\ ws'.uid = ws.uid /\ ws'.inactive = ws.inactive /\ ws'.ts = ws.ts
                 /\ ws'.wasActive = s.active
            ELSE ws'.pc = "read"
<1>1. ws \in WsLocals /\ ws.uid \in UIDs /\ instanceStates \in [UIDs -> InstanceState]
  BY DEF TypeOK, WsLocals
<1>2. /\ ws.pc = "update" /\ UNCHANGED <<now, toClose, kpi, used>>
      /\ instanceStates' = [instanceStates EXCEPT ![ws.uid] =
           [active |-> ~ws.inactive, seen |-> TRUE, source |-> ws.ts, closeAt |-> ws.closeAt]]
  BY DEF UpdateState
<1> DEFINE s == instanceStates[ws.uid]
<1>3. ws' = IF NeedsStart(s) \/ Reports(s.active)
            THEN [ws EXCEPT !.pc = IF NeedsStart(s) THEN "start" ELSE "report",
                            !.wasActive = s.active]
            ELSE Reading
  BY DEF UpdateState
<1>4. IF NeedsStart(s) \/ Reports(s.active)
      THEN /\ ws'.pc = IF NeedsStart(s) THEN "start" ELSE "report"
           /\ ws'.uid = ws.uid /\ ws'.inactive = ws.inactive /\ ws'.ts = ws.ts
           /\ ws'.wasActive = s.active
      ELSE ws'.pc = "read"
  BY <1>1, <1>3 DEF WsLocals, Reading
<1> QED  BY <1>1, <1>2, <1>4

Report == [kind |-> IF ws.inactive THEN "inactive" ELSE "active", time |-> ws.ts]

LEMMA PublishedStart ==
  ASSUME TypeOK, PublishStart
  PROVE  /\ ws.uid \in UIDs /\ ws.pc = "start" /\ UNCHANGED <<now, instanceStates, toClose>>
         /\ \E m \in Message : m.kind = "start" /\ PublishState(ws.uid, m)
         /\ IF Reports(ws.wasActive)
            THEN /\ ws'.pc = "report" /\ ws'.uid = ws.uid /\ ws'.ts = ws.ts
                 /\ ws'.inactive = ws.inactive /\ ws'.wasActive = ws.wasActive
            ELSE ws'.pc = "read"
<1>1. ws \in WsLocals /\ ws.uid \in UIDs
  BY DEF TypeOK, WsLocals
<1>2. PICK d \in Offsets : PublishState(ws.uid, [kind |-> "start", time |-> StartedAt + d])
  BY DEF PublishStart
<1>3. [kind |-> "start", time |-> StartedAt + d] \in Message
  BY DEF Message, Kinds, Offsets
<1>4. ws' = IF Reports(ws.wasActive) THEN [ws EXCEPT !.pc = "report"] ELSE Reading
  BY DEF PublishStart
<1>5. IF Reports(ws.wasActive)
      THEN /\ ws'.pc = "report" /\ ws'.uid = ws.uid /\ ws'.ts = ws.ts
           /\ ws'.inactive = ws.inactive /\ ws'.wasActive = ws.wasActive
      ELSE ws'.pc = "read"
  BY <1>1, <1>4 DEF WsLocals, Reading
<1>6. \E m \in Message : m.kind = "start" /\ PublishState(ws.uid, m)
  BY <1>2, <1>3
<1> QED  BY <1>1, <1>5, <1>6 DEF PublishStart, stateVars

LEMMA PublishedReport ==
  ASSUME TypeOK, PublishReport
  PROVE  /\ ws.uid \in UIDs /\ ws.pc = "report" /\ ws'.pc = "read"
         /\ UNCHANGED <<now, instanceStates, toClose>>
         /\ Report \in Message /\ PublishState(ws.uid, Report)
  BY DEF TypeOK, WsLocals, PublishReport, stateVars, Report, Message, Kinds, Reading

LEMMA ClosedTrips ==
  ASSUME TypeOK, CloseExpired
  PROVE  /\ UNCHANGED <<now, ws, kpi, used>> /\ \A u \in UIDs : ~toClose[u].due
         /\ \A u \in UIDs \ Expired : instanceStates'[u] = instanceStates[u] /\ ~toClose'[u].due
         /\ \A u \in Expired :
              /\ instanceStates[u].active /\ ~instanceStates'[u].active
              /\ instanceStates'[u].seen = instanceStates[u].seen
              /\ instanceStates'[u].source = instanceStates[u].source
              /\ toClose'[u].due
              /\ toClose'[u].time >= instanceStates[u].closeAt - Jitter
<1>1. instanceStates \in [UIDs -> InstanceState]
  BY DEF TypeOK
<1>2. PICK d \in [UIDs -> Offsets] :
        toClose' = [u \in UIDs |-> IF u \in Expired
                      THEN [due |-> TRUE, time |-> instanceStates[u].closeAt + d[u]]
                      ELSE NotDue]
  BY DEF CloseExpired
<1>3. instanceStates' = [u \in UIDs |-> IF u \in Expired
                                        THEN [instanceStates[u] EXCEPT !.active = FALSE]
                                        ELSE instanceStates[u]]
  BY DEF CloseExpired
<1>4. \A u \in UIDs \ Expired : instanceStates'[u] = instanceStates[u] /\ ~toClose'[u].due
  BY <1>2, <1>3 DEF NotDue
<1>5. ASSUME NEW u \in Expired
      PROVE  /\ instanceStates[u].active /\ ~instanceStates'[u].active
             /\ instanceStates'[u].seen = instanceStates[u].seen
             /\ instanceStates'[u].source = instanceStates[u].source
             /\ toClose'[u].due
             /\ toClose'[u].time >= instanceStates[u].closeAt - Jitter
  <2>1. u \in UIDs /\ instanceStates[u].active
    BY DEF Expired
  <2>2. instanceStates'[u] = [instanceStates[u] EXCEPT !.active = FALSE]
        /\ instanceStates[u] \in InstanceState
    BY <1>1, <1>3, <2>1
  <2>3. /\ ~instanceStates'[u].active /\ instanceStates'[u].seen = instanceStates[u].seen
        /\ instanceStates'[u].source = instanceStates[u].source
    BY <2>2 DEF InstanceState
  <2>4. toClose'[u].due /\ toClose'[u].time = instanceStates[u].closeAt + d[u]
    BY <1>2, <2>1
  <2>5. instanceStates[u].closeAt \in Int /\ d[u] \in -Jitter .. Jitter
    BY <2>1, <2>2 DEF InstanceState, Offsets
  <2> QED  BY <2>1, <2>3, <2>4, <2>5
<1> QED  BY <1>4, <1>5 DEF CloseExpired

LEMMA PublishedClose ==
  ASSUME TypeOK, NEW v \in UIDs, PublishClose(v)
  PROVE  /\ UNCHANGED <<now, instanceStates, ws>> /\ toClose[v].due /\ ~toClose'[v].due
         /\ \A u \in UIDs \ {v} : toClose'[u] = toClose[u]
         /\ [kind |-> "close", time |-> toClose[v].time] \in Message
         /\ PublishState(v, [kind |-> "close", time |-> toClose[v].time])
  BY DEF TypeOK, PublishClose, stateVars, NotDue, Closing, Message, Kinds

LEMMA QuietSteps ==
  ASSUME TypeOK, [Next]_vars, ~UpdateState, ~PublishStart, ~PublishReport, ~ClosingLoop
  PROVE  /\ UNCHANGED <<instanceStates, toClose, kpi>>
         /\ \/ ws' = ws
            \/ ws.pc \notin {"start", "report"} /\ ws'.pc \notin {"start", "report"}
         /\ used'.failures = 0 => used.failures = 0
<1> USE DEF stateVars, regVars, coreVars
<1>1. ws \in WsLocals /\ used \in Bounds /\ used.failures \in Nat
  BY DEF TypeOK, Bounds
<1>2. ASSUME NEW u \in UIDs, NEW o \in Occurrences[u], NEW ts \in 0 .. now,
             NEW i \in BOOLEAN, ReceiveRecord(u, o, ts, i)
      PROVE  /\ UNCHANGED <<instanceStates, toClose, kpi>>
             /\ ws.pc \notin {"start", "report"} /\ ws'.pc \notin {"start", "report"}
             /\ used'.failures = used.failures
  BY <1>1, <1>2 DEF ReceiveRecord, WsLocals, Bounds
<1>3. CASE CheckRegistered \/ MarkRegistered
  BY <1>1, <1>3 DEF CheckRegistered, MarkRegistered, WsLocals
<1>4. ASSUME NEW S, PublishRegistrations(S), used'.failures = 0
      PROVE  used.failures = 0
  BY <1>1, <1>4 DEF PublishRegistrations, Fail, Bounds
<1>5. CASE RequestRegistration
  <2>1. /\ UNCHANGED <<instanceStates, toClose, kpi>>
        /\ ws.pc \notin {"start", "report"} /\ ws'.pc \notin {"start", "report"}
    BY <1>1, <1>5 DEF RequestRegistration, WsLocals
  <2> QED  BY <1>4, <1>5, <2>1 DEF RequestRegistration
<1>6. CASE PublishBatch
  BY <1>4, <1>6 DEF PublishBatch
<1>7. CASE RefreshWeek
  BY <1>1, <1>7 DEF RefreshWeek, Bounds
<1>8. ASSUME NEW u \in UIDs, ScanWeekUID(u)
      PROVE  UNCHANGED <<instanceStates, toClose, kpi, ws, used>>
  BY <1>8 DEF ScanWeekUID
<1>9. CASE MarkWeekUID \/ Tick \/ UpdateTakenElsewhere \/ UNCHANGED vars
  BY <1>9 DEF MarkWeekUID, Tick, UpdateTakenElsewhere, vars
<1>10. CASE ApplyUpdate
  <2>1. used' = [used EXCEPT !.applied = @ + 1] /\ UNCHANGED <<instanceStates, toClose, kpi, ws>>
    BY <1>10 DEF ApplyUpdate
  <2> QED  BY <1>1, <2>1 DEF Bounds
<1>11. ASSUME NEW u \in UIDs, CoreRegister(u)
       PROVE  /\ UNCHANGED <<instanceStates, toClose, kpi, ws>>
              /\ used'.failures = used.failures
  <2>1. used' = [used EXCEPT !.sent = @ + 1] /\ UNCHANGED <<instanceStates, toClose, kpi, ws>>
    BY <1>11 DEF CoreRegister
  <2> QED  BY <1>1, <2>1 DEF Bounds
<1> QED
  BY <1>2, <1>3, <1>5, <1>6, <1>7, <1>8, <1>9, <1>10, <1>11 DEF Next, WebSocket, Refresh, Instances

LEMMA NextTypeOK == TypeOK /\ [Next]_vars => TypeOK'
<1> SUFFICES ASSUME TypeOK, [Next]_vars PROVE TypeOK'
  OBVIOUS
<1>1. CASE Tick \/ UNCHANGED vars
  BY <1>1 DEF TypeOK, Tick, vars, stateVars, regVars, coreVars
<1> QED
  BY <1>1, WebSocketType, ClosingLoopType, RefreshType, InstancesType DEF Next

-----------------------------------------------------------------------------
(* The synthetic start comes first *)

LEMMA InitStartInv == Init => StartInv
  BY DEF Init, StartInv, StartComesFirst, Sent, NoState, NotDue, Reading

\* One more message of a trip keeps StartComesFirst, if it is no start or all before it
\* are closing messages.
LEMMA PublishKeepsStarts ==
  ASSUME TypeOK, StartComesFirst, NEW v \in UIDs, NEW m \in Message, PublishState(v, m),
         m.kind = "start" => \A j \in DOMAIN kpi[v] : kpi[v][j].kind = "close"
  PROVE  StartComesFirst'
<1> SUFFICES ASSUME NEW u \in UIDs, NEW i \in DOMAIN kpi'[u], kpi'[u][i].kind = "start",
                    NEW j \in DOMAIN kpi'[u], j < i
             PROVE  kpi'[u][j].kind = "close"
  BY DEF StartComesFirst, Sent
<1> DEFINE n == Len(kpi[v]) + 1
<1>1. /\ \A k \in DOMAIN kpi[u] : kpi'[u][k] = kpi[u][k]
      /\ \A k \in DOMAIN kpi'[u] : k \in DOMAIN kpi[u] \/ (u = v /\ k = n /\ kpi'[u][k] = m)
  BY PublishedMessages
<1>2. i \in DOMAIN kpi[u] => j \in DOMAIN kpi[u]
  <2>1. /\ Len(kpi[v]) \in Nat /\ DOMAIN kpi[v] = 1 .. Len(kpi[v])
    BY PublishedState
  <2>2. i \in DOMAIN kpi[v] => j # n
    BY <2>1
  <2> QED  BY <1>1, <2>2
<1>3. i \notin DOMAIN kpi[u] => u = v /\ m.kind = "start" /\ j \in DOMAIN kpi[v]
  BY <1>1
<1> QED  BY <1>1, <1>2, <1>3 DEF StartComesFirst, Sent

LEMMA NextStartInv == TypeOK /\ StartInv /\ [Next]_vars => StartInv'
<1> SUFFICES ASSUME TypeOK, StartInv, [Next]_vars PROVE StartInv'
  OBVIOUS
<1>0. ws \in WsLocals /\ ws.uid \in UIDs /\ instanceStates \in [UIDs -> InstanceState]
  BY DEF TypeOK, WsLocals
<1>1. CASE UpdateState
  <2>1. /\ UNCHANGED <<toClose, kpi>> /\ instanceStates'[ws.uid].seen
        /\ \A u \in UIDs \ {ws.uid} : instanceStates'[u] = instanceStates[u]
        /\ ws'.pc \in {"start", "report"} => ws'.uid = ws.uid
        /\ ws'.pc = "start" => ~instanceStates[ws.uid].seen
    BY <1>1, UpdatedState
  <2>2. ws'.pc = "start" => DOMAIN kpi'[ws.uid] = {}
    BY <1>0, <2>1 DEF StartInv
  <2>3. StartComesFirst'
    BY <2>1 DEF StartInv, StartComesFirst, Sent
  <2> QED  BY <1>0, <2>1, <2>2, <2>3 DEF StartInv
<1>2. CASE PublishStart
  <2>1. PICK m \in Message : m.kind = "start" /\ PublishState(ws.uid, m)
    BY <1>2, PublishedStart
  <2>2. /\ UNCHANGED <<instanceStates, toClose>> /\ ws.pc = "start"
        /\ ws'.pc = "report" => ws'.uid = ws.uid
        /\ ws'.pc \in {"report", "read"}
    BY <1>2, PublishedStart
  <2>3. \A u \in UIDs \ {ws.uid} : kpi'[u] = kpi[u]
    BY <1>0, <2>1, PublishedState
  <2>4. StartComesFirst'
    BY <1>0, <2>1, <2>2, PublishKeepsStarts DEF StartInv
  <2> QED  BY <1>0, <2>2, <2>3, <2>4 DEF StartInv
<1>3. CASE PublishReport
  <2>1. /\ PublishState(ws.uid, Report) /\ Report \in Message /\ Report.kind # "start"
        /\ UNCHANGED <<instanceStates, toClose>> /\ ws.pc = "report" /\ ws'.pc = "read"
    BY <1>3, PublishedReport DEF Report
  <2>2. \A u \in UIDs \ {ws.uid} : kpi'[u] = kpi[u]
    BY <1>0, <2>1, PublishedState
  <2>3. StartComesFirst'
    BY <1>0, <2>1, PublishKeepsStarts DEF StartInv
  <2> QED  BY <1>0, <2>1, <2>2, <2>3 DEF StartInv
<1>4. CASE CloseExpired
  <2>1. \A u \in UIDs : /\ instanceStates'[u].seen = instanceStates[u].seen
                        /\ instanceStates'[u].active \/ toClose'[u].due => instanceStates[u].active
    BY <1>4, ClosedTrips
  <2>2. UNCHANGED <<ws, kpi>>
    BY <1>4, ClosedTrips
  <2>3. StartComesFirst'
    BY <2>2 DEF StartInv, StartComesFirst, Sent
  <2> QED  BY <1>0, <2>1, <2>2, <2>3 DEF StartInv
<1>5. ASSUME NEW v \in UIDs, PublishClose(v) PROVE StartInv'
  <2> DEFINE m == [kind |-> "close", time |-> toClose[v].time]
  <2>1. /\ UNCHANGED <<instanceStates, ws>> /\ toClose[v].due /\ ~toClose'[v].due
        /\ \A u \in UIDs \ {v} : toClose'[u] = toClose[u]
        /\ m \in Message /\ m.kind = "close" /\ PublishState(v, m)
    BY <1>5, PublishedClose
  <2> HIDE DEF m
  <2>2. StartComesFirst'
    BY <2>1, PublishKeepsStarts DEF StartInv
  <2>3. \A u \in UIDs \ {v} : kpi'[u] = kpi[u]
    BY <2>1, PublishedState
  <2>4. instanceStates[v].seen
    BY <2>1 DEF StartInv
  <2>5. (\A j \in DOMAIN kpi[v] : kpi[v][j].kind = "close") =>
          \A j \in DOMAIN kpi'[v] : kpi'[v][j].kind = "close"
    BY <2>1, PublishedMessages
  <2> QED  BY <1>0, <2>1, <2>2, <2>3, <2>4, <2>5 DEF StartInv
<1>6. CASE ~UpdateState /\ ~PublishStart /\ ~PublishReport /\ ~ClosingLoop
  <2>1. /\ UNCHANGED <<instanceStates, toClose, kpi>>
        /\ \/ ws' = ws
           \/ ws.pc \notin {"start", "report"} /\ ws'.pc \notin {"start", "report"}
    BY <1>6, QuietSteps
  <2> QED  BY <2>1 DEF StartInv, StartComesFirst, Sent
<1> QED  BY <1>1, <1>2, <1>3, <1>4, <1>5, <1>6 DEF ClosingLoop

\* The synthetic start of a trip is published at most once and before any state taken
\* from a record, in whatever order the records come; only a closing message of the
\* other goroutine may overtake it.
THEOREM StartsComeFirst == Spec => []StartComesFirst
<1>1. StartInv => StartComesFirst
  BY DEF StartInv
<1> QED  BY <1>1, InitStartInv, NextStartInv, TypeCorrect, PTL DEF Spec

-----------------------------------------------------------------------------
(* Order of delivery *)

\* What stands before a message stays when others are added.
LEMMA ClosedBeforeStays ==
  ASSUME NEW s, NEW t, NEW k \in Nat, \A i \in 1 .. k : t[i] = s[i], ClosedBefore(s, k + 1)
  PROVE  ClosedBefore(t, k + 1)
<1>1. k + 1 - 1 = k /\ k + 1 - 2 = k - 1
  OBVIOUS
<1>2. CASE k + 1 > 1 /\ s[k].kind = "close"
  BY <1>1, <1>2 DEF ClosedBefore
<1>3. CASE k + 1 > 2 /\ s[k].kind = "start" /\ s[k - 1].kind = "close"
  <2>1. k - 1 \in 1 .. k /\ k \in 1 .. k
    BY <1>3
  <2> QED  BY <1>1, <1>3, <2>1 DEF ClosedBefore
<1> QED  BY <1>1, <1>2, <1>3 DEF ClosedBefore

\* Without a failure the message is its trip's last one; no end published is lost.
LEMMA PublishedAtEnd ==
  ASSUME TypeOK, NEW v \in UIDs, NEW m \in Message, PublishState(v, m), used'.failures = 0
  PROVE  /\ used.failures = 0
         /\ Len(kpi'[v]) \in DOMAIN kpi'[v] /\ kpi'[v][Len(kpi'[v])] = m
         /\ \A u \in UIDs : Sent(u, "close") \subseteq Sent(u, "close")'
<1> DEFINE old == kpi[v]
           new == kpi'[v]
<1>1. /\ Len(old) \in Nat /\ used' = used
      /\ Len(new) = Len(old) + 1 /\ DOMAIN new = 1 .. Len(old) + 1
      /\ new[Len(old) + 1] = m
  BY PublishedState
<1>2. \A u \in UIDs : Sent(u, "close") \subseteq Sent(u, "close")'
  BY PublishedMessages DEF Sent
<1>3. Len(new) \in DOMAIN new /\ new[Len(new)] = m
  <2> HIDE DEF old, new
  <2> QED  BY <1>1
<1> QED  BY <1>1, <1>2, <1>3

\* What was last before it is what it comes behind.
LEMMA PublishedLast ==
  ASSUME TypeOK, NEW v \in UIDs, NEW m \in Message, PublishState(v, m), used'.failures = 0
  PROVE  /\ used.failures = 0 /\ kpi'[v] # <<>> /\ LastKind(v)' = m.kind
         /\ Len(kpi[v]) \in Nat /\ Len(kpi'[v]) = Len(kpi[v]) + 1
         /\ kpi[v] # <<>> => Len(kpi[v]) > 0 /\ kpi'[v][Len(kpi[v])].kind = LastKind(v)
         /\ EndedLast(v) => ClosedBefore(kpi'[v], Len(kpi'[v]))
         /\ m.kind = "close" => EndedLast(v)'
         /\ m.kind = "start" /\ kpi[v] # <<>> /\ LastKind(v) = "close" => EndedLast(v)'
<1> DEFINE old == kpi[v]
           new == kpi'[v]
           k == Len(old)
<1>1. k \in Nat /\ used.failures = 0 /\ new # <<>> /\ Len(new) = k + 1 /\ new[k + 1] = m
  BY PublishedState
<1>2. \A i \in 1 .. k : new[i] = old[i]
  BY PublishedState
<1>3. old # <<>> => k > 0
  <2>1. old \in Seq(Message)
    BY PublishedState
  <2> HIDE DEF old
  <2> QED  BY <1>1, <2>1, EmptySeq
<1>4. LastKind(v) = old[k].kind /\ LastKind(v)' = new[Len(new)].kind
  BY DEF LastKind
<1>5. EndedLast(v) = ClosedBefore(old, k + 1) /\ EndedLast(v)' = ClosedBefore(new, Len(new) + 1)
  BY DEF EndedLast
<1> HIDE DEF old, new, k
<1>6. EndedLast(v) => ClosedBefore(new, Len(new))
  BY <1>1, <1>2, <1>5, ClosedBeforeStays
<1>7. Len(new) + 1 - 1 = k + 1 /\ Len(new) + 1 - 2 = k /\ Len(new) + 1 > 1
  BY <1>1
<1>8. m.kind = "close" => EndedLast(v)'
  BY <1>1, <1>5, <1>7 DEF ClosedBefore
<1>9. old # <<>> => k > 0 /\ new[k].kind = LastKind(v)
  BY <1>1, <1>2, <1>3, <1>4
<1>10. m.kind = "start" /\ old # <<>> /\ LastKind(v) = "close" => EndedLast(v)'
  BY <1>1, <1>5, <1>7, <1>9 DEF ClosedBefore
<1>11. LastKind(v)' = m.kind
  BY <1>1, <1>4
<1> QED  BY <1>1, <1>6, <1>8, <1>9, <1>10, <1>11 DEF old, new, k

\* A trip whose last message is an end, but for a start, has one.
LEMMA EndedWasSent ==
  ASSUME TypeOK, NEW u \in UIDs, EndedLast(u)
  PROVE  Sent(u, "close") # {}
<1> DEFINE s == kpi[u]
<1>1. s \in Seq(Message)
  BY DEF TypeOK, Messages
<1>2. PICK k \in Nat : k = Len(s)
  BY <1>1, LenProperties
<1>3. DOMAIN s = 1 .. k
  BY <1>1, <1>2, LenProperties
<1>4. ClosedBefore(s, k + 1)
  BY <1>2 DEF EndedLast
<1> HIDE DEF s
<1>5. k + 1 - 1 = k /\ k + 1 - 2 = k - 1
  OBVIOUS
<1>6. CASE k + 1 > 1 /\ s[k].kind = "close"
  <2>1. k \in DOMAIN s
    BY <1>3, <1>6
  <2> QED  BY <1>6, <2>1 DEF Sent, s
<1>7. CASE k + 1 > 2 /\ s[k - 1].kind = "close"
  <2>1. k - 1 \in DOMAIN s
    BY <1>3, <1>7
  <2> QED  BY <1>7, <2>1 DEF Sent, s
<1> QED  BY <1>4, <1>5, <1>6, <1>7 DEF ClosedBefore

LEMMA InitOvertakeInv == Init => OvertakeInv
  BY DEF Init, OvertakeInv, OvertakenOnlyByClosing, PendingReport, PendingEnd, Reading, NotDue,
     NoState

LEMMA NextOvertakeInv == TypeOK /\ OvertakeInv /\ [Next]_vars => OvertakeInv'
<1> SUFFICES ASSUME TypeOK, OvertakeInv, [Next]_vars, used'.failures = 0 PROVE OvertakeInv'
  BY DEF OvertakeInv
<1>a. ws.uid \in UIDs
  BY DEF TypeOK, WsLocals
<1>b. PICK v \in UIDs : v = ws.uid
  BY <1>a
<1>0. /\ ws \in WsLocals /\ v = ws.uid /\ instanceStates \in [UIDs -> InstanceState]
      /\ \A u \in UIDs : instanceStates[u].active \in BOOLEAN
      /\ ws.inactive \in BOOLEAN
  BY <1>b DEF TypeOK, WsLocals, InstanceState
<1> DEFINE InHand(u) == ws.uid = u /\ ws.pc \in {"start", "report"}
           EndWaits(u) == toClose[u].due /\ instanceStates[u].active /\ ~InHand(u) =>
                            kpi[u] # <<>> /\ LastKind(u) = "active"
           Good(u) == Settled(u) /\ kpi[u] # <<>> =>
                        LET n == Len(kpi[u]) IN
                        \/ (LastKind(u) = "active") = instanceStates[u].active
                        \/ /\ LastKind(u) = "active" /\ ~instanceStates[u].active
                           /\ ClosedBefore(kpi[u], n)
                        \/ /\ LastKind(u) = "close" /\ instanceStates[u].active
                           /\ n > 1 /\ kpi[u][n - 1].kind = "active"
<1>old. used.failures = 0 => PendingReport /\ \A u \in UIDs : EndWaits(u) /\ Good(u)
  BY DEF OvertakeInv, OvertakenOnlyByClosing, PendingEnd, LastKind
<1>new. PendingReport' /\ (\A u \in UIDs : EndWaits(u)' /\ Good(u)') => OvertakeInv'
  BY DEF OvertakeInv, OvertakenOnlyByClosing, PendingEnd, LastKind
<1>same. ASSUME NEW u \in UIDs, kpi'[u] = kpi[u], EndWaits(u), Good(u),
                instanceStates'[u].active = instanceStates[u].active,
                toClose'[u].due <=> toClose[u].due, InHand(u)' = InHand(u)
         PROVE  EndWaits(u)' /\ Good(u)'
  BY <1>same DEF Settled, LastKind
<1>1. CASE UpdateState
  <2>1. /\ UNCHANGED <<toClose, kpi, used>> /\ ws.pc = "update"
        /\ instanceStates'[v].active = ~ws.inactive
        /\ \A u \in UIDs \ {v} : instanceStates'[u] = instanceStates[u]
        /\ IF NeedsStart(instanceStates[v]) \/ Reports(instanceStates[v].active)
           THEN ws'.pc \in {"start", "report"} /\ ws'.uid = v /\ ws'.inactive = ws.inactive
           ELSE ws'.pc = "read"
    BY <1>0, <1>1, UpdatedState
  <2>2. PendingReport'
    BY <1>0, <2>1 DEF PendingReport
  <2>3. ASSUME NEW u \in UIDs PROVE EndWaits(u)' /\ Good(u)'
    <3>1. CASE u # v
      <4>1. InHand(u)' = InHand(u)
        BY <1>0, <2>1, <3>1
      <4> QED  BY <1>old, <1>same, <2>1, <3>1, <4>1
    <3>2. CASE u = v /\ InHand(v)'
      BY <3>2 DEF Settled
    <3>3. CASE u = v /\ ~InHand(v)'
      <4>1. ws.inactive /\ instanceStates[v].active = FALSE
        BY <1>0, <2>1, <3>3 DEF Reports
      <4>2. instanceStates'[v].active = instanceStates[v].active /\ ~InHand(v)
        BY <2>1, <4>1
      <4> QED  BY <1>old, <1>same, <2>1, <3>3, <4>2
    <3> QED  BY <3>1, <3>2, <3>3
  <2> QED  BY <1>new, <2>2, <2>3
<1>2. CASE PublishStart
  <2>1. PICK m \in Message : m.kind = "start" /\ PublishState(v, m)
    BY <1>0, <1>2, PublishedStart
  <2>2. /\ UNCHANGED <<instanceStates, toClose>> /\ ws.pc = "start"
        /\ IF Reports(ws.wasActive)
           THEN ws'.pc = "report" /\ ws'.uid = v /\ ws'.inactive = ws.inactive
           ELSE ws'.pc = "read"
    BY <1>0, <1>2, PublishedStart
  <2>3. /\ used.failures = 0 /\ LastKind(v)' = "start"
        /\ kpi[v] # <<>> /\ LastKind(v) = "close" => EndedLast(v)'
    BY <1>0, <2>1, PublishedLast
  <2>4. \A u \in UIDs \ {v} : kpi'[u] = kpi[u]
    BY <1>0, <2>1, PublishedState
  <2>5. PendingReport'
    BY <1>0, <1>old, <2>2, <2>3 DEF PendingReport
  <2>6. ASSUME NEW u \in UIDs PROVE EndWaits(u)' /\ Good(u)'
    <3>1. CASE u = v
      <4>1. ~InHand(v)' => ws.inactive
        BY <1>0, <2>2 DEF Reports
      <4>2. ~InHand(v)' => instanceStates'[v].active = FALSE
        BY <1>0, <1>old, <2>2, <2>3, <4>1 DEF PendingReport
      <4> QED  BY <2>3, <3>1, <4>2 DEF Settled
    <3>2. CASE u # v
      <4>1. InHand(u)' = InHand(u)
        BY <1>0, <2>2, <3>2
      <4> QED  BY <1>old, <1>same, <2>2, <2>3, <2>4, <3>2, <4>1
    <3> QED  BY <3>1, <3>2
  <2> QED  BY <1>new, <2>5, <2>6
<1>3. CASE PublishReport
  <2>1. /\ PublishState(v, Report) /\ Report \in Message
        /\ UNCHANGED <<instanceStates, toClose>> /\ ws.pc = "report" /\ ws'.pc = "read"
    BY <1>0, <1>3, PublishedReport
  <2>2. /\ used.failures = 0 /\ LastKind(v)' = Report.kind /\ kpi'[v] # <<>>
        /\ EndedLast(v) => ClosedBefore(kpi'[v], Len(kpi'[v]))
    BY <1>0, <2>1, PublishedLast
  <2>3. Report.kind = IF ws.inactive THEN "inactive" ELSE "active"
    BY DEF Report
  <2>4. \A u \in UIDs \ {v} : kpi'[u] = kpi[u]
    BY <1>0, <2>1, PublishedState
  <2>5. ASSUME NEW u \in UIDs PROVE EndWaits(u)' /\ Good(u)'
    <3>1. CASE u = v /\ ws.inactive
      <4>1. instanceStates'[v].active = FALSE
        BY <1>0, <1>old, <2>1, <2>2, <3>1 DEF PendingReport
      <4> QED  BY <2>2, <2>3, <3>1, <4>1
    <3>2. CASE u = v /\ ~ws.inactive
      <4>1. Settled(v)' => ~toClose[v].due
        BY <2>1 DEF Settled
      <4>2. Settled(v)' => instanceStates'[v].active \/ EndedLast(v)
        BY <1>0, <1>old, <2>1, <2>2, <3>2, <4>1 DEF PendingReport
      <4>3. instanceStates'[v].active \in BOOLEAN
        BY <1>0, <2>1
      <4> QED  BY <2>2, <2>3, <3>2, <4>2, <4>3
    <3>3. CASE u # v
      <4>1. InHand(u)' = InHand(u)
        BY <1>0, <2>1, <3>3
      <4> QED  BY <1>old, <1>same, <2>1, <2>2, <2>4, <3>3, <4>1
    <3> QED  BY <3>1, <3>2, <3>3
  <2> QED  BY <1>new, <2>1, <2>5 DEF PendingReport
<1>4. CASE CloseExpired
  <2>1. /\ UNCHANGED <<ws, kpi, used>> /\ \A u \in UIDs : ~toClose[u].due
        /\ \A u \in UIDs \ Expired : instanceStates'[u] = instanceStates[u] /\ ~toClose'[u].due
        /\ \A u \in Expired : /\ instanceStates[u].active /\ toClose'[u].due
                              /\ ~instanceStates'[u].active
    BY <1>4, ClosedTrips
  <2>2. PendingReport'
    <3>1. EndedLast(v)' = EndedLast(v) /\ LastKind(v)' = LastKind(v)
      BY <2>1 DEF EndedLast, LastKind
    <3>2. CASE v \in Expired
      BY <1>0, <1>old, <2>1, <3>1, <3>2 DEF PendingReport
    <3>3. CASE v \notin Expired
      BY <1>0, <1>old, <2>1, <3>1, <3>3 DEF PendingReport
    <3> QED  BY <3>2, <3>3
  <2>3. ASSUME NEW u \in UIDs PROVE EndWaits(u)' /\ Good(u)'
    <3>1. CASE u \in Expired
      BY <2>1, <3>1 DEF Settled
    <3>2. CASE u \notin Expired
      <4>1. /\ kpi'[u] = kpi[u] /\ EndWaits(u) /\ Good(u)
            /\ instanceStates'[u].active = instanceStates[u].active
            /\ toClose'[u].due <=> toClose[u].due
        BY <1>old, <2>1, <3>2
      <4>2. InHand(u)' = InHand(u)
        BY <2>1
      <4> QED  BY <1>same, <4>1, <4>2
    <3> QED  BY <3>1, <3>2
  <2> QED  BY <1>new, <2>2, <2>3
<1>5. ASSUME NEW c \in UIDs, PublishClose(c) PROVE OvertakeInv'
  <2> DEFINE m == [kind |-> "close", time |-> toClose[c].time]
  <2>1. /\ UNCHANGED <<instanceStates, ws>> /\ toClose[c].due /\ ~toClose'[c].due
        /\ \A u \in UIDs \ {c} : toClose'[u] = toClose[u]
        /\ m \in Message /\ m.kind = "close" /\ PublishState(c, m)
    BY <1>5, PublishedClose
  <2> HIDE DEF m
  <2>2. /\ used.failures = 0 /\ kpi'[c] # <<>> /\ LastKind(c)' = "close" /\ EndedLast(c)'
        /\ Len(kpi[c]) \in Nat /\ Len(kpi'[c]) = Len(kpi[c]) + 1
        /\ kpi[c] # <<>> => Len(kpi[c]) > 0 /\ kpi'[c][Len(kpi[c])].kind = LastKind(c)
    BY <2>1, PublishedLast
  <2>3. \A u \in UIDs \ {c} : kpi'[u] = kpi[u]
    BY <2>1, PublishedState
  <2>4. PendingReport'
    <3>1. CASE v = c
      BY <1>0, <1>old, <2>1, <2>2, <3>1 DEF PendingReport
    <3>2. CASE v # c
      <4>1. EndedLast(v)' = EndedLast(v) /\ LastKind(v)' = LastKind(v)
        BY <2>3, <3>2 DEF EndedLast, LastKind
      <4> QED  BY <1>0, <1>old, <2>1, <2>2, <2>3, <3>2, <4>1 DEF PendingReport
    <3> QED  BY <3>1, <3>2
  <2>5. ASSUME NEW u \in UIDs PROVE EndWaits(u)' /\ Good(u)'
    <3>1. CASE u = c
      <4>1. Settled(c)' /\ instanceStates'[c].active => kpi[c] # <<>> /\ LastKind(c) = "active"
        BY <1>old, <2>1, <2>2 DEF Settled
      <4>2. Settled(c)' /\ instanceStates'[c].active =>
              Len(kpi'[c]) > 1 /\ kpi'[c][Len(kpi'[c]) - 1].kind = "active"
        BY <2>2, <4>1
      <4>3. instanceStates'[c].active \in BOOLEAN
        BY <1>0, <2>1
      <4> QED  BY <2>1, <2>2, <3>1, <4>2, <4>3
    <3>2. CASE u # c
      <4>1. /\ kpi'[u] = kpi[u] /\ EndWaits(u) /\ Good(u)
            /\ instanceStates'[u].active = instanceStates[u].active
            /\ toClose'[u].due = toClose[u].due
        BY <1>old, <2>1, <2>2, <2>3, <3>2
      <4>2. InHand(u)' = InHand(u)
        BY <2>1
      <4> QED  BY <1>same, <4>1, <4>2
    <3> QED  BY <3>1, <3>2
  <2> QED  BY <1>new, <2>4, <2>5
<1>6. CASE ~UpdateState /\ ~PublishStart /\ ~PublishReport /\ ~ClosingLoop
  <2>1. /\ UNCHANGED <<instanceStates, toClose, kpi>> /\ used.failures = 0
        /\ \/ ws' = ws
           \/ ws.pc \notin {"start", "report"} /\ ws'.pc \notin {"start", "report"}
    BY <1>6, QuietSteps
  <2>2. PendingReport'
    BY <1>old, <2>1 DEF PendingReport, EndedLast, LastKind
  <2>3. ASSUME NEW u \in UIDs PROVE EndWaits(u)' /\ Good(u)'
    <3>1. InHand(u)' = InHand(u)
      BY <2>1
    <3> QED  BY <1>old, <1>same, <2>1, <3>1
  <2> QED  BY <1>new, <2>2, <2>3
<1> QED  BY <1>1, <1>2, <1>3, <1>4, <1>5, <1>6 DEF ClosingLoop

\* The last message of a trip at rest says whether the trip is active, but for two ways
\* in which the goroutines overtake each other, each around the closing message next to
\* it: a report published behind the end that came while it was on the way, and an end
\* published behind the report that switched the trip on again.
THEOREM OvertakenByClosing == Spec => []OvertakenOnlyByClosing
<1>1. OvertakeInv => OvertakenOnlyByClosing
  BY DEF OvertakeInv, OvertakenOnlyByClosing
<1> QED  BY <1>1, InitOvertakeInv, NextOvertakeInv, TypeCorrect, PTL DEF Spec

-----------------------------------------------------------------------------
(* Order of event times *)

LEMMA MessageTypes ==
  ASSUME TypeOK
  PROVE  \A u \in UIDs : \A i \in DOMAIN kpi[u] :
           kpi[u][i] \in Message /\ kpi[u][i].time \in Int
<1>1. \A s \in Messages : \A i \in DOMAIN s : s[i] \in Message
  BY DEF Messages
<1>2. \A m \in Message : m.time \in Int
  BY DEF Message
<1> QED  BY <1>1, <1>2 DEF TypeOK

LEMMA InitEndDateInv == Init => EndDateInv
  BY DEF Init, EndDateInv, Sent, NotDue

LEMMA NextEndDateInv == TypeOK /\ CloseInv /\ EndDateInv /\ [Next]_vars => EndDateInv'
<1> SUFFICES ASSUME TypeOK, CloseInv, EndDateInv, [Next]_vars PROVE EndDateInv'
  OBVIOUS
<1>0. ws.uid \in UIDs /\ instanceStates \in [UIDs -> InstanceState]
  BY DEF TypeOK, WsLocals
<1>a. ASSUME NEW v \in UIDs, NEW m \in Message, PublishState(v, m),
             m.kind = "close" => IsEndDate(v, m.time)
      PROVE  \A u \in UIDs : \A i \in Sent(u, "close")' : IsEndDate(u, kpi'[u][i].time)
  <2>1. \A u \in UIDs : /\ \A i \in DOMAIN kpi[u] : kpi'[u][i] = kpi[u][i]
                        /\ \A i \in DOMAIN kpi'[u] :
                             i \in DOMAIN kpi[u] \/ (u = v /\ kpi'[u][i] = m)
    BY <1>a, PublishedMessages
  <2> QED  BY <1>a, <2>1 DEF EndDateInv, Sent
<1>1. CASE UpdateState
  <2>1. UNCHANGED <<toClose, kpi>>
    BY <1>1, UpdatedState
  <2> QED  BY <2>1 DEF EndDateInv, Sent
<1>2. CASE PublishStart
  <2>1. /\ UNCHANGED toClose
        /\ \E m \in Message : m.kind = "start" /\ PublishState(ws.uid, m)
    BY <1>2, PublishedStart
  <2> QED  BY <1>0, <1>a, <2>1 DEF EndDateInv
<1>3. CASE PublishReport
  <2>1. UNCHANGED toClose /\ Report \in Message /\ PublishState(ws.uid, Report)
    BY <1>3, PublishedReport
  <2>2. Report.kind # "close"
    BY DEF Report
  <2> QED  BY <1>0, <1>a, <2>1, <2>2 DEF EndDateInv
<1>4. CASE CloseExpired
  <2>1. /\ UNCHANGED kpi
        /\ \A u \in UIDs \ Expired : ~toClose'[u].due
        /\ \A u \in Expired : instanceStates[u].active
                              /\ toClose'[u].time >= instanceStates[u].closeAt - Jitter
    BY <1>4, ClosedTrips
  <2>2. toClose' \in [UIDs -> Closing]
    BY NextTypeOK DEF TypeOK
  <2>3. ASSUME NEW u \in UIDs, toClose'[u].due PROVE IsEndDate(u, toClose'[u].time)
    <3>1. u \in Expired
      BY <2>1, <2>3
    <3>2. PICK o \in Occurrences[u] : instanceStates[u].closeAt = o.end + TripEndReserve
      BY <2>1, <3>1 DEF CloseInv, IsReserveEnd
    <3>3. o.end \in Nat /\ toClose'[u].time \in Int
      BY <2>2, ScheduleAssumption DEF ScheduleAssumption, Closing
    <3>4. o.end + TripEndReserve - Jitter <= toClose'[u].time
      BY <2>1, <3>1, <3>2, <3>3
    <3> QED  BY <3>4 DEF IsEndDate
  <2> QED  BY <2>1, <2>3 DEF EndDateInv, Sent
<1>5. ASSUME NEW c \in UIDs, PublishClose(c) PROVE EndDateInv'
  <2> DEFINE m == [kind |-> "close", time |-> toClose[c].time]
  <2>1. /\ toClose[c].due /\ ~toClose'[c].due /\ \A u \in UIDs \ {c} : toClose'[u] = toClose[u]
        /\ m \in Message /\ m.time = toClose[c].time /\ PublishState(c, m)
    BY <1>5, PublishedClose
  <2> HIDE DEF m
  <2>2. IsEndDate(c, m.time)
    BY <2>1 DEF EndDateInv
  <2> QED  BY <1>a, <2>1, <2>2 DEF EndDateInv
<1>6. CASE ~UpdateState /\ ~PublishStart /\ ~PublishReport /\ ~ClosingLoop
  <2>1. UNCHANGED <<toClose, kpi>>
    BY <1>6, QuietSteps
  <2> QED  BY <2>1 DEF EndDateInv, Sent
<1> QED  BY <1>1, <1>2, <1>3, <1>4, <1>5, <1>6 DEF ClosingLoop

LEMMA InitSourceInv == Init => SourceInv
  BY DEF Init, SourceInv, Sent, Reading

\* The locals of the WebSocket goroutine before UpdateState: the record is the one that
\* arrived, which the source sent in order.
LEMMA RecordSteps ==
  ASSUME TypeOK, SourceInv, OrderedSource, [Next]_vars,
         ~UpdateState, ~PublishStart, ~PublishReport
  PROVE  /\ ws'.pc \in {"check", "request", "mark", "update"} =>
              ws'.ts >= instanceStates[ws'.uid].source
         /\ ws'.pc \in {"start", "report"} => ws' = ws
<1> USE DEF stateVars, regVars, coreVars
<1>1. ws \in WsLocals /\ instanceStates \in [UIDs -> InstanceState]
  BY DEF TypeOK
<1>2. ASSUME NEW u \in UIDs, NEW o \in Occurrences[u], NEW ts \in 0 .. now,
             NEW i \in BOOLEAN, ReceiveRecord(u, o, ts, i)
      PROVE  ws'.pc = "check" /\ ws'.uid = u /\ ws'.ts = ts /\ ts >= instanceStates[u].source
  BY <1>1, <1>2 DEF ReceiveRecord, WsLocals
<1>3. CASE CheckRegistered \/ RequestRegistration \/ MarkRegistered
  <2>1. /\ ws.pc \in {"check", "request", "mark"} /\ ws'.pc \in {"request", "mark", "update"}
        /\ ws'.uid = ws.uid /\ ws'.ts = ws.ts
    BY <1>1, <1>3 DEF CheckRegistered, RequestRegistration, MarkRegistered, WsLocals
  <2> QED  BY <2>1 DEF SourceInv
<1>4. CASE Refresh \/ Instances \/ ClosingLoop \/ Tick \/ UNCHANGED vars
  <2>1. ws' = ws
    BY <1>4 DEF Refresh, RefreshWeek, ScanWeekUID, MarkWeekUID, PublishBatch, Instances,
       ApplyUpdate, UpdateTakenElsewhere, CoreRegister, ClosingLoop, CloseExpired,
       PublishClose, Tick, vars
  <2> QED  BY <2>1 DEF SourceInv
<1> QED  BY <1>2, <1>3, <1>4 DEF Next, WebSocket

LEMMA NextSourceInv == OrderedSource /\ TypeOK /\ SourceInv /\ [Next]_vars => SourceInv'
<1> SUFFICES ASSUME OrderedSource, TypeOK, SourceInv, [Next]_vars PROVE SourceInv'
  OBVIOUS
<1>a. ws.uid \in UIDs
  BY DEF TypeOK, WsLocals
<1>b. PICK v \in UIDs : v = ws.uid
  BY <1>a
<1>0. /\ ws.ts \in Int /\ instanceStates \in [UIDs -> InstanceState]
      /\ \A u \in UIDs : instanceStates[u].source \in Int
  BY DEF TypeOK, WsLocals, InstanceState
<1>c. ASSUME NEW w \in UIDs, NEW m \in Message, PublishState(w, m), UNCHANGED instanceStates,
             m.kind = "active" => m.time <= instanceStates[w].source
      PROVE  \A u \in UIDs : \A i \in Sent(u, "active")' :
               kpi'[u][i].time <= instanceStates'[u].source
  <2>1. \A u \in UIDs : /\ \A i \in DOMAIN kpi[u] : kpi'[u][i] = kpi[u][i]
                        /\ \A i \in DOMAIN kpi'[u] :
                             i \in DOMAIN kpi[u] \/ (u = w /\ kpi'[u][i] = m)
    BY <1>c, PublishedMessages
  <2> QED  BY <1>c, <2>1 DEF SourceInv, Sent
<1>1. CASE UpdateState
  <2>1. /\ UNCHANGED kpi /\ ws.pc = "update" /\ instanceStates'[v].source = ws.ts
        /\ \A u \in UIDs \ {v} : instanceStates'[u] = instanceStates[u]
        /\ \/ ws'.pc = "read"
           \/ ws'.pc \in {"start", "report"} /\ ws'.uid = v /\ ws'.ts = ws.ts
    BY <1>1, <1>b, UpdatedState
  <2>2. ws.ts >= instanceStates[v].source
    BY <1>b, <2>1 DEF SourceInv
  <2>3. \A u \in UIDs : instanceStates[u].source <= instanceStates'[u].source
                        /\ instanceStates'[u].source \in Int
    BY <1>0, <2>1, <2>2
  <2>4. ASSUME NEW u \in UIDs, NEW i \in Sent(u, "active")'
        PROVE  kpi'[u][i].time <= instanceStates'[u].source
    <3>1. i \in DOMAIN kpi[u] /\ kpi[u][i].time <= instanceStates[u].source
      BY <2>1, <2>4 DEF SourceInv, Sent
    <3>2. kpi[u][i].time \in Int
      BY <3>1, MessageTypes
    <3> QED  BY <1>0, <2>1, <2>3, <3>1, <3>2
  <2> QED  BY <2>1, <2>4 DEF SourceInv
<1>2. CASE PublishStart
  <2>1. /\ UNCHANGED instanceStates /\ ws.pc = "start"
        /\ \E m \in Message : m.kind = "start" /\ PublishState(v, m)
        /\ \/ ws'.pc = "read"
           \/ ws'.pc = "report" /\ ws'.uid = ws.uid /\ ws'.ts = ws.ts
    BY <1>2, <1>b, PublishedStart
  <2>2. \A u \in UIDs : \A i \in Sent(u, "active")' :
          kpi'[u][i].time <= instanceStates'[u].source
    BY <1>c, <2>1
  <2> QED  BY <2>1, <2>2 DEF SourceInv
<1>3. CASE PublishReport
  <2>1. /\ UNCHANGED instanceStates /\ ws.pc = "report" /\ ws'.pc = "read"
        /\ Report \in Message /\ PublishState(v, Report)
    BY <1>3, <1>b, PublishedReport
  <2>2. Report.time <= instanceStates[v].source
    BY <1>0, <1>b, <2>1 DEF SourceInv, Report
  <2>3. \A u \in UIDs : \A i \in Sent(u, "active")' :
          kpi'[u][i].time <= instanceStates'[u].source
    BY <1>c, <2>1, <2>2
  <2> QED  BY <2>1, <2>3 DEF SourceInv
<1>4. CASE ~UpdateState /\ ~PublishStart /\ ~PublishReport
  <2>1. /\ ws'.pc \in {"check", "request", "mark", "update"} =>
             ws'.ts >= instanceStates[ws'.uid].source
        /\ ws'.pc \in {"start", "report"} => ws' = ws
    BY <1>4, RecordSteps
  <2>2. ws'.uid \in UIDs
    BY NextTypeOK DEF TypeOK, WsLocals
  <2>3. \A u \in UIDs : instanceStates'[u].source = instanceStates[u].source
    <3>1. CASE CloseExpired
      BY <3>1, ClosedTrips
    <3>2. ASSUME NEW c \in UIDs, PublishClose(c) PROVE UNCHANGED instanceStates
      BY <3>2, PublishedClose
    <3>3. CASE ~ClosingLoop
      BY <1>4, <3>3, QuietSteps
    <3> QED  BY <3>1, <3>2, <3>3 DEF ClosingLoop
  <2>4. \A u \in UIDs : \A i \in Sent(u, "active")' :
          kpi'[u][i].time <= instanceStates'[u].source
    <3>1. CASE CloseExpired
      <4>1. UNCHANGED kpi
        BY <3>1, ClosedTrips
      <4> QED  BY <2>3, <4>1 DEF SourceInv, Sent
    <3>2. ASSUME NEW c \in UIDs, PublishClose(c)
          PROVE  \A u \in UIDs : \A i \in Sent(u, "active")' :
                   kpi'[u][i].time <= instanceStates'[u].source
      <4> DEFINE m == [kind |-> "close", time |-> toClose[c].time]
      <4>1. m \in Message /\ m.kind = "close" /\ PublishState(c, m) /\ UNCHANGED instanceStates
        BY <3>2, PublishedClose
      <4> HIDE DEF m
      <4> QED  BY <1>c, <4>1
    <3>3. CASE ~ClosingLoop
      <4>1. UNCHANGED kpi
        BY <1>4, <3>3, QuietSteps
      <4> QED  BY <2>3, <4>1 DEF SourceInv, Sent
    <3> QED  BY <3>1, <3>2, <3>3 DEF ClosingLoop
  <2> QED  BY <2>1, <2>2, <2>3, <2>4 DEF SourceInv
<1> QED  BY <1>1, <1>2, <1>3, <1>4

\* An active message of u at time t is followed in event time by what ends it, or came
\* too late for the timetable.
EndSeen(u, t) ==
  \/ \E j \in DOMAIN kpi[u] \ Sent(u, "active") :
       kpi[u][j].kind # "start" /\ kpi[u][j].time >= t
  \/ \E o \in Occurrences[u] : o.end + TripEndReserve - Jitter < t

\* That nothing active is left without its end, for a trip u.
EndsSeen(u) ==
  Settled(u) /\ ~instanceStates[u].active /\ used.failures = 0 =>
    \A i \in Sent(u, "active") : EndSeen(u, kpi[u][i].time)

LEMMA EndsSeenIsVisible == EndVisibleUnlessLate <=> \A u \in UIDs : EndsSeen(u)
  BY DEF EndVisibleUnlessLate, EndsSeen, EndSeen

\* What does not change the messages of a trip, nor wakes it, keeps its ends seen.
LEMMA EndsSeenStable ==
  ASSUME NEW u \in UIDs, EndsSeen(u), UNCHANGED kpi[u], used'.failures = 0 => used.failures = 0,
         Settled(u)' => Settled(u) /\ (~instanceStates'[u].active => ~instanceStates[u].active)
  PROVE  EndsSeen(u)'
  BY DEF EndsSeen, EndSeen, Sent

LEMMA InitEndsSeen == Init => EndVisibleUnlessLate
  BY DEF Init, EndVisibleUnlessLate, Sent

LEMMA NextEndsSeen ==
  ASSUME OrderedSource, TypeOK, CloseInv, StartInv, OvertakeInv, SourceInv, EndDateInv,
         EndVisibleUnlessLate, [Next]_vars
  PROVE  EndVisibleUnlessLate'
<1> SUFFICES ASSUME NEW u \in UIDs, used'.failures = 0 PROVE EndsSeen(u)'
  <2>1. (\A u \in UIDs : EndsSeen(u)') => EndVisibleUnlessLate'
    BY DEF EndVisibleUnlessLate, EndsSeen, EndSeen
  <2>2. used'.failures # 0 => \A u \in UIDs : EndsSeen(u)'
    BY DEF EndsSeen
  <2> QED  BY <2>1, <2>2
<1>a. ws.uid \in UIDs
  BY DEF TypeOK, WsLocals
<1>b. PICK v \in UIDs : v = ws.uid
  BY <1>a
<1>c. Sent(u, "close")' # {} => \A i \in Sent(u, "active")' : EndSeen(u, kpi[u][i].time)'
  <2>1. TypeOK' /\ EndDateInv'
    BY NextTypeOK, NextEndDateInv
  <2>2. ASSUME Sent(u, "close")' # {}, NEW i \in Sent(u, "active")'
        PROVE  EndSeen(u, kpi[u][i].time)'
    <3>1. PICK j \in DOMAIN kpi'[u] : kpi'[u][j].kind = "close"
      BY <2>2 DEF Sent
    <3>2. PICK o \in Occurrences[u] : o.end + TripEndReserve - Jitter <= kpi'[u][j].time
      BY <2>1, <3>1 DEF EndDateInv, IsEndDate, Sent
    <3>3. \A k \in DOMAIN kpi'[u] : kpi'[u][k].time \in Int
      <4>1. \A s \in Messages : \A k \in DOMAIN s : s[k] \in Message
        BY DEF Messages
      <4>2. \A m \in Message : m.time \in Int
        BY DEF Message
      <4> QED  BY <2>1, <4>1, <4>2 DEF TypeOK
    <3>4. i \in DOMAIN kpi'[u] /\ o.end + TripEndReserve - Jitter \in Int
      BY <2>2, ScheduleAssumption DEF ScheduleAssumption, Sent
    <3>5. CASE kpi'[u][j].time >= kpi'[u][i].time
      BY <3>1, <3>5 DEF EndSeen, Sent
    <3>6. CASE ~(kpi'[u][j].time >= kpi'[u][i].time)
      <4>1. o.end + TripEndReserve - Jitter < kpi'[u][i].time
        BY <3>1, <3>2, <3>3, <3>4, <3>6
      <4> QED  BY <4>1 DEF EndSeen
    <3> QED  BY <3>5, <3>6
  <2> QED  BY <2>2
<1>d. EndsSeen(u)
  BY EndsSeenIsVisible
<1>0. /\ \A w \in UIDs : instanceStates[w].active \in BOOLEAN
      /\ ws.inactive \in BOOLEAN
  BY DEF TypeOK, WsLocals, InstanceState
<1>1. CASE UpdateState
  <2>1. /\ UNCHANGED <<toClose, kpi, used>> /\ ws.pc = "update"
        /\ instanceStates'[v].active = ~ws.inactive
        /\ \A w \in UIDs \ {v} : instanceStates'[w] = instanceStates[w]
        /\ IF NeedsStart(instanceStates[v]) \/ Reports(instanceStates[v].active)
           THEN ws'.pc \in {"start", "report"} /\ ws'.uid = v
           ELSE ws'.pc = "read"
    BY <1>1, <1>b, UpdatedState
  <2>2. Settled(u)' => Settled(u) /\ instanceStates'[u].active = instanceStates[u].active
    BY <1>0, <2>1 DEF Settled, Reports
  <2> QED  BY <1>d, <2>1, <2>2, EndsSeenStable
<1>2. CASE PublishStart
  <2>1. /\ UNCHANGED <<instanceStates, toClose>> /\ ws.pc = "start"
        /\ \E m \in Message : m.kind = "start" /\ PublishState(v, m)
        /\ \/ ws'.pc = "read"
           \/ ws'.pc = "report" /\ ws'.uid = v
    BY <1>2, <1>b, PublishedStart
  <2>2. PICK m \in Message : m.kind = "start" /\ PublishState(v, m)
    BY <2>1
  <2>3. used.failures = 0 /\ \A w \in UIDs \ {v} : kpi'[w] = kpi[w]
    BY <2>2, PublishedLast, PublishedState
  <2>4. CASE u = v
    <3>1. \A j \in DOMAIN kpi[v] : kpi[v][j].kind = "close"
      BY <1>b, <2>1 DEF StartInv
    <3>2. \A j \in DOMAIN kpi'[v] : kpi'[v][j].kind # "active"
      BY <2>2, <3>1, PublishedMessages
    <3> QED  BY <2>4, <3>2 DEF EndsSeen, Sent
  <2>5. CASE u # v
    <3>1. Settled(u)' => Settled(u)
      BY <1>b, <2>1, <2>5 DEF Settled
    <3> QED  BY <1>d, <2>1, <2>3, <2>5, <3>1, EndsSeenStable
  <2> QED  BY <2>4, <2>5
<1>3. CASE PublishReport
  <2>1. /\ PublishState(v, Report) /\ Report \in Message
        /\ UNCHANGED <<instanceStates, toClose>> /\ ws.pc = "report" /\ ws'.pc = "read"
    BY <1>3, <1>b, PublishedReport
  <2>2. /\ used.failures = 0 /\ kpi'[v][Len(kpi'[v])] = Report
        /\ Len(kpi'[v]) \in DOMAIN kpi'[v]
        /\ Sent(v, "close") \subseteq Sent(v, "close")'
        /\ \A w \in UIDs \ {v} : kpi'[w] = kpi[w]
    BY <2>1, PublishedAtEnd, PublishedState
  <2>3. /\ Report.kind = IF ws.inactive THEN "inactive" ELSE "active"
        /\ Report.time = ws.ts
    BY DEF Report
  <2>4. CASE u = v /\ ws.inactive
    <3>1. \A i \in DOMAIN kpi'[v] :
            i \in Sent(v, "active")' => i \in Sent(v, "active") /\ kpi'[v][i] = kpi[v][i]
      BY <2>1, <2>3, <2>4, PublishedMessages DEF Sent
    <3>2. \A i \in Sent(v, "active")' : kpi'[v][i].time <= ws.ts
      BY <1>b, <2>1, <3>1 DEF SourceInv, Sent
    <3>3. \A i \in Sent(v, "active")' : kpi'[v][i].time \in Int
      BY <3>1, MessageTypes DEF Sent
    <3>4. ws.ts \in Int
      BY DEF TypeOK, WsLocals
    <3>5. Len(kpi'[v]) \in DOMAIN kpi'[v] \ Sent(v, "active")'
      BY <2>2, <2>3, <2>4 DEF Sent
    <3>6. ASSUME NEW i \in Sent(v, "active")' PROVE EndSeen(v, kpi[v][i].time)'
      <4>1. ws.ts >= kpi'[v][i].time
        BY <3>2, <3>3, <3>4
      <4> QED  BY <2>2, <2>3, <2>4, <3>5, <4>1 DEF EndSeen
    <3> QED  BY <2>4, <3>6 DEF EndsSeen
  <2>5. CASE u = v /\ ~ws.inactive
    <3>1. Settled(v)' => ~toClose[v].due
      BY <2>1 DEF Settled
    <3>2. instanceStates[v].active \/ toClose[v].due \/ Sent(v, "close") # {}
      BY <1>b, <2>1, <2>2, <2>5, EndedWasSent DEF OvertakeInv, PendingReport
    <3>3. Settled(v)' /\ ~instanceStates'[v].active => Sent(v, "close")' # {}
      BY <2>1, <2>2, <3>1, <3>2
    <3> QED  BY <1>c, <2>5, <3>3 DEF EndsSeen
  <2>6. CASE u # v
    <3>1. Settled(u)' => Settled(u)
      BY <1>b, <2>1, <2>6 DEF Settled
    <3> QED  BY <1>d, <2>1, <2>2, <2>6, <3>1, EndsSeenStable
  <2> QED  BY <2>4, <2>5, <2>6
<1>4. CASE CloseExpired
  <2>1. /\ UNCHANGED <<ws, kpi, used>> /\ \A w \in UIDs : ~toClose[w].due
        /\ \A w \in UIDs \ Expired : instanceStates'[w] = instanceStates[w]
        /\ \A w \in Expired : toClose'[w].due
    BY <1>4, ClosedTrips
  <2>2. Settled(u)' => Settled(u) /\ u \notin Expired
    BY <2>1 DEF Settled
  <2> QED  BY <1>d, <2>1, <2>2, EndsSeenStable
<1>5. ASSUME NEW c \in UIDs, PublishClose(c) PROVE EndsSeen(u)'
  <2> DEFINE m == [kind |-> "close", time |-> toClose[c].time]
  <2>1. /\ UNCHANGED <<instanceStates, ws>>
        /\ \A w \in UIDs \ {c} : toClose'[w] = toClose[w]
        /\ m \in Message /\ m.kind = "close" /\ PublishState(c, m)
    BY <1>5, PublishedClose
  <2> HIDE DEF m
  <2>2. /\ used.failures = 0 /\ kpi'[c][Len(kpi'[c])] = m
        /\ Len(kpi'[c]) \in DOMAIN kpi'[c]
        /\ \A w \in UIDs \ {c} : kpi'[w] = kpi[w]
    BY <2>1, PublishedAtEnd, PublishedState
  <2>3. CASE u = c
    <3>1. Sent(u, "close")' # {}
      BY <2>1, <2>2, <2>3 DEF Sent
    <3> QED  BY <1>c, <3>1 DEF EndsSeen
  <2>4. CASE u # c
    <3>1. Settled(u)' => Settled(u)
      BY <2>1, <2>4 DEF Settled
    <3> QED  BY <1>d, <2>1, <2>2, <2>4, <3>1, EndsSeenStable
  <2> QED  BY <2>3, <2>4
<1>6. CASE ~UpdateState /\ ~PublishStart /\ ~PublishReport /\ ~ClosingLoop
  <2>1. /\ UNCHANGED <<instanceStates, toClose, kpi>> /\ used.failures = 0
        /\ \/ ws' = ws
           \/ ws.pc \notin {"start", "report"} /\ ws'.pc \notin {"start", "report"}
    BY <1>6, QuietSteps
  <2>2. Settled(u)' => Settled(u)
    BY <2>1 DEF Settled
  <2> QED  BY <1>d, <2>1, <2>2, EndsSeenStable
<1> QED  BY <1>1, <1>2, <1>3, <1>4, <1>5, <1>6 DEF ClosingLoop

\* In event time, nothing active stays a finished trip's latest state, if the source
\* sends the records of a trip in order: it is followed by the inactive state that ends
\* it, unless it is dated after the closing message its timetable asks for.
THEOREM EndsVisible == OrderedSource => (Spec => []EndVisibleUnlessLate)
<1> SUFFICES ASSUME OrderedSource PROVE Spec => []EndVisibleUnlessLate
  OBVIOUS
<1> DEFINE IInv == CloseInv /\ StartInv /\ OvertakeInv /\ SourceInv /\ EndDateInv
                   /\ EndVisibleUnlessLate
<1>1. Init => IInv
  BY InitClose, InitStartInv, InitOvertakeInv, InitSourceInv, InitEndDateInv, InitEndsSeen
<1>2. TypeOK /\ IInv /\ [Next]_vars => IInv'
  <2> SUFFICES ASSUME TypeOK, IInv, [Next]_vars PROVE IInv'
    OBVIOUS
  <2>1. CloseInv'
    BY NextCloseOrStutter
  <2>2. StartInv' /\ OvertakeInv' /\ SourceInv' /\ EndDateInv'
    BY NextStartInv, NextOvertakeInv, NextSourceInv, NextEndDateInv
  <2>3. EndVisibleUnlessLate'
    BY NextEndsSeen
  <2> QED  BY <2>1, <2>2, <2>3
<1>3. IInv => EndVisibleUnlessLate
  OBVIOUS
<1> QED  BY <1>1, <1>2, <1>3, TypeCorrect, PTL DEF Spec

-----------------------------------------------------------------------------
(* Every change of activity has a message of its own *)

ActiveNow == [u \in UIDs |-> instanceStates[u].active]
Outbox == [u \in UIDs |-> [k \in Kinds |-> Pending(u, k)]]
KindsSent == [u \in UIDs |-> [i \in DOMAIN kpi[u] |-> kpi[u][i].kind]]

\* The step of the abstract specification that UpdateState and CloseExpired are, in
\* terms of these three; what is switched off is announced by a message of kind how.
Decided(on, off, again, first, how) ==
  /\ {on, off, again, first} \subseteq SUBSET UIDs
  /\ \A u \in on \cup first : ~ActiveNow[u]
  /\ \A u \in off \cup again : ActiveNow[u]
  /\ off \cap again = {}
  /\ ActiveNow' = [u \in UIDs |-> (ActiveNow[u] \/ u \in on) /\ u \notin off]
  /\ Outbox' = [u \in UIDs |-> [k \in Kinds |-> Outbox[u][k] +
                  IF \/ k = "start" /\ u \in first
                     \/ k = "active" /\ u \in on \cup again
                     \/ k = how /\ u \in off
                  THEN 1 ELSE 0]]
  /\ KindsSent' = KindsSent

LEMMA FeedDecides ==
  ASSUME NEW on, NEW off, NEW again, NEW first, NEW how \in {"inactive", "close"},
         Decided(on, off, again, first, how)
  PROVE  Feed!Next
<1> DEFINE each == [u \in UIDs |-> how]
<1>1. each \in [UIDs -> {"inactive", "close"}] /\ \A u \in UIDs : each[u] = how
  OBVIOUS
<1>2. Kinds = Feed!Kinds
  BY DEF Kinds, Feed!Kinds
<1> HIDE DEF each
<1>3. Outbox' = [u \in UIDs |-> [k \in Feed!Kinds |-> Outbox[u][k] +
                   IF \/ k = "start" /\ u \in first
                      \/ k = "active" /\ u \in on \cup again
                      \/ u \in off /\ k = each[u]
                   THEN 1 ELSE 0]]
  BY <1>1, <1>2 DEF Decided
<1>4. on \in SUBSET UIDs /\ off \in SUBSET UIDs /\ again \in SUBSET UIDs
      /\ first \in SUBSET UIDs
  BY DEF Decided
<1>5. Feed!Decide(on, off, again, first)
  BY <1>1, <1>3 DEF Decided, Feed!Decide, ActiveNow, Outbox, KindsSent
<1> QED  BY <1>4, <1>5 DEF Feed!Next, Feed!Change

\* What the closing loop and what the WebSocket goroutine have still to publish.
ClosePending(u, k) == IF toClose[u].due /\ k = "close" THEN 1 ELSE 0
WsPending(u, k) ==
  IF /\ ws.uid = u
     /\ \/ ws.pc = "start" /\ k = "start"
        \/ /\ ws.pc = "report" \/ (ws.pc = "start" /\ Reports(ws.wasActive))
           /\ k = IF ws.inactive THEN "inactive" ELSE "active"
  THEN 1 ELSE 0

LEMMA PendingParts ==
  /\ \A u, k : /\ Pending(u, k) = ClosePending(u, k) + WsPending(u, k)
               /\ ClosePending(u, k) \in {0, 1} /\ WsPending(u, k) \in {0, 1}
  /\ \A u, k : /\ Pending(u, k)' = ClosePending(u, k)' + WsPending(u, k)'
               /\ ClosePending(u, k)' \in {0, 1} /\ WsPending(u, k)' \in {0, 1}
  BY DEF Pending, ClosePending, WsPending

LEMMA FeedUpdate == TypeOK /\ StartInv /\ UpdateState => Feed!Next
<1> SUFFICES ASSUME TypeOK, StartInv, UpdateState PROVE Feed!Next
  OBVIOUS
<1>a. ws.uid \in UIDs
  BY DEF TypeOK, WsLocals
<1>b. PICK v \in UIDs : v = ws.uid
  BY <1>a
<1>0. /\ \A u \in UIDs : instanceStates[u].active \in BOOLEAN
      /\ ws.inactive \in BOOLEAN
  BY DEF TypeOK, WsLocals, InstanceState
<1> DEFINE was == instanceStates[v].active
           on == IF ~was /\ ~ws.inactive THEN {v} ELSE {}
           off == IF was /\ ws.inactive THEN {v} ELSE {}
           again == IF was /\ ~ws.inactive THEN {v} ELSE {}
           first == IF NeedsStart(instanceStates[v]) THEN {v} ELSE {}
           one(u, k) == IF \/ k = "start" /\ u \in first
                           \/ k = "active" /\ u \in on \cup again
                           \/ k = "inactive" /\ u \in off
                        THEN 1 ELSE 0
<1>1. /\ UNCHANGED <<toClose, kpi>> /\ ws.pc = "update"
      /\ instanceStates'[v].active = ~ws.inactive
      /\ \A u \in UIDs \ {v} : instanceStates'[u] = instanceStates[u]
      /\ IF NeedsStart(instanceStates[v]) \/ Reports(was)
         THEN /\ ws'.pc = IF NeedsStart(instanceStates[v]) THEN "start" ELSE "report"
              /\ ws'.uid = v /\ ws'.inactive = ws.inactive /\ ws'.wasActive = was
         ELSE ws'.pc = "read"
  BY <1>b, UpdatedState
<1>2. NeedsStart(instanceStates[v]) => ~was
  BY DEF StartInv
<1>3. ASSUME NEW u \in UIDs, NEW k \in Kinds
      PROVE  Pending(u, k)' = Pending(u, k) + one(u, k)
  <2>1. ClosePending(u, k)' = ClosePending(u, k) /\ WsPending(u, k) = 0
    BY <1>1 DEF ClosePending, WsPending
  <2>2. WsPending(u, k)' = one(u, k)
    <3>1. CASE u # v
      BY <1>1, <3>1 DEF WsPending
    <3>2. CASE u = v /\ NeedsStart(instanceStates[v])
      BY <1>0, <1>1, <1>2, <3>2 DEF WsPending
    <3>3. CASE u = v /\ ~NeedsStart(instanceStates[v]) /\ Reports(was)
      BY <1>0, <1>1, <3>3 DEF WsPending
    <3>4. CASE u = v /\ ~NeedsStart(instanceStates[v]) /\ ~Reports(was)
      BY <1>0, <1>1, <3>4 DEF WsPending
    <3> QED  BY <3>1, <3>2, <3>3, <3>4
  <2> HIDE DEF one
  <2> QED  BY <2>1, <2>2, PendingParts
<1>4. Outbox' = [u \in UIDs |-> [k \in Kinds |-> Outbox[u][k] + one(u, k)]]
  <2> HIDE DEF one
  <2> QED  BY <1>3 DEF Outbox
<1>5. ActiveNow' = [u \in UIDs |-> (ActiveNow[u] \/ u \in on) /\ u \notin off]
  <2> DEFINE then(u) == (instanceStates[u].active \/ u \in on) /\ u \notin off
  <2>1. \A u \in UIDs : instanceStates'[u].active = then(u)
    BY <1>0, <1>1
  <2> HIDE DEF on, off
  <2>2. ActiveNow' = [u \in UIDs |-> then(u)]
    <3> HIDE DEF then
    <3> QED  BY <2>1 DEF ActiveNow
  <2> QED  BY <2>2, Zenon DEF ActiveNow
<1>6. KindsSent' = KindsSent
  BY <1>1 DEF KindsSent
<1>7. /\ \A u \in on \cup first : ~ActiveNow[u]
      /\ \A u \in off \cup again : ActiveNow[u]
      /\ off \cap again = {}
      /\ {on, off, again, first} \subseteq SUBSET UIDs
  BY <1>2 DEF ActiveNow
<1>8. Decided(on, off, again, first, "inactive")
  <2> HIDE DEF on, off, again, first
  <2> QED  BY <1>4, <1>5, <1>6, <1>7 DEF Decided
<1> HIDE DEF on, off, again, first
<1> QED  BY <1>8, FeedDecides

LEMMA FeedClose == TypeOK /\ CloseExpired => Feed!Next
<1> SUFFICES ASSUME TypeOK, CloseExpired PROVE Feed!Next
  OBVIOUS
<1> DEFINE off == Expired
           one(u, k) == IF k = "close" /\ u \in off THEN 1 ELSE 0
<1>0. off \subseteq UIDs /\ \A u \in UIDs : instanceStates[u].active \in BOOLEAN
  BY DEF TypeOK, InstanceState, Expired
<1>1. /\ UNCHANGED <<ws, kpi>> /\ \A u \in UIDs : ~toClose[u].due
      /\ \A u \in UIDs \ off : instanceStates'[u] = instanceStates[u] /\ ~toClose'[u].due
      /\ \A u \in off : /\ instanceStates[u].active /\ ~instanceStates'[u].active
                        /\ toClose'[u].due
  BY ClosedTrips
<1>2. \A u \in UIDs : instanceStates'[u].active \in BOOLEAN
  BY NextTypeOK DEF Next, ClosingLoop, TypeOK, InstanceState
<1> HIDE DEF off
<1>3. ASSUME NEW u \in UIDs, NEW k \in Kinds
      PROVE  Pending(u, k)' = Pending(u, k) + one(u, k)
  <2>1. WsPending(u, k)' = WsPending(u, k) /\ ClosePending(u, k) = 0
    BY <1>1 DEF ClosePending, WsPending
  <2>2. ClosePending(u, k)' = one(u, k)
    BY <1>1 DEF ClosePending
  <2> HIDE DEF one
  <2> QED  BY <2>1, <2>2, PendingParts
<1>4. Outbox' = [u \in UIDs |-> [k \in Kinds |-> Outbox[u][k] + one(u, k)]]
  <2> HIDE DEF one
  <2> QED  BY <1>3 DEF Outbox
<1>5. ActiveNow' = [u \in UIDs |-> ActiveNow[u] /\ u \notin off]
  <2> DEFINE still(u) == instanceStates[u].active /\ u \notin off
  <2>1. \A u \in UIDs : instanceStates'[u].active = still(u)
    BY <1>0, <1>1, <1>2
  <2>2. ActiveNow' = [u \in UIDs |-> still(u)]
    <3> HIDE DEF still
    <3> QED  BY <2>1 DEF ActiveNow
  <2> QED  BY <2>2, Zenon DEF ActiveNow
<1>6. ActiveNow' = [u \in UIDs |-> (ActiveNow[u] \/ u \in {}) /\ u \notin off]
  BY <1>5, Zenon
<1>7. Outbox' = [u \in UIDs |-> [k \in Kinds |-> Outbox[u][k] +
                   IF \/ k = "start" /\ u \in {}
                      \/ k = "active" /\ u \in {} \cup {}
                      \/ k = "close" /\ u \in off
                   THEN 1 ELSE 0]]
  BY <1>4
<1>8. KindsSent' = KindsSent /\ \A u \in off : ActiveNow[u]
  BY <1>0, <1>1 DEF KindsSent, ActiveNow
<1>9. Decided({}, off, {}, {}, "close")
  BY <1>0, <1>6, <1>7, <1>8 DEF Decided
<1> QED  BY <1>9, FeedDecides

LEMMA FeedCardinality == \A S : Feed!Cardinality(S) = Cardinality(S)
  BY DEF Feed!Cardinality, Cardinality

LEMMA FeedDispatches ==
  ASSUME ActiveNow' = ActiveNow,
         kpi \in [UIDs -> Seq(Message)], kpi' \in [UIDs -> Seq(Message)],
         \A u \in UIDs : Begins(kpi[u], kpi'[u]),
         \A u \in UIDs : \A k \in Kinds :
           Outbox'[u][k] \in 0 .. (Outbox[u][k] - Cardinality(NewPlaces(kpi[u], kpi'[u], k)))
  PROVE  Feed!Next
<1>1. Kinds = Feed!Kinds
  BY DEF Kinds, Feed!Kinds
<1>2. ASSUME NEW u \in UIDs
      PROVE  /\ Len(KindsSent'[u]) >= Len(KindsSent[u])
             /\ SubSeq(KindsSent'[u], 1, Len(KindsSent[u])) = KindsSent[u]
             /\ \A k : {i \in DOMAIN KindsSent'[u] \ DOMAIN KindsSent[u] : KindsSent'[u][i] = k}
                         = NewPlaces(kpi[u], kpi'[u], k)
  <2> DEFINE s == kpi[u]
             t == kpi'[u]
  <2>1. s \in Seq(Message) /\ t \in Seq(Message) /\ Begins(s, t)
    OBVIOUS
  <2>2. KindsSent[u] = KindsOf(s) /\ KindsSent'[u] = KindsOf(t)
    BY DEF KindsSent, KindsOf
  <2>3. \A m \in Message : m.kind \in Kinds
    BY DEF Message
  <2> HIDE DEF s, t
  <2>4. /\ Len(KindsOf(t)) >= Len(KindsOf(s))
        /\ SubSeq(KindsOf(t), 1, Len(KindsOf(s))) = KindsOf(s)
        /\ \A k : {i \in DOMAIN KindsOf(t) \ DOMAIN KindsOf(s) : KindsOf(t)[i] = k} =
                    NewPlaces(s, t, k)
    BY <2>1, <2>3, KindsOfLog
  <2> QED  BY <2>2, <2>4 DEF s, t
<1>3. ASSUME NEW u \in UIDs, NEW k \in Feed!Kinds
      PROVE  Feed!Gained(u, k) = Cardinality(NewPlaces(kpi[u], kpi'[u], k))
  <2>1. Feed!Gained(u, k) = Cardinality({i \in DOMAIN KindsSent'[u] \ DOMAIN KindsSent[u] :
                                           KindsSent'[u][i] = k})
    BY FeedCardinality DEF Feed!Gained, KindsSent
  <2> QED  BY <1>2, <2>1
<1>4. ASSUME NEW u \in UIDs, NEW k \in Feed!Kinds
      PROVE  Outbox'[u][k] \in 0 .. (Outbox[u][k] - Feed!Gained(u, k))
  BY <1>1, <1>3
<1>5. Feed!Dispatch
  BY <1>1, <1>2, <1>4 DEF Feed!Dispatch, ActiveNow, Outbox, KindsSent
<1> QED  BY <1>5 DEF Feed!Next

\* Handing over a message takes it, and nothing else, out of what is to be published.
LEMMA FeedPublishes ==
  ASSUME TypeOK, TypeOK', UNCHANGED instanceStates,
         NEW v \in UIDs, NEW m \in Message, PublishState(v, m),
         \A u \in UIDs : \A k \in Kinds :
           Pending(u, k) = Pending(u, k)' + (IF u = v /\ k = m.kind THEN 1 ELSE 0)
  PROVE  Feed!Next
<1>1. kpi \in [UIDs -> Seq(Message)] /\ kpi' \in [UIDs -> Seq(Message)]
  BY DEF TypeOK, Messages
<1>2. ASSUME NEW u \in UIDs
      PROVE  /\ Begins(kpi[u], kpi'[u])
             /\ \A k : \/ NewPlaces(kpi[u], kpi'[u], k) = {}
                       \/ /\ u = v /\ k = m.kind
                          /\ \E n : NewPlaces(kpi[u], kpi'[u], k) = {n}
  <2> DEFINE s == kpi[u]
             t == kpi'[u]
             n == Len(kpi[v]) + 1
  <2>1. s \in Seq(Message) /\ t \in Seq(Message)
    BY <1>1
  <2>2. /\ \A i \in DOMAIN s : i \in DOMAIN t /\ t[i] = s[i]
        /\ \A i \in DOMAIN t : i \in DOMAIN s \/ (u = v /\ i = n /\ t[i] = m)
    BY PublishedMessages
  <2> HIDE DEF s, t, n
  <2>3. DOMAIN s = 1 .. Len(s) /\ DOMAIN t = 1 .. Len(t) /\ Len(s) \in Nat /\ Len(t) \in Nat
    BY <2>1, LenProperties
  <2>4. Len(s) <= Len(t)
    <3>1. CASE Len(s) = 0
      BY <2>3, <3>1
    <3>2. CASE Len(s) # 0
      <4>1. Len(s) \in DOMAIN s
        BY <2>3, <3>2
      <4> QED  BY <2>2, <2>3, <4>1
    <3> QED  BY <3>1, <3>2
  <2>5. Begins(s, t)
    BY <2>2, <2>3, <2>4 DEF Begins
  <2>6. ASSUME NEW k
        PROVE  \/ NewPlaces(s, t, k) = {}
               \/ u = v /\ k = m.kind /\ \E i : NewPlaces(s, t, k) = {i}
    <3>1. \A i \in NewPlaces(s, t, k) : u = v /\ i = n /\ k = m.kind
      BY <2>2 DEF NewPlaces
    <3> QED  BY <3>1
  <2> QED  BY <2>5, <2>6 DEF s, t
<1>3. ASSUME NEW u \in UIDs, NEW k \in Kinds
      PROVE  Outbox'[u][k] \in 0 .. (Outbox[u][k] - Cardinality(NewPlaces(kpi[u], kpi'[u], k)))
  <2> DEFINE gained == Cardinality(NewPlaces(kpi[u], kpi'[u], k))
             one == IF u = v /\ k = m.kind THEN 1 ELSE 0
  <2>1. gained \in Nat /\ gained <= one
    <3>1. CASE NewPlaces(kpi[u], kpi'[u], k) = {}
      BY <3>1, FS_EmptySet
    <3>2. CASE u = v /\ k = m.kind /\ \E n : NewPlaces(kpi[u], kpi'[u], k) = {n}
      <4>1. PICK n : NewPlaces(kpi[u], kpi'[u], k) = {n}
        BY <3>2
      <4>2. gained = 1
        BY <4>1, FS_Singleton
      <4>3. one = 1
        BY <3>2
      <4> QED  BY <4>2, <4>3
    <3> QED  BY <1>2, <3>1, <3>2
  <2>2. Outbox[u][k] = Pending(u, k) /\ Outbox'[u][k] = Pending(u, k)'
    BY DEF Outbox
  <2>3. Pending(u, k) = Pending(u, k)' + one
    OBVIOUS
  <2>4. Pending(u, k)' \in Nat
    BY PendingParts
  <2> HIDE DEF gained, one
  <2>5. Outbox'[u][k] \in 0 .. (Outbox[u][k] - gained)
    <3> DEFINE p == Pending(u, k)
               q == Pending(u, k)'
    <3>0. one \in {0, 1}
      BY DEF one
    <3>1. p = q + one /\ q \in Nat
      BY <2>3, <2>4
    <3> HIDE DEF p, q
    <3>2. q \in 0 .. (p - gained)
      BY <2>1, <3>0, <3>1
    <3> QED  BY <2>2, <3>2 DEF p, q
  <2> QED  BY <2>5 DEF gained
<1>4. ActiveNow' = ActiveNow
  BY DEF ActiveNow
<1> QED  BY <1>1, <1>2, <1>3, <1>4, FeedDispatches

LEMMA FeedPublished ==
  ASSUME TypeOK, PublishStart \/ PublishReport \/ \E c \in UIDs : PublishClose(c)
  PROVE  Feed!Next
<1>a. ws.uid \in UIDs /\ ws.inactive \in BOOLEAN
  BY DEF TypeOK, WsLocals
<1>b. PICK v \in UIDs : v = ws.uid
  BY <1>a
<1>0. TypeOK'
  BY NextTypeOK DEF Next, WebSocket, ClosingLoop
<1>1. CASE PublishStart
  <2>1. /\ UNCHANGED <<instanceStates, toClose>> /\ ws.pc = "start"
        /\ IF Reports(ws.wasActive)
           THEN ws'.pc = "report" /\ ws'.uid = v /\ ws'.inactive = ws.inactive
           ELSE ws'.pc = "read"
    BY <1>1, <1>b, PublishedStart
  <2>2. PICK m \in Message : m.kind = "start" /\ PublishState(v, m)
    BY <1>1, <1>b, PublishedStart
  <2>3. ASSUME NEW u \in UIDs, NEW k \in Kinds
        PROVE  Pending(u, k) = Pending(u, k)' + (IF u = v /\ k = m.kind THEN 1 ELSE 0)
    <3>1. ClosePending(u, k)' = ClosePending(u, k)
      BY <2>1 DEF ClosePending
    <3>2. WsPending(u, k) = WsPending(u, k)' + (IF u = v /\ k = m.kind THEN 1 ELSE 0)
      BY <1>a, <1>b, <2>1, <2>2 DEF WsPending
    <3> QED  BY <3>1, <3>2, PendingParts
  <2> QED  BY <1>0, <2>1, <2>2, <2>3, FeedPublishes
<1>2. CASE PublishReport
  <2>1. /\ UNCHANGED <<instanceStates, toClose>> /\ ws.pc = "report" /\ ws'.pc = "read"
        /\ Report \in Message /\ PublishState(v, Report)
    BY <1>2, <1>b, PublishedReport
  <2>2. PICK m \in Message : m = Report
    BY <2>1
  <2>3. m.kind = IF ws.inactive THEN "inactive" ELSE "active"
    BY <2>2 DEF Report
  <2>4. ASSUME NEW u \in UIDs, NEW k \in Kinds
        PROVE  Pending(u, k) = Pending(u, k)' + (IF u = v /\ k = m.kind THEN 1 ELSE 0)
    <3>1. ClosePending(u, k)' = ClosePending(u, k)
      BY <2>1 DEF ClosePending
    <3>2. WsPending(u, k) = WsPending(u, k)' + (IF u = v /\ k = m.kind THEN 1 ELSE 0)
      BY <1>a, <1>b, <2>1, <2>3 DEF WsPending
    <3> QED  BY <3>1, <3>2, PendingParts
  <2> QED  BY <1>0, <2>1, <2>2, <2>4, FeedPublishes
<1>3. ASSUME NEW c \in UIDs, PublishClose(c) PROVE Feed!Next
  <2>1. PICK m \in Message : m = [kind |-> "close", time |-> toClose[c].time]
    BY <1>3, PublishedClose
  <2>2. /\ UNCHANGED <<instanceStates, ws>> /\ toClose[c].due /\ ~toClose'[c].due
        /\ \A u \in UIDs \ {c} : toClose'[u] = toClose[u]
        /\ m.kind = "close" /\ PublishState(c, m)
    BY <1>3, <2>1, PublishedClose
  <2>3. ASSUME NEW u \in UIDs, NEW k \in Kinds
        PROVE  Pending(u, k) = Pending(u, k)' + (IF u = c /\ k = m.kind THEN 1 ELSE 0)
    <3>1. WsPending(u, k)' = WsPending(u, k)
      BY <2>2 DEF WsPending
    <3>2. ClosePending(u, k) = ClosePending(u, k)' + (IF u = c /\ k = m.kind THEN 1 ELSE 0)
      BY <2>2 DEF ClosePending
    <3> QED  BY <3>1, <3>2, PendingParts
  <2> QED  BY <1>0, <2>2, <2>3, FeedPublishes
<1> QED  BY <1>1, <1>2, <1>3

\* The other steps change neither the activity nor what is to be published.
LEMMA FeedStutters ==
  ASSUME TypeOK, [Next]_vars, ~UpdateState, ~PublishStart, ~PublishReport, ~ClosingLoop
  PROVE  UNCHANGED Feed!vars
<1>1. /\ UNCHANGED <<instanceStates, toClose, kpi>>
      /\ \/ ws' = ws
         \/ ws.pc \notin {"start", "report"} /\ ws'.pc \notin {"start", "report"}
  BY QuietSteps
<1>2. \A u, k : Pending(u, k)' = Pending(u, k)
  BY <1>1 DEF Pending
<1> QED  BY <1>1, <1>2 DEF Feed!vars

\* Every change of a trip's activity is announced by one message of its own, whichever
\* of the two goroutines made it, published once or lost with a failure.
THEOREM FeedImplemented == Spec => ImplementsFeed
<1>1. Init => Feed!Init
  <2> SUFFICES ASSUME Init PROVE Feed!Init
    OBVIOUS
  <2>1. Kinds = Feed!Kinds
    BY DEF Kinds, Feed!Kinds
  <2>2. \A u \in UIDs : \A k : Pending(u, k) = 0
    BY DEF Init, Reading, NotDue, Pending
  <2>3. Outbox = [u \in UIDs |-> [k \in Feed!Kinds |-> 0]]
    BY <2>1, <2>2 DEF Outbox
  <2>4. KindsSent = [u \in UIDs |-> <<>>]
    BY DEF Init, KindsSent
  <2>5. ActiveNow = [u \in UIDs |-> FALSE]
    <3>1. \A u \in UIDs : instanceStates[u].active = FALSE
      BY DEF Init, NoState
    <3> QED  BY <3>1, Zenon DEF ActiveNow
  <2> QED  BY <2>3, <2>4, <2>5 DEF Feed!Init, Outbox, KindsSent, ActiveNow
<1>2. TypeOK /\ StartInv /\ [Next]_vars => [Feed!Next]_(Feed!vars)
  BY FeedUpdate, FeedClose, FeedPublished, FeedStutters DEF ClosingLoop
<1> QED
  BY <1>1, <1>2, InitStartInv, NextStartInv, TypeCorrect, PTL DEF Spec, ImplementsFeed, Feed!Spec
=============================================================================
