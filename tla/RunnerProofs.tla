---------------------------- MODULE RunnerProofs ----------------------------
(***************************************************************************)
(* Theorems about the simulation loop, for every program the dialect can   *)
(* express (RunnerAssumption, RegionAssumption), every number of devices   *)
(* and every order of the hash table.                                      *)
(***************************************************************************)
EXTENDS RunnerProperties, DeviceEventsProofs, FiniteSetTheorems

-----------------------------------------------------------------------------
(* The program is a well-typed one. *)
LEMMA ProgramFacts ==
  ASSUME prog \in Programs
  PROVE  ProgramTypeOK(P) /\ NoValue \notin Values
BY RunnerAssumption DEF P, Values

(* A rigid program: everything read off it stays the same. *)
LEMMA Rigid ==
  ASSUME prog' = prog
  PROVE  /\ P' = P /\ Ops' = Ops /\ Values' = Values /\ Launchers' = Launchers
BY DEF P, Ops, Values, Launchers

(* How often a value is among some values is a number. *)
LEMMA GeneratedByType ==
  ASSUME NEW S, NEW vs \in Seq(S), NEW v
  PROVE  generatedBy(vs, v) \in Nat
<1>1. DOMAIN vs = 1 .. Len(vs) /\ Len(vs) \in Nat
  BY LenProperties
<1>2. IsFiniteSet(1 .. Len(vs))
  BY <1>1, FS_Interval
<1>3. IsFiniteSet({ i \in DOMAIN vs : valueId(vs[i]) = v })
  BY <1>1, <1>2, FS_Subset
<1> QED
  BY <1>3, FS_CardinalityType DEF generatedBy

LEMMA UpdateExecutionType ==
  ASSUME NEW S, NEW vs \in Seq(S), valueMap \in [Values -> Nat],
         updateExecution(vs)
  PROVE  /\ valueMap' \in [Values -> Nat]
         /\ \A v \in Values : valueMap'[v] >= valueMap[v]
<1>1. \A v \in Values : generatedBy(vs, v) \in Nat
  BY GeneratedByType
<1> QED
  BY <1>1 DEF updateExecution

-----------------------------------------------------------------------------
LEMMA InitType == Init => TypeOK
<1> SUFFICES ASSUME Init PROVE TypeOK
  OBVIOUS
<1>1. ProgramTypeOK(P)
  BY ProgramFacts DEF Init
<1>2. ControlTypeOK
  <2>1. order = <<>> /\ Len(order) = 0 /\ order \in Seq(Launchers \ {Host})
    BY EmptySeq DEF Init
  <2>2. generated \in BOOLEAN
    BY DEF Init
  <2> QED
    BY <2>1, <2>2 DEF Init, ControlTypeOK
<1>3. LauncherTypeOK
  BY <1>1 DEF Init, LauncherTypeOK, ProgramTypeOK, Ops
<1>4. QueueTypeOK
  BY DEF Init, QueueTypeOK
<1>5. CountTypeOK
  BY DEF Init, CountTypeOK
<1>6. NewEventList \in Schedule
  BY ScheduleEvents
<1>7. DeviceTypeOK
  BY <1>6 DEF Init, DeviceTypeOK
<1> QED
  BY <1>2, <1>3, <1>4, <1>5, <1>7 DEF TypeOK

-----------------------------------------------------------------------------
(* Parts of the state that a call leaves alone keep their types.            *)
LEMMA SameLauncher ==
  ASSUME LauncherTypeOK, prog' = prog, UNCHANGED launcher
  PROVE  LauncherTypeOK'
BY Rigid DEF LauncherTypeOK, launcher

LEMMA SameQueues ==
  ASSUME QueueTypeOK, prog' = prog, UNCHANGED <<eventQueue, controlQueue>>
  PROVE  QueueTypeOK'
BY Rigid DEF QueueTypeOK

LEMMA SameCounts ==
  ASSUME CountTypeOK, prog' = prog, UNCHANGED <<counts, exTimes, signalIds>>
  PROVE  CountTypeOK'
BY Rigid DEF CountTypeOK, counts

LEMMA SameDevices ==
  ASSUME DeviceTypeOK, prog' = prog, UNCHANGED devices
  PROVE  DeviceTypeOK'
BY Rigid DEF DeviceTypeOK, devices

Phases == {"set", "check", "control", "running", "schedule", "advance",
           "finish", "stopped"}

(* The control state between two calls, on the same launcher or the next.   *)
LEMMA ControlStep ==
  ASSUME ControlTypeOK, prog' = prog, generated' = generated, linked' \in Nat,
         time' \in Nat \ {0}, order' = order, phase' \in Phases,
         pos' \in 0 .. Len(order)
  PROVE  ControlTypeOK'
<1>1. generated' \in BOOLEAN
  BY DEF ControlTypeOK
<1>2. Launchers' = Launchers
  BY Rigid
<1> QED
  BY <1>1, <1>2 DEF ControlTypeOK, Phases

LEMMA ProceedType ==
  ASSUME ControlTypeOK, NEW next \in Phases, Proceed(next), nothingElse
  PROVE  ControlTypeOK'
<1>1. Len(order) \in Nat /\ pos \in 0 .. Len(order) /\ phase \in Phases
      /\ linked \in Nat /\ time \in Nat \ {0}
  BY LenProperties DEF ControlTypeOK, Phases
<1>2. pos' \in 0 .. Len(order) /\ phase' \in Phases
  BY <1>1 DEF Proceed
<1> QED
  BY <1>1, <1>2, ControlStep DEF nothingElse

LEMMA CurrentType ==
  ASSUME ControlTypeOK
  PROVE  Current \in Launchers
<1>1. pos # 0 => pos \in DOMAIN order
  BY LenProperties DEF ControlTypeOK
<1>2. pos # 0 => order[pos] \in Launchers
  BY <1>1, ElementOfSeq, LenProperties DEF ControlTypeOK
<1> QED
  BY <1>2 DEF Current, Launchers

-----------------------------------------------------------------------------
(* 1. setOpEntry. *)
LEMMA NothingToSetType == TypeOK /\ NothingToSet => TypeOK'
<1> SUFFICES ASSUME TypeOK, NothingToSet PROVE TypeOK'
  OBVIOUS
<1>1. ControlTypeOK'
  BY ProceedType DEF NothingToSet, TypeOK, Phases
<1>2. prog' = prog
  BY DEF NothingToSet, nothingElse
<1> QED
  BY <1>1, <1>2, SameLauncher, SameQueues, SameCounts, SameDevices
  DEF NothingToSet, TypeOK

(* The launcher has walked on to the operation it looks at.                 *)
LEMMA WalkType ==
  ASSUME TypeOK, NEW o \in Ops, prog' = prog, UNCHANGED <<phase, pos>>, nothingElse,
         UNCHANGED <<opEntry, startTime, endTime>>,
         nextIter' = [nextIter EXCEPT ![Current] = P.next[o]]
  PROVE  ControlTypeOK' /\ LauncherTypeOK'
<1>1. P.next[o] \in Ops \cup {0}
  BY ProgramFacts DEF TypeOK, ControlTypeOK, ProgramTypeOK, Ops
<1>2. LauncherTypeOK'
  BY <1>1, CurrentType, Rigid DEF TypeOK, LauncherTypeOK
<1>3. ControlTypeOK'
  BY ControlStep DEF TypeOK, ControlTypeOK, Phases, nothingElse
<1> QED
  BY <1>2, <1>3

LEMMA PushControlType ==
  ASSUME TypeOK, NEW o \in Ops, PushControl(o)
  PROVE  TypeOK'
<1>1. prog' = prog
  BY DEF PushControl, nothingElse
<1>2. ControlTypeOK' /\ LauncherTypeOK'
  BY <1>1, WalkType DEF PushControl
<1>3. QueueTypeOK'
  BY <1>1, Rigid, AppendProperties DEF PushControl, TypeOK, QueueTypeOK
<1> QED
  BY <1>1, <1>2, <1>3, SameCounts, SameDevices DEF PushControl, TypeOK

(* An operation was executed once more and has generated its signals.       *)
LEMMA ExecutedType ==
  ASSUME TypeOK, NEW o \in Ops, prog' = prog,
         opMap' = [opMap EXCEPT ![o] = @ + 1],
         updateExecution(P.results[o]),
         UNCHANGED <<exTimes, signalIds>>
  PROVE  CountTypeOK'
<1>1. P.results[o] \in Seq(Values)
  BY ProgramFacts DEF TypeOK, ControlTypeOK, ProgramTypeOK, Ops, Values
<1>2. valueMap' \in [Values -> Nat]
  BY <1>1, UpdateExecutionType DEF TypeOK, CountTypeOK
<1>3. opMap' \in [Ops -> Nat]
  BY DEF TypeOK, CountTypeOK
<1> QED
  BY <1>2, <1>3, Rigid DEF TypeOK, CountTypeOK

LEMMA SkipMissingLauncherType ==
  ASSUME TypeOK, NEW o \in Ops, SkipMissingLauncher(o)
  PROVE  TypeOK'
<1>1. prog' = prog
  BY DEF SkipMissingLauncher, nothingElse
<1>2. ControlTypeOK' /\ LauncherTypeOK'
  BY <1>1, WalkType DEF SkipMissingLauncher
<1>3. CountTypeOK'
  BY <1>1, ExecutedType DEF SkipMissingLauncher
<1> QED
  BY <1>1, <1>2, <1>3, SameQueues, SameDevices DEF SkipMissingLauncher, TypeOK

(* Only devices that exist have launchers in the table.                     *)
LEMMA ExistingType ==
  ASSUME ControlTypeOK
  PROVE  Existing \subseteq Launchers \ {Host}
BY ElementOfSeq, LenProperties DEF ControlTypeOK, Existing

LEMMA PushEventType ==
  ASSUME TypeOK, NEW o \in Ops, PushEvent(o)
  PROVE  TypeOK'
<1>1. prog' = prog
  BY DEF PushEvent, nothingElse
<1>2. ControlTypeOK' /\ LauncherTypeOK'
  BY <1>1, WalkType DEF PushEvent
<1>3. P.target[o] \in Launchers
  BY ExistingType DEF PushEvent, TypeOK
<1>4. QueueTypeOK'
  BY <1>1, <1>3, Rigid, AppendProperties DEF PushEvent, push, TypeOK, QueueTypeOK
<1> QED
  BY <1>1, <1>2, <1>4, SameCounts, SameDevices DEF PushEvent, TypeOK

LEMMA StallOnFullQueueType ==
  ASSUME TypeOK, NEW o \in Ops, StallOnFullQueue(o)
  PROVE  TypeOK'
<1>1. ControlTypeOK'
  BY ProceedType DEF StallOnFullQueue, TypeOK, Phases
<1>2. prog' = prog
  BY DEF StallOnFullQueue, nothingElse
<1> QED
  BY <1>1, <1>2, SameLauncher, SameQueues, SameCounts, SameDevices
  DEF StallOnFullQueue, TypeOK

LEMMA LoadOpType ==
  ASSUME TypeOK, NEW o \in Ops, LoadOp(o)
  PROVE  TypeOK'
<1>1. prog' = prog
  BY DEF LoadOp, nothingElse
<1>2. ControlTypeOK'
  BY ProceedType DEF LoadOp, TypeOK, Phases
<1>3. ProgramTypeOK(P) /\ RegionTypeOK(P)
  BY ProgramFacts, RegionAssumption DEF TypeOK, ControlTypeOK, P
<1>4. P.next[o] \in Ops \cup {0} /\ P.first[o] \in Ops \cup {0}
  BY <1>3 DEF ProgramTypeOK, Ops
<1>5. kind(o) = "yield" => afterYield(o) \in Ops \cup {0}
  BY <1>3 DEF ProgramTypeOK, RegionTypeOK, Ops, kind, blockOf, afterYield
<1>6. LauncherTypeOK'
  <2>1. nextIter' \in [Launchers -> Ops \cup {0}]
    BY <1>4, <1>5, CurrentType DEF LoadOp, TypeOK, LauncherTypeOK
  <2>2. opEntry' \in [Launchers -> Ops \cup {0}]
        /\ startTime' \in [Launchers -> Nat] /\ endTime' \in [Launchers -> Nat]
    BY CurrentType DEF LoadOp, TypeOK, LauncherTypeOK
  <2> QED
    BY <1>1, <2>1, <2>2, Rigid DEF LauncherTypeOK
<1>7. CountTypeOK'
  <2>1. exTimes' \in [Ops -> Nat]
    BY DEF LoadOp, TypeOK, CountTypeOK
  <2> QED
    BY <1>1, <2>1, Rigid DEF LoadOp, TypeOK, CountTypeOK, counts
<1> QED
  BY <1>1, <1>2, <1>6, <1>7, SameQueues, SameDevices DEF LoadOp, TypeOK

-----------------------------------------------------------------------------
(* 2. checkEventQueue and checkControlQueue. *)
LEMMA TakeEventType ==
  ASSUME TypeOK, NEW l \in Launchers, TakeEvent(l)
  PROVE  TypeOK'
<1> DEFINE o == Head(eventQueue[l])
<1>1. prog' = prog
  BY DEF TakeEvent
<1>2. o \in Ops /\ Tail(eventQueue[l]) \in Seq(Ops)
  BY HeadTailProperties DEF TakeEvent, headReady, TypeOK, QueueTypeOK
<1>3. ControlTypeOK'
  <2>1. generated' \in BOOLEAN
    BY DEF TakeEvent
  <2> QED
    BY <1>1, <2>1, Rigid DEF TakeEvent, TypeOK, ControlTypeOK
<1>4. P.first[o] \in Ops \cup {0}
  BY <1>2, ProgramFacts DEF TypeOK, ControlTypeOK, ProgramTypeOK, Ops
<1> HIDE DEF o
<1>5. LauncherTypeOK'
  BY <1>1, <1>2, <1>4, Rigid DEF TakeEvent, TypeOK, LauncherTypeOK, o
<1>6. QueueTypeOK'
  BY <1>1, <1>2, Rigid DEF TakeEvent, TypeOK, QueueTypeOK
<1> QED
  BY <1>1, <1>3, <1>5, <1>6, SameCounts, SameDevices DEF TakeEvent, TypeOK

LEMMA TakeNoEventType ==
  ASSUME TypeOK, NEW l \in Launchers, TakeNoEvent(l)
  PROVE  TypeOK'
<1>1. prog' = prog
  BY DEF TakeNoEvent
<1>2. generated' \in BOOLEAN
  BY DEF TakeNoEvent
<1>3. ControlTypeOK'
  BY <1>1, <1>2, Rigid DEF TakeNoEvent, TypeOK, ControlTypeOK
<1> QED
  BY <1>1, <1>3, SameLauncher, SameQueues, SameCounts, SameDevices
  DEF TakeNoEvent, TypeOK

LEMMA FireControlType ==
  ASSUME TypeOK, NEW i \in DOMAIN controlQueue, FireControl(i)
  PROVE  TypeOK'
<1> DEFINE o == controlQueue[i]
           n == Len(controlQueue)
<1>1. prog' = prog
  BY DEF FireControl
<1>2. n \in Nat /\ i \in 1 .. n /\ \A j \in 1 .. n : controlQueue[j] \in Ops
  BY ElementOfSeq, LenProperties DEF TypeOK, QueueTypeOK
<1>3. ControlTypeOK'
  <2>1. generated' \in BOOLEAN
    BY DEF FireControl
  <2> QED
    BY <1>1, <2>1, Rigid DEF FireControl, TypeOK, ControlTypeOK
<1>4. CountTypeOK'
  BY <1>1, <1>2, ExecutedType DEF FireControl
<1> HIDE DEF n
<1>5. controlQueue' \in [1 .. n - 1 -> Ops]
  BY <1>2 DEF FireControl, n
<1>6. n - 1 \in Nat
  BY <1>2
<1>7. controlQueue' \in Seq(Ops)
  BY <1>5, <1>6, SeqDef
<1>8. QueueTypeOK'
  BY <1>1, <1>7, Rigid DEF FireControl, TypeOK, QueueTypeOK
<1> QED
  BY <1>1, <1>3, <1>4, <1>8, SameLauncher, SameDevices DEF FireControl, TypeOK

LEMMA ControlQueueWaitsType == TypeOK /\ ControlQueueWaits => TypeOK'
<1> SUFFICES ASSUME TypeOK, ControlQueueWaits PROVE TypeOK'
  OBVIOUS
<1>1. prog' = prog
  BY DEF ControlQueueWaits
<1>2. nextCheck \in Nat
  BY LenProperties DEF nextCheck, TypeOK, ControlTypeOK
<1>3. pos' \in 0 .. Len(order) /\ phase' \in Phases
  BY <1>2, LenProperties DEF ControlQueueWaits, TypeOK, ControlTypeOK, Phases
<1>4. ControlTypeOK'
  BY <1>1, <1>3, ControlStep DEF ControlQueueWaits, TypeOK, ControlTypeOK
<1> QED
  BY <1>1, <1>4, SameLauncher, SameQueues, SameCounts, SameDevices
  DEF ControlQueueWaits, TypeOK

LEMMA EndConditionType == TypeOK /\ EndCondition => TypeOK'
<1> SUFFICES ASSUME TypeOK, EndCondition PROVE TypeOK'
  OBVIOUS
<1>1. prog' = prog
  BY DEF EndCondition
<1>2. phase' \in Phases
  BY DEF EndCondition, Phases
<1>3. ControlTypeOK'
  BY <1>1, <1>2, ControlStep DEF EndCondition, TypeOK, ControlTypeOK
<1> QED
  BY <1>1, <1>3, SameLauncher, SameQueues, SameCounts, SameDevices
  DEF EndCondition, TypeOK

-----------------------------------------------------------------------------
(* 3. scheduleOp, and the time. *)
LEMMA NothingToScheduleType ==
  ASSUME TypeOK, NEW l \in Launchers, NothingToSchedule(l)
  PROVE  TypeOK'
<1>1. ControlTypeOK'
  BY ProceedType DEF NothingToSchedule, TypeOK, Phases
<1>2. prog' = prog
  BY DEF NothingToSchedule, nothingElse
<1> QED
  BY <1>1, <1>2, SameLauncher, SameQueues, SameCounts, SameDevices
  DEF NothingToSchedule, TypeOK

(* What is on a launcher that may start is an operation.                    *)
LEMMA EntryType ==
  ASSUME TypeOK, NEW l \in Launchers, ~ is_idle(l)
  PROVE  opEntry[l] \in Ops
BY DEF TypeOK, LauncherTypeOK, is_idle

LEMMA ChargeType ==
  ASSUME TypeOK, NEW o \in Ops, charge(o), prog' = prog
  PROVE  accesses' \in [Ops' -> Nat]
BY Rigid DEF TypeOK, DeviceTypeOK, charge

LEMMA StallReadType ==
  ASSUME TypeOK, NEW l \in Launchers, StallRead(l)
  PROVE  TypeOK'
<1>1. ControlTypeOK'
  BY ProceedType DEF StallRead, TypeOK, Phases
<1>2. prog' = prog
  BY DEF StallRead, nothingElse
<1>3. opEntry[l] \in Ops
  BY EntryType DEF StallRead, mayStart
<1>4. DeviceTypeOK'
  BY <1>2, <1>3, ChargeType DEF StallRead, TypeOK, DeviceTypeOK
<1> QED
  BY <1>1, <1>2, <1>4, SameLauncher, SameQueues, SameCounts DEF StallRead, TypeOK

(* Every operation that starts at a time ends at a time.                    *)
LEMMA ModelOpType ==
  ASSUME TypeOK, NEW o \in Ops
  PROVE  /\ modelOp(o) \in Nat \ {0}
         /\ usesBank(o) => schedule(o).events \in Schedule /\ P.bank[o] \in Banks
<1>1. ProgramTypeOK(P)
  BY ProgramFacts DEF TypeOK, ControlTypeOK
<1>2. time \in Nat \ {0}
  BY DEF TypeOK, ControlTypeOK
<1>3. CASE usesBank(o)
  <2>1. P.bank[o] \in Banks /\ P.cycles[o] \in Nat
    BY <1>1, <1>3 DEF ProgramTypeOK, usesBank, Ops
  <2>2. events[P.bank[o]] \in Schedule
    BY <2>1 DEF TypeOK, DeviceTypeOK
  <2> DEFINE clean == kind(o) \in AccessKinds
  <2>3. clean \in BOOLEAN
    OBVIOUS
  <2> HIDE DEF clean
  <2>4. /\ scheduleEvent(events[P.bank[o]], time, P.cycles[o], clean).events \in Schedule
        /\ scheduleEvent(events[P.bank[o]], time, P.cycles[o], clean).end \in Nat \ {0}
    BY <1>2, <2>1, <2>2, <2>3, ScheduleEventType
  <2> QED
    BY <1>3, <2>1, <2>4 DEF modelOp, schedule, clean
<1>4. CASE ~ usesBank(o)
  BY <1>2, <1>4 DEF modelOp
<1> QED
  BY <1>3, <1>4

LEMMA AddedType ==
  ASSUME NEW S, NEW f \in [S -> Nat], NEW x, NEW n \in Nat
  PROVE  [f EXCEPT ![x] = @ + n] \in [S -> Nat]
<1>1. x \in S => f[x] + n \in Nat
  OBVIOUS
<1>2. CASE x \in S
  BY <1>1, <1>2
<1>3. CASE x \notin S
  <2>1. \A y \in S : [f EXCEPT ![x] = @ + n][y] = f[y]
    BY <1>3
  <2> QED
    BY <2>1
<1> QED
  BY <1>2, <1>3

LEMMA TransmitType ==
  ASSUME TypeOK, NEW o \in Ops, transmit(o)
  PROVE  DOMAIN write_schedule' = Conns /\ data_total' \in [Conns -> Nat]
<1>1. P.vol[o] \in Nat
  BY ProgramFacts DEF TypeOK, ControlTypeOK, ProgramTypeOK, Ops
<1>2. data_total' \in [Conns -> Nat]
  <2>1. CASE data_total' = data_total
    BY <2>1 DEF TypeOK, DeviceTypeOK
  <2>2. CASE data_total' = [data_total EXCEPT ![P.con[o]] = @ + P.vol[o]]
    BY <1>1, <2>2, AddedType DEF TypeOK, DeviceTypeOK
  <2> QED
    BY <2>1, <2>2 DEF transmit
<1>3. DOMAIN write_schedule' = DOMAIN write_schedule
  BY DEF transmit
<1> QED
  BY <1>2, <1>3 DEF TypeOK, DeviceTypeOK

LEMMA StartOpType ==
  ASSUME TypeOK, NEW l \in Launchers, StartOp(l)
  PROVE  TypeOK'
<1> DEFINE o == opEntry[l]
<1>1. ControlTypeOK'
  BY ProceedType DEF StartOp, TypeOK, Phases
<1>2. prog' = prog
  BY DEF StartOp, nothingElse
<1>3. o \in Ops
  BY EntryType DEF StartOp, mayStart
<1>4. /\ opMap' = IF kind(o) \in EventKinds \cup {"await"}
                    THEN [opMap EXCEPT ![o] = @ + 1] ELSE opMap
      /\ startTime' = [startTime EXCEPT ![l] = time]
      /\ endTime' = [endTime EXCEPT ![l] = modelOp(o)]
      /\ events' = IF usesBank(o)
                     THEN [events EXCEPT ![P.bank[o]] = schedule(o).events] ELSE events
      /\ transmit(o) /\ charge(o)
      /\ UNCHANGED <<opEntry, nextIter, eventQueue, controlQueue, valueMap, exTimes,
                     signalIds>>
  BY DEF StartOp
<1> HIDE DEF o
<1>5. modelOp(o) \in Nat /\ time \in Nat
      /\ (usesBank(o) => schedule(o).events \in Schedule /\ P.bank[o] \in Banks)
  BY <1>3, ModelOpType DEF TypeOK, ControlTypeOK
<1>6. LauncherTypeOK'
  BY <1>2, <1>4, <1>5, Rigid DEF TypeOK, LauncherTypeOK
<1>7. CountTypeOK'
  BY <1>2, <1>3, <1>4, Rigid DEF TypeOK, CountTypeOK
<1>8. events' \in [Banks -> Schedule]
  BY <1>4, <1>5 DEF TypeOK, DeviceTypeOK
<1>9. DeviceTypeOK'
  BY <1>2, <1>3, <1>4, <1>8, ChargeType, TransmitType DEF DeviceTypeOK
<1> QED
  BY <1>1, <1>2, <1>4, <1>6, <1>7, <1>9, SameQueues DEF TypeOK

LEMMA AdvanceTimeType == TypeOK /\ AdvanceTime => TypeOK'
<1> SUFFICES ASSUME TypeOK, AdvanceTime PROVE TypeOK'
  OBVIOUS
<1>1. prog' = prog
  BY DEF AdvanceTime
<1>2. endTimes \subseteq Nat \ {0}
  <2>1. {Host} \cup Existing \subseteq Launchers
    BY ExistingType DEF TypeOK, Launchers
  <2> QED
    BY <2>1 DEF endTimes, is_started, TypeOK, LauncherTypeOK
<1>3. time' \in Nat \ {0}
  <2>1. CASE time' = time + 1
    BY <2>1 DEF TypeOK, ControlTypeOK
  <2>2. CASE time' \in endTimes
    BY <1>2, <2>2
  <2> QED
    BY <2>1, <2>2 DEF AdvanceTime, nearest
<1>4. phase' \in Phases
  BY DEF AdvanceTime, Phases
<1>5. ControlTypeOK'
  BY <1>1, <1>3, <1>4, ControlStep DEF AdvanceTime, TypeOK, ControlTypeOK
<1> QED
  BY <1>1, <1>5, SameLauncher, SameQueues, SameCounts, SameDevices
  DEF AdvanceTime, TypeOK

-----------------------------------------------------------------------------
(* 4. finishOp. *)
LEMMA NothingToFinishType ==
  ASSUME TypeOK, NEW l \in Launchers, NothingToFinish(l)
  PROVE  TypeOK'
<1>1. ControlTypeOK'
  BY ProceedType DEF NothingToFinish, TypeOK, Phases
<1>2. prog' = prog
  BY DEF NothingToFinish, nothingElse
<1> QED
  BY <1>1, <1>2, SameLauncher, SameQueues, SameCounts, SameDevices
  DEF NothingToFinish, TypeOK

(* The two argument lists of updateSignalIds are lists of signals, equally  *)
(* long.                                                                    *)
LEMMA LinkLists ==
  ASSUME TypeOK, NEW o \in Ops
  PROVE  /\ linkTo(o) \in Seq(Values)
         /\ linkTo(o) # <<>> => /\ linkFrom(o) \in Seq(Values)
                                /\ Len(linkTo(o)) = Len(linkFrom(o))
<1>1. ProgramTypeOK(P) /\ RegionTypeOK(P)
  BY ProgramFacts, RegionAssumption DEF TypeOK, ControlTypeOK, P
<1>2. /\ P.ins[o] \in Seq(Values) /\ P.args[o] \in Seq(Values)
      /\ blockOf(o) \in Ops \cup {0}
  BY <1>1 DEF ProgramTypeOK, Ops, Values, blockOf
<1>3. \A b \in Ops : P.results[b] \in Seq(Values) /\ P.args[b] \in Seq(Values)
  BY <1>1 DEF ProgramTypeOK, Ops, Values
<1>4. CASE kind(o) = "launch"
  <2>1. Len(P.ins[o]) = Len(P.args[o]) + 1
    BY <1>1, <1>4 DEF RegionTypeOK, Ops, kind
  <2>2. Tail(P.ins[o]) \in Seq(Values) /\ Len(Tail(P.ins[o])) = Len(P.ins[o]) - 1
    BY <1>2, <2>1, HeadTailProperties, LenProperties, EmptySeq
  <2> QED
    BY <1>2, <1>4, <2>1, <2>2, LenProperties DEF linkTo, linkFrom
<1>5. CASE kind(o) = "for"
  <2>1. Len(P.ins[o]) = Len(P.args[o])
    BY <1>1, <1>5 DEF RegionTypeOK, Ops, kind
  <2> QED
    BY <1>2, <1>5, <2>1 DEF linkTo, linkFrom
<1>6. CASE kind(o) = "return"
  <2>1. blockOf(o) \in Ops /\ Len(P.ins[o]) + 1 = Len(P.results[blockOf(o)])
    BY <1>1, <1>6 DEF RegionTypeOK, Ops, kind, blockOf
  <2> DEFINE r == P.results[blockOf(o)]
  <2>2. r \in Seq(Values) /\ r # <<>>
    BY <1>2, <1>3, <2>1, LenProperties, EmptySeq
  <2> HIDE DEF r
  <2>3. Tail(r) \in Seq(Values) /\ Len(Tail(r)) = Len(r) - 1
    BY <2>2, HeadTailProperties
  <2> QED
    BY <1>2, <1>6, <2>1, <2>3, LenProperties DEF linkTo, linkFrom, r
<1>7. CASE kind(o) = "yield"
  <2>1. /\ blockOf(o) \in Ops /\ kind(blockOf(o)) = "for"
        /\ Len(P.ins[o]) = Len(P.args[blockOf(o)])
    BY <1>1, <1>7 DEF RegionTypeOK, Ops, kind, blockOf
  <2>2. Len(P.results[blockOf(o)]) = Len(P.args[blockOf(o)])
    BY <1>1, <2>1 DEF RegionTypeOK, Ops, kind
  <2> QED
    BY <1>2, <1>3, <1>7, <2>1, <2>2 DEF linkTo, linkFrom
<1>8. CASE kind(o) \notin {"launch", "for", "return", "yield"}
  BY <1>8 DEF linkTo
<1> QED
  BY <1>4, <1>5, <1>6, <1>7, <1>8

LEMMA LinkSignalType ==
  ASSUME TypeOK, NEW l \in Launchers, LinkSignal(l)
  PROVE  TypeOK'
<1> DEFINE o == opEntry[l]
<1>1. prog' = prog
  BY DEF LinkSignal
<1>2. o \in Ops
  BY EntryType DEF LinkSignal, finishes
<1>3. linked \in Nat /\ linked < Len(linkTo(o))
      /\ signalIds' = [signalIds EXCEPT ![valueId(linkTo(o)[linked + 1])] =
                         getSignalId(valueId(linkFrom(o)[linked + 1]))]
      /\ signalIds \in [Values -> Values]
  BY DEF LinkSignal, TypeOK, ControlTypeOK, CountTypeOK
<1> HIDE DEF o
<1>4. linkTo(o) \in Seq(Values) /\ linkFrom(o) \in Seq(Values)
      /\ Len(linkTo(o)) = Len(linkFrom(o)) /\ Len(linkTo(o)) \in Nat
  BY <1>2, <1>3, LinkLists, LenProperties, EmptySeq
<1>5. linkFrom(o)[linked + 1] \in Values
  BY <1>3, <1>4, ElementOfSeq
<1>6. valueId(linkFrom(o)[linked + 1]) \in Values
  BY <1>5, ProgramFacts DEF TypeOK, ControlTypeOK, ProgramTypeOK, Values, valueId
<1>7. signalIds' \in [Values -> Values]
  BY <1>3, <1>6 DEF getSignalId
<1>8. CountTypeOK'
  BY <1>1, <1>7, Rigid DEF LinkSignal, TypeOK, CountTypeOK, counts
<1>9. ControlTypeOK'
  BY <1>1, ControlStep DEF LinkSignal, TypeOK, ControlTypeOK, Phases
<1> QED
  BY <1>1, <1>8, <1>9, SameLauncher, SameQueues, SameDevices DEF LinkSignal, TypeOK

(* The table of launchers holds devices that the program creates.           *)
LEMMA OrderType ==
  ASSUME TypeOK, NEW o \in Ops, kind(o) = "create",
         order' \in orders(Existing \cup {o})
  PROVE  order' \in Seq(Launchers \ {Host}) /\ Existing \cup {o} \subseteq Existing'
<1> DEFINE S == Existing \cup {o}
<1>1. Ops \subseteq Nat \ {Host} /\ IsFiniteSet(Ops)
  BY ProgramFacts DEF TypeOK, ControlTypeOK, ProgramTypeOK, Ops
<1>2. S \subseteq Launchers \ {Host}
  BY <1>1, ExistingType DEF TypeOK, Launchers, kind
<1>3. S \subseteq Ops
  BY <1>2 DEF Launchers
<1>4. Cardinality(S) \in Nat
  BY <1>1, <1>3, FS_Subset, FS_CardinalityType
<1> HIDE DEF S
<1>5. order' \in [1 .. Cardinality(S) -> S] /\ S \subseteq Range(order')
  BY DEF orders, S
<1>6. order' \in [1 .. Cardinality(S) -> Launchers \ {Host}]
  BY <1>2, <1>5
<1>7. S \subseteq Existing'
  BY <1>5 DEF Existing, Range
<1> QED
  BY <1>4, <1>6, <1>7, SeqDef DEF S

LEMMA FinishOpType ==
  ASSUME TypeOK, NEW l \in Launchers, FinishOp(l)
  PROVE  TypeOK' /\ Existing \subseteq Existing'
<1> DEFINE o == opEntry[l]
<1>1. prog' = prog
  BY DEF FinishOp
<1>2. o \in Ops
  BY EntryType DEF FinishOp, finishes
<1>3. order' \in Seq(Launchers \ {Host}) /\ Existing \subseteq Existing'
  <2>1. CASE kind(o) = "create" /\ o \notin Existing
    BY <1>2, <2>1, OrderType DEF FinishOp
  <2>2. CASE ~ (kind(o) = "create" /\ o \notin Existing)
    BY <2>2 DEF FinishOp, TypeOK, ControlTypeOK, Existing
  <2> QED
    BY <2>1, <2>2
<1>4. ControlTypeOK'
  <2>1. generated' \in BOOLEAN
    BY DEF FinishOp, TypeOK, ControlTypeOK
  <2>2. pos' \in 0 .. Len(order')
    BY <1>3, LenProperties DEF FinishOp, TypeOK, ControlTypeOK
  <2>3. phase' \in Phases
    BY DEF FinishOp, TypeOK, ControlTypeOK, Phases
  <2> QED
    BY <1>1, <1>3, <2>1, <2>2, <2>3, Rigid
    DEF FinishOp, TypeOK, ControlTypeOK, Phases
<1>5. LauncherTypeOK'
  BY <1>1, Rigid DEF FinishOp, TypeOK, LauncherTypeOK
<1>6. valueMap' \in [Values -> Nat]
  <2>1. ProgramTypeOK(P) /\ RegionTypeOK(P)
    BY ProgramFacts, RegionAssumption DEF TypeOK, ControlTypeOK, P
  <2>2. valueMap \in [Values -> Nat]
    BY DEF TypeOK, CountTypeOK
  <2>3. CASE kind(o) = "memcpy"
    <3>1. P.results[o] \in Seq(Values)
      BY <1>2, <2>1 DEF ProgramTypeOK, Ops, Values
    <3> QED
      BY <2>2, <2>3, <3>1, UpdateExecutionType DEF FinishOp
  <2>4. CASE kind(o) = "return"
    <3>1. updateExecution(<<P.results[blockOf(o)][1]>>)
      BY <2>4 DEF FinishOp
    <3>2. <<P.results[blockOf(o)][1]>> \in Seq({P.results[blockOf(o)][1]})
      OBVIOUS
    <3> QED
      BY <2>2, <3>1, <3>2, UpdateExecutionType
  <2>5. CASE kind(o) \notin {"memcpy", "return"}
    BY <2>2, <2>5 DEF FinishOp
  <2> QED
    BY <2>3, <2>4, <2>5
<1>7. CountTypeOK'
  BY <1>1, <1>6, Rigid DEF FinishOp, TypeOK, CountTypeOK
<1>8. QueueTypeOK' /\ DeviceTypeOK'
  BY <1>1, SameQueues, SameDevices DEF FinishOp, TypeOK
<1> QED
  BY <1>3, <1>4, <1>5, <1>7, <1>8 DEF TypeOK

-----------------------------------------------------------------------------
LEMMA StutterType == TypeOK /\ UNCHANGED vars => TypeOK'
<1> SUFFICES ASSUME TypeOK, UNCHANGED vars PROVE TypeOK'
  OBVIOUS
<1>1. prog' = prog /\ generated' = generated /\ UNCHANGED <<launcher, counts, devices>>
      /\ UNCHANGED <<phase, pos, linked, order, time, eventQueue, controlQueue,
                     exTimes, signalIds>>
  BY DEF vars, control
<1>2. ControlTypeOK'
  BY <1>1, ControlStep DEF TypeOK, ControlTypeOK, Phases
<1> QED
  BY <1>1, <1>2, SameLauncher, SameQueues, SameCounts, SameDevices DEF TypeOK

LEMMA NextType == TypeOK /\ [Next]_vars => TypeOK'
<1> SUFFICES ASSUME TypeOK, [Next]_vars PROVE TypeOK'
  OBVIOUS
<1>1. ASSUME NEW o \in Ops,
             \/ PushControl(o) \/ SkipMissingLauncher(o) \/ PushEvent(o)
             \/ StallOnFullQueue(o) \/ LoadOp(o)
      PROVE  TypeOK'
  BY <1>1, PushControlType, SkipMissingLauncherType, PushEventType,
     StallOnFullQueueType, LoadOpType
<1>2. ASSUME NEW l \in Launchers, TakeEvent(l) \/ TakeNoEvent(l)
      PROVE  TypeOK'
  BY <1>2, TakeEventType, TakeNoEventType
<1>3. ASSUME NEW i \in DOMAIN controlQueue, FireControl(i)
      PROVE  TypeOK'
  BY <1>3, FireControlType
<1>4. ASSUME NEW l \in Launchers, NothingToSchedule(l) \/ StallRead(l) \/ StartOp(l)
      PROVE  TypeOK'
  BY <1>4, NothingToScheduleType, StallReadType, StartOpType
<1>5. ASSUME NEW l \in Launchers, NothingToFinish(l) \/ LinkSignal(l) \/ FinishOp(l)
      PROVE  TypeOK'
  BY <1>5, NothingToFinishType, LinkSignalType, FinishOpType
<1>6. CASE NothingToSet \/ ControlQueueWaits \/ EndCondition \/ AdvanceTime
  BY <1>6, NothingToSetType, ControlQueueWaitsType, EndConditionType, AdvanceTimeType
<1>7. CASE UNCHANGED vars
  BY <1>7, StutterType
<1> QED
  BY <1>1, <1>2, <1>3, <1>4, <1>5, <1>6, <1>7 DEF Next, Stopped

(***************************************************************************)
(* The state of the simulator is well typed: in particular an iterator of  *)
(* setOpEntry is always at an operation or at the end of a block, an end   *)
(* time is a time, and the launcher at hand is always in the table, also   *)
(* after a new device has rearranged it.                                   *)
(***************************************************************************)
THEOREM TypeCorrect == Spec => []TypeOK
<1>1. Init => TypeOK
  BY InitType
<1>2. TypeOK /\ [Next]_vars => TypeOK'
  BY NextType
<1> QED
  BY <1>1, <1>2, PTL DEF Spec

-----------------------------------------------------------------------------
(***************************************************************************)
(* The control operations are settled after the host's pass over them: the *)
(* launchers that take events after it change nothing a signal depends on. *)
(***************************************************************************)
Settled ==
  /\ pos > 0 /\ phase \in {"check", "control"} => allWait
  /\ pos > 0 /\ phase = "control" => ~ generated

LEMMA WaitsSame ==
  ASSUME prog' = prog, UNCHANGED <<opMap, valueMap, signalIds>>
  PROVE  \A o : waits(o)' <=> waits(o)
<1>1. \A o, v : waitForSignal(o, v)' <=> waitForSignal(o, v)
  BY Rigid DEF waitForSignal, getSignalId, valueId, pastInitial, enoughRuns, aheadOfLoop,
               blockOf
<1> QED
  BY <1>1, Rigid DEF waits, waitOperands, kind

LEMMA AllWaitSame ==
  ASSUME prog' = prog, UNCHANGED <<opMap, valueMap, signalIds, controlQueue>>
  PROVE  allWait' <=> allWait
BY WaitsSame DEF allWait

LEMMA SettledInit == Init => Settled
BY DEF Init, Settled

LEMMA SettledNext == Settled /\ [Next]_vars => Settled'
<1> SUFFICES ASSUME Settled, [Next]_vars PROVE Settled'
  OBVIOUS
<1>1. ASSUME NEW o \in Ops,
             \/ PushControl(o) \/ SkipMissingLauncher(o) \/ PushEvent(o)
             \/ StallOnFullQueue(o) \/ LoadOp(o)
      PROVE  Settled'
  BY <1>1 DEF PushControl, SkipMissingLauncher, PushEvent, StallOnFullQueue, LoadOp,
              SetOpEntry, Proceed, Settled
<1>2. ASSUME NEW l \in Launchers, TakeEvent(l) \/ TakeNoEvent(l)
      PROVE  Settled'
  <2>1. /\ phase = "check" /\ phase' = "control" /\ pos' = pos /\ generated' = FALSE
        /\ prog' = prog /\ UNCHANGED <<opMap, valueMap, signalIds, controlQueue>>
    BY <1>2 DEF TakeEvent, TakeNoEvent, counts
  <2> QED
    BY <2>1, AllWaitSame DEF Settled
<1>3. ASSUME NEW i \in DOMAIN controlQueue, FireControl(i)
      PROVE  Settled'
  BY <1>3 DEF FireControl, Settled, allWait
<1>4. CASE ControlQueueWaits
  <2>1. /\ allWait /\ phase' # "control" /\ prog' = prog
        /\ UNCHANGED <<opMap, valueMap, signalIds, controlQueue>>
    BY <1>4 DEF ControlQueueWaits, counts
  <2> QED
    BY <2>1, AllWaitSame DEF Settled
<1>5. ASSUME NEW l \in Launchers,
             \/ NothingToSchedule(l) \/ StallRead(l) \/ StartOp(l)
             \/ NothingToFinish(l) \/ LinkSignal(l) \/ FinishOp(l)
      PROVE  Settled'
  BY <1>5 DEF NothingToSchedule, StallRead, StartOp, NothingToFinish, LinkSignal, FinishOp,
              Proceed, Settled
<1>6. CASE NothingToSet \/ EndCondition \/ AdvanceTime
  BY <1>6 DEF NothingToSet, EndCondition, AdvanceTime, Proceed, Settled
<1>7. CASE UNCHANGED vars
  <2>1. UNCHANGED <<pos, phase, generated, prog, opMap, valueMap, signalIds, controlQueue>>
    BY <1>7 DEF vars, control, counts
  <2> QED
    BY <2>1, AllWaitSame DEF Settled
<1> QED
  BY <1>1, <1>2, <1>3, <1>4, <1>5, <1>6, <1>7 DEF Next, Stopped

(***************************************************************************)
(* checkControlQueue on a launcher other than the host never generates a   *)
(* signal, so simulateFunction never restarts its loop over launchTables   *)
(* (and never skips the first launcher, as that restart would).            *)
(***************************************************************************)
THEOREM ControlOpsSettled == Spec => []ControlSettled
<1>1. Init => Settled
  BY SettledInit
<1>2. Settled /\ [Next]_vars => Settled'
  BY SettledNext
<1>3. Settled => ControlSettled
  BY DEF Settled, ControlSettled, allWait
<1> QED
  BY <1>1, <1>2, <1>3, PTL DEF Spec

-----------------------------------------------------------------------------
(***************************************************************************)
(* The time moves to the nearest end, so that no operation in flight is    *)
(* over before it: what finishes, finishes at its end.  A component that   *)
(* appears among the launchers while they finish has nothing in flight.    *)
(***************************************************************************)
NotYetCreated == \A l \in Launchers : l \notin {Host} \cup Existing => is_idle(l)

NoneOver == phase = "finish" => \A l \in Launchers : inFlight(l) => time <= endTime[l]

TimeInv == TypeOK /\ NotYetCreated /\ NoneOver

LEMMA CurrentExists ==
  ASSUME TypeOK
  PROVE  Current \in {Host} \cup Existing
<1>1. pos # 0 => pos \in DOMAIN order
  BY LenProperties DEF TypeOK, ControlTypeOK
<1> QED
  BY <1>1 DEF Current, Existing

LEMMA TimeInit == Init => TimeInv
BY InitType DEF Init, TimeInv, NotYetCreated, NoneOver, is_idle

LEMMA LoadOpTime ==
  ASSUME TimeInv, NEW o \in Ops, LoadOp(o), TypeOK'
  PROVE  TimeInv' /\ \A l \in Launchers : ~ is_idle(l) => opEntry'[l] = opEntry[l]
<1>1. /\ prog' = prog /\ order' = order /\ phase' # "finish" /\ is_idle(Current)
      /\ opEntry' = [opEntry EXCEPT ![Current] = o]
  BY DEF LoadOp, nothingElse, SetOpEntry, Proceed
<1>2. Current \in {Host} \cup Existing /\ opEntry \in [Launchers -> Ops \cup {0}]
  BY CurrentExists DEF TimeInv, TypeOK, LauncherTypeOK
<1> QED
  BY <1>1, <1>2, Rigid DEF TimeInv, NotYetCreated, NoneOver, is_idle, Existing

LEMMA TakeEventTime ==
  ASSUME TimeInv, NEW l \in Launchers, TakeEvent(l), TypeOK'
  PROVE  TimeInv' /\ \A m \in Launchers : ~ is_idle(m) => opEntry'[m] = opEntry[m]
<1>1. /\ prog' = prog /\ order' = order /\ phase' # "finish" /\ is_idle(l) /\ l = Current
      /\ opEntry' = [opEntry EXCEPT ![l] = Head(eventQueue[l])]
  BY DEF TakeEvent, headReady
<1>2. l \in {Host} \cup Existing /\ opEntry \in [Launchers -> Ops \cup {0}]
  BY <1>1, CurrentExists DEF TimeInv, TypeOK, LauncherTypeOK
<1> QED
  BY <1>1, <1>2, Rigid DEF TimeInv, NotYetCreated, NoneOver, is_idle, Existing

LEMMA AdvanceTimeTime ==
  ASSUME TimeInv, AdvanceTime, TypeOK'
  PROVE  TimeInv'
<1>1. /\ prog' = prog /\ order' = order /\ UNCHANGED <<opEntry, startTime, endTime>>
      /\ IF endTimes = {} THEN time' = time + 1 ELSE time' \in nearest(endTimes)
  BY DEF AdvanceTime, launcher
<1>2. \A l \in Launchers : inFlight(l) => endTime[l] \in endTimes
  BY DEF TimeInv, NotYetCreated, inFlight, endTimes
<1>3. \A l \in Launchers : inFlight(l) => time' <= endTime[l]
  BY <1>1, <1>2 DEF nearest
<1>4. NoneOver'
  BY <1>1, <1>3, Rigid DEF NoneOver, inFlight, is_idle, is_started
<1> QED
  BY <1>1, <1>4, Rigid DEF TimeInv, NotYetCreated, is_idle, Existing

LEMMA FinishOpTime ==
  ASSUME TimeInv, NEW l \in Launchers, FinishOp(l), TypeOK'
  PROVE  /\ TimeInv'
         /\ endTime[l] = time
         /\ \A m \in Launchers : m # l => opEntry'[m] = opEntry[m]
<1>1. /\ prog' = prog /\ time' = time /\ phase = "finish" /\ finishes(l)
      /\ opEntry' = [opEntry EXCEPT ![l] = 0]
      /\ startTime' = [startTime EXCEPT ![l] = 0] /\ endTime' = [endTime EXCEPT ![l] = 0]
  BY DEF FinishOp
<1>2. /\ opEntry \in [Launchers -> Ops \cup {0}] /\ time \in Nat
      /\ startTime \in [Launchers -> Nat] /\ endTime \in [Launchers -> Nat]
  BY DEF TimeInv, TypeOK, LauncherTypeOK, ControlTypeOK
<1>3. Existing \subseteq Existing'
  BY FinishOpType DEF TimeInv
<1>4. NotYetCreated'
  BY <1>1, <1>2, <1>3, Rigid DEF TimeInv, NotYetCreated, is_idle
<1>5. NoneOver'
  BY <1>1, <1>2, Rigid DEF TimeInv, NoneOver, inFlight, is_idle, is_started
<1>6. endTime[l] = time
  BY <1>1, <1>2 DEF TimeInv, NoneOver, inFlight, finishes, is_done
<1> QED
  BY <1>1, <1>2, <1>4, <1>5, <1>6 DEF TimeInv

(* What the time depends on, in the steps that leave the launchers alone.   *)
LEMMA QuietTime ==
  ASSUME TimeInv, TypeOK', prog' = prog, order' = order, opEntry' = opEntry,
         phase' # "finish" \/ UNCHANGED <<phase, time, startTime, endTime>>
  PROVE  TimeInv'
BY Rigid DEF TimeInv, NotYetCreated, NoneOver, inFlight, is_idle, is_started, Existing

LEMMA TimeNext == TimeInv /\ [Next]_vars => TimeInv'
<1> SUFFICES ASSUME TimeInv, [Next]_vars PROVE TimeInv'
  OBVIOUS
<1>0. TypeOK'
  BY NextType DEF TimeInv
<1>1. ASSUME NEW o \in Ops, PushControl(o) \/ SkipMissingLauncher(o) \/ PushEvent(o)
      PROVE  TimeInv'
  BY <1>0, <1>1, QuietTime
  DEF PushControl, SkipMissingLauncher, PushEvent, nothingElse, SetOpEntry
<1>2. ASSUME NEW o \in Ops, StallOnFullQueue(o) \/ LoadOp(o)
      PROVE  TimeInv'
  <2>1. CASE StallOnFullQueue(o)
    BY <1>0, <2>1, QuietTime DEF StallOnFullQueue, nothingElse, SetOpEntry, Proceed, launcher
  <2> QED
    BY <1>0, <1>2, <2>1, LoadOpTime
<1>3. ASSUME NEW l \in Launchers, TakeEvent(l) \/ TakeNoEvent(l)
      PROVE  TimeInv'
  <2>1. CASE TakeNoEvent(l)
    BY <1>0, <2>1, QuietTime DEF TakeNoEvent, launcher
  <2> QED
    BY <1>0, <1>3, <2>1, TakeEventTime
<1>4. ASSUME NEW i \in DOMAIN controlQueue, FireControl(i)
      PROVE  TimeInv'
  BY <1>0, <1>4, QuietTime DEF FireControl, launcher
<1>5. CASE NothingToSet \/ ControlQueueWaits \/ EndCondition
  BY <1>0, <1>5, QuietTime
  DEF NothingToSet, ControlQueueWaits, EndCondition, nothingElse, Proceed, launcher
<1>6. ASSUME NEW l \in Launchers, NothingToSchedule(l) \/ StallRead(l) \/ StartOp(l)
      PROVE  TimeInv'
  BY <1>0, <1>6, QuietTime
  DEF NothingToSchedule, StallRead, StartOp, nothingElse, Proceed, launcher
<1>7. CASE AdvanceTime
  BY <1>0, <1>7, AdvanceTimeTime
<1>8. ASSUME NEW l \in Launchers, NothingToFinish(l) \/ LinkSignal(l)
      PROVE  TimeInv'
  BY <1>0, <1>8, QuietTime DEF NothingToFinish, LinkSignal, nothingElse, Proceed, launcher
<1>9. ASSUME NEW l \in Launchers, FinishOp(l)
      PROVE  TimeInv'
  BY <1>0, <1>9, FinishOpTime
<1>10. CASE UNCHANGED vars
  BY <1>0, <1>10, QuietTime DEF vars, control, launcher
<1> QED
  BY <1>1, <1>2, <1>3, <1>4, <1>5, <1>6, <1>7, <1>8, <1>9, <1>10 DEF Next, Stopped

(* Only a call of finishOp takes an operation from a launcher.              *)
LEMMA LeavesAtEnd ==
  ASSUME TimeInv, [Next]_vars, NEW l \in Launchers, ~ is_idle(l), opEntry'[l] # opEntry[l]
  PROVE  endTime[l] = time
<1>0. TypeOK'
  BY NextType DEF TimeInv
<1>1. ~ UNCHANGED opEntry
  OBVIOUS
<1>2. \A o \in Ops : ~ LoadOp(o)
  BY <1>0, LoadOpTime
<1>3. \A m \in Launchers : ~ TakeEvent(m)
  BY <1>0, TakeEventTime
<1>4. \E m \in Launchers : FinishOp(m)
  BY <1>1, <1>2, <1>3
  DEF Next, NothingToSet, PushControl, SkipMissingLauncher, PushEvent, StallOnFullQueue,
      TakeNoEvent, FireControl, ControlQueueWaits, EndCondition, NothingToSchedule,
      StallRead, StartOp, AdvanceTime, NothingToFinish, LinkSignal, Stopped, vars, launcher
<1> QED
  BY <1>0, <1>4, FinishOpTime

(***************************************************************************)
(* What was started leaves its launcher at its end time: the loop of       *)
(* simulateFunction jumps over no end, whatever the devices answer.        *)
(***************************************************************************)
THEOREM NothingFinishesLate == Spec => FinishesOnTime
<1>1. Init => TimeInv
  BY TimeInit
<1>2. TimeInv /\ [Next]_vars => TimeInv'
  BY TimeNext
<1>3. TimeInv /\ [Next]_vars =>
        [\A l \in Launchers : ~ is_idle(l) /\ opEntry'[l] # opEntry[l] =>
                               endTime[l] = time]_vars
  BY LeavesAtEnd
<1> QED
  BY <1>1, <1>2, <1>3, PTL DEF Spec, FinishesOnTime

-----------------------------------------------------------------------------
(***************************************************************************)
(* The time never goes back, as long as no two operations in flight take   *)
(* the same bank.  Then all that a bank was ever asked for is over when it *)
(* is asked again, and scheduleEvent grants at once (GrantedAtOnce); else  *)
(* it may answer with an end before the present.                           *)
(***************************************************************************)
Ahead == \A l \in Launchers : inFlight(l) => time <= endTime[l]

OverOn(b, e) ==
  /\ e.first <= e.second
  /\ e.second <= time \/ \E l \in Launchers : onBank(l, b) /\ e.second <= endTime[l]

BanksOver == \A b \in Banks : \A i \in DOMAIN events[b] : OverOn(b, events[b][i])

ForwardInv == TimeInv /\ Ahead /\ BanksOver

LEMMA ForwardInit == Init => ForwardInv
<1> SUFFICES ASSUME Init PROVE ForwardInv
  OBVIOUS
<1>1. Ahead
  BY DEF Init, Ahead, inFlight, is_idle
<1>2. \A i \in DOMAIN NewEventList : NewEventList[i].first = 0 /\ NewEventList[i].second = 0
  BY DEF NewEventList, Event
<1>3. BanksOver
  BY <1>2 DEF Init, BanksOver, OverOn
<1> QED
  BY <1>1, <1>3, TimeInit DEF ForwardInv

(* Steps that grant nothing and finish nothing.                             *)
LEMMA ForwardSame ==
  ASSUME ForwardInv, TimeInv', prog' = prog, events' = events, time' = time,
         \A l \in Launchers : \/ /\ opEntry'[l] = opEntry[l]
                                 /\ startTime'[l] = startTime[l]
                                 /\ endTime'[l] = endTime[l]
                              \/ ~ inFlight(l) /\ startTime'[l] = 0
  PROVE  ForwardInv'
<1>1. \A l \in Launchers : \/ /\ ~ inFlight(l) /\ ~ inFlight(l)'
                           \/ /\ opEntry'[l] = opEntry[l] /\ endTime'[l] = endTime[l]
                              /\ inFlight(l)' <=> inFlight(l)
  BY DEF inFlight, is_idle, is_started
<1>2. Ahead'
  BY <1>1, Rigid DEF ForwardInv, Ahead
<1>3. \A l \in Launchers, b \in Banks : onBank(l, b)' <=> onBank(l, b)
  BY <1>1, Rigid DEF onBank, takesBank, usesBank, kind
<1>4. BanksOver'
  BY <1>1, <1>3, Rigid DEF ForwardInv, BanksOver, OverOn, onBank
<1> QED
  BY <1>2, <1>4 DEF ForwardInv

LEMMA AdvanceTimeForward ==
  ASSUME ForwardInv, AdvanceTime, TimeInv'
  PROVE  ForwardInv' /\ time' >= time
<1>1. /\ prog' = prog /\ UNCHANGED <<opEntry, startTime, endTime, events>>
      /\ IF endTimes = {} THEN time' = time + 1 ELSE time' \in nearest(endTimes)
  BY DEF AdvanceTime, launcher, devices
<1>2. /\ time \in Nat /\ time' \in Nat /\ endTime \in [Launchers -> Nat]
      /\ events \in [Banks -> Schedule]
  BY DEF ForwardInv, TimeInv, TypeOK, ControlTypeOK, LauncherTypeOK, DeviceTypeOK
<1>3. {Host} \cup Existing \subseteq Launchers
  BY ExistingType DEF ForwardInv, TimeInv, TypeOK, Launchers
<1>4. time' >= time
  <2>1. CASE endTimes = {}
    BY <1>1, <1>2, <2>1
  <2>2. CASE endTimes # {}
    <3>1. PICK l \in {Host} \cup Existing : inFlight(l) /\ time' = endTime[l]
      BY <1>1, <2>2 DEF nearest, endTimes, inFlight
    <3> QED
      BY <1>2, <1>3, <3>1 DEF ForwardInv, Ahead
  <2> QED
    BY <2>1, <2>2
<1>5. \A l \in Launchers, b \in Banks : onBank(l, b)' <=> onBank(l, b)
  BY <1>1, Rigid DEF onBank, takesBank, usesBank, kind, inFlight, is_idle, is_started
<1>6. Ahead'
  <2>1. \A l \in Launchers : inFlight(l) => endTime[l] \in endTimes
    BY DEF ForwardInv, TimeInv, NotYetCreated, inFlight, endTimes
  <2>2. \A l \in Launchers : inFlight(l) => time' <= endTime[l]
    BY <1>1, <2>1 DEF nearest
  <2> QED
    BY <1>1, <2>2, Rigid DEF Ahead, inFlight, is_idle, is_started
<1>7. BanksOver'
  <2> SUFFICES ASSUME NEW b \in Banks, NEW i \in DOMAIN events[b]
               PROVE  OverOn(b, events[b][i])'
    BY <1>1 DEF BanksOver
  <2>1. OverOn(b, events[b][i])
    BY DEF ForwardInv, BanksOver
  <2>2. events[b][i] \in EventType
    BY <1>2, ScheduleEvents, ElementOfSeq, LenProperties
  <2>3. events[b][i].second \in Nat
    BY <2>2 DEF EventType
  <2>4. events[b][i].second <= time => events[b][i].second <= time'
    BY <1>2, <1>4, <2>3
  <2> QED
    BY <1>1, <1>5, <2>1, <2>4, Rigid DEF OverOn
<1> QED
  BY <1>4, <1>6, <1>7 DEF ForwardInv

(* An operation that takes a bank has it for itself.                        *)
LEMMA GrantedNow ==
  ASSUME ForwardInv, NEW l \in Launchers, StartOp(l), BanksApart', takesBank(opEntry[l])
  PROVE  LET o == opEntry[l]
         IN  /\ P.bank[o] \in Banks
             /\ schedule(o).end = time + P.cycles[o]
             /\ schedule(o).events \in Seq(OverBy(time + P.cycles[o]))
<1> DEFINE o == opEntry[l]
           b == P.bank[o]
<1>1. /\ prog' = prog /\ opEntry' = opEntry /\ ~ is_idle(l) /\ ~ is_started(l)
      /\ startTime' = [startTime EXCEPT ![l] = time]
      /\ endTime' = [endTime EXCEPT ![l] = modelOp(o)]
  BY DEF StartOp, nothingElse, mayStart
<1>2. o \in Ops /\ TypeOK
  BY <1>1, EntryType DEF ForwardInv, TimeInv
<1>3. /\ time \in Nat \ {0} /\ b \in Banks /\ P.cycles[o] \in Nat
      /\ events \in [Banks -> Schedule] /\ modelOp(o) \in Nat \ {0}
      /\ startTime \in [Launchers -> Nat] /\ endTime \in [Launchers -> Nat]
  BY <1>2, ModelOpType, ProgramFacts
  DEF TypeOK, ControlTypeOK, LauncherTypeOK, DeviceTypeOK, ProgramTypeOK, Ops, takesBank
<1>4. onBank(l, b)'
  BY <1>1, <1>3, Rigid DEF onBank, takesBank, usesBank, kind, inFlight, is_idle, is_started
<1>5. \A m \in Launchers : ~ onBank(m, b)
  <2> SUFFICES ASSUME NEW m \in Launchers, onBank(m, b) PROVE FALSE
    OBVIOUS
  <2>1. m # l
    BY <1>1 DEF onBank, inFlight
  <2>2. onBank(m, b)'
    BY <1>1, <1>3, <2>1, Rigid
    DEF onBank, takesBank, usesBank, kind, inFlight, is_idle, is_started
  <2> QED
    BY <1>1, <1>3, <1>4, <2>1, <2>2, Rigid DEF BanksApart
<1>6. events[b] \in Seq(OverBy(time))
  <2>1. events[b] \in Seq(EventType)
    BY <1>3, ScheduleEvents
  <2>2. \A i \in DOMAIN events[b] : events[b][i] \in OverBy(time)
    BY <1>3, <1>5, <2>1, ElementOfSeq, LenProperties
    DEF ForwardInv, BanksOver, OverOn, OverBy
  <2>3. events[b] \in [1 .. Len(events[b]) -> OverBy(time)] /\ Len(events[b]) \in Nat
    BY <2>1, <2>2, LenProperties
  <2> QED
    BY <2>3
<1> DEFINE clean == kind(o) \in AccessKinds
<1>7. clean \in BOOLEAN
  OBVIOUS
<1>8. schedule(o) = scheduleEvent(events[b], time, P.cycles[o], clean)
  BY DEF schedule
<1>9. ASSUME NEW now \in Nat, NEW n \in Nat, NEW list \in Seq(OverBy(now)),
             now = time, n = P.cycles[o], list = events[b]
      PROVE  /\ schedule(o).end = now + n
             /\ schedule(o).events \in Seq(OverBy(now + n))
  <2>1. schedule(o) = scheduleEvent(list, now, n, clean)
    BY <1>8, <1>9
  <2> HIDE DEF clean
  <2> QED
    BY <1>7, <2>1, GrantedAtOnce
<1> QED
  BY <1>3, <1>6, <1>9

(* No operation that starts ends before its start.                          *)
LEMMA EndsLater ==
  ASSUME ForwardInv, NEW l \in Launchers, StartOp(l), BanksApart'
  PROVE  time <= modelOp(opEntry[l])
<1> DEFINE o == opEntry[l]
<1>1. o \in Ops /\ TypeOK
  BY EntryType DEF ForwardInv, TimeInv, StartOp, mayStart
<1>2. time \in Nat /\ P.cycles[o] \in Nat
  BY <1>1, ProgramFacts DEF TypeOK, ControlTypeOK, ProgramTypeOK, Ops
<1>3. CASE takesBank(o)
  BY <1>2, <1>3, GrantedNow DEF modelOp, takesBank
<1>4. CASE usesBank(o) /\ P.cycles[o] = 0
  <2>1. schedule(o).end = time
    BY <1>4 DEF schedule, scheduleEvent
  <2> QED
    BY <1>2, <1>4, <2>1 DEF modelOp
<1>5. CASE ~ usesBank(o)
  BY <1>2, <1>5 DEF modelOp
<1> QED
  BY <1>3, <1>4, <1>5 DEF takesBank

LEMMA StartOpForward ==
  ASSUME ForwardInv, NEW l \in Launchers, StartOp(l), BanksApart', TimeInv'
  PROVE  ForwardInv'
<1> DEFINE o == opEntry[l]
           b == P.bank[o]
<1>1. /\ prog' = prog /\ time' = time /\ opEntry' = opEntry /\ ~ is_started(l) /\ ~ is_idle(l)
      /\ startTime' = [startTime EXCEPT ![l] = time]
      /\ endTime' = [endTime EXCEPT ![l] = modelOp(o)]
      /\ events' = IF usesBank(o) THEN [events EXCEPT ![b] = schedule(o).events]
                   ELSE events
  BY DEF StartOp, nothingElse, mayStart
<1>2. /\ time \in Nat \ {0} /\ modelOp(o) \in Nat \ {0} /\ o \in Ops
      /\ startTime \in [Launchers -> Nat] /\ endTime \in [Launchers -> Nat]
      /\ events \in [Banks -> Schedule] /\ P.cycles[o] \in Nat
  BY <1>1, EntryType, ModelOpType, ProgramFacts
  DEF ForwardInv, TimeInv, TypeOK, ControlTypeOK, LauncherTypeOK, DeviceTypeOK,
      ProgramTypeOK, Ops
<1>3. time <= modelOp(o)
  BY EndsLater
<1>4. Ahead'
  BY <1>1, <1>2, <1>3, Rigid DEF ForwardInv, Ahead, inFlight, is_idle, is_started
<1>5. ASSUME NEW m \in Launchers, NEW c \in Banks, onBank(m, c)
      PROVE  onBank(m, c)' /\ endTime'[m] = endTime[m]
  <2>1. m # l
    BY <1>1, <1>5 DEF onBank, inFlight
  <2> QED
    BY <1>1, <1>2, <1>5, <2>1, Rigid
    DEF onBank, takesBank, usesBank, kind, inFlight, is_idle, is_started
<1>6. ASSUME NEW c \in Banks, NEW e, OverOn(c, e)
      PROVE  OverOn(c, e)'
  <2>1. CASE e.second <= time
    BY <1>1, <1>6, <2>1 DEF OverOn
  <2>2. CASE \E m \in Launchers : onBank(m, c) /\ e.second <= endTime[m]
    <3>1. PICK m \in Launchers : onBank(m, c) /\ e.second <= endTime[m]
      BY <2>2
    <3>2. onBank(m, c)' /\ e.second <= endTime'[m]
      BY <1>5, <3>1
    <3> QED
      BY <1>1, <1>6, <3>2, Rigid DEF OverOn
  <2> QED
    BY <1>6, <2>1, <2>2 DEF OverOn
<1>7. ASSUME NEW c \in Banks, events'[c] = events[c]
      PROVE  \A i \in DOMAIN events'[c] : OverOn(c, events[c][i])'
  BY <1>6, <1>7 DEF ForwardInv, BanksOver
<1>8. CASE takesBank(o)
  <2>1. /\ b \in Banks /\ schedule(o).end = time + P.cycles[o]
        /\ schedule(o).events \in Seq(OverBy(time + P.cycles[o]))
    BY <1>8, GrantedNow
  <2>2. PICK bank \in Banks : bank = b
    BY <2>1
  <2>3. usesBank(o) /\ modelOp(o) = time + P.cycles[o]
    BY <1>8, <2>1 DEF takesBank, modelOp
  <2>4. onBank(l, bank)' /\ endTime'[l] = time + P.cycles[o]
    BY <1>1, <1>2, <1>8, <2>2, <2>3, Rigid
    DEF onBank, takesBank, usesBank, kind, inFlight, is_idle, is_started
  <2>5. events'[bank] = schedule(o).events
    BY <1>1, <1>2, <2>2, <2>3
  <2>6. ASSUME NEW i \in DOMAIN events'[bank]
        PROVE  OverOn(bank, events[bank][i])'
    <3>1. events'[bank][i] \in OverBy(time + P.cycles[o])
      BY <2>1, <2>5, <2>6, ElementOfSeq, LenProperties
    <3>2. /\ events'[bank][i].first <= events'[bank][i].second
          /\ events'[bank][i].second <= endTime'[l]
      BY <2>4, <3>1 DEF OverBy
    <3> QED
      BY <1>1, <2>4, <3>2, Rigid DEF OverOn
  <2>7. ASSUME NEW c \in Banks, c # bank
        PROVE  events'[c] = events[c]
    BY <1>1, <1>2, <2>2, <2>7
  <2>8. ASSUME NEW c \in Banks, NEW i \in DOMAIN events'[c]
        PROVE  OverOn(c, events[c][i])'
    BY <1>7, <2>6, <2>7, <2>8
  <2> QED
    BY <1>4, <2>8 DEF ForwardInv, BanksOver
<1>9. CASE ~ takesBank(o)
  <2>1. usesBank(o) => schedule(o).events = events[b] /\ b \in Banks
    <3> SUFFICES ASSUME usesBank(o)
                 PROVE  schedule(o).events = events[b] /\ b \in Banks
      OBVIOUS
    <3>1. P.cycles[o] = 0
      BY <1>9 DEF takesBank
    <3>2. b \in Banks
      BY <1>2, ModelOpType DEF ForwardInv, TimeInv
    <3> QED
      BY <3>1, <3>2 DEF schedule, scheduleEvent
  <2>2. \A c \in Banks : events'[c] = events[c]
    BY <1>1, <1>2, <2>1
  <2> QED
    BY <1>4, <1>7, <2>2 DEF ForwardInv, BanksOver
<1> QED
  BY <1>8, <1>9

LEMMA FinishOpForward ==
  ASSUME ForwardInv, NEW l \in Launchers, FinishOp(l), TimeInv'
  PROVE  ForwardInv'
<1>1. /\ prog' = prog /\ time' = time /\ events' = events
      /\ opEntry' = [opEntry EXCEPT ![l] = 0]
      /\ startTime' = [startTime EXCEPT ![l] = 0] /\ endTime' = [endTime EXCEPT ![l] = 0]
  BY DEF FinishOp, devices
<1>2. /\ opEntry \in [Launchers -> Ops \cup {0}] /\ time \in Nat
      /\ startTime \in [Launchers -> Nat] /\ endTime \in [Launchers -> Nat]
  BY DEF ForwardInv, TimeInv, TypeOK, LauncherTypeOK, ControlTypeOK
<1>3. endTime[l] = time
  BY FinishOpTime DEF ForwardInv, TimeInv
<1>4. Ahead'
  BY <1>1, <1>2, Rigid DEF ForwardInv, Ahead, inFlight, is_idle, is_started
<1>5. \A m \in Launchers \ {l} : \A b \in Banks : onBank(m, b)' <=> onBank(m, b)
  BY <1>1, <1>2, Rigid DEF onBank, takesBank, usesBank, kind, inFlight, is_idle, is_started
<1>6. ASSUME NEW b \in Banks, NEW e, OverOn(b, e)
      PROVE  OverOn(b, e)'
  <2>1. CASE e.second <= time
    BY <1>1, <1>6, <2>1 DEF OverOn
  <2>2. CASE ~ (e.second <= time)
    <3>1. PICK m \in Launchers : onBank(m, b) /\ e.second <= endTime[m]
      BY <1>6, <2>2 DEF OverOn
    <3>2. m # l
      BY <1>3, <2>2, <3>1
    <3> QED
      BY <1>1, <1>2, <1>5, <1>6, <3>1, <3>2, Rigid DEF OverOn
  <2> QED
    BY <2>1, <2>2
<1>7. BanksOver'
  BY <1>1, <1>6 DEF ForwardInv, BanksOver
<1> QED
  BY <1>4, <1>7 DEF ForwardInv

LEMMA ForwardNext ==
  ASSUME ForwardInv, [Next]_vars, BanksApart'
  PROVE  ForwardInv' /\ time' >= time
<1>0. TimeInv' /\ time \in Nat
  BY TimeNext DEF ForwardInv, TimeInv, TypeOK, ControlTypeOK
<1>1. ASSUME NEW o \in Ops, LoadOp(o)
      PROVE  ForwardInv' /\ time' = time
  <2>1. /\ prog' = prog /\ events' = events /\ time' = time /\ is_idle(Current)
        /\ opEntry' = [opEntry EXCEPT ![Current] = o]
        /\ startTime' = [startTime EXCEPT ![Current] = 0]
        /\ endTime' = [endTime EXCEPT ![Current] = 0]
    BY <1>1 DEF LoadOp, nothingElse, SetOpEntry, devices
  <2>2. /\ opEntry \in [Launchers -> Ops \cup {0}] /\ startTime \in [Launchers -> Nat]
        /\ endTime \in [Launchers -> Nat]
    BY DEF ForwardInv, TimeInv, TypeOK, LauncherTypeOK
  <2>3. Current \in Launchers => startTime'[Current] = 0 /\ ~ inFlight(Current)
    BY <2>1, <2>2 DEF inFlight
  <2>4. \A m \in Launchers : m # Current => /\ opEntry'[m] = opEntry[m]
                                           /\ startTime'[m] = startTime[m]
                                           /\ endTime'[m] = endTime[m]
    BY <2>1, <2>2
  <2>5. ForwardInv'
    BY <1>0, <2>1, <2>3, <2>4, ForwardSame
  <2> QED
    BY <2>1, <2>5
<1>2. ASSUME NEW l \in Launchers, TakeEvent(l)
      PROVE  ForwardInv' /\ time' = time
  <2>1. /\ prog' = prog /\ events' = events /\ time' = time /\ is_idle(l)
        /\ opEntry' = [opEntry EXCEPT ![l] = Head(eventQueue[l])]
        /\ startTime' = [startTime EXCEPT ![l] = 0]
        /\ endTime' = [endTime EXCEPT ![l] = 0]
    BY <1>2 DEF TakeEvent, headReady, devices
  <2>2. /\ opEntry \in [Launchers -> Ops \cup {0}] /\ startTime \in [Launchers -> Nat]
        /\ endTime \in [Launchers -> Nat]
    BY DEF ForwardInv, TimeInv, TypeOK, LauncherTypeOK
  <2>3. startTime'[l] = 0 /\ ~ inFlight(l)
    BY <2>1, <2>2 DEF inFlight
  <2>4. \A m \in Launchers : m # l => /\ opEntry'[m] = opEntry[m]
                                     /\ startTime'[m] = startTime[m]
                                     /\ endTime'[m] = endTime[m]
    BY <2>1, <2>2
  <2>5. ForwardInv'
    BY <1>0, <2>1, <2>3, <2>4, ForwardSame
  <2> QED
    BY <2>1, <2>5
<1>3. ASSUME NEW l \in Launchers, StartOp(l)
      PROVE  ForwardInv' /\ time' = time
  BY <1>0, <1>3, StartOpForward DEF StartOp, nothingElse
<1>4. ASSUME NEW l \in Launchers, FinishOp(l)
      PROVE  ForwardInv' /\ time' = time
  BY <1>0, <1>4, FinishOpForward DEF FinishOp
<1>5. CASE AdvanceTime
  BY <1>0, <1>5, AdvanceTimeForward
<1>6. ASSUME prog' = prog, events' = events, time' = time,
             UNCHANGED <<opEntry, startTime, endTime>>
      PROVE  ForwardInv' /\ time' = time
  <2>1. ForwardInv'
    BY <1>0, <1>6, ForwardSame
  <2> QED
    BY <1>6, <2>1
<1>7. CASE /\ ~ \E o \in Ops : LoadOp(o)
           /\ ~ \E l \in Launchers : TakeEvent(l) \/ StartOp(l) \/ FinishOp(l)
           /\ ~ AdvanceTime
  BY <1>0, <1>6, <1>7
  DEF Next, NothingToSet, PushControl, SkipMissingLauncher, PushEvent, StallOnFullQueue,
      TakeNoEvent, FireControl, ControlQueueWaits, EndCondition, NothingToSchedule,
      StallRead, NothingToFinish, LinkSignal, Stopped, vars, launcher, devices, nothingElse
<1>8. CASE ForwardInv' /\ time' = time
  BY <1>0, <1>8
<1>9. CASE \E o \in Ops : LoadOp(o)
  BY <1>1, <1>8, <1>9
<1>10. CASE \E l \in Launchers : TakeEvent(l) \/ StartOp(l) \/ FinishOp(l)
  BY <1>2, <1>3, <1>4, <1>8, <1>10
<1> QED
  BY <1>5, <1>7, <1>8, <1>9, <1>10

(***************************************************************************)
(* The simulated time never goes back (simulateFunction jumps to the       *)
(* nearest end time of the operations in flight, which is wrong when that  *)
(* lies in the past), as long as no two operations in flight take the same *)
(* bank.  Without that it can: scheduleEvent puts an access behind the     *)
(* last event of its list, which is the initial (0, 0) when an access that *)
(* is not over stands before it.                                           *)
(***************************************************************************)
THEOREM TimeNeverGoesBack == Spec /\ BanksKeptApart => TimeForward
<1>1. Init => ForwardInv /\ BanksApart
  BY ForwardInit DEF Init, BanksApart, onBank, inFlight, is_idle
<1>2. ForwardInv /\ [Next]_vars /\ BanksApart' => ForwardInv'
  BY ForwardNext
<1>3. ForwardInv /\ [Next]_vars /\ BanksApart' => [time' >= time]_vars
  BY ForwardNext
<1>4. BanksApart /\ [BanksApart']_vars => BanksApart'
  <2> SUFFICES ASSUME BanksApart, UNCHANGED vars PROVE BanksApart'
    OBVIOUS
  <2>1. UNCHANGED <<prog, opEntry, startTime, endTime>>
    BY DEF vars, launcher
  <2>2. \A l \in Launchers, b \in Banks : onBank(l, b)' <=> onBank(l, b)
    BY <2>1, Rigid DEF onBank, inFlight, is_idle, is_started, takesBank, usesBank, kind
  <2> QED
    BY <2>1, <2>2, Rigid DEF BanksApart
<1> QED
  BY <1>1, <1>2, <1>3, <1>4, PTL DEF Spec, TimeForward, BanksKeptApart

-----------------------------------------------------------------------------
(***************************************************************************)
(* Dependencies are respected, for every program, any number of devices    *)
(* and whatever the order of the hash table: EventAfterSignal is an        *)
(* invariant of the simulator.  EventInv is the inductive invariant.       *)
(***************************************************************************)
(* Arithmetic of the counts that waitForSignal compares.                    *)
LEMMA MulMono ==
  ASSUME NEW a \in Nat, NEW b \in Nat, NEW c \in Nat, b <= c
  PROVE  a * b <= a * c
OBVIOUS

(* A block that runs a whole number of times for each run of another.       *)
LEMMA NextMultiple ==
  ASSUME NEW a \in Nat, NEW b \in Nat, NEW d \in Nat \ {0}, NEW k \in Nat,
         k % d = 0, a * d < k * b
  PROVE  (a + 1) * d <= k * b
<1> DEFINE q == k \div d
<1>1. q \in Nat /\ k = d * q
  OBVIOUS
<1> HIDE DEF q
<1>2. k * b = d * (q * b)
  BY <1>1
<1>3. q * b \in Nat
  BY <1>1
<1>4. a < q * b
  <2>1. SUFFICES ASSUME q * b <= a PROVE FALSE
    BY <1>3
  <2>2. d * (q * b) <= d * a
    BY <1>3, <2>1, MulMono
  <2> QED
    BY <1>2, <2>2
<1>5. a + 1 <= q * b
  BY <1>3, <1>4
<1>6. d * (a + 1) <= d * (q * b)
  BY <1>3, <1>5, MulMono
<1> QED
  BY <1>2, <1>6

-----------------------------------------------------------------------------
(* The operands an operation may wait for are its own.                      *)
LEMMA BlockCounts ==
  ASSUME TypeOK, NEW o \in Ops, NEW id \in Values
  PROVE  /\ P.blockExs[blockOf(o)] \in Nat \ {0}
         /\ P.defExs[id] \in Nat \ {0}
         /\ valueMap[id] \in Nat /\ opMap[o] \in Nat
<1>1. ProgramTypeOK(P)
  BY ProgramFacts DEF TypeOK, ControlTypeOK
<1>2. blockOf(o) \in Ops \cup {0}
  BY <1>1 DEF ProgramTypeOK, Ops, blockOf
<1> QED
  BY <1>1, <1>2 DEF ProgramTypeOK, Ops, Values, TypeOK, CountTypeOK

(* When an operation is no longer waiting it may run once more.             *)
LEMMA NotWaiting ==
  ASSUME TypeOK, OwnSignals, NEW o \in Ops, ~ waits(o)
  PROVE  SignalsSeen(o, opMap[o] + 1)
<1> SUFFICES ASSUME NEW id \in Values, DependsOn(o, id)
             PROVE  (opMap[o] + 1) * P.defExs[id] <= P.blockExs[blockOf(o)] * valueMap[id]
  BY DEF SignalsSeen
<1>1. PICK v \in waitOperands(o) : valueId(v) = id
  BY DEF DependsOn
<1>2. ~ waitForSignal(o, v)
  BY <1>1 DEF waits
<1>3. P.iterInitValue[id] = NoValue /\ signalIds[id] = id
  BY DEF DependsOn, OwnSignals
<1>4. ~ pastInitial(v)
  BY <1>1, <1>3 DEF pastInitial
<1>5. valueMap[id] # 0 /\ ~ enoughRuns(o, id)
  BY <1>1, <1>2, <1>3, <1>4 DEF waitForSignal, getSignalId
<1>6. opMap[o] * P.defExs[id] < P.blockExs[blockOf(o)] * valueMap[id]
  <2>1. opMap[o] * P.defExs[id] \in Nat /\ P.blockExs[blockOf(o)] * valueMap[id] \in Nat
    BY BlockCounts
  <2> QED
    BY <1>5, <2>1 DEF enoughRuns
<1>7. P.blockExs[blockOf(o)] % P.defExs[id] = 0
  BY DEF DependsOn
<1> QED
  BY <1>6, <1>7, BlockCounts, NextMultiple

(* SignalsSeen, with the signals generated in the next state.               *)
SeenNext(o, n) ==
  \A id \in Values :
    DependsOn(o, id) => n * P.defExs[id] <= P.blockExs[blockOf(o)] * valueMap'[id]

(* What has been seen stays seen: signals are generated, never taken back.  *)
LEMMA StillSeen ==
  ASSUME TypeOK, NEW o \in Ops, NEW n \in Nat, SignalsSeen(o, n), prog' = prog,
         TypeOK', \A v \in Values : valueMap'[v] >= valueMap[v]
  PROVE  SeenNext(o, n)
<1>1. P' = P /\ Values' = Values
  BY Rigid
<1> SUFFICES ASSUME NEW id \in Values, DependsOn(o, id)
             PROVE  n * P.defExs[id] <= P.blockExs[blockOf(o)] * valueMap'[id]
  BY DEF SeenNext
<1>2. n * P.defExs[id] <= P.blockExs[blockOf(o)] * valueMap[id]
  BY DEF SignalsSeen
<1>3. valueMap'[id] \in Nat
  BY <1>1 DEF TypeOK, CountTypeOK
<1>4. P.blockExs[blockOf(o)] * valueMap[id] <= P.blockExs[blockOf(o)] * valueMap'[id]
  BY <1>3, BlockCounts, MulMono
<1>5. /\ n * P.defExs[id] \in Nat
      /\ P.blockExs[blockOf(o)] * valueMap[id] \in Nat
      /\ P.blockExs[blockOf(o)] * valueMap'[id] \in Nat
  BY <1>3, BlockCounts
<1> QED
  BY <1>2, <1>4, <1>5

(* The runs of its operation that a launcher with an event has taken.       *)
runsTaken(l) == opMap[opEntry[l]] + IF is_started(l) THEN 0 ELSE 1

LEMMA SeenPrimed ==
  ASSUME prog' = prog,
         \A o \in Ops : kind(o) \in ControlKinds \cup {"await"} =>
                          SeenNext(o, opMap'[o]),
         \A l \in Launchers :
           opEntry'[l] # 0 /\ kind(opEntry'[l]) \in EventKinds =>
             SeenNext(opEntry'[l], runsTaken(l)')
  PROVE  EventAfterSignal'
<1>1. P' = P /\ Ops' = Ops /\ Values' = Values /\ Launchers' = Launchers
  BY Rigid
<1>2. \A o, id : DependsOn(o, id)' <=> DependsOn(o, id)
  BY <1>1 DEF DependsOn, waitOperands, valueId, blockOf, kind
<1>3. ASSUME NEW o \in Ops, kind(o)' \in ControlKinds \cup {"await"}
      PROVE  SignalsSeen(o, opMap[o])'
  <2>1. SeenNext(o, opMap'[o])
    BY <1>1, <1>3 DEF kind
  <2> QED
    BY <1>1, <1>2, <2>1 DEF SeenNext, SignalsSeen, blockOf
<1>4. ASSUME NEW l \in Launchers, opEntry'[l] # 0, kind(opEntry[l])' \in EventKinds
      PROVE  SignalsSeen(opEntry[l], opMap[opEntry[l]] + IF is_started(l) THEN 0 ELSE 1)'
  <2>1. SeenNext(opEntry'[l], runsTaken(l)')
    BY <1>1, <1>4 DEF kind
  <2> QED
    BY <1>1, <1>2, <2>1 DEF SeenNext, SignalsSeen, blockOf, runsTaken
<1> QED
  BY <1>1, <1>3, <1>4 DEF EventAfterSignal

(***************************************************************************)
(* A step keeps EventAfterSignal when what it counts or takes has seen its *)
(* signals already.                                                        *)
(***************************************************************************)
LEMMA SeenStep ==
  ASSUME EventInv, TypeOK', prog' = prog,
         \A v \in Values : valueMap'[v] >= valueMap[v],
         \A o \in Ops : kind(o) \in ControlKinds \cup {"await"} =>
           opMap'[o] = opMap[o] \/ SignalsSeen(o, opMap'[o]),
         \A l \in Launchers : opEntry'[l] # 0 /\ kind(opEntry'[l]) \in EventKinds =>
           \/ opEntry'[l] = opEntry[l] /\ runsTaken(l)' = runsTaken(l)
           \/ SignalsSeen(opEntry'[l], runsTaken(l)')
  PROVE  EventAfterSignal'
<1>1. Ops' = Ops /\ Launchers' = Launchers
  BY Rigid
<1>2. ASSUME NEW o \in Ops, kind(o) \in ControlKinds \cup {"await"}
      PROVE  SeenNext(o, opMap'[o])
  <2>1. opMap'[o] \in Nat
    BY <1>1 DEF TypeOK, CountTypeOK
  <2>2. SignalsSeen(o, opMap'[o])
    BY <1>2 DEF EventInv, EventAfterSignal
  <2> QED
    BY <2>1, <2>2, StillSeen DEF EventInv
<1>3. ASSUME NEW l \in Launchers, opEntry'[l] # 0, kind(opEntry'[l]) \in EventKinds
      PROVE  SeenNext(opEntry'[l], runsTaken(l)')
  <2>1. opEntry'[l] \in Ops
    BY <1>1, <1>3 DEF TypeOK, LauncherTypeOK
  <2>2. runsTaken(l)' \in Nat
    BY <1>1, <2>1 DEF TypeOK, CountTypeOK, runsTaken
  <2>3. SignalsSeen(opEntry'[l], runsTaken(l)')
    BY <1>3 DEF EventInv, EventAfterSignal, runsTaken
  <2> QED
    BY <2>1, <2>2, <2>3, StillSeen DEF EventInv
<1> QED
  BY <1>2, <1>3, SeenPrimed

-----------------------------------------------------------------------------
(* Steps that leave parts of the invariant alone.                           *)
LEMMA OwnSame ==
  ASSUME OwnSignals, prog' = prog, signalIds' = signalIds
  PROVE  OwnSignals'
BY Rigid DEF OwnSignals

LEMMA RoutedSame ==
  ASSUME Routed, prog' = prog, Existing \subseteq Existing',
         UNCHANGED <<eventQueue, controlQueue>>,
         \A l \in Launchers : opEntry'[l] = opEntry[l] \/ opEntry'[l] = 0
                              \/ kind(opEntry'[l]) \notin EventKinds
  PROVE  Routed'
BY Rigid DEF Routed, kind

LEMMA QuietStep ==
  ASSUME EventInv, TypeOK', prog' = prog,
         UNCHANGED <<opEntry, startTime, endTime, opMap, valueMap>>
  PROVE  EventAfterSignal'
<1>1. \A v \in Values : valueMap'[v] >= valueMap[v]
  BY DEF EventInv, TypeOK, CountTypeOK
<1>2. \A l : runsTaken(l)' = runsTaken(l)
  BY DEF runsTaken, is_started
<1> QED
  BY <1>1, <1>2, SeenStep

LEMMA QuietInv ==
  ASSUME EventInv, TypeOK', prog' = prog, order' = order,
         UNCHANGED <<opEntry, startTime, endTime, opMap, valueMap, signalIds,
                     eventQueue, controlQueue>>
  PROVE  EventInv'
BY QuietStep, OwnSame, RoutedSame DEF EventInv, Existing

(* The order in which signals are linked leaves the signals that no loop    *)
(* carries alone.                                                           *)
LEMMA LinkSignalOwn ==
  ASSUME EventInv, NEW l \in Launchers, LinkSignal(l)
  PROVE  OwnSignals'
<1> DEFINE o == opEntry[l]
           k == linked + 1
           to == valueId(linkTo(o)[k])
           from == valueId(linkFrom(o)[k])
<1>1. TypeOK /\ prog' = prog
  BY DEF EventInv, LinkSignal
<1>2. o \in Ops
  BY <1>1, EntryType DEF LinkSignal, finishes
<1>3. LinkTypeOK(P) /\ ProgramTypeOK(P) /\ RegionTypeOK(P)
  BY <1>1, ProgramFacts, RegionAssumption DEF TypeOK, ControlTypeOK, P
<1>4. linked \in Nat /\ linked < Len(linkTo(o))
      /\ signalIds' = [signalIds EXCEPT ![to] = signalIds[from]]
      /\ signalIds \in [Values -> Values]
  BY <1>1 DEF LinkSignal, TypeOK, ControlTypeOK, CountTypeOK, getSignalId
<1>5. linkTo(o) \in Seq(Values) /\ Len(linkTo(o)) \in Nat
  BY <1>1, <1>2, LinkLists, LenProperties
<1>6. k \in 1 .. Len(linkTo(o)) /\ k \in Nat \ {0}
  BY <1>4, <1>5
<1> HIDE DEF o, k
<1>7. to = from \/ P.iterInitValue[to] # NoValue
  <2>1. P.args[o] \in Seq(Values) /\ P.ins[o] \in Seq(Values)
    BY <1>2, <1>3 DEF ProgramTypeOK, Ops, Values
  <2>2. CASE kind(o) = "launch"
    <3>1. k \in DOMAIN P.args[o] /\ linkTo(o)[k] = P.args[o][k]
      BY <1>5, <1>6, <2>2, LenProperties DEF linkTo
    <3>2. Len(P.ins[o]) = Len(P.args[o]) + 1
      BY <1>2, <1>3, <2>2 DEF RegionTypeOK, Ops, kind
    <3>3. linkFrom(o)[k] = P.ins[o][k + 1]
      <4>1. P.ins[o] # <<>> /\ k \in 1 .. Len(P.ins[o]) - 1
        BY <2>1, <3>1, <3>2, LenProperties, EmptySeq
      <4> QED
        BY <2>1, <2>2, <4>1, HeadTailProperties DEF linkFrom
    <3> QED
      BY <1>2, <1>3, <2>2, <3>1, <3>3 DEF LinkTypeOK, Ops, kind, valueId
  <2>3. CASE kind(o) = "for"
    <3>1. k \in DOMAIN P.args[o] /\ linkTo(o)[k] = P.args[o][k]
      BY <1>5, <1>6, <2>3, LenProperties DEF linkTo
    <3> QED
      BY <1>2, <1>3, <2>3, <3>1 DEF LinkTypeOK, Ops, kind, valueId
  <2>4. CASE kind(o) = "return"
    <3> DEFINE r == P.results[blockOf(o)]
    <3>1. blockOf(o) \in Ops /\ Len(P.ins[o]) + 1 = Len(r)
      BY <1>2, <1>3, <2>4 DEF RegionTypeOK, Ops, kind, blockOf
    <3>2. r \in Seq(Values)
      BY <1>3, <3>1 DEF ProgramTypeOK, Ops, Values
    <3>3. r # <<>> /\ linkTo(o) = Tail(r)
      BY <2>1, <2>4, <3>1, <3>2, LenProperties, EmptySeq DEF linkTo
    <3>4. linkTo(o)[k] = r[k + 1] /\ k \in 1 .. Len(P.ins[o])
      <4>1. Len(Tail(r)) = Len(r) - 1 /\ \A i \in 1 .. Len(Tail(r)) : Tail(r)[i] = r[i + 1]
        BY <3>2, <3>3, HeadTailProperties
      <4> QED
        BY <1>6, <2>1, <3>1, <3>3, <4>1, LenProperties
    <3>5. k \in DOMAIN P.ins[o] /\ linkFrom(o)[k] = P.ins[o][k]
      BY <2>1, <2>4, <3>4, LenProperties DEF linkFrom
    <3> QED
      BY <1>2, <1>3, <2>4, <3>4, <3>5 DEF LinkTypeOK, Ops, kind, valueId, blockOf
  <2>5. CASE kind(o) = "yield"
    <3>1. /\ blockOf(o) \in Ops /\ kind(blockOf(o)) = "for"
          /\ Len(P.ins[o]) = Len(P.args[blockOf(o)])
      BY <1>2, <1>3, <2>5 DEF RegionTypeOK, Ops, kind, blockOf
    <3>2. Len(P.results[blockOf(o)]) = Len(P.args[blockOf(o)])
      BY <1>3, <3>1 DEF RegionTypeOK, Ops, kind
    <3>3. k \in DOMAIN P.ins[o]
      BY <1>6, <2>1, <2>5, <3>1, <3>2, LenProperties DEF linkTo
    <3> QED
      BY <1>2, <1>3, <2>5, <3>3 DEF LinkTypeOK, Ops, kind, valueId, blockOf,
                                    linkTo, linkFrom
  <2>6. CASE kind(o) \notin {"launch", "for", "return", "yield"}
    BY <1>5, <1>6, <2>6, EmptySeq DEF linkTo
  <2> QED
    BY <2>2, <2>3, <2>4, <2>5, <2>6
<1> HIDE DEF to, from
<1>8. ASSUME NEW id \in Values, P.iterInitValue[id] = NoValue
      PROVE  signalIds'[id] = id
  <2>1. signalIds[id] = id
    BY <1>8 DEF EventInv, OwnSignals
  <2>2. CASE id = to
    BY <1>4, <1>7, <1>8, <2>1, <2>2
  <2>3. CASE id # to
    BY <1>4, <2>1, <2>3
  <2> QED
    BY <2>2, <2>3
<1> QED
  BY <1>1, <1>8, Rigid DEF OwnSignals

-----------------------------------------------------------------------------
(* One step for each call that touches the counts, the queues or what is on *)
(* a launcher.                                                              *)
LEMMA PushControlInv ==
  ASSUME EventInv, NEW o \in Ops, PushControl(o), TypeOK'
  PROVE  EventInv'
<1>1. prog' = prog /\ order' = order
      /\ UNCHANGED <<opEntry, startTime, endTime, opMap, valueMap, signalIds, eventQueue>>
  BY DEF PushControl, nothingElse, counts
<1>2. controlQueue \in Seq(Ops) /\ controlQueue' = Append(controlQueue, o)
      /\ kind(o) \in ControlKinds
  BY DEF PushControl, EventInv, TypeOK, QueueTypeOK
<1>3. \A i \in DOMAIN controlQueue' : kind(controlQueue'[i]) \in ControlKinds
  BY <1>2, AppendProperties, LenProperties DEF EventInv, Routed
<1>4. Routed'
  BY <1>1, <1>3, Rigid DEF EventInv, Routed, kind, Existing
<1> QED
  BY <1>1, <1>4, QuietStep, OwnSame DEF EventInv

LEMMA PushEventInv ==
  ASSUME EventInv, NEW o \in Ops, PushEvent(o), TypeOK'
  PROVE  EventInv'
<1> DEFINE d == P.target[o]
<1>1. prog' = prog /\ order' = order
      /\ UNCHANGED <<opEntry, startTime, endTime, opMap, valueMap, signalIds, controlQueue>>
  BY DEF PushEvent, nothingElse, counts
<1>2. eventQueue \in [Launchers -> Seq(Ops)] /\ kind(o) \in EventKinds
      /\ eventQueue' = [eventQueue EXCEPT ![d] = Append(@, o)] /\ d \in Existing
  BY DEF PushEvent, push, EventInv, TypeOK, QueueTypeOK
<1>3. \A l \in Launchers : \A i \in DOMAIN eventQueue[l] :
        /\ kind(eventQueue[l][i]) \in EventKinds
        /\ P.target[eventQueue[l][i]] = l /\ l \in Existing
  BY DEF EventInv, Routed
<1> HIDE DEF d
<1>4. ASSUME NEW l \in Launchers, NEW i \in DOMAIN eventQueue'[l]
      PROVE  /\ kind(eventQueue'[l][i]) \in EventKinds
             /\ P.target[eventQueue'[l][i]] = l /\ l \in Existing
  <2>1. CASE l # d
    BY <1>2, <1>3, <1>4, <2>1
  <2>2. CASE l = d
    <3>1. eventQueue'[l] = Append(eventQueue[l], o) /\ eventQueue[l] \in Seq(Ops)
      BY <1>2, <2>2
    <3>2. CASE i \in DOMAIN eventQueue[l]
      BY <1>3, <3>1, <3>2, AppendProperties, LenProperties
    <3>3. CASE i = Len(eventQueue[l]) + 1
      BY <1>2, <2>2, <3>1, <3>3, AppendProperties, LenProperties DEF d
    <3>4. i \in DOMAIN eventQueue[l] \/ i = Len(eventQueue[l]) + 1
      BY <1>4, <3>1, AppendProperties, LenProperties
    <3> QED
      BY <3>2, <3>3, <3>4
  <2> QED
    BY <2>1, <2>2
<1>5. Routed'
  BY <1>1, <1>4, Rigid DEF EventInv, Routed, kind, Existing
<1> QED
  BY <1>1, <1>5, QuietStep, OwnSame DEF EventInv

(* No launcher has an event of a device that does not exist.                *)
LEMMA SkipMissingLauncherInv ==
  ASSUME EventInv, NEW o \in Ops, SkipMissingLauncher(o), TypeOK'
  PROVE  EventInv'
<1>1. prog' = prog /\ order' = order
      /\ UNCHANGED <<opEntry, startTime, endTime, signalIds, eventQueue, controlQueue>>
      /\ opMap' = [opMap EXCEPT ![o] = @ + 1] /\ updateExecution(P.results[o])
      /\ kind(o) \in EventKinds /\ P.target[o] \notin Existing
  BY DEF SkipMissingLauncher, nothingElse
<1>2. P.results[o] \in Seq(Values)
  BY ProgramFacts DEF EventInv, TypeOK, ControlTypeOK, ProgramTypeOK, Ops, Values
<1>3. \A v \in Values : valueMap'[v] >= valueMap[v]
  BY <1>1, <1>2, UpdateExecutionType DEF EventInv, TypeOK, CountTypeOK
<1>4. opMap \in [Ops -> Nat] /\ opEntry \in [Launchers -> Ops \cup {0}]
  BY DEF EventInv, TypeOK, CountTypeOK, LauncherTypeOK
<1>5. \A x \in Ops : kind(x) \in ControlKinds \cup {"await"} => opMap'[x] = opMap[x]
  BY <1>1, <1>4 DEF ControlKinds, EventKinds
<1>6. ASSUME NEW l \in Launchers, opEntry'[l] # 0, kind(opEntry'[l]) \in EventKinds
      PROVE  opEntry'[l] = opEntry[l] /\ runsTaken(l)' = runsTaken(l)
  <2>1. opEntry[l] # o /\ opEntry[l] \in Ops
    BY <1>1, <1>4, <1>6 DEF EventInv, Routed
  <2> QED
    BY <1>1, <1>4, <2>1 DEF runsTaken, is_started
<1>7. EventAfterSignal'
  BY <1>1, <1>3, <1>5, <1>6, SeenStep
<1> QED
  BY <1>1, <1>7, OwnSame, RoutedSame DEF EventInv, Existing

LEMMA LoadOpInv ==
  ASSUME EventInv, NEW o \in Ops, LoadOp(o), TypeOK'
  PROVE  EventInv'
<1>1. prog' = prog /\ order' = order /\ kind(o) \notin EventKinds
      /\ UNCHANGED <<opMap, valueMap, signalIds, eventQueue, controlQueue>>
      /\ opEntry' = [opEntry EXCEPT ![Current] = o]
      /\ startTime' = [startTime EXCEPT ![Current] = 0]
      /\ endTime' = [endTime EXCEPT ![Current] = 0]
  BY DEF LoadOp, nothingElse, AsyncKinds, counts
<1>2. /\ opEntry \in [Launchers -> Ops \cup {0}] /\ startTime \in [Launchers -> Nat]
      /\ endTime \in [Launchers -> Nat] /\ valueMap \in [Values -> Nat]
  BY DEF EventInv, TypeOK, LauncherTypeOK, CountTypeOK
<1>3. ASSUME NEW l \in Launchers, opEntry'[l] # 0, kind(opEntry'[l]) \in EventKinds
      PROVE  opEntry'[l] = opEntry[l] /\ runsTaken(l)' = runsTaken(l)
  <2>1. l # Current
    BY <1>1, <1>2, <1>3
  <2> QED
    BY <1>1, <1>2, <2>1 DEF runsTaken, is_started
<1>4. EventAfterSignal'
  <2>1. \A v \in Values : valueMap'[v] >= valueMap[v]
    BY <1>1, <1>2
  <2> QED
    BY <1>1, <1>3, <2>1, SeenStep
<1>5. Routed'
  <2>1. \A l \in Launchers : opEntry'[l] = opEntry[l] \/ kind(opEntry'[l]) \notin EventKinds
    BY <1>1, <1>2
  <2> QED
    BY <1>1, <2>1, RoutedSame DEF EventInv, Existing
<1> QED
  BY <1>1, <1>4, <1>5, OwnSame DEF EventInv

(* The event that a launcher takes has the signals for its next run.        *)
LEMMA TakeEventInv ==
  ASSUME EventInv, NEW l \in Launchers, TakeEvent(l), TypeOK'
  PROVE  EventInv'
<1> DEFINE o == Head(eventQueue[l])
<1>1. prog' = prog /\ order' = order /\ ~ waits(o) /\ eventQueue[l] # <<>>
      /\ UNCHANGED <<opMap, valueMap, signalIds, controlQueue>>
      /\ opEntry' = [opEntry EXCEPT ![l] = o]
      /\ startTime' = [startTime EXCEPT ![l] = 0]
      /\ endTime' = [endTime EXCEPT ![l] = 0]
      /\ eventQueue' = [eventQueue EXCEPT ![l] = Tail(@)]
  BY DEF TakeEvent, headReady, counts
<1>2. /\ opEntry \in [Launchers -> Ops \cup {0}] /\ startTime \in [Launchers -> Nat]
      /\ endTime \in [Launchers -> Nat] /\ valueMap \in [Values -> Nat]
      /\ eventQueue \in [Launchers -> Seq(Ops)]
  BY DEF EventInv, TypeOK, LauncherTypeOK, CountTypeOK, QueueTypeOK
<1>3. \A m \in Launchers : \A i \in DOMAIN eventQueue[m] :
        /\ kind(eventQueue[m][i]) \in EventKinds
        /\ P.target[eventQueue[m][i]] = m /\ m \in Existing
  BY DEF EventInv, Routed
<1>4. /\ o \in Ops /\ o = eventQueue[l][1] /\ 1 \in DOMAIN eventQueue[l]
      /\ Tail(eventQueue[l]) \in Seq(Ops)
      /\ Len(Tail(eventQueue[l])) = Len(eventQueue[l]) - 1
      /\ \A i \in 1 .. Len(Tail(eventQueue[l])) : Tail(eventQueue[l])[i] = eventQueue[l][i + 1]
  BY <1>1, <1>2, HeadTailProperties, LenProperties, EmptySeq
<1> HIDE DEF o
<1>5. kind(o) \in EventKinds /\ P.target[o] = l /\ l \in Existing
  BY <1>3, <1>4
<1>6. EventAfterSignal'
  <2>1. ASSUME NEW m \in Launchers, opEntry'[m] # 0, kind(opEntry'[m]) \in EventKinds
        PROVE  \/ opEntry'[m] = opEntry[m] /\ runsTaken(m)' = runsTaken(m)
               \/ SignalsSeen(opEntry'[m], runsTaken(m)')
    <3>1. CASE m = l
      <4>1. opEntry'[m] = o /\ startTime'[m] = 0
        BY <1>1, <1>2, <3>1
      <4>2. runsTaken(m)' = opMap[o] + 1
        BY <1>1, <4>1 DEF runsTaken, is_started
      <4> QED
        BY <1>1, <1>4, <4>1, <4>2, NotWaiting DEF EventInv
    <3>2. CASE m # l
      BY <1>1, <1>2, <3>2 DEF runsTaken, is_started
    <3> QED
      BY <3>1, <3>2
  <2>2. \A v \in Values : valueMap'[v] >= valueMap[v]
    BY <1>1, <1>2
  <2> QED
    BY <1>1, <2>1, <2>2, SeenStep
<1>7. ASSUME NEW m \in Launchers, NEW i \in DOMAIN eventQueue'[m]
      PROVE  /\ kind(eventQueue'[m][i]) \in EventKinds
             /\ P.target[eventQueue'[m][i]] = m /\ m \in Existing
  <2>1. CASE m # l
    BY <1>1, <1>2, <1>3, <1>7, <2>1
  <2>2. CASE m = l
    <3>1. eventQueue'[m] = Tail(eventQueue[m])
      BY <1>1, <1>2, <2>2
    <3>2. i \in 1 .. Len(Tail(eventQueue[m])) /\ i + 1 \in DOMAIN eventQueue[m]
      BY <1>2, <1>4, <1>7, <2>2, <3>1, LenProperties
    <3> QED
      BY <1>3, <1>4, <2>2, <3>1, <3>2
  <2> QED
    BY <2>1, <2>2
<1>8. \A m \in Launchers : opEntry'[m] # 0 /\ kind(opEntry'[m]) \in EventKinds =>
        P.target[opEntry'[m]] = m /\ m \in Existing
  <2>1. ASSUME NEW m \in Launchers, opEntry'[m] # 0, kind(opEntry'[m]) \in EventKinds
        PROVE  P.target[opEntry'[m]] = m /\ m \in Existing
    <3>1. CASE m = l
      BY <1>1, <1>2, <1>5, <3>1
    <3>2. CASE m # l
      BY <1>1, <1>2, <2>1, <3>2 DEF EventInv, Routed
    <3> QED
      BY <3>1, <3>2
  <2> QED
    BY <2>1
<1>9. Routed'
  BY <1>1, <1>7, <1>8, Rigid DEF EventInv, Routed, kind, Existing
<1> QED
  BY <1>1, <1>6, <1>9, OwnSame DEF EventInv

(* A control operation that fires has the signals for its next run.         *)
LEMMA FireControlInv ==
  ASSUME EventInv, NEW i \in DOMAIN controlQueue, FireControl(i), TypeOK'
  PROVE  EventInv'
<1> DEFINE o == controlQueue[i]
           n == Len(controlQueue)
<1>1. prog' = prog /\ order' = order /\ ~ waits(o)
      /\ UNCHANGED <<opEntry, startTime, endTime, signalIds, eventQueue>>
      /\ opMap' = [opMap EXCEPT ![o] = @ + 1] /\ updateExecution(P.results[o])
      /\ controlQueue' = [j \in 1 .. n - 1 |->
                            IF j < i THEN controlQueue[j] ELSE controlQueue[j + 1]]
  BY DEF FireControl, launcher
<1>2. n \in Nat /\ i \in 1 .. n /\ o \in Ops /\ kind(o) \in ControlKinds
      /\ \A j \in 1 .. n : kind(controlQueue[j]) \in ControlKinds
  BY ElementOfSeq, LenProperties DEF EventInv, TypeOK, QueueTypeOK, Routed
<1>3. P.results[o] \in Seq(Values)
  BY <1>2, ProgramFacts DEF EventInv, TypeOK, ControlTypeOK, ProgramTypeOK, Ops, Values
<1>4. \A v \in Values : valueMap'[v] >= valueMap[v]
  BY <1>1, <1>3, UpdateExecutionType DEF EventInv, TypeOK, CountTypeOK
<1>5. opMap \in [Ops -> Nat] /\ opEntry \in [Launchers -> Ops \cup {0}]
  BY DEF EventInv, TypeOK, CountTypeOK, LauncherTypeOK
<1> HIDE DEF o, n
<1>6. ASSUME NEW x \in Ops
      PROVE  opMap'[x] = opMap[x] \/ SignalsSeen(x, opMap'[x])
  <2>1. CASE x = o
    BY <1>1, <1>2, <1>5, <2>1, NotWaiting DEF EventInv
  <2>2. CASE x # o
    BY <1>1, <1>5, <2>2
  <2> QED
    BY <2>1, <2>2
<1>7. ASSUME NEW l \in Launchers, opEntry'[l] # 0, kind(opEntry'[l]) \in EventKinds
      PROVE  opEntry'[l] = opEntry[l] /\ runsTaken(l)' = runsTaken(l)
  <2>1. opEntry[l] # o /\ opEntry[l] \in Ops
    BY <1>1, <1>2, <1>5, <1>7 DEF ControlKinds, EventKinds
  <2> QED
    BY <1>1, <1>5, <2>1 DEF runsTaken, is_started
<1>8. EventAfterSignal'
  BY <1>1, <1>4, <1>6, <1>7, SeenStep
<1>9. \A j \in DOMAIN controlQueue' : kind(controlQueue'[j]) \in ControlKinds
  BY <1>1, <1>2
<1>10. Routed'
  BY <1>1, <1>9, Rigid DEF EventInv, Routed, kind, Existing
<1> QED
  BY <1>1, <1>8, <1>10, OwnSame DEF EventInv

(* Only the device of an event counts a run of it when it starts.           *)
LEMMA StartOpInv ==
  ASSUME EventInv, NEW l \in Launchers, StartOp(l), TypeOK'
  PROVE  EventInv'
<1> DEFINE o == opEntry[l]
<1>1. /\ prog' = prog /\ order' = order
      /\ UNCHANGED <<opEntry, valueMap, signalIds, eventQueue, controlQueue>>
      /\ opMap' = IF kind(o) \in EventKinds \cup {"await"}
                    THEN [opMap EXCEPT ![o] = @ + 1] ELSE opMap
      /\ startTime' = [startTime EXCEPT ![l] = time]
      /\ endTime' = [endTime EXCEPT ![l] = modelOp(o)]
      /\ (kind(o) = "await" => ~ waits(o)) /\ ~ is_started(l) /\ ~ is_idle(l)
  BY DEF StartOp, mayStart, nothingElse
<1>2. /\ opEntry \in [Launchers -> Ops \cup {0}] /\ startTime \in [Launchers -> Nat]
      /\ endTime \in [Launchers -> Nat] /\ valueMap \in [Values -> Nat]
      /\ opMap \in [Ops -> Nat]
  BY DEF EventInv, TypeOK, LauncherTypeOK, CountTypeOK
<1>3. o \in Ops
  BY <1>1, EntryType DEF EventInv
<1>4. time # 0 /\ modelOp(o) # 0
  BY <1>3, ModelOpType DEF EventInv, TypeOK, ControlTypeOK
<1> HIDE DEF o
<1>5. ASSUME NEW x \in Ops, kind(x) \in ControlKinds \cup {"await"}
      PROVE  opMap'[x] = opMap[x] \/ SignalsSeen(x, opMap'[x])
  <2>1. CASE x = o /\ kind(o) = "await"
    BY <1>1, <1>2, <1>3, <2>1, NotWaiting DEF EventInv
  <2>2. CASE ~ (x = o /\ kind(o) = "await")
    BY <1>1, <1>2, <1>5, <2>2 DEF ControlKinds, EventKinds
  <2> QED
    BY <2>1, <2>2
<1>6. ASSUME NEW m \in Launchers, opEntry'[m] # 0, kind(opEntry'[m]) \in EventKinds
      PROVE  \/ opEntry'[m] = opEntry[m] /\ runsTaken(m)' = runsTaken(m)
             \/ SignalsSeen(opEntry'[m], runsTaken(m)')
  <2>1. CASE m = l
    <3>1. SignalsSeen(o, opMap[o] + 1)
      BY <1>1, <1>6, <2>1 DEF EventInv, EventAfterSignal, o
    <3>2. opEntry'[m] = o /\ startTime'[m] = time /\ endTime'[m] = modelOp(o)
      BY <1>1, <1>2, <2>1 DEF o
    <3>3. opMap'[o] = opMap[o] + 1
      BY <1>1, <1>2, <1>3, <1>6, <3>2
    <3>4. runsTaken(m)' = opMap[o] + 1
      <4>1. is_started(m)'
        BY <1>4, <3>2 DEF is_started
      <4>2. opMap[o] + 1 \in Nat
        BY <1>2, <1>3
      <4> QED
        BY <3>2, <3>3, <4>1, <4>2 DEF runsTaken
    <3> QED
      BY <3>1, <3>2, <3>4
  <2>2. CASE m # l
    <3>1. opEntry[m] \in Ops /\ opEntry[m] = opEntry'[m]
      BY <1>1, <1>2, <1>6
    <3>2. opEntry[m] # o \/ kind(o) \notin EventKinds \cup {"await"}
      <4>1. kind(opEntry[m]) \in EventKinds /\ opEntry[m] # 0
        BY <1>6, <3>1
      <4>2. P.target[opEntry[m]] = m
        BY <4>1 DEF EventInv, Routed
      <4>3. o = opEntry[m] => P.target[o] = l
        BY <1>3, <4>1 DEF EventInv, Routed, o
      <4> QED
        BY <2>2, <4>2, <4>3
    <3>3. opMap'[opEntry[m]] = opMap[opEntry[m]]
      BY <1>1, <1>2, <3>1, <3>2
    <3>4. startTime'[m] = startTime[m] /\ endTime'[m] = endTime[m]
      BY <1>1, <1>2, <2>2
    <3> QED
      BY <3>1, <3>3, <3>4 DEF runsTaken, is_started
  <2> QED
    BY <2>1, <2>2
<1>7. EventAfterSignal'
  <2>1. \A v \in Values : valueMap'[v] >= valueMap[v]
    BY <1>1, <1>2
  <2> QED
    BY <1>1, <1>5, <1>6, <2>1, SeenStep
<1> QED
  BY <1>1, <1>7, OwnSame, RoutedSame DEF EventInv, Existing

LEMMA FinishOpInv ==
  ASSUME EventInv, NEW l \in Launchers, FinishOp(l), TypeOK'
  PROVE  EventInv'
<1> DEFINE o == opEntry[l]
<1>1. prog' = prog /\ Existing \subseteq Existing'
      /\ UNCHANGED <<opMap, signalIds, eventQueue, controlQueue>>
      /\ opEntry' = [opEntry EXCEPT ![l] = 0]
      /\ startTime' = [startTime EXCEPT ![l] = 0]
      /\ endTime' = [endTime EXCEPT ![l] = 0]
  BY FinishOpType DEF FinishOp, EventInv
<1>2. /\ opEntry \in [Launchers -> Ops \cup {0}] /\ startTime \in [Launchers -> Nat]
      /\ endTime \in [Launchers -> Nat] /\ valueMap \in [Values -> Nat]
  BY DEF EventInv, TypeOK, LauncherTypeOK, CountTypeOK
<1>3. o \in Ops
  BY EntryType DEF EventInv, FinishOp, finishes
<1>4. \A v \in Values : valueMap'[v] >= valueMap[v]
  <2>1. CASE kind(o) = "memcpy"
    <3>1. P.results[o] \in Seq(Values)
      BY <1>3, ProgramFacts DEF EventInv, TypeOK, ControlTypeOK, ProgramTypeOK, Ops, Values
    <3> QED
      BY <1>2, <2>1, <3>1, UpdateExecutionType DEF FinishOp
  <2>2. CASE kind(o) = "return"
    <3>1. updateExecution(<<P.results[blockOf(o)][1]>>)
      BY <2>2 DEF FinishOp
    <3>2. <<P.results[blockOf(o)][1]>> \in Seq({P.results[blockOf(o)][1]})
      OBVIOUS
    <3> QED
      BY <1>2, <3>1, <3>2, UpdateExecutionType
  <2>3. CASE kind(o) \notin {"memcpy", "return"}
    BY <1>2, <2>3 DEF FinishOp
  <2> QED
    BY <2>1, <2>2, <2>3
<1>5. ASSUME NEW m \in Launchers, opEntry'[m] # 0
      PROVE  opEntry'[m] = opEntry[m] /\ runsTaken(m)' = runsTaken(m)
  <2>1. m # l
    BY <1>1, <1>2, <1>5
  <2> QED
    BY <1>1, <1>2, <2>1 DEF runsTaken, is_started
<1>6. EventAfterSignal'
  BY <1>1, <1>4, <1>5, SeenStep
<1>7. Routed'
  BY <1>1, <1>2, RoutedSame DEF EventInv
<1> QED
  BY <1>1, <1>6, <1>7, OwnSame DEF EventInv

-----------------------------------------------------------------------------
LEMMA InitInv == Init => EventInv
<1> SUFFICES ASSUME Init PROVE EventInv
  OBVIOUS
<1>1. TypeOK
  BY InitType
<1>2. Routed /\ OwnSignals
  BY DEF Init, Routed, OwnSignals
<1>3. ASSUME NEW o \in Ops
      PROVE  SignalsSeen(o, 0)
  <2> SUFFICES ASSUME NEW id \in Values
               PROVE  0 * P.defExs[id] <= P.blockExs[blockOf(o)] * valueMap[id]
    BY DEF SignalsSeen
  <2>1. valueMap[id] = 0
    BY DEF Init
  <2> QED
    BY <1>1, <2>1, BlockCounts
<1>4. \A o \in Ops : opMap[o] = 0
  BY DEF Init
<1>5. \A l \in Launchers : opEntry[l] = 0
  BY DEF Init
<1>6. EventAfterSignal
  BY <1>3, <1>4, <1>5 DEF EventAfterSignal
<1> QED
  BY <1>1, <1>2, <1>6 DEF EventInv

LEMMA NextInv == EventInv /\ [Next]_vars => EventInv'
<1> SUFFICES ASSUME EventInv, [Next]_vars PROVE EventInv'
  OBVIOUS
<1>0. TypeOK'
  BY NextType DEF EventInv
<1>1. ASSUME NEW o \in Ops,
             \/ PushControl(o) \/ SkipMissingLauncher(o) \/ PushEvent(o) \/ LoadOp(o)
      PROVE  EventInv'
  BY <1>0, <1>1, PushControlInv, SkipMissingLauncherInv, PushEventInv, LoadOpInv
<1>2. ASSUME NEW l \in Launchers, TakeEvent(l) \/ StartOp(l) \/ FinishOp(l)
      PROVE  EventInv'
  BY <1>0, <1>2, TakeEventInv, StartOpInv, FinishOpInv
<1>3. ASSUME NEW i \in DOMAIN controlQueue, FireControl(i)
      PROVE  EventInv'
  BY <1>0, <1>3, FireControlInv
<1>4. ASSUME NEW l \in Launchers, LinkSignal(l)
      PROVE  EventInv'
  <2>1. OwnSignals'
    BY <1>4, LinkSignalOwn
  <2>2. prog' = prog /\ order' = order
        /\ UNCHANGED <<opEntry, startTime, endTime, opMap, valueMap, eventQueue,
                       controlQueue>>
    BY <1>4 DEF LinkSignal, launcher, counts
  <2> QED
    BY <1>0, <2>1, <2>2, QuietStep, RoutedSame DEF EventInv, Existing
<1>5. ASSUME NEW o \in Ops, StallOnFullQueue(o)
      PROVE  EventInv'
  BY <1>0, <1>5, QuietInv DEF StallOnFullQueue, nothingElse, launcher, counts
<1>6. ASSUME NEW l \in Launchers,
             TakeNoEvent(l) \/ NothingToSchedule(l) \/ StallRead(l) \/ NothingToFinish(l)
      PROVE  EventInv'
  BY <1>0, <1>6, QuietInv
  DEF TakeNoEvent, NothingToSchedule, StallRead, NothingToFinish, nothingElse,
      launcher, counts
<1>7. CASE NothingToSet \/ ControlQueueWaits \/ EndCondition \/ AdvanceTime
  BY <1>0, <1>7, QuietInv
  DEF NothingToSet, ControlQueueWaits, EndCondition, AdvanceTime, nothingElse,
      launcher, counts
<1>8. CASE UNCHANGED vars
  BY <1>0, <1>8, QuietInv DEF vars, launcher, counts
<1> QED
  BY <1>1, <1>2, <1>3, <1>4, <1>5, <1>6, <1>7, <1>8 DEF Next, Stopped

(***************************************************************************)
(* What the counters rest on: an event is queued and run at its target and *)
(* nowhere else, the control queue holds control operations only, a signal *)
(* that no loop carries stands for itself, and nothing is issued more      *)
(* often than its dependencies allow.                                      *)
(***************************************************************************)
THEOREM EventInvariant == Spec => []EventInv
<1>1. Init => EventInv
  BY InitInv
<1>2. EventInv /\ [Next]_vars => EventInv'
  BY NextInv
<1> QED
  BY <1>1, <1>2, PTL DEF Spec

(***************************************************************************)
(* Dependencies are respected: no event, await or control operation runs   *)
(* for the n-th time before the signals it waits for were generated n      *)
(* times (in proportion to how often their blocks run).                    *)
(***************************************************************************)
THEOREM DependenciesRespected == Spec => []EventAfterSignal
<1>1. EventInv => EventAfterSignal
  BY DEF EventInv
<1> QED
  BY <1>1, EventInvariant, PTL
=============================================================================
