------------------------------- MODULE Runner -------------------------------
(***************************************************************************)
(* The discrete-event simulator of EQueue programs: class Runner in        *)
(* lib/EQueue/CommandProcessor.cpp, with LauncherTable and OpEntry from    *)
(* include/EQueue/CommandProcessor.h.                                      *)
(*                                                                         *)
(* The host and every processor and DMA that has been created are          *)
(* launchers.  A launcher runs one operation at a time out of the block it *)
(* is in; launch and memcpy are events that go to the queue of another     *)
(* launcher, control operations go to one queue of their own.  The         *)
(* simulation is one loop; an iteration calls, on the host and then on     *)
(* each launcher in the order of the hash table launchTables,              *)
(*     setOpEntry, checkEventQueue + checkControlQueue, scheduleOp,        *)
(* then moves the time, then calls finishOp on each.  An action below is   *)
(* one such call, or one pass of the loop inside it: phase, pos and linked *)
(* are the control state, so exactly one action is possible at a time      *)
(* except for the order of the hash table, which is arbitrary.             *)
(*                                                                         *)
(* Not represented: the trace (thread ids, memory tids, the time an        *)
(* operation became ready), iterState, which is written and never read,    *)
(* and the printed statistics.                                             *)
(***************************************************************************)
EXTENDS Integers, Sequences, FiniteSets, DeviceEvents, Transmission

CONSTANTS
  Programs,         (* the programs: a set of tables of module IdMap        *)
  Banks,            (* memory banks and DMAs, each with a schedule          *)
  Conns,            (* connections                                          *)
  Bandwidth,        (* Bandwidth[c]: bits connection c moves in a cycle     *)
  EventQueueSize,   (* EVENT_QUEUE_SIZE                                     *)
  NoBank, NoCon, NoValue,
  MaxTime           (* bound on the time that passes while nothing runs     *)

Host == 0

ControlKinds == {"control_start", "control_and", "control_or"}
EventKinds   == {"launch", "memcpy"}
AsyncKinds   == ControlKinds \cup EventKinds
AccessKinds  == {"read", "write"}
FreeKinds    == {"create", "create_comp", "add_comp", "get_comp", "splat",
                 "extract", "launch", "for", "yield", "return", "await", "free"}
Kinds        == AsyncKinds \cup AccessKinds \cup FreeKinds \cup {"other"}

OpsIn(P)    == DOMAIN P.kind
ValuesIn(P) == DOMAIN P.valueIds

(***************************************************************************)
(* What the dialect guarantees of a program, as far as it is used: indices *)
(* in range, signals defined, region arguments and terminators matching    *)
(* the operands and results of the operation that owns the region.         *)
(***************************************************************************)
ProgramTypeOK(P) ==
  LET Ops    == OpsIn(P)
      Values == ValuesIn(P)
  IN  /\ Ops \subseteq Nat \ {Host}
      /\ IsFiniteSet(Ops)
      /\ P.kind \in [Ops -> Kinds]
      /\ P.block \in [Ops -> Ops \cup {0}]
      /\ P.first \in [Ops \cup {0} -> Ops \cup {0}]
      /\ P.next \in [Ops -> Ops \cup {0}]
      /\ P.ins \in [Ops -> Seq(Values)]
      /\ P.results \in [Ops -> Seq(Values)]
      /\ P.args \in [Ops -> Seq(Values)]
      /\ P.target \in [Ops -> Ops \cup {0}]
      /\ P.trip \in [Ops -> Nat \ {0}]
      /\ P.bank \in [Ops -> Banks \cup {NoBank}]
      /\ P.cycles \in [Ops -> Nat]
      /\ P.con \in [Ops -> Conns \cup {NoCon}]
      /\ P.vol \in [Ops -> Nat]
      /\ P.valueIds \in [Values -> Values]
      /\ P.iterInitValue \in [Values -> Values \cup {NoValue}]
      /\ P.blockExs \in [Ops \cup {0} -> Nat \ {0}]
      /\ P.defExs \in [Values -> Nat \ {0}]

RegionTypeOK(P) ==
  \A o \in OpsIn(P) :
    /\ P.kind[o] \in AsyncKinds => Len(P.results[o]) >= 1
    /\ P.kind[o] = "launch" => Len(P.ins[o]) = Len(P.args[o]) + 1
    /\ P.kind[o] = "for" => /\ Len(P.ins[o]) = Len(P.args[o])
                            /\ Len(P.results[o]) = Len(P.args[o])
    /\ P.kind[o] = "yield" => /\ P.block[o] \in OpsIn(P)
                              /\ P.kind[P.block[o]] = "for"
                              /\ Len(P.ins[o]) = Len(P.args[P.block[o]])
    /\ P.kind[o] = "return" => /\ P.block[o] \in OpsIn(P)
                               /\ P.kind[P.block[o]] = "launch"
                               /\ Len(P.ins[o]) + 1 = Len(P.results[P.block[o]])
    /\ P.kind[o] = "create" => P.block[o] = 0

(***************************************************************************)
(* What buildIdMap makes of them: a region argument of a launch stands for *)
(* its operand and a result for what the terminator passes, so that only   *)
(* the arguments of a loop are signals that can be linked to others.       *)
(***************************************************************************)
LinkTypeOK(P) ==
  LET same(to, from)  == P.valueIds[to] = P.valueIds[from]
      isIterArg(arg) == P.iterInitValue[P.valueIds[arg]] # NoValue
  IN \A o \in OpsIn(P) :
       LET owner == P.block[o]
       IN  /\ P.kind[o] = "launch" =>
                \A i \in DOMAIN P.args[o] : same(P.args[o][i], P.ins[o][i + 1])
           /\ P.kind[o] = "for" =>
                \A i \in DOMAIN P.args[o] : isIterArg(P.args[o][i])
           /\ P.kind[o] = "return" =>
                \A i \in DOMAIN P.ins[o] : same(P.results[owner][i + 1], P.ins[o][i])
           /\ P.kind[o] = "yield" =>
                \A i \in DOMAIN P.ins[o] : /\ same(P.results[owner][i], P.ins[o][i])
                                           /\ isIterArg(P.args[owner][i])

(***************************************************************************)
(* Blocks: operations are numbered as the program is written, so a region  *)
(* comes after its operation; next goes through a block in that order up   *)
(* to its terminator, and a block runs as often as the loops around it     *)
(* demand.                                                                 *)
(***************************************************************************)
BlockTypeOK(P) ==
  LET Ops      == OpsIn(P)
      block(b) == { o \in Ops : P.block[o] = b }
      nearestTo(o, S) == IF S = {} THEN o = 0 ELSE o \in S /\ \A x \in S : o <= x
  IN  /\ P.blockExs[0] = 1
      /\ nearestTo(P.first[0], block(0))
      /\ \A o \in Ops :
           /\ P.block[o] < o
           /\ P.block[o] # 0 => P.kind[P.block[o]] \in {"launch", "for"}
           /\ nearestTo(P.first[o], block(o))
           /\ nearestTo(P.next[o], { x \in block(P.block[o]) : x > o })
           /\ P.blockExs[o] =
                P.blockExs[P.block[o]] * (IF P.kind[o] = "for" THEN P.trip[o] ELSE 1)
           /\ P.kind[o] \in {"launch", "for"} => \E x \in block(o) : P.next[x] = 0
           /\ P.kind[o] \in {"return", "yield"} => P.next[o] = 0
           /\ P.block[o] # 0 /\ P.next[o] = 0 =>
                P.kind[o] = IF P.kind[P.block[o]] = "for" THEN "yield" ELSE "return"

(***************************************************************************)
(* Signals: an asynchronous operation has a done signal of its own, and    *)
(* only a launch has other results.                                        *)
(***************************************************************************)
SignalTypeOK(P) ==
  LET async == { o \in OpsIn(P) : P.kind[o] \in AsyncKinds }
  IN \A o \in async :
       /\ P.kind[o] # "launch" => Len(P.results[o]) = 1
       /\ \A x \in async :
            P.valueIds[P.results[x][1]] = P.valueIds[P.results[o][1]] => x = o

(***************************************************************************)
(* Scopes: a region has no gaps, so what lies between an operation and     *)
(* something in its region is in its region too, and an operation uses a   *)
(* device only behind the operation that creates it.                       *)
(***************************************************************************)
ScopeTypeOK(P) ==
  LET Ops == OpsIn(P)
  IN \A o \in Ops :
       /\ \A x \in Ops : P.block[o] < x /\ x < o => P.block[o] <= P.block[x]
       /\ P.target[o] \in Ops /\ P.kind[P.target[o]] = "create" => P.target[o] < o

ASSUME RunnerAssumption ==
  /\ EventQueueSize \in Nat \ {0}
  /\ Bandwidth \in [Conns -> Nat \ {0}]
  /\ NoBank \notin Banks
  /\ NoCon \notin Conns
  /\ MaxTime \in Nat
  /\ \A program \in Programs : /\ ProgramTypeOK(program)
                               /\ NoValue \notin ValuesIn(program)

ASSUME RegionAssumption ==
  \A program \in Programs : RegionTypeOK(program) /\ LinkTypeOK(program)

ASSUME BlockAssumption ==
  \A program \in Programs : BlockTypeOK(program) /\ SignalTypeOK(program)

ASSUME ScopeAssumption == \A program \in Programs : ScopeTypeOK(program)

VARIABLES
  prog,          (* the program simulated; never changes                    *)
  phase, pos,    (* which call of the loop is next, and on which launcher   *)
  linked,        (* arguments updateSignalIds has linked in this call       *)
  generated,     (* what checkControlQueue is about to return               *)
  order,         (* the keys of launchTables in iteration order             *)
  time,
  opEntry,       (* LauncherTable::op_entry.op, 0 for nullptr               *)
  startTime,     (* op_entry.start_time                                     *)
  endTime,       (* op_entry.end_time                                       *)
  nextIter,      (* next_iter, 0 when there is no block or it is at its end *)
  eventQueue,    (* LauncherTable::event_queue                              *)
  controlQueue,
  opMap,         (* how often an event, await or control op was executed    *)
  valueMap,      (* how often a signal was generated; 0 when not in the map *)
  exTimes,       (* how often a yield was reached                           *)
  signalIds,     (* what a signal stands for; itself when not in the map    *)
  events,        (* Device::events of the banks and DMAs                    *)
  write_schedule, data_total,    (* of the connections                      *)
  accesses       (* how often an operation was charged to its memory's      *)
                 (* total_read or total_write                               *)

control  == <<phase, pos, linked, generated>>
launcher == <<opEntry, startTime, endTime, nextIter>>
counts   == <<opMap, valueMap>>
devices  == <<events, write_schedule, data_total, accesses>>
vars     == <<prog, control, order, time, launcher, eventQueue, controlQueue,
              counts, exTimes, signalIds, devices>>

-----------------------------------------------------------------------------
(* The program simulated. *)
P      == prog
Ops    == OpsIn(P)
Values == ValuesIn(P)
Launchers == {Host} \cup { o \in Ops : P.kind[o] = "create" }

kind(o)     == P.kind[o]
blockOf(o)  == P.block[o]
doneOf(o)   == P.valueIds[P.results[o][1]]
valueId(v)  == P.valueIds[v]

Existing == { order[i] : i \in DOMAIN order }      \* the keys of launchTables
Current  == IF pos = 0 THEN Host ELSE order[pos]

is_idle(l)    == opEntry[l] = 0
is_started(l) == startTime[l] # 0 /\ endTime[l] # 0
is_done(l, t) == t >= endTime[l]

(* Mutant: the loop over the launchers goes one too far. *)
ProceedPastEnd(next) ==
  IF pos <= Len(order)
    THEN pos' = pos + 1 /\ UNCHANGED phase
    ELSE pos' = 0 /\ phase' = next

(* The call on the current launcher is over: on to the next one, or to the *)
(* next part of the loop.                                                  *)
Proceed(next) ==
  IF pos < Len(order)
    THEN pos' = pos + 1 /\ UNCHANGED phase
    ELSE pos' = 0 /\ phase' = next

-----------------------------------------------------------------------------
(***************************************************************************)
(* Waiting for signals.  A signal counts as generated for an operation     *)
(* that has run opMap[o] times when it was generated oftener, both counts  *)
(* scaled by how often their blocks run.  An iteration argument is first   *)
(* compared with its initial signal.  Reading valueMap[init] in the code   *)
(* may leave a 0 entry behind, which is taken as no entry here.  The code  *)
(* compares the fractions of aheadOfLoop in floating point, and here they  *)
(* are exact: where the initial signal is generated once, enoughRuns has   *)
(* decided before rounding could.                                          *)
(***************************************************************************)
getSignalId(id) == signalIds[id]

pastInitial(v) ==
  /\ P.iterInitValue[valueId(v)] # NoValue
  /\ P.iterInitValue[valueId(v)] # getSignalId(valueId(v))

(* Mutant: an operation may run once more than its signals were. *)
enoughRunsOneMore(o, signal) ==
  opMap[o] * P.defExs[signal] > P.blockExs[blockOf(o)] * valueMap[signal]

(* Mutant: the number of times the block runs is forgotten. *)
enoughRunsUnscaled(o, signal) == opMap[o] * P.defExs[signal] >= valueMap[signal]

enoughRuns(o, signal) ==
  opMap[o] * P.defExs[signal] >= P.blockExs[blockOf(o)] * valueMap[signal]

aheadOfLoop(o, signal, init) ==
  opMap[o] * P.defExs[signal] * P.defExs[init] >=
    P.blockExs[blockOf(o)] * (valueMap[signal] * P.defExs[init] + P.defExs[signal])

(* Mutant: a signal that is not in the map is not waited for. *)
waitForSignalInMap(o, v) ==
  LET signal == getSignalId(valueId(v))
  IN  valueMap[signal] # 0 /\ enoughRuns(o, signal)

waitForSignal(o, v) ==
  LET signal == getSignalId(valueId(v))
      init   == P.iterInitValue[valueId(v)]
  IN  IF valueMap[signal] = 0 THEN ~ (pastInitial(v) /\ valueMap[init] > 0)
      ELSE IF pastInitial(v) THEN enoughRuns(o, init) \/ aheadOfLoop(o, signal, init)
      ELSE enoughRuns(o, signal)

(* The operands an operation waits for: a launch only for its start signal. *)
waitOperands(o) ==
  IF kind(o) = "launch" THEN {P.ins[o][1]} ELSE { P.ins[o][i] : i \in DOMAIN P.ins[o] }

(* Mutant: one signal of several is enough. *)
waitsForAny(o) ==
  waitOperands(o) # {} /\ \A v \in waitOperands(o) : waitForSignal(o, v)

waits(o) == \E v \in waitOperands(o) : waitForSignal(o, v)

(* updateExecution: one more of every signal in a sequence of values. *)
generatedBy(vs, v) == Cardinality({ i \in DOMAIN vs : valueId(vs[i]) = v })

(* Mutant: a signal is set, not counted. *)
updateExecutionOnce(vs) ==
  valueMap' = [v \in Values |-> IF generatedBy(vs, v) > 0 THEN 1 ELSE valueMap[v]]

updateExecution(vs) ==
  valueMap' = [v \in Values |-> valueMap[v] + generatedBy(vs, v)]

-----------------------------------------------------------------------------
(***************************************************************************)
(* 1. setOpEntry: an idle launcher walks its block up to the next          *)
(* operation it has to run itself; the asynchronous ones on the way go to  *)
(* the queues.                                                             *)
(***************************************************************************)
SetOpEntry(next) == phase = "set" /\ is_idle(Current) /\ nextIter[Current] = next /\ next # 0

nothingElse == UNCHANGED <<prog, linked, generated, order, time>>

NothingToSet ==
  /\ phase = "set"
  /\ ~ is_idle(Current) \/ nextIter[Current] = 0
  /\ Proceed("check")
  /\ nothingElse
  /\ UNCHANGED <<launcher, eventQueue, controlQueue, counts, exTimes, signalIds, devices>>

PushControl(o) ==
  /\ SetOpEntry(o)
  /\ kind(o) \in ControlKinds
  /\ controlQueue' = Append(controlQueue, o)
  /\ nextIter' = [nextIter EXCEPT ![Current] = P.next[o]]
  /\ nothingElse
  /\ UNCHANGED <<phase, pos, opEntry, startTime, endTime, eventQueue, counts,
                 exTimes, signalIds, devices>>

(* An event for a component that does not exist is done at once. *)
SkipMissingLauncher(o) ==
  /\ SetOpEntry(o)
  /\ kind(o) \in EventKinds
  /\ P.target[o] \notin Existing
  /\ opMap' = [opMap EXCEPT ![o] = @ + 1]
  /\ updateExecution(P.results[o])
  /\ nextIter' = [nextIter EXCEPT ![Current] = P.next[o]]
  /\ nothingElse
  /\ UNCHANGED <<phase, pos, opEntry, startTime, endTime, eventQueue, controlQueue,
                 exTimes, signalIds, devices>>

(* Mutant: the event goes to the front of the queue. *)
pushInFront(queue, o) == << o >> \o queue

push(queue, o) == Append(queue, o)

PushEvent(o) ==
  /\ SetOpEntry(o)
  /\ kind(o) \in EventKinds
  /\ P.target[o] \in Existing
  /\ Len(eventQueue[P.target[o]]) # EventQueueSize
  /\ eventQueue' = [eventQueue EXCEPT ![P.target[o]] = push(@, o)]
  /\ nextIter' = [nextIter EXCEPT ![Current] = P.next[o]]
  /\ nothingElse
  /\ UNCHANGED <<phase, pos, opEntry, startTime, endTime, controlQueue, counts,
                 exTimes, signalIds, devices>>

StallOnFullQueue(o) ==
  /\ SetOpEntry(o)
  /\ kind(o) \in EventKinds
  /\ P.target[o] \in Existing
  /\ Len(eventQueue[P.target[o]]) = EventQueueSize
  /\ Proceed("check")
  /\ nothingElse
  /\ UNCHANGED <<launcher, eventQueue, controlQueue, counts, exTimes, signalIds, devices>>

(* Mutant: the loop is left one iteration early. *)
afterYieldTooEarly(o) ==
  LET loop == blockOf(o)
  IN  IF exTimes[o] % P.trip[loop] = 0 THEN P.next[loop] ELSE P.first[loop]

(* Where a launcher goes on: into a loop, round it or out of it. *)
afterYield(o) ==
  LET loop == blockOf(o)
  IN  IF (exTimes[o] + 1) % P.trip[loop] = 0 THEN P.next[loop] ELSE P.first[loop]

LoadOp(o) ==
  /\ SetOpEntry(o)
  /\ kind(o) \notin AsyncKinds
  /\ opEntry' = [opEntry EXCEPT ![Current] = o]
  /\ startTime' = [startTime EXCEPT ![Current] = 0]
  /\ endTime' = [endTime EXCEPT ![Current] = 0]
  /\ nextIter' = [nextIter EXCEPT ![Current] =
                    CASE kind(o) = "for" -> P.first[o]
                      [] kind(o) = "yield" -> afterYield(o)
                      [] OTHER -> P.next[o]]
  /\ exTimes' = IF kind(o) = "yield" THEN [exTimes EXCEPT ![o] = @ + 1] ELSE exTimes
  /\ Proceed("check")
  /\ nothingElse
  /\ UNCHANGED <<eventQueue, controlQueue, counts, signalIds, devices>>

-----------------------------------------------------------------------------
(***************************************************************************)
(* 2. checkEventQueue: an idle launcher takes the head of its queue when   *)
(* the signals it waits for are there.  It takes a launch by entering its  *)
(* body.                                                                   *)
(***************************************************************************)
(* Mutant: the launcher need not be idle. *)
headReadyWhenBusy(l) == eventQueue[l] # <<>> /\ ~ waits(Head(eventQueue[l]))

headReady(l) ==
  /\ eventQueue[l] # <<>>
  /\ ~ waits(Head(eventQueue[l]))
  /\ is_idle(l)

TakeEvent(l) ==
  LET o == Head(eventQueue[l])
  IN  /\ phase = "check"
      /\ l = Current
      /\ headReady(l)
      /\ opEntry' = [opEntry EXCEPT ![l] = o]
      /\ startTime' = [startTime EXCEPT ![l] = 0]
      /\ endTime' = [endTime EXCEPT ![l] = 0]
      /\ nextIter' = IF kind(o) = "launch" THEN [nextIter EXCEPT ![l] = P.first[o]]
                     ELSE nextIter
      /\ eventQueue' = [eventQueue EXCEPT ![l] = Tail(@)]
      /\ phase' = "control"
      /\ generated' = FALSE
      /\ UNCHANGED <<prog, pos, linked, order, time, controlQueue, counts, exTimes,
                     signalIds, devices>>

TakeNoEvent(l) ==
  /\ phase = "check"
  /\ l = Current
  /\ ~ headReady(l)
  /\ phase' = "control"
  /\ generated' = FALSE
  /\ UNCHANGED <<prog, pos, linked, order, time, launcher, eventQueue, controlQueue,
                 counts, exTimes, signalIds, devices>>

(***************************************************************************)
(* checkControlQueue: fire the first control operation that is not waiting *)
(* and start again from the front, until all of them wait.                 *)
(***************************************************************************)
FireControl(i) ==
  LET o == controlQueue[i]
  IN  /\ phase = "control"
      /\ ~ waits(o)
      /\ \A j \in 1 .. i - 1 : waits(controlQueue[j])
      /\ opMap' = [opMap EXCEPT ![o] = @ + 1]
      /\ updateExecution(P.results[o])
      /\ controlQueue' = [j \in 1 .. Len(controlQueue) - 1 |->
                            IF j < i THEN controlQueue[j] ELSE controlQueue[j + 1]]
      /\ generated' = TRUE
      /\ UNCHANGED <<prog, phase, pos, linked, order, time, launcher, eventQueue,
                     exTimes, signalIds, devices>>

(* In the loop over launchTables a new signal sets the iterator back to     *)
(* begin(), which the loop then increments.                                 *)
nextCheck == IF generated /\ pos > 0 THEN 2 ELSE pos + 1

(* Mutant: the host does not fire all it could. *)
allWaitButOnHost == pos = 0 \/ \A i \in DOMAIN controlQueue : waits(controlQueue[i])

allWait == \A i \in DOMAIN controlQueue : waits(controlQueue[i])

ControlQueueWaits ==
  /\ phase = "control"
  /\ allWait
  /\ IF nextCheck <= Len(order)
       THEN pos' = nextCheck /\ phase' = "check"
       ELSE pos' = 0 /\ phase' = "running"
  /\ UNCHANGED <<prog, linked, generated, order, time, launcher, eventQueue,
                 controlQueue, counts, exTimes, signalIds, devices>>

(* Mutant: only the host is asked. *)
hostIdle == is_idle(Host)

(* The loop ends when nobody has an operation. *)
allIdle == \A l \in {Host} \cup Existing : is_idle(l)

EndCondition ==
  /\ phase = "running"
  /\ phase' = IF allIdle THEN "stopped" ELSE "schedule"
  /\ UNCHANGED <<prog, pos, linked, generated, order, time, launcher, eventQueue,
                 controlQueue, counts, exTimes, signalIds, devices>>

-----------------------------------------------------------------------------
(***************************************************************************)
(* 3. modelOp: what an operation does to the devices when it starts now,   *)
(* and when it ends.  A memory access without a bank is one to a component *)
(* that does not exist and takes a cycle.                                  *)
(***************************************************************************)
usesBank(o) == kind(o) \in AccessKinds \cup {"memcpy"} /\ P.bank[o] # NoBank
usesCon(o)  == usesBank(o) /\ P.con[o] # NoCon

schedule(o) ==
  scheduleEvent(events[P.bank[o]], time, P.cycles[o], kind(o) \in AccessKinds)

(* Mutant: a launch takes a cycle. *)
modelOpChargesLaunch(o) ==
  IF usesBank(o) THEN schedule(o).end
  ELSE IF kind(o) \in FreeKinds \ {"launch"} THEN time
  ELSE time + 1

modelOp(o) ==
  IF usesBank(o) THEN schedule(o).end
  ELSE IF kind(o) \in FreeKinds THEN time
  ELSE time + 1

stalls(o) ==
  /\ kind(o) = "read"
  /\ usesCon(o)
  /\ ~ readGranted(write_schedule[P.con[o]], time, P.vol[o], Bandwidth[P.con[o]])

transmit(o) ==
  LET c == P.con[o]
  IN  IF ~ usesCon(o) THEN UNCHANGED <<write_schedule, data_total>>
      ELSE IF kind(o) = "read"
        THEN /\ write_schedule' = [write_schedule EXCEPT ![c] =
                                     transmitRead(@, P.vol[o], Bandwidth[c])]
             /\ UNCHANGED data_total
        ELSE /\ write_schedule' = [write_schedule EXCEPT ![c] =
                                     transmitWrite(@, time, P.vol[o], Bandwidth[c])]
             /\ data_total' = [data_total EXCEPT ![c] = @ + P.vol[o]]

charge(o) ==
  accesses' = IF usesBank(o) THEN [accesses EXCEPT ![o] = @ + 1] ELSE accesses

(* scheduleOp: an operation that can start does; an await waits for its    *)
(* signals here, and a read its connection does not grant stays unstarted. *)
mayStart(l) ==
  /\ ~ is_idle(l)
  /\ kind(opEntry[l]) = "await" => ~ waits(opEntry[l])
  /\ ~ is_started(l)

NothingToSchedule(l) ==
  /\ phase = "schedule"
  /\ l = Current
  /\ ~ mayStart(l)
  /\ Proceed("advance")
  /\ nothingElse
  /\ UNCHANGED <<launcher, eventQueue, controlQueue, counts, exTimes, signalIds, devices>>

StallRead(l) ==
  /\ phase = "schedule"
  /\ l = Current
  /\ mayStart(l)
  /\ stalls(opEntry[l])
  /\ charge(opEntry[l])
  /\ Proceed("advance")
  /\ nothingElse
  /\ UNCHANGED <<launcher, eventQueue, controlQueue, counts, exTimes, signalIds,
                 events, write_schedule, data_total>>

StartOp(l) ==
  LET o == opEntry[l]
  IN  /\ phase = "schedule"
      /\ l = Current
      /\ mayStart(l)
      /\ ~ stalls(o)
      /\ opMap' = IF kind(o) \in EventKinds \cup {"await"}
                    THEN [opMap EXCEPT ![o] = @ + 1] ELSE opMap
      /\ startTime' = [startTime EXCEPT ![l] = time]
      /\ endTime' = [endTime EXCEPT ![l] = modelOp(o)]
      /\ events' = IF usesBank(o)
                     THEN [events EXCEPT ![P.bank[o]] = schedule(o).events] ELSE events
      /\ transmit(o)
      /\ charge(o)
      /\ Proceed("advance")
      /\ nothingElse
      /\ UNCHANGED <<opEntry, nextIter, eventQueue, controlQueue, valueMap, exTimes,
                     signalIds>>

-----------------------------------------------------------------------------
(* Mutant: operations that have not started count, with end time 0. *)
endTimesOfAll == { endTime[l] : l \in { m \in {Host} \cup Existing : ~ is_idle(m) } }

endTimes == { endTime[l] : l \in { m \in {Host} \cup Existing :
                                     ~ is_idle(m) /\ is_started(m) } }

(* Mutant: the time moves to the furthest end. *)
furthest(times) == { t \in times : \A u \in times : t >= u }

nearest(times) == { t \in times : \A u \in times : t <= u }

(* The time moves to the nearest end of an operation in flight, or by one. *)
AdvanceTime ==
  /\ phase = "advance"
  /\ IF endTimes = {} THEN time < MaxTime /\ time' = time + 1
     ELSE time' \in nearest(endTimes)
  /\ phase' = "finish"
  /\ UNCHANGED <<prog, pos, linked, generated, order, launcher, eventQueue,
                 controlQueue, counts, exTimes, signalIds, devices>>

-----------------------------------------------------------------------------
(***************************************************************************)
(* 4. finishOp: what an operation that is over passes on.  linkTo and      *)
(* linkFrom are the two argument lists of its call of updateSignalIds,     *)
(* which links them one after the other.                                   *)
(***************************************************************************)
lastIteration(o) == exTimes[o] % P.trip[blockOf(o)] = 0

linkTo(o) ==
  CASE kind(o) \in {"launch", "for"} -> P.args[o]
    [] kind(o) = "return" -> Tail(P.results[blockOf(o)])
    [] kind(o) = "yield" -> IF lastIteration(o) THEN P.results[blockOf(o)]
                            ELSE P.args[blockOf(o)]
    [] OTHER -> <<>>

linkFrom(o) == IF kind(o) = "launch" THEN Tail(P.ins[o]) ELSE P.ins[o]

finishes(l) == ~ is_idle(l) /\ is_started(l) /\ is_done(l, time)

NothingToFinish(l) ==
  /\ phase = "finish"
  /\ l = Current
  /\ ~ finishes(l)
  /\ Proceed("set")
  /\ nothingElse
  /\ UNCHANGED <<launcher, eventQueue, controlQueue, counts, exTimes, signalIds, devices>>

LinkSignal(l) ==
  LET o == opEntry[l]
  IN  /\ phase = "finish"
      /\ l = Current
      /\ finishes(l)
      /\ linked < Len(linkTo(o))
      /\ signalIds' = [signalIds EXCEPT ![valueId(linkTo(o)[linked + 1])] =
                         getSignalId(valueId(linkFrom(o)[linked + 1]))]
      /\ linked' = linked + 1
      /\ UNCHANGED <<prog, phase, pos, generated, order, time, launcher, eventQueue,
                     controlQueue, counts, exTimes, devices>>

(* A new launcher may change the order of the whole hash table. *)
orders(S) == { s \in [1 .. Cardinality(S) -> S] : S \subseteq Range(s) }

FinishOp(l) ==
  LET o == opEntry[l]
  IN  /\ phase = "finish"
      /\ l = Current
      /\ finishes(l)
      /\ linked = Len(linkTo(o))
      /\ CASE kind(o) = "memcpy" -> updateExecution(P.results[o])
           [] kind(o) = "return" -> updateExecution(<<P.results[blockOf(o)][1]>>)
           [] OTHER -> UNCHANGED valueMap
      /\ IF kind(o) = "create" /\ o \notin Existing
           THEN order' \in orders(Existing \cup {o})
           ELSE UNCHANGED order
      /\ opEntry' = [opEntry EXCEPT ![l] = 0]
      /\ startTime' = [startTime EXCEPT ![l] = 0]
      /\ endTime' = [endTime EXCEPT ![l] = 0]
      /\ linked' = 0
      /\ IF pos < Len(order')
           THEN pos' = pos + 1 /\ UNCHANGED phase
           ELSE pos' = 0 /\ phase' = "set"
      /\ UNCHANGED <<prog, generated, time, nextIter, eventQueue, controlQueue,
                     opMap, exTimes, signalIds, devices>>

-----------------------------------------------------------------------------
Init ==
  /\ prog \in Programs
  /\ phase = "set" /\ pos = 0 /\ linked = 0 /\ generated = FALSE
  /\ order = <<>>
  /\ time = 1
  /\ opEntry = [l \in Launchers |-> 0]
  /\ startTime = [l \in Launchers |-> 0]
  /\ endTime = [l \in Launchers |-> 0]
  /\ nextIter = [l \in Launchers |-> IF l = Host THEN P.first[0] ELSE 0]
  /\ eventQueue = [l \in Launchers |-> <<>>]
  /\ controlQueue = <<>>
  /\ opMap = [o \in Ops |-> 0]
  /\ valueMap = [v \in Values |-> 0]
  /\ exTimes = [o \in Ops |-> 0]
  /\ signalIds = [v \in Values |-> v]
  /\ events = [b \in Banks |-> NewEventList]
  /\ write_schedule = [c \in Conns |-> EmptySchedule]
  /\ data_total = [c \in Conns |-> 0]
  /\ accesses = [o \in Ops |-> 0]

Stopped == phase = "stopped" /\ UNCHANGED vars

Next ==
  \/ NothingToSet
  \/ \E o \in Ops : PushControl(o) \/ SkipMissingLauncher(o) \/ PushEvent(o)
                      \/ StallOnFullQueue(o) \/ LoadOp(o)
  \/ \E l \in Launchers : TakeEvent(l) \/ TakeNoEvent(l)
  \/ \E i \in DOMAIN controlQueue : FireControl(i)
  \/ ControlQueueWaits
  \/ EndCondition
  \/ \E l \in Launchers : NothingToSchedule(l) \/ StallRead(l) \/ StartOp(l)
  \/ AdvanceTime
  \/ \E l \in Launchers : NothingToFinish(l) \/ LinkSignal(l) \/ FinishOp(l)
  \/ Stopped

(* The loop is one thread that never blocks: it goes on while it can. *)
Spec == Init /\ [][Next]_vars /\ WF_vars(Next)
=============================================================================
