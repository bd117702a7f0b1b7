-------------------------- MODULE RunnerProperties --------------------------
(* What the simulator promises, stated over the state of module Runner. *)
EXTENDS Runner

ControlTypeOK ==
  /\ prog \in Programs
  /\ phase \in {"set", "check", "control", "running", "schedule", "advance",
                "finish", "stopped"}
  /\ order \in Seq(Launchers \ {Host})
  /\ pos \in 0 .. Len(order)
  /\ linked \in Nat
  /\ generated \in BOOLEAN
  /\ time \in Nat \ {0}

LauncherTypeOK ==
  /\ opEntry \in [Launchers -> Ops \cup {0}]
  /\ startTime \in [Launchers -> Nat]
  /\ endTime \in [Launchers -> Nat]
  /\ nextIter \in [Launchers -> Ops \cup {0}]

QueueTypeOK ==
  /\ eventQueue \in [Launchers -> Seq(Ops)]
  /\ controlQueue \in Seq(Ops)

CountTypeOK ==
  /\ opMap \in [Ops -> Nat]
  /\ valueMap \in [Values -> Nat]
  /\ exTimes \in [Ops -> Nat]
  /\ signalIds \in [Values -> Values]

DeviceTypeOK ==
  /\ events \in [Banks -> Schedule]
  /\ DOMAIN write_schedule = Conns
  /\ data_total \in [Conns -> Nat]
  /\ accesses \in [Ops -> Nat]

(* Every variable of the simulator has the type its declaration says. *)
TypeOK == ControlTypeOK /\ LauncherTypeOK /\ QueueTypeOK /\ CountTypeOK /\ DeviceTypeOK

(***************************************************************************)
(* The signal id that operation o waits for is not an iteration argument,  *)
(* and is generated in a block that o's block runs a whole number of times *)
(* for: the same block, one around it, or one that runs as often.          *)
(***************************************************************************)
DependsOn(o, id) ==
  /\ \E v \in waitOperands(o) : valueId(v) = id
  /\ P.iterInitValue[id] = NoValue
  /\ P.blockExs[blockOf(o)] % P.defExs[id] = 0

SignalsSeen(o, n) ==
  \A id \in Values :
    DependsOn(o, id) => n * P.defExs[id] <= P.blockExs[blockOf(o)] * valueMap[id]

(***************************************************************************)
(* Dependencies are respected: the n-th run of an event on its device, of  *)
(* a control operation or of an await comes after the signals it waits for *)
(* were generated n times (fewer, in proportion, when they come from       *)
(* outside the loops around it).  A launcher checks the signals when it takes an event *)
(* and counts the run only when it schedules it.                           *)
(***************************************************************************)
EventAfterSignal ==
  /\ \A o \in Ops : kind(o) \in ControlKinds \cup {"await"} => SignalsSeen(o, opMap[o])
  /\ \A l \in Launchers :
       opEntry[l] # 0 /\ kind(opEntry[l]) \in EventKinds =>
         SignalsSeen(opEntry[l], opMap[opEntry[l]] + IF is_started(l) THEN 0 ELSE 1)

(***************************************************************************)
(* Why it holds: an event is in the queue of its own device and runs only  *)
(* there, so that no other launcher counts a run of it in between, and a   *)
(* signal that is not carried round a loop stands for itself for ever.     *)
(***************************************************************************)
Routed ==
  /\ \A l \in Launchers : \A i \in DOMAIN eventQueue[l] :
       LET o == eventQueue[l][i]
       IN  kind(o) \in EventKinds /\ P.target[o] = l /\ l \in Existing
  /\ \A l \in Launchers : opEntry[l] # 0 /\ kind(opEntry[l]) \in EventKinds =>
       P.target[opEntry[l]] = l /\ l \in Existing
  /\ \A i \in DOMAIN controlQueue : kind(controlQueue[i]) \in ControlKinds

OwnSignals == \A id \in Values : P.iterInitValue[id] = NoValue => signalIds[id] = id

EventInv == TypeOK /\ Routed /\ OwnSignals /\ EventAfterSignal

(***************************************************************************)
(* The events of one block for one device run in program order, however    *)
(* many launchers push to its queue.                                       *)
(***************************************************************************)
DeviceInOrder ==
  \A a, b \in Ops :
    /\ a < b
    /\ blockOf(a) = blockOf(b)
    /\ {kind(a), kind(b)} \subseteq EventKinds
    /\ P.target[a] = P.target[b]
    => opMap[a] - opMap[b] \in {0, 1}

(***************************************************************************)
(* What was executed was either finished or is on its launcher: opMap and  *)
(* valueMap of a copy never drift apart ("there is a lap between a value   *)
(* is consumed and a result is generated").                                *)
(***************************************************************************)
CopiesAccounted ==
  \A o \in Ops : kind(o) = "memcpy" =>
    opMap[o] = valueMap[doneOf(o)]
               + Cardinality({ l \in Launchers : opEntry[l] = o /\ is_started(l) })

(***************************************************************************)
(* When nobody has anything left to do everything has been done: every     *)
(* event, await and control operation ran as often as its block runs.      *)
(***************************************************************************)
AllExecuted ==
  phase = "stopped" =>
    \A o \in Ops : kind(o) \in AsyncKinds \cup {"await"} =>
                     opMap[o] = P.blockExs[blockOf(o)]

(***************************************************************************)
(* The time never jumps over the end of an operation: what was started     *)
(* leaves its launcher at its end time, not later.                         *)
(***************************************************************************)
FinishesOnTime ==
  [][\A l \in Launchers : ~ is_idle(l) /\ opEntry'[l] # opEntry[l] =>
                            endTime[l] = time]_vars

(* ... and it never goes back. *)
TimeForward == [][time' >= time]_vars

(***************************************************************************)
(* After the host's pass over the control queue nothing more can fire in   *)
(* the same iteration, so the restart of the loop over launchTables (which *)
(* would skip its first launcher) never happens.                           *)
(***************************************************************************)
ControlSettled ==
  phase = "control" /\ pos > 0 =>
    ~ generated /\ \A i \in DOMAIN controlQueue : waits(controlQueue[i])

(***************************************************************************)
(* A launcher finishes the block it is in before it enters another: while  *)
(* operations are left to run it takes no launch from its queue.           *)
(***************************************************************************)
BlockRunsToEnd ==
  [][\A l \in Launchers :
       nextIter[l] # 0 /\ opEntry'[l] # opEntry[l] /\ opEntry'[l] # 0
         => kind(opEntry'[l]) # "launch"]_vars

(***************************************************************************)
(* Three rules the simulator does not look after and programs keep.        *)
(* The host, which takes no launches, may find a queue full in the middle  *)
(* of its block and is idle until the next iteration.  Another launcher    *)
(* that did would take a launch then and forget the rest of its block.     *)
(***************************************************************************)
hostStalls == \A o \in Ops : StallOnFullQueue(o) => Current = Host

OnlyHostStalls == [][hostStalls]_vars

(***************************************************************************)
(* An event for a device that does not exist is over at once, with all the *)
(* signals it passes on.  For a launch those are done signals of events in *)
(* its body, which never run: programs skip no launch that has them.       *)
(***************************************************************************)
skipsNoResults == \A o \in Ops : SkipMissingLauncher(o) => Len(P.results[o]) = 1

NoResultsSkipped == [][skipsNoResults]_vars

(***************************************************************************)
(* No two launchers hold the same bank, in which case scheduleEvent may    *)
(* answer with an end in the past.                                         *)
(***************************************************************************)
inFlight(l) == ~ is_idle(l) /\ is_started(l)

takesBank(o) == usesBank(o) /\ P.cycles[o] # 0

onBank(l, b) == inFlight(l) /\ takesBank(opEntry[l]) /\ P.bank[opEntry[l]] = b

BanksApart ==
  \A l, m \in Launchers : \A b \in Banks : onBank(l, b) /\ onBank(m, b) => l = m

BanksKeptApart == [][BanksApart']_vars

(* The programs of the repository keep the three of them in every step. *)
RulesKept == [][hostStalls /\ skipsNoResults /\ BanksApart']_vars

(* The simulation comes to an end. *)
Terminates == <>(phase = "stopped")
=============================================================================
