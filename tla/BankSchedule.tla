---------------------------- MODULE BankSchedule ----------------------------
(***************************************************************************)
(* Processors that access the banks of one memory, as modelOp does for     *)
(* equeue.read and equeue.write (lib/EQueue/CommandProcessor.cpp): a       *)
(* processor starts an access at the current time, the bank's schedule     *)
(* says when it ends, and the simulation then jumps to the nearest end     *)
(* time of the operations in flight.  Each processor runs one operation    *)
(* at a time, in order.  This is the simulation loop reduced to what the   *)
(* schedules see of it; the whole loop is in module Runner.                *)
(***************************************************************************)
EXTENDS DeviceEvents

CONSTANTS
  Procs,      (* the processors                                             *)
  Banks,      (* the banks of the memory                                    *)
  Uses,       (* Uses[p]: the banks that processor p accesses               *)
  Mem,        (* the memory component, one of the library's constructors    *)
  Lines,      (* the data lines an access may move                          *)
  Generics,   (* linalg.generic operations: for each input and output the   *)
              (* lines of its buffer, and the cycles of the body            *)
  MaxOps      (* bound: operations each processor runs                      *)

ASSUME BankScheduleAssumption ==
  /\ Uses \in [Procs -> SUBSET Banks]
  /\ Mem \in [read_ports : {ENOUGH} \cup (Nat \ {0}), write_ports : {ENOUGH} \cup (Nat \ {0}),
              cycles_per_data : Nat, min_cycles : Nat]
  /\ Lines \subseteq Nat
  /\ Generics \subseteq [inputs : Seq(Nat), outputs : Seq(Nat), body : Nat]
  /\ MaxOps \in Nat

VARIABLES
  events,     (* events[b]: the schedule of bank b                          *)
  time,       (* the simulated time                                         *)
  endTime,    (* endTime[p]: end of the operation p runs, 0 when idle       *)
  opsRun,     (* opsRun[p]: operations p has started                        *)
  granted     (* history: what the banks granted, to whom and when asked    *)

vars == <<events, time, endTime, opsRun, granted>>

TypeOK ==
  /\ events \in [Banks -> Schedule]
  /\ time \in Nat
  /\ endTime \in [Procs -> Nat]
  /\ opsRun \in [Procs -> 0 .. MaxOps]
  /\ granted \subseteq [proc : Procs, bank : Banks, at : Nat, event : EventType]

Init ==
  /\ events = [b \in Banks |-> NewEventList]
  /\ time = 1
  /\ endTime = [p \in Procs |-> 0]
  /\ opsRun = [p \in Procs |-> 0]
  /\ granted = {}

CanStart(p) == endTime[p] = 0 /\ opsRun[p] < MaxOps

Starts(p, end) ==
  /\ CanStart(p)
  /\ endTime' = [endTime EXCEPT ![p] = end]
  /\ opsRun' = [opsRun EXCEPT ![p] = @ + 1]
  /\ UNCHANGED time

Grant(p, b, at, cycles, end) ==
  IF cycles = 0 THEN {}
  ELSE {[proc |-> p, bank |-> b, at |-> at, event |-> Event(end - cycles, end)]}

(* equeue.read or equeue.write on bank b. *)
Access(p, b, dlines, op) ==
  LET cycles == getReadOrWriteCycles(Mem, dlines, op)
      result == scheduleEvent(events[b], time, cycles, TRUE)
  IN  /\ b \in Uses[p]
      /\ Starts(p, result.end)
      /\ events' = [events EXCEPT ![b] = result.events]
      /\ granted' = granted \cup Grant(p, b, time, cycles, result.end)

LinesOf(buffers) == FoldLeft(LAMBDA sum, n : sum + n, 0, buffers)

Scaled(buffers) == FoldLeft(LAMBDA product, n : product * n, 1, buffers)

LineCycles(op) == getReadOrWriteCycles(Mem, 1, op)

(* Mutant: what the operation writes takes no time. *)
cyclesOfInputs(generic) ==
  LinesOf(generic.inputs) * LineCycles("Read") + Scaled(generic.inputs) * generic.body

(***************************************************************************)
(* linalg.generic, its buffers all in bank b: the lines of the inputs are  *)
(* read and those of the outputs written one after the other, then the     *)
(* body runs once for each combination of input lines.                     *)
(***************************************************************************)
genericCycles(generic) ==
  LinesOf(generic.inputs) * LineCycles("Read") + LinesOf(generic.outputs) * LineCycles("Write")
    + Scaled(generic.inputs) * generic.body

(* The cycles of each line: first the lines read, then those written.       *)
genericLines(generic) ==
  LET reads == LinesOf(generic.inputs)
  IN  [i \in 1 .. reads + LinesOf(generic.outputs) |->
         LineCycles(IF i <= reads THEN "Read" ELSE "Write")]

(* A line is asked for when the one before it should be there; the bank's   *)
(* answer is not waited for.                                                *)
scheduleLine(p, b, s, cycles) ==
  LET result == scheduleEvent(s.events, s.at, cycles, TRUE)
  IN  [events  |-> result.events, at |-> s.at + cycles,
       granted |-> s.granted \cup Grant(p, b, s.at, cycles, result.end)]

scheduleLines(p, b, generic) ==
  FoldLeft(LAMBDA s, cycles : scheduleLine(p, b, s, cycles),
           [events |-> events[b], at |-> time, granted |-> granted], genericLines(generic))

Generic(p, b, generic) ==
  LET scheduled == scheduleLines(p, b, generic)
  IN  /\ b \in Uses[p]
      /\ Starts(p, time + genericCycles(generic))
      /\ events' = [events EXCEPT ![b] = scheduled.events]
      /\ granted' = scheduled.granted

(* An operation of one cycle that accesses no memory. *)
Compute(p) ==
  /\ Starts(p, time + 1)
  /\ UNCHANGED <<events, granted>>

(***************************************************************************)
(* The end of an iteration of the simulation loop: time becomes the least  *)
(* end time in flight, and what is over by then finishes.                  *)
(***************************************************************************)
AdvanceTime ==
  LET running   == { p \in Procs : endTime[p] # 0 }
      next_time == Min({ endTime[p] : p \in running })
  IN  /\ running # {}
      /\ time' = next_time
      /\ endTime' = [p \in Procs |-> IF endTime[p] <= next_time THEN 0
                                     ELSE endTime[p]]
      /\ UNCHANGED <<events, opsRun, granted>>

AllDone == \A p \in Procs : endTime[p] = 0 /\ opsRun[p] = MaxOps

Done == AllDone /\ UNCHANGED vars

Next ==
  \/ \E p \in Procs, b \in Banks, dlines \in Lines, op \in {"Read", "Write"} :
       Access(p, b, dlines, op)
  \/ \E p \in Procs, b \in Banks, generic \in Generics : Generic(p, b, generic)
  \/ \E p \in Procs : Compute(p)
  \/ AdvanceTime
  \/ Done

Spec == Init /\ [][Next]_vars
-----------------------------------------------------------------------------
(***************************************************************************)
(* A bank serves one access at a time: two accesses it granted never       *)
(* overlap.                                                                *)
(***************************************************************************)
BankExclusive ==
  \A g, h \in granted :
    g # h /\ g.bank = h.bank =>
      \/ g.event.second <= h.event.first
      \/ h.event.second <= g.event.first

(***************************************************************************)
(* No access is granted a time before the processor asked for it.          *)
(***************************************************************************)
NoEarlyGrant == \A g \in granted : g.event.first >= g.at

(***************************************************************************)
(* An operation lasts until the bank is done with what it asked for:       *)
(* linalg.generic does not look at what the bank grants                    *)
(* (CommandProcessor.cpp:304, 319), which is right as long as every        *)
(* processor has a bank of its own.                                        *)
(***************************************************************************)
OperationsCoverGrants ==
  \A g \in granted : g.event.second <= time \/ g.event.second <= endTime[g.proc]

(***************************************************************************)
(* The simulation loop jumps "to the closest time stamp currently running  *)
(* op is done": it never goes back in time.                                *)
(***************************************************************************)
TimeNeverBack == [][time' >= time]_vars
=============================================================================
