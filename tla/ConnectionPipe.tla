--------------------------- MODULE ConnectionPipe ---------------------------
(***************************************************************************)
(* A connection used as a pipe (example/FIR): writers put bits into it and *)
(* readers take bits out, each at the simulated cycle of its operation.  A *)
(* read the connection does not grant stalls its processor, which asks     *)
(* again in a later iteration of the simulation loop (scheduleOp in        *)
(* lib/EQueue/CommandProcessor.cpp returns and leaves the entry unstarted).*)
(***************************************************************************)
EXTENDS Transmission

CONSTANTS
  Bandwidth,   (* bits per cycle                                            *)
  WriteSizes,  (* the bits a write may put in                               *)
  ReadSizes,   (* the bits a read may ask for                               *)
  MaxWrites,   (* bound: writes                                             *)
  MaxCycle     (* bound: the last cycle                                     *)

ASSUME ConnectionPipeAssumption ==
  /\ Bandwidth \in Nat \ {0}
  /\ WriteSizes \subseteq Nat \ {0}
  /\ ReadSizes \subseteq Nat \ {0}
  /\ MaxWrites \in Nat
  /\ MaxCycle \in Nat \ {0}

VARIABLES
  write_schedule,
  data_total,     (* bits of all the writes, as the statistics count them   *)
  cycle,          (* the simulated time                                     *)
  waiting,        (* bits of the read that is stalled, 0 when none is       *)
  received,       (* history: bits delivered to readers                     *)
  writes          (* history: the writes made                               *)

vars == <<write_schedule, data_total, cycle, waiting, received, writes>>

TypeOK ==
  /\ ScheduleType(write_schedule)
  /\ data_total \in Nat
  /\ cycle \in 1 .. MaxCycle
  /\ waiting \in ReadSizes \cup {0}
  /\ received \in Nat
  /\ writes \in 0 .. MaxWrites

Init ==
  /\ write_schedule = EmptySchedule
  /\ data_total = 0
  /\ cycle = 1
  /\ waiting = 0
  /\ received = 0
  /\ writes = 0

Write(bits) ==
  /\ writes < MaxWrites
  /\ write_schedule' = transmitWrite(write_schedule, cycle, bits, Bandwidth)
  /\ data_total' = data_total + bits
  /\ writes' = writes + 1
  /\ UNCHANGED <<cycle, waiting, received>>

Read(bits) ==
  /\ waiting \in {0, bits}
  /\ readGranted(write_schedule, cycle, bits, Bandwidth)
  /\ write_schedule' = transmitRead(write_schedule, bits, Bandwidth)
  /\ received' = received + bits
  /\ waiting' = 0
  /\ UNCHANGED <<data_total, cycle, writes>>

(* The processor keeps the read as its operation and tries it again. *)
ReadStalls(bits) ==
  /\ waiting = 0
  /\ ~readGranted(write_schedule, cycle, bits, Bandwidth)
  /\ waiting' = bits
  /\ UNCHANGED <<write_schedule, data_total, cycle, received, writes>>

Tick ==
  /\ cycle < MaxCycle
  /\ cycle' = cycle + 1
  /\ UNCHANGED <<write_schedule, data_total, waiting, received, writes>>

Next ==
  \/ \E bits \in WriteSizes : Write(bits)
  \/ \E bits \in ReadSizes : Read(bits)
  \/ \E bits \in ReadSizes : ReadStalls(bits)
  \/ Tick

(***************************************************************************)
(* The loop of the simulator goes on for as long as an operation is on a   *)
(* launcher, so time passes and a stalled read is tried in every           *)
(* iteration; nothing obliges anybody to write.                            *)
(***************************************************************************)
Fairness ==
  /\ WF_vars(Tick)
  /\ \A bits \in ReadSizes : WF_vars(Read(bits) /\ waiting = bits)

Spec == Init /\ [][Next]_vars /\ Fairness
-----------------------------------------------------------------------------
(***************************************************************************)
(* The pipe neither loses nor duplicates: the bits written are the bits    *)
(* delivered and the bits still in the schedule.                           *)
(***************************************************************************)
BitsConserved == data_total = received + pendingBits(write_schedule)

(***************************************************************************)
(* The pipe transfers at most Bandwidth bits in each cycle that has        *)
(* passed since the first one.                                             *)
(***************************************************************************)
WithinBandwidth == received <= Bandwidth * (cycle - 1)

(***************************************************************************)
(* A stalled read for which enough was written is granted in the end, as   *)
(* long as the simulated time has room to reach the cycle it needs.        *)
(***************************************************************************)
ReadServed ==
  \A bits \in ReadSizes :
    /\ waiting = bits
    /\ enough(write_schedule, bits) # {}
    /\ requiredCycle(write_schedule, bits, Bandwidth) <= MaxCycle
    ~> waiting = 0
=============================================================================
