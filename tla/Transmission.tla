---------------------------- MODULE Transmission ----------------------------
(***************************************************************************)
(* The bandwidth bookkeeping of a connection between components:           *)
(* Connection::scheduleTransmission in include/EQueue/EQueueStructs.h.     *)
(*                                                                         *)
(* write_schedule is a std::map from a cycle to the bits that become       *)
(* readable from that cycle on, here a function whose domain is the finite *)
(* set of its keys.  std::map::insert leaves an existing entry alone.      *)
(***************************************************************************)
EXTENDS Integers, FiniteSetsExt, Functions

EmptySchedule == [c \in {} |-> 0]

ScheduleType(schedule) ==
  /\ IsFiniteSet(DOMAIN schedule)
  /\ DOMAIN schedule \subseteq Nat
  /\ \A c \in DOMAIN schedule : schedule[c] \in Nat

insert(schedule, cycle, bits) ==
  IF cycle \in DOMAIN schedule THEN schedule
  ELSE [c \in DOMAIN schedule \cup {cycle} |->
          IF c = cycle THEN bits ELSE schedule[c]]

transferCycles(bits, bandwidth) == bits \div bandwidth

(* The cycle a write is entered at: behind the last one, by its own length. *)
writeCycle(schedule, cycle, bits, bandwidth) ==
  IF DOMAIN schedule = {} THEN cycle
  ELSE Max({cycle, Max(DOMAIN schedule) + transferCycles(bits, bandwidth)})

transmitWrite(schedule, cycle, bits, bandwidth) ==
  insert(schedule, writeCycle(schedule, cycle, bits, bandwidth), bits)

(* The bits that entries up to and including cycle c add up to. *)
volumeUpTo(schedule, c) ==
  MapThenSumSet(LAMBDA k : schedule[k], {k \in DOMAIN schedule : k <= c})

pendingBits(schedule) ==
  MapThenSumSet(LAMBDA k : schedule[k], DOMAIN schedule)

(* The entries at which the volume reaches the bits a read asks for. *)
enough(schedule, bits) ==
  { c \in DOMAIN schedule : volumeUpTo(schedule, c) >= bits }

(* Mutant: the data of an entry are there as soon as it is entered. *)
requiredCycleOfEntry(schedule, bits, bandwidth) == Min(enough(schedule, bits))

requiredCycle(schedule, bits, bandwidth) ==
  LET last     == Min(enough(schedule, bits))
      prev_vol == volumeUpTo(schedule, last) - schedule[last]
  IN  last + transferCycles(bits - prev_vol, bandwidth)

(* Mutant: a read is granted only after the cycle it needs. *)
readGrantedLate(schedule, cycle, bits, bandwidth) ==
  /\ enough(schedule, bits) # {}
  /\ requiredCycle(schedule, bits, bandwidth) < cycle

(* A read that is not granted stalls: modelOp returns -1. *)
readGranted(schedule, cycle, bits, bandwidth) ==
  /\ enough(schedule, bits) # {}
  /\ requiredCycle(schedule, bits, bandwidth) <= cycle

(* Mutant: what a read leaves of an entry is not put back. *)
transmitReadDropsRest(schedule, bits, bandwidth) ==
  Restrict(schedule, {c \in DOMAIN schedule : c > Min(enough(schedule, bits))})

(* Mutant: what a read leaves of an entry, the wrong way round. *)
transmitReadOwes(schedule, bits, bandwidth) ==
  LET last == Min(enough(schedule, bits))
      vol  == volumeUpTo(schedule, last)
      rest == Restrict(schedule, {c \in DOMAIN schedule : c > last})
  IN  insert(rest, requiredCycle(schedule, bits, bandwidth), bits - vol)

transmitRead(schedule, bits, bandwidth) ==
  LET last == Min(enough(schedule, bits))
      vol  == volumeUpTo(schedule, last)
      rest == Restrict(schedule, {c \in DOMAIN schedule : c > last})
  IN  IF vol = bits THEN rest
      ELSE insert(rest, requiredCycle(schedule, bits, bandwidth), vol - bits)
=============================================================================
