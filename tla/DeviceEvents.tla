---------------------------- MODULE DeviceEvents ----------------------------
(***************************************************************************)
(* The schedule of one bank of a simulated device: the list that           *)
(* Device::events[idx] holds in include/EQueue/EQueueStructs.h, the two    *)
(* functions that maintain it, and the cost model of the memories and of   *)
(* the DMA that decides how long an access lasts.                          *)
(*                                                                         *)
(* An event is the std::pair of its start and end time.  Every list is     *)
(* created with the single event (0, 0).                                   *)
(***************************************************************************)
EXTENDS Integers, Sequences, SequencesExt, FiniteSetsExt

Event(start, end) == [first |-> start, second |-> end]

EventType == [first : Nat, second : Nat]

NewEventList == << Event(0, 0) >>

(* What a list can be: the one it is created as, or one that has grown.     *)
Schedule == { list \in Seq(EventType) : list = NewEventList \/ Len(list) > 1 }

(* Mutant: no event that is over is kept. *)
deleteAllOutdatedEvents(events, now_time) ==
  SelectSeq(events, LAMBDA e : e.second > now_time)

(***************************************************************************)
(* deleteOutdatedEvents keeps the last event before the first one that is  *)
(* not over yet.  When every event is over it erases nothing.              *)
(***************************************************************************)
deleteOutdatedEvents(events, now_time) ==
  LET pending == { i \in DOMAIN events : events[i].second > now_time }
  IN  IF pending = {} \/ Min(pending) = 1
        THEN events
        ELSE SubSeq(events, Min(pending) - 1, Len(events))

(* Mutant: a slot begins after the end of the access before it. *)
slotsNotTouching(events, start_time, exec_time) ==
  { i \in 1 .. Len(events) - 1 :
      /\ events[i].second < start_time
      /\ events[i + 1].first < start_time + exec_time }

(***************************************************************************)
(* scheduleEvent: the list after the call and the end time it returns.     *)
(* A slot is a position i whose event is over by start_time and whose      *)
(* successor starts BEFORE the new event would end: that is the            *)
(* comparison the code makes.  Where there is none the new event goes to   *)
(* the end of the list, and starts when the last element of the list ends. *)
(* In a list of one event the new one goes in front of it, unless the      *)
(* event starts too late for that: then the code takes the end of a second *)
(* event, which is past the list.                                          *)
(***************************************************************************)
slots(events, start_time, exec_time) ==
  { i \in 1 .. Len(events) - 1 :
      /\ events[i].second <= start_time
      /\ events[i + 1].first < start_time + exec_time }

pastTheList(events, start_time, exec_time) ==
  Len(events) = 1 /\ ~ (events[1].first < start_time + exec_time)

insertPosition(events, start_time, exec_time) ==
  LET found == slots(events, start_time, exec_time)
  IN  IF Len(events) = 1 THEN IF pastTheList(events, start_time, exec_time) THEN 2 ELSE 1
      ELSE IF found # {} THEN Min(found) + 1
      ELSE Len(events) + 1

scheduledStart(events, start_time, exec_time) ==
  IF pastTheList(events, start_time, exec_time) THEN events[2].second
  ELSE IF Len(events) > 1 /\ slots(events, start_time, exec_time) = {}
    THEN events[Len(events)].second
  ELSE start_time

scheduleEvent(list, start_time, exec_time, cleanEvents) ==
  LET events == IF cleanEvents THEN deleteOutdatedEvents(list, start_time)
                ELSE list
      start  == scheduledStart(events, start_time, exec_time)
      pos    == insertPosition(events, start_time, exec_time)
  IN  IF exec_time = 0
        THEN [events |-> list, end |-> start_time]
        ELSE [events |-> InsertAt(events, pos, Event(start, start + exec_time)),
              end    |-> start + exec_time]

-----------------------------------------------------------------------------
(***************************************************************************)
(* The component library.  A port count of ENOUGH stands for unlimited     *)
(* ports.  The cost of an access is a function of the lines of data it     *)
(* moves: only DRAM accesses and DMA transfers take any time.              *)
(***************************************************************************)
ENOUGH == -1

KB == 1024 * 1024   (* the macros count a byte as 1024 bits *)

(***************************************************************************)
(* The cycles are multiplied by the volume over the default volume, as     *)
(* integers, and a memory is made with its own volume as the default.  The *)
(* volume of the DRAM, 2^39, is 0 in an int: its constructor divides 0 by  *)
(* 0, which stops a build that divides (on x86) and is 1 in one that       *)
(* simplifies x / x.  A simulation with a DRAM is one of the second build. *)
(***************************************************************************)
DRAM_volume == 0

volumeScale(de_vol) ==
  LET default_volume == de_vol
  IN  IF default_volume = 0 THEN 1 ELSE de_vol \div default_volume

Memory(read_ports, write_ports, de_vol, cyc_per_data, min_cyc) ==
  [read_ports |-> read_ports, write_ports |-> write_ports,
   cycles_per_data |-> cyc_per_data * volumeScale(de_vol),
   min_cycles |-> min_cyc * volumeScale(de_vol)]

RegisterFile(bks) == Memory(ENOUGH, ENOUGH, 64 * 1024, 0, 0)
SRAM(bks)         == Memory(bks, ENOUGH, 10 * KB, 0, 0)
DRAM(bks)         == Memory(bks, ENOUGH, DRAM_volume, 100, 50)
SINK(bks)         == Memory(ENOUGH, ENOUGH, ENOUGH, 0, 0)

CeilDiv(a, b) == (a + b - 1) \div b

portCycles(ports, mem, dlines) ==
  IF ports = ENOUGH THEN mem.min_cycles
  ELSE CeilDiv(dlines, ports) * mem.cycles_per_data

getReadOrWriteCycles(mem, dlines, op) ==
  portCycles(IF op = "Read" THEN mem.read_ports ELSE mem.write_ports, mem, dlines)

transfer_rate == 10 * KB

getTransferCycles(volume) == CeilDiv(volume, transfer_rate)
=============================================================================
