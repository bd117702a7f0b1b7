# EQueue in TLA+

A model of the EQueue simulator, checked with TLC on small instances and, for the facts named
under *Proofs*, proved with TLAPS for all of them. Paths are relative to the repository root;
`CP` is `lib/EQueue/CommandProcessor.cpp`, `CH` is `include/EQueue/CommandProcessor.h` and `ES` is
`include/EQueue/EQueueStructs.h`; passes are in `lib/Transforms`, and `SA` is
`example/SystolicArray/01-Generator/SystolicArray.cpp`. `PROJECT.json` maps each definition to the lines it stands for.

## 1. The system

EQueue is an MLIR dialect for hardware accelerators and a simulator of programs in that dialect.
A program creates components (processors, DMA engines, memories, connections), launches blocks of
operations on processors and copies on DMA engines, and orders all of these *events* with signals.
The simulator answers how many cycles a program takes. Passes lower loop nests to the dialect, and
generators print large programs.

| Component | State | Operations | Correct when |
|---|---|---|---|
| **Runner** (`CP` 138-1018), `LauncherTable`, `OpEntry` (`CH` 49-91): the simulator | time; per launcher the operation, its start and end time, the program counter and the event queue; the control queue; counts of runs, signals and yields; links of carried signals | `setOpEntry`, `checkEventQueue`, `checkControlQueue`, `scheduleOp` (`modelOp`), time step, `finishOp` | dependencies hold; device queues run in order; time is exact, never goes back and passes over no end; nothing is forgotten; the run ends |
| **Program tables** `buildIdMap`, `buildExMap` (`CP` 866-983) | what a value stands for, initial values of iteration arguments, component names, how often a block runs | built once before the simulation | every use resolves to its definition |
| **Device**, memories and DMA (`ES` 44-137, 193-282) | per bank a list of granted accesses | `scheduleEvent`, `deleteOutdatedEvents`, cost of an access | one access at a time, none in the past |
| **Connection** (`ES` 142-191) | map from a cycle to the bits readable from it on; total | `scheduleTransmission` for a write and for a read | no bit lost or duplicated; bandwidth kept; stalled reads served |
| Statistics and trace (`CP` 70-107, 826-852) | charged reads and writes | printing | an access is charged once |
| `linalg.generic` (`CP` 287-331) | banks of the buffers' memories | line after line is booked, the body costs its cycles times the lines | it lasts as long as what it was granted |
| Loop passes: `LoopReorder`, `MergeLoop`, `LoopRemoving`, `MyLoopTiling`, `SimplifyAffineLoop` | a nest of loops | reorder, merge, remove, tile, simplify | the body still runs over the same iterations |
| Passes from loops to events: `StructureMatching`, `SplitLaunch`, `MemCopy`, `MergeMemCopyLaunch`, `MemCopyToLaunch`, `AddLoop`, `ModifyLoop`, `MyLoopParallelize`, `ParallelToEQueue`, `LowerExtraction` | the IR | a launch is made, split, merged with a copy; a loop is unrolled over an array of processors; vectors of components get names | each element does its part, and a round waits for all of the one before |
| Passes on buffers: `EqueueReadWrite`, `AllocateMem`, `ReassignBuffer` | the IR | loads and stores become reads and writes of allocated memory | - |
| Systolic array generator (`SA`, `include/Generator`) | PEs with three registers, values in flight between rounds | read, write and copy rounds of three dataflows, in folds | operands that belong together meet; what should stay in a PE does; what leaves was begun when it should |
| FIR generators (`example/FIR/FIR.cpp`) | - | four pipelines of kernels over streams | the pipeline is as fast as intended |
| Dialect (`include/EQueue/EQueueOps.td`, `lib/EQueue/EQueueOps.cpp`), EDSC, `equeue-opt` | none | parsing, printing, registration | - |

**Interaction.** Everything in the simulator is one thread. One iteration of the loop in
`simulateFunction` (`CP` 769-825) calls, on the host and then on each launcher in the order of a
hash table keyed by pointers,

    setOpEntry                            an idle launcher walks its block: async operations go to queues
    checkEventQueue + checkControlQueue   an idle launcher takes the head of its queue; control ops fire
    (stop when nobody has an operation)
    scheduleOp -> modelOp                 an operation that can start does; devices and connections
    time := nearest end time              say when it ends, or that it stalls
    finishOp                              what is over passes its signals on

**What is hard.** The concurrency is that of the *simulated* program: many launchers push to the
same queues, and compete for banks and pipes, in an order that depends on the hash table and on
when each becomes idle. Signals are counts, not events, and are compared across loops by scaling.
Time jumps. A stalled read is a retry. A queue can be full. All of this is one long-running state
machine that the tests only run end to end, comparing nothing but the final output.
There are no threads, no messages and nothing persistent, so no data races, loss or recovery.

A generated systolic array is a concurrent program of its own: the PEs of a round run in any order
on shared neighbour registers, and only the controlling processor's awaits separate the rounds. The
simulator moves no data, so a program that multiplies operands that do not belong together takes
exactly the right number of cycles. The passes compose: what one leaves behind (constants, tiles with
two bounds, a launch that was split) is what the next one's conditions are about, and the tests
compare single passes on single nests.

## 2. Modules

| Module | What it models |
|---|---|
| `DeviceEvents` | `Device::deleteOutdatedEvents`, `scheduleEvent` and the cost model, as operators |
| `BankSchedule` | processors that start accesses to the banks of a memory: the schedules, alone |
| `Transmission` | `Connection::scheduleTransmission`, as operators on the map `write_schedule` |
| `ConnectionPipe` | writers and readers of one connection, with the stall and retry of reads |
| `IdMap` | programs, and the tables `buildIdMap` and `buildExMap` make of them |
| `ProgramText` | short forms for writing programs down |
| `Runner` | the simulation loop; uses `DeviceEvents` and `Transmission`, and is given the tables of `IdMap` |
| `RunnerProperties` | the type invariant and the properties of `Runner` |
| `EventSemantics` | the abstract specification: events issued, begun and ended, no time and no launchers |
| `EventRefinement` | the mapping under which `Runner` implements it |
| `ConvLayer` | a convolution layer, its folds in three dataflows, and the array of PEs as a chain of components |
| `SystolicArray` | what the generated program does, round by round |
| `FirGenerator` | the FIR programs, for any number of kernels and rounds |
| `LoopPasses` | the passes on loop nests, one action each, in the order of the pipeline |
| `EventPasses` | the passes from loops to events, as operators from programs to programs |
| `MC*` | instances for TLC: programs, sizes and reference schedules |
| `DeviceEventsProofs`, `BankScheduleProofs` | proofs about `scheduleEvent` and about banks, `linalg.generic` included |
| `ConnectionPipeProofs` | proofs about `scheduleTransmission` and a connection used as a pipe |
| `RunnerProofs`, `OrderProofs` | proofs about `Runner`: types, time and dependencies; the order of events and the accounts of copies |
| `RefinementProofs` | the proof that `Runner` implements `EventSemantics` |
| `SystolicProofs` | proofs about `SystolicArray`: the output stationary dataflow and the chain of PEs; then the other two dataflows and the types |
| `LoopPassesProofs` | proofs about `LoopPasses`: what bounds refer to, what loop-remove leaves, the tiles the pass chooses |

**Runner and the code.** `Runner`'s variables have the names of the code's members in most cases:
`opEntry`, `startTime`, `endTime` are the fields of `op_entry`; `nextIter` is `block` and `next_iter`
together (an operation is its position in the program, 0 is the end of the block); `order` is the
iteration order of `launchTables`; `opMap`, `valueMap`, `exTimes`, `signalIds`, `eventQueue`,
`controlQueue` are themselves. `phase`, `pos`, `linked`, `generated` are where the one thread is.

| Code | Actions |
|---|---|
| `setOpEntry` | `NothingToSet`, `PushControl`, `SkipMissingLauncher`, `PushEvent`, `StallOnFullQueue`, `LoadOp`: one pass of its loop each |
| `checkEventQueue` | `TakeEvent`, `TakeNoEvent` |
| `checkControlQueue`, restart of the loop over the launchers | `FireControl`, `ControlQueueWaits` |
| end condition | `EndCondition`, `Stopped` |
| `scheduleOp`, `modelOp` | `NothingToSchedule`, `StallRead`, `StartOp` |
| `nextEndTimes`, time step | `AdvanceTime` |
| `finishOp`, `updateSignalIds` | `NothingToFinish`, `LinkSignal` (one link), `FinishOp` |

A `waits` disjunction over all of an operation's operands is `waitForSignal(op)`; the comparison of
scaled counts is `enoughRuns`, and `aheadOfLoop` for carried signals. A program is *data* of the
model (the constant `Programs`, one of which `Init` picks), so one run checks many programs and the
theorems hold for all of them. `Tables` computes `P.valueIds`, `P.blockExs`, `P.target` and the
others from the text of a program as the two passes over the regions do.

**SystolicArray and the code.** A fold is the pair `v`, `h` of the generator's loops; in step `t` of
the stages `load` and `compute` come the rounds of launches and copies, as the code builds them: read,
(copy,) write. A launch of a round is one action of one PE (`OSReads`, `WSReads`, ... `WSWrites`),
enabled while the PE is in `pending`, so all orders within a round are explored; `LoadCopies`,
`Copies` are the DMA's; `OSAwaits`, `StartRound`, `Awaits...` the controlling processor's, whose guard
`LaunchesDone` is the await. What a launch returns (`ifmap_flight`, ...) is handed to the next round.
The values themselves are not modelled, only where they come from. An operand is the tag *n-th value
taken from bank b*, and an ofmap value is the step in which it was new. There are no products in it:
a PE computes a `mac`, drops what it gives and returns the ofmap as it has read it (`SA` 187, 620,
937), so no property can be about whole sums.

**LoopPasses and the code.** The state is a nest: a list of loops with bounds that are constants or
an induction variable plus a constant, the constants left in each body, and what the body uses for
each loop of the source program. Each pass of the pipeline of `example/SystolicArray/02-Compilation`
is an action, or several: `LoopRemove`, `PassesBy` and `Removed` are the walk of `loop-remove`, one
visit each. Every pass can be skipped, `merge-loop` can run more than once.

**EventPasses and the code.** A pass is an operator on the text of a program (module `IdMap`). It
works on labelled operations, which refer to each other by label; `text` numbers them again. The
arrays of `MCArrays` are built by a chain of passes in the order of `test/LoweringPipeline/scripts.sh`,
and module `Runner` then runs the result like any program.

**Abstractions.** An operation is only what the simulation depends on (its kind, its signals, its
device, the bank, connection and sizes of an access). The cycles of an access in `Runner` are a
number of the program; that they come from ports and lines is in `DeviceEvents` and is exercised in
`BankSchedule`, and so is `linalg.generic`, all of whose buffers are in one bank there. The volumes
count only where they change a cost: `volumeScale` is their quotient as the integers of the code give
it, and where that is 0 / 0 (the DRAM's volume of 2^39 bits in an int, `ES` 236, 276) it is that of a
build that simplifies x / x, since one that divides stops. `accesses` counts how often an operation
was charged instead of the bits. A zero entry of `valueMap` is no entry. Time is unbounded.
`EVENT_QUEUE_SIZE` is a parameter.

Floating point appears twice. `CP` 597 compares counts of carried signals as floats; `aheadOfLoop`
compares the fractions. The two agree where the carried signal is first generated outside of
all loops, because the comparison of integers before it (`CP` 591) has decided then whenever the last
bit could matter, and `CarriedFromHost` of `MCPrograms` states that all programs checked are of that
kind. The root of the excess in `MyLoopTiling.cpp` 361 may come out below a whole number (4 for the
third root of 64): `roots` has both outcomes, and the pass takes either.

## 3. Runs

| Run | Instance | Shows |
|---|---|---|
| `BankSchedule` | DRAM, two processors with a bank each, three operations each, accesses of 50, 100 and 200 cycles and none, a `linalg.generic` of two inputs | `BankExclusive`, `NoEarlyGrant`, `OperationsCoverGrants`, `TimeNeverBack` |
| `ConnectionPipe` | 1 bit per cycle, writes of 2, reads of 1, 2, 3, seven cycles | `BitsConserved`, `WithinBandwidth`, `ReadServed` |
| `Straight` | all 384 host programs of three asynchronous operations over two processors, a DMA and `control_and`, every dependency, every hash order, queues of two | `EventAfterSignal`, `ControlSettled`, `AllExecuted`, `TimingExact`, `TimeForward`, `FinishesOnTime` |
| `Programs` | 18 pairs of kernels over a pipe (0 to 2 cycles of work each, 1 or 2 cycles of data, three rounds), two DRAM banks, five FIR filters as generated, five programs with nested launches, nested loops, missing components and carried signals, five arrays as the passes make them | `EventInv`, `DeviceInOrder`, `CopiesAccounted`, `AllExecuted`, `TimingPipe`, `Barrier`, `RulesKept`, `BlockRunsToEnd`, `ImplementsEvents`, `Terminates` |
| `Systolic` | eight output stationary layers and ten input and weight stationary ones on arrays of up to 3 by 3 PEs: one fold, folds of filters, pixels and both, a last fold that is full or not, a stride of two, one layer whose folds are not balanced | `Aligned`, `WeightsStationary`, `Lockstep`, `ColumnsComplete`, `ColumnsInTurn`, `SumsPutOut`, `OnePEPerPlace` |
| `Passes` | nests of two and three loops with trip counts 1 to 6, every order, every list of loops to merge, tile lists too short and too long, tiles that divide and do not, footprints of 1 to 64 times the cache | `IterationsKept`, `UnmergedUniform`, `NothingRemovableLeft`, `FittingTilesDivide` |
| `Systolic_ifmaps`, `Systolic_outputs` | the layers of `Systolic`, one property each | the code does not do what a line of the repository says (section 4) |
| `BankSchedule_shared`, `ConnectionPipe_small`, `Documented_await`, `Documented_full` | small instances, one property each | the same |

The properties, in words:

- *EventAfterSignal*: the n-th run of an event, await or control operation starts after each signal
  it waits for was generated n times, in proportion to how often the two blocks run.
- *DeviceInOrder*: the events of a block for one device run in program order, whoever pushes them.
- *CopiesAccounted*: `opMap` and `valueMap` of a copy differ by exactly the copies in flight, the
  "lap" that the comment at `CP` 990 speaks of.
- *ImplementsEvents*: every step of the simulator is a step of `EventSemantics` or a stutter. The
  abstract state is read off the queues and counts: an operation has *begun* when `opMap` counts it
  or its launcher has taken the event and not yet scheduled it (`acquired`), it was *issued* when it
  has begun or is in a queue. `TakeEvent` maps to `Begin`, `PushEvent` and `PushControl` to `Issue`,
  `FireControl` to `Fire`, the start of an await to `Pass`, the end of a copy or of the return of a
  launch to `End`, everything about time, pipes, banks and the hash order to nothing. It says in one
  formula that a block's operations are issued in order and only while its launch runs, that a device
  has one event at a time, first come first served, that signals are respected and that a launch
  ends only when its whole body has been issued.
- *AllExecuted*: when the loop stops every event, await and control operation has run as often as
  its block does. The loop stops when nobody holds an operation, not when the queues are empty.
- *TimingExact*, *TimingPipe*: the final time is that of a schedule computed from the program alone.
  They catch what no invariant on the steps sees: an operation started a little late.
- *FinishesOnTime*, *TimeForward*: the jump of the time passes over no end, and is never backwards.
- *ControlSettled*: after the host's pass nothing can fire until time moves, so that the restart of
  the launcher loop, which would skip the first launcher, is never reached.
- *BlockRunsToEnd*: a launcher enters no other block before the one it is in is at its end.
- *RulesKept*: three rules that the simulator leaves to the programs, and that theorems of section 5
  start from: *OnlyHostStalls*, *NoResultsSkipped* and *BanksKeptApart*, in this order. Only the host, which takes no launches, finds a queue full in
  the middle of its block; no launch that passes signals out of its body is skipped for want of a
  processor; no two launchers hold the same bank.
- *Barrier*: a block of an array made by the passes goes past its await only when every launch and
  copy started in it, in this round and earlier ones, is over.
- *OperationsCoverGrants*: no bank is still busy for an operation that is over. `linalg.generic`
  computes its end without looking at the grants, so this depends on who else uses the bank.
- *Aligned*: in an output stationary array the operands that meet in a PE are the k-th of its row and
  the k-th of its column. *WeightsStationary*, *Lockstep*: in a weight stationary one, each row keeps
  the value that was copied in with that many steps of loading to go, and the ifmap values of a row
  reach column c exactly c steps later.
- *ColumnsComplete*: in the other two dataflows a column puts out one value for each operand that
  moves past it, in each fold it takes part in. *ColumnsInTurn*: each such value began in the first row
  as many steps before as there are rows below, so none is left over from an earlier fold or overtaken.
- *SumsPutOut*: in an output stationary array what leaves a PE has been in it for the steps of one
  window, also where a window lies in two folds, except for the first value.
- *IfmapsStationary*, *OutputsWritten*: what the documents say of the input stationary dataflow and of
  the outputs of a convolution, and the code does not do (section 4).
- *OnePEPerPlace*: the walk along the chain of components finds a different PE for each place.
- *IterationsKept*: the body runs as often as in the source program, after any sequence of passes.
  `simplify-affine-loop` after a tiling that does not divide loses that (`cut`), which is all it
  excuses (section 4).
- *UnmergedUniform*: the loops that were not merged still run over their range, in every combination
  and each equally often, seen through all the rewriting of bounds and uses.
- *NothingRemovableLeft*: the walk of `loop-remove`, which deletes what it stands on, misses no loop.
- *FittingTilesDivide*: tile sizes that the pass chooses itself divide the trip counts.
- *BitsConserved*, *WithinBandwidth*, *ReadServed*: the pipe loses and invents nothing, is no faster
  than its bandwidth, and serves a stalled read once the data are there.

**Bounds.** Three operations give every shape of dependency between two devices and a third event
(chain, fork, join, same queue); two places fill a queue with the third. Two hash positions are the
least with an order, three also have the order change when a component appears. Three rounds of a
kernel are the first in which a stall of one round delays the next. Loops run two and three times,
so that a yield both leaves and goes round, and the inner of two loops is entered twice. Three
operations per processor let a bank have accesses that are over behind the initial event and between
others, and, where it is shared, ones that are not over.
Arrays of two by two PEs have neighbours in both directions, three rows or columns one that is at
no border; two folds are the first with a fold that is not the last. Three loops are the least in
which an order is not its own inverse. Two elements and two rounds show whether the elements of an
array work at the same time and whether a round waits for the one before.
`MaxTime`, `MaxOps`, `MaxMerged`, `MaxWrites` and `MaxCycle` are the only bounds on counters; a program of
`Straight` or `Programs` that ends does so well below `MaxTime`, which stops only the time that
passes while nothing runs. `ConnectionPipe` (the cycles are used up), `Systolic` (the last fold is
done) and `Passes` (the pipeline is at its end) really stop, so deadlock is not checked there; the simulator's end is the explicit action `Stopped`, and deadlock is checked.

**Fairness.** `Runner` has `WF_vars(Next)`: the loop is one thread that never blocks. `Terminates`
needs no more than that. `EventSemantics` has no fairness: only its safety is implemented step by
step, and that the simulation ends is `Terminates` of `Runner`. In `ConnectionPipe` time passes and a stalled read is tried again in every
iteration of the loop (`CP` 769, 500), hence weak fairness of `Tick` and of the read that waits;
nothing obliges a writer.

Every property has a mutant: the definitions marked *Mutant* are plausible slips in the code they
stand beside (an off-by-one, a dropped guard, a reset left out), and each breaks its property.

## 4. Where code and documents differ

1. `ES` 101: an access for which no slot fits goes to the end of the list ("put to the end", `ES` 100)
   and starts when the last element is over. The list is not sorted, for the first access is put in
   front of the initial (0, 0): with (1, 101), (0, 0) a request at 1 for 100 cycles fails the slot test,
   and is granted (0, 100), in the past and over the access under way (`BankSchedule_shared`). With a
   bank of its own for each processor all accesses are over when it asks for the next, which is what
   `BankSchedule` shows.
2. `ES` 162: writes shorter than a cycle are entered at the key of the write before, and
   `std::map::insert` drops them (`ConnectionPipe_small`; `example/FIR/03-Limited16Kernel/README.md:9`).
3. `CP` 606: an await on the result of a loop passes after the first iteration's event
   (`Documented_await`; `mydoc/Dialect.md:413`).
4. `CP` 657: a launcher stalled on a full queue takes another launch and forgets the rest of its
   block (`Documented_full`, queue of one place; `mydoc/Dialect.md:212` and `:228`).
5. `SA` 672, 706: an input stationary array passes its ifmap values to the right in each step
   (`Systolic_ifmaps`; `example/SystolicArray/README.md:35`, `02-Compilation/README.md:112`).
6. `SA` 145: filters and pixels are balanced over the folds, the steps are those of full folds: an
   array of three columns puts out 6 of the 8 outputs of four filters (`Systolic_outputs`;
   `example/SystolicArray/README.md:24`).

The model does the following as the code does, and no run is kept for what a document says instead:

7. `SA` 982, 1010 (675, 709): the windows in which a stationary array passes ofmaps on open two steps
   late, so the values that began beside the first two ifmaps are not put out and two that began
   after the last one are. *ColumnsInTurn* and *ColumnsComplete* hold all the same.
8. `SA` 314: the first value an output stationary PE puts out leaves in its first step;
   `example/SystolicArray/README.md:37` says each stays for a window. *SumsPutOut* makes the exception.
9. `SimplifyAffineLoop.cpp` 39: 0 is put for all operands of both bounds, so the points of a partial
   tile become those of a full one and the body runs more often (tiles of 2 of a loop of 3). The flag
   `cut` of *IterationsKept* marks these programs.
10. `ES` 152: floor(bits/bandwidth) lets a transfer that is no multiple of the bandwidth through in too
    few cycles: three bits written at two bits per cycle in cycle 1 are read in cycle 2. The sizes of
    `ConnectionPipe` are whole cycles (`WholeReads`).
11. `CP` 185: a stalled read is charged to its memory at each retry (`accesses`), which shows in the
    printed bandwidth.
12. `CP` 554: a `control_or` waits for all its signals; `mydoc/Dialect.md:385` says for any.
13. `MergeMemCopyLaunch.cpp` 85, `MemCopyToLaunch.cpp` 76: the data copied are written back to the
    source; `example/SystolicArray/02-Compilation/README.md` speaks of the destination. The timing of
    the model's programs does not depend on it.
14. `Utils.cpp` 112: inside a parallel loop `getField` tests for `AffineForOp` twice and never takes the
    parallel loop's indices. The passes are modelled in the order of the pipeline, where this does not occur.

## 5. Proofs

The theorems on `Runner` hold for every set of programs, every number of launchers, banks and
connections, every bandwidth and every queue size, from the assumptions `RunnerAssumption`,
`RegionAssumption`, `BlockAssumption` and `ScopeAssumption` of module `Runner`. These say
what the dialect's verifiers and `buildIdMap` guarantee: operands are in range, region arguments match
operands, a launch argument stands for its operand, loops run at least once, components are created
in the function body (`RegionTypeOK`, `LinkTypeOK`); operations are numbered as they are written, so
that a region follows its operation and `next` goes through a block up to its terminator
(`BlockTypeOK`); every asynchronous operation has a done signal of its own and only a launch has
other results (`SignalTypeOK`); a region has no gaps, and an operation uses a device only behind the
operation that creates it, as SSA form has it (`ScopeTypeOK`). TLC evaluates them on the programs of every run.

Where a theorem has a hypothesis about the behaviour, it is one the code does not look after; it is a
formula that a passing run checks (`RulesKept`, `BlockRunsToEnd`), so that the theorem is about the programs of the repository.

**Banks**

- `ScheduleEventType` (`DeviceEventsProofs`): a list is the one it is created as, or one that has grown
  (`Schedule`). From such a list `scheduleEvent` makes another, with an end time above zero, and it does not take
  the branch of `ES` 84-88, which reads an element behind the only one (`pastTheList`). A list with one
  element that starts late would take it, but no sequence of calls makes one: the first access
  goes in front of (0, 0), and `deleteOutdatedEvents` leaves two elements or erases nothing.
- `SchedulesWellFormed` (`BankScheduleProofs`): `Spec => []TypeOK`, however processors share banks.
- `OwnBanksExclusive`, `OwnBanksNotEarly`, `OwnBanksCovered`, `OwnBanksTimeForward`: the four
  properties of `BankSchedule`, for every memory, every length of the accesses and every
  interleaving, if each bank is accessed by one processor (`OneProcessorPerBank`; without it
  `BankSchedule_shared` is the counterexample). The invariant is *BanksOver*: all that a bank was
  ever asked for is over when its processor's operation is, so that at the next request
  `scheduleEvent` finds nothing in the way and grants at once (`GrantedAtOnce`). `linalg.generic` is a
  fold over the lines of its buffers: `GenericTrace` takes its intermediate results as a sequence, and
  `LineTimes` shows that whenever a line is asked for, all before it is over. The libraries'
  induction rules cannot be instantiated here; where a proof needs induction on a number, it takes the
  least counterexample of a set of naturals.

**Connections** (`ConnectionPipeProofs`)

- `ScheduleWellFormed`: `Spec => []TypeOK` for all sizes; what a read leaves of an entry is never negative.
- `PipeKeepsBits`: `BitsConserved` if all writes are of one size, a multiple of the bandwidth
  (`Steady`). The invariant *Spaced* says that of two entries the earlier one holds no more than
  what fits into the cycles between them, so a read that puts a rest back, and a write that goes behind the
  last entry, find the key free. `ConnectionPipe_small` shows that it is lost without `Steady`.
- `PipeKeepsPace`: `WithinBandwidth` if reads are multiples of the bandwidth, too (`WholeReads`; the
  invariant *Paced* says of each entry that what was delivered and what lies before it fit into the cycles
  until then). The sizes of `ConnectionPipe.cfg` satisfy both.

**The simulator**

- `TypeCorrect` (`RunnerProofs`): `Spec => []TypeOK`. `TypeOK` is inductive; one lemma per action.
  The interesting places are `LinkSignal`, where both argument lists must be equally long for
  whatever operation finishes, `FinishOp`, where the hash order is replaced, and the minimum of the
  end times.
- `ControlOpsSettled`: `ControlSettled`. What is in the control queue after the host's pass waits, and
  no other launcher's pass changes what it waits for.
- `NothingFinishesLate`: `FinishesOnTime`. In the phase *finish* no operation in flight has its end
  behind the time (*NoneOver*); a component that appears among the launchers while they finish holds
  nothing (*NotYetCreated*).
- `TimeNeverGoesBack`: `TimeForward` from `BanksKeptApart`. It is the argument of the bank
  schedules within the whole simulator. The hypothesis is needed: on a bank with an access that is not
  over `scheduleEvent` may answer with an end before the present (a list that holds (1, 11) and
  then the initial (0, 0), asked at 5 for 2 cycles, answers 2), and the loop would jump there.
- `EventInvariant`, `DependenciesRespected`: `EventInv` and `EventAfterSignal`. A
  launcher looks at the signals when it *takes* an event and counts the run when it *schedules* it, so the property is not
  inductive by itself: between the two, another launcher could count a run of the same operation, or
  the signal could come to stand for another one. `EventInv` adds *Routed* (an event is only in the
  queue and on the launcher of its own device, so nobody else counts it) and *OwnSignals* (a signal
  that no loop carries stands for itself for ever). The arithmetic is in `NextMultiple`: if
  `n * d < k * b` and `d` divides `k` then `(n + 1) * d <= k * b`, which is why the property asks
  that the block of the operation runs a whole number of times for each run of the signal's
  (`DependsOn`); `SeenStep` carries it over an action that only adds to the counts.
- `LaunchersFinishBlocks` (`OrderProofs`): `BlockRunsToEnd` from `OnlyHostStalls`. After its turn in
  the first phase a launcher other than the host has an operation or is at the end of its block, and
  it takes events only then. `Documented_full` is the counterexample without it.
- `DevicesRunInOrder`: `DeviceInOrder` from `BlockRunsToEnd`. No variable says how far a block has been
  walked, so the invariant (*InOrder*) says that there are numbers which do: for each block the rounds
  made (`r`) and the operations walked past in this one (`c`), for each launcher the blocks it is
  inside (`depth`, `at`). They are related to the state by *Placed*, *Cursors* and *Fresh*, and by
  *Separate*: no two launchers are in the same block, since a block is entered through one operation,
  which one launcher runs. Hence a block is walked in order, round after round (*WalkOrder*). The
  second half is about queues: each event in the queue or on the launcher of its device has the number of the run
  it will be (`num`); all runs that were issued and have not begun are there (*Complete*), sorted by run and position
  (*Sorted*), so what is taken from the front keeps the counts of two events of a block and a
  device within one of each other, the earlier first (*InStep*), which is the property.
- `CopiesBalance`: `CopiesAccounted` from `NoResultsSkipped`. Taking a copy changes nothing, starting
  it counts it in `opMap` and puts it in flight, finishing it counts its signal; the work is to show that
  no other operation generates it. A skipped launch would: it passes on the signals of its body.
- `SimulatorImplementsEvents` (`RefinementProofs`): `ImplementsEvents`, the refinement, from
  `OnlyHostStalls` and `NoResultsSkipped`. The abstract events know no program counters, only how
  often everything was issued and begun; the simulator has program counters and counts only what
  is over. The invariant `RefInv` relates the two through the numbers `r`, `c`, `depth`, `at` of
  `OrderProofs`, for which *Tracks* says: what was walked past was issued, an await excepted that
  its launcher still waits for (*Issued*, *Awaiting*); a loop nobody is inside has made all its
  rounds (*Looping*, *Yields*), so that a body left behind is a whole number of bodies; the body of
  a launch was walked as often as the launch began and is not being walked (*Bodies*); an event
  that has begun and not been signalled is on its device (*Signalled*). From these follow the
  guards of the abstract steps: `TurnNext` that what `setOpEntry` meets is next in its block and
  in a body that is being run (*InTurn*), `AllIssued` that a launch which returns has issued its whole
  body (the guard of *End*), *Ready* from the `waitForSignal` the event went through. *Created* and
  *Returning* say that nobody has gone past the operation that makes a device which is not there, and that
  a launcher which returns has nothing left to do; *QueuesFit* bounds the queues. One lemma per action
  (`PushEventRefined`, `TakeEventRefined`, `FinishOpRefined`, ...) shows the step of the
  events it is, and every other action changes nothing of the abstract state (`AbstractQuiet`).
  The hypotheses are needed: a launcher stopped by a full queue takes the next event before
  it has walked its block to the end, and a skipped launch with results generates signals of operations that did not run.

**Systolic arrays**, for every layer, array size and dataflow, from `LayersAssumption` and `NonAssumption`

- `OperandsAligned` (`SystolicProofs`): `Spec => []Aligned`. `Aligned` speaks of what PEs have read in this round; the
  inductive invariant `Inv` says where the wave is in every round: *Shape* (the types, and that the
  fold's rows and columns fit the array, which needs the arithmetic of two nested ceilings in
  `BalancedFits`), *IfmapsArrive* and *FiltersArrive* (what a register holds is the value of
  t - r - c steps after the fold began, and nothing before), *Flown* (what a launch returned is what it
  read), *RowsCounted* and *ColsCounted* (a bank has been asked as often as its first PE has run). The
  step from write to read is where the await is used: all PEs have written, so all registers are one
  step on.
- `SumsStay`: `SumsPutOut`. `SumInv` gives each PE the value it keeps as a function of the steps since its
  wave began: after n steps it is as old as n - 1 modulo the pixels of a window, for the PE's first
  step counts as the last of a window.
- `OwnPEs`: `OnePEPerPlace`. The walk back along the chain from a PE to the start of its row and the
  number of the PE there are unique (`WalkBack`, `PlaceOfNumber`: the least counterexample of a walk).
- `WeightsStay`, `IfmapsInStep`, `OfmapsInTurn`: `WeightsStationary`, `Lockstep` and
  `ColumnsInTurn` for every layer and array whose folds fit (`FoldsFit`: a generated array has
  `array_width` columns, and a fold may ask for more). One invariant, `SInv`, follows the fold
  through its rounds: *WeightsLoad* (what is loaded is one row further down after each write round),
  *IfmapsGiven* (the first column has the value of this step or, once its PE has read, of the
  next), *IfmapsPass* (column c has that of c steps before), *OfmapsArrive* (within the window what is in row r
  began in row 0 r steps before; registers hold remains of other folds before that, and the
  window in which a PE passes its ofmap on is what keeps them out of the results). A fold that begins satisfies
  it whatever the fold before has left (`Fresh`).
- `ArrayTypes`: `Spec => []TypeOK`. That an ofmap is a number everywhere needs to know who has read
  in this round (*SumsTyped*), and that a copy takes from a bank there is, that copies are of rows
  and columns of this fold (`CopyPlace`); it rests on all the invariants above.

**Loop passes**, for nests of any depth and trip counts, any order of the loops, any merges and any
lists of tile sizes, from `NestsAssumption` (a nest has a loop, and its loops run) and
`TilesAssumption` (a tile size is positive: MLIR's `setStep` refuses 0)

- `BoundsStayInScope` (`LoopPassesProofs`): `Spec => []TypeOK`; `RemovingMissesNoLoop`:
  `NothingRemovableLeft`; `ChosenTilesDivide`: `FittingTilesDivide`. They share the inductive
  invariant `NestInv`, with one lemma per pass. *BoundsOuter* and *UsesOfLoops* are the scopes; they
  survive `LoopRemove` because it substitutes the lower bound for the variable of the loop that goes
  (`InLoopProperties`), and `LoopReorder` because the orders are a permutation
  (`OrdersPermute`). *IvsDistinct* and *BoundsOuter* together say that a loop which the walk of
  loop-remove has passed by does not refer to the loop that is removed now: its bounds stay as they
  are and it cannot become removable (*WalkClean*). *PlainBeforeTiling* says that the loops that
  are tiled have constant bounds and a single upper one, so that the loop within a tile refers to
  the loop over the tiles alone (`PointLoopProperties`); that a chosen size divides the trip
  count is `DivisorSizes`, for which the descent of the code ends at 1 at the latest. The bound that
  merge-loop multiplies is a number (`MergedBoundInt`): the fold is defined by a function on
  sets of loops, whose existence is shown for the sets of n loops by a least n without one.

Only model-checked: `AllExecuted`, `TimingExact`, `TimingPipe`, `Barrier`, `ColumnsComplete`,
`IterationsKept`, `UnmergedUniform`, and the three hypotheses that `RulesKept` sums up, which are facts
about the programs of the runs and false of others. `AllExecuted` and the
timings are about where a program ends up: the first fails for a program that deadlocks, so it has no
proof for all of them, and the others compare with a schedule that a recursive function computes.
`ColumnsComplete` sums over folds, and the two properties of `LoopPasses` count the
iterations that nested folds enumerate; they have no proof yet. Liveness (`Terminates`,
`ReadServed`) is out of the prover's reach, and so is what the recursive functions of `IdMap`
compute; `Runner` takes the tables as constants for that reason.

## 6. Not modelled

The trace, the printed statistics and `iterState` have no effect on the simulation. The passes
`EqueueReadWrite`, `AllocateMem` and `ReassignBuffer` exchange operations one for one and the buffers
these name; a program of the model has no buffers, only the bank and the cycles of an access.
`LinalgGenerator.cpp` prints one `linalg.generic` that MLIR turns into the nest `LoopPasses` starts
from. The dialect, the EDSC wrappers and the driver parse, print and register. `linalg.generic` is not a
kind of operation of `Runner`: the tests and the pipeline lower it before they simulate.
Of `LowerExtraction` the removal of unused launch results is left out, of `getField` constant indices. Components created inside a launch (`CP` 443: insertion into a hash
table while it is iterated over), zero trip counts (`CP` 728: division by zero) and times beyond
31 bits (`CP` 138) are excluded by assumption.
The numbers a systolic array computes are not modelled, nor what a build makes of the DRAM's 0 / 0
(`ES` 236), nor the rounding of `CP` 597 in programs that carry signals through several loops (section 2).

## 7. Plan

Done, in this order: `DeviceEvents`, `BankSchedule`, `Transmission`, `ConnectionPipe`, `IdMap`,
`Runner` with its properties, the type proof, the dependency proof, `EventSemantics` and the
refinement; then `ConvLayer`, `SystolicArray` and its proof, `FirGenerator`, `LoopPasses`,
`linalg.generic`, `EventPasses`; then the other proofs of section 5.

Next, models: carried signals in `EventSemantics` (which signal the argument of a loop stands for in
each iteration, as a need); `SystolicArray` as the program text it is, run by `Runner`, and shown to
implement the rounds of module `SystolicArray`; a program that deadlocks, once it is decided what the
simulator should do with it; buffers in `EventPasses`.

Next, proofs: `IterationsKept` of the single passes, from `NestInv`; `ColumnsComplete`
from `SInv`, column by column.
