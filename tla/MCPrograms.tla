----------------------------- MODULE MCPrograms -----------------------------
(***************************************************************************)
(* Runner on two processors that work in parallel and meet in a            *)
(* connection or work in a DRAM bank each, on the filters that example/FIR *)
(* generates, and on the programs of MCNested.                             *)
(***************************************************************************)
EXTENDS MCArrays, EventRefinement

(* The connections: a pipe, and streams as wide and as narrow as in         *)
(* example/FIR.                                                             *)
Wide   == << "wide0", "wide1", "wide2", "wide3", "wide4", "wide5" >>
Narrow == << "narrow0", "narrow1", "narrow2", "narrow3", "narrow4", "narrow5" >>

AllConns == {"pipe"} \cup Range(Wide) \cup Range(Narrow)
AllBandwidths ==
  [c \in AllConns |-> IF c = "pipe" THEN 2 ELSE IF c \in Range(Wide) THEN 1024 ELSE 32]

Prelude == << T!Create(0), T!Create(0), T!Start(0) >>                \* 1 2 3

(***************************************************************************)
(* One processor writes to the pipe every writer cycles, the other reads   *)
(* from it and then computes for reader cycles, three times each.  A write *)
(* and a read move length cycles of data.                                  *)
(***************************************************************************)
Rounds == 3

Kernels(k) ==
  LET w == 5
      writes == << T!Access("write", w, "rf", 0, "pipe", 2 * k.length) >>
                  \o [i \in 1 .. k.writer |-> T!Other(w)] \o << T!Yield(w, <<>>) >>
      r == w + Len(writes) + 3
      reads == << T!Access("read", r, "rf", 0, "pipe", 2 * k.length) >>
                  \o [i \in 1 .. k.reader |-> T!Other(r)] \o << T!Yield(r, <<>>) >>
      join == r + Len(reads) + 2
  IN  Prelude
        \o << T!Launch(0, 1, Res(3, 0)), T!For(4, Rounds, <<>>) >> \o writes
        \o << T!Return(4, <<>>) >>
        \o << T!Launch(0, 2, Res(3, 0)), T!For(r - 1, Rounds, <<>>) >> \o reads
        \o << T!Return(r - 1, <<>>) >>
        \o << T!And(0, << Res(4, 0), Res(r - 1, 0) >>), T!Await(0, << Res(join, 0) >>),
              T!Free(0) >>

Kernel(n) == [writer |-> n % 3, reader |-> (n \div 3) % 3, length |-> (n \div 9) + 1]

(* Each processor reads and writes a DRAM bank of its own. *)
Banked ==
  Prelude \o <<
  T!Launch(0, 1, Res(3, 0)),                                         \* 4
    T!For(4, 2, <<>>),                                               \* 5
      T!Access("read", 5, "bank1", 3, "no connection", 0),           \* 6
      T!Access("write", 5, "bank1", 2, "no connection", 0),          \* 7
      T!Yield(5, <<>>),                                              \* 8
    T!Return(4, <<>>),                                               \* 9
  T!Launch(0, 2, Res(3, 0)),                                         \* 10
    T!Access("read", 10, "no bank", 0, "no connection", 0),          \* 11
    T!Access("read", 10, "bank2", 2, "no connection", 0),            \* 12
    T!Access("read", 10, "bank2", 2, "no connection", 0),            \* 13
    T!Return(10, <<>>),                                              \* 14
  T!And(0, << Res(4, 0), Res(10, 0) >>),                             \* 15
  T!Await(0, << Res(15, 0) >>),
  T!Free(0) >>

F == INSTANCE FirGenerator

(* More rounds than a processor has places for events; three kernels; a     *)
(* sample for each of four rounds or four samples in one launch.            *)
Filters ==
  << F!firSingleKernel(2, Wide[1]), F!fir16Kernel(2, 4, Wide), F!fir16Kernel(3, 1, Wide),
     F!fir16LimitedKernel(2, 3, Narrow), F!firMultiKernel(2, 1, Narrow) >>

(* The cycles example/FIR/0*/README.md give for these sizes: 16 for a pass  *)
(* of the single kernel; the samples and kernels - 1 to warm up; 4 for a    *)
(* sample but the last and 5 for a kernel; 4 for a sample, 2 before the     *)
(* first and 8 for each kernel behind it.                                   *)
FilterCycles ==
  << 2 * 16, 4 + 1, 1 + 2, 4 * (3 - 1) + 5 * 2, 4 * 4 + 2 + 8 >>

Texts == [n \in 1 .. 18 |-> Kernels(Kernel(n - 1))] \o << Banked >> \o Filters
         \o Nested \o Arrays

AllTables == { T!Numbered(n, Texts[n]) : n \in DOMAIN Texts }
Everything == AllTables

(* What a loop carries is first generated once, outside of all loops: the   *)
(* programs for which aheadOfLoop does not depend on rounding.              *)
ASSUME CarriedFromHost ==
  \A tables \in AllTables :
    \A v \in Range(tables.iterInitValue) : v # NoSignal => tables.defExs[v] = 1

(***************************************************************************)
(* When a kernel pair should end: a write takes its place in the pipe      *)
(* behind the one before it, its data are there length cycles later, and a *)
(* read starts as soon as they are and its processor is free.              *)
(***************************************************************************)
ReferenceEnd(k) ==
  LET placed[i \in 1 .. Rounds] ==
        IF i = 1 THEN 1
        ELSE Max({ 1 + (i - 1) * k.writer, placed[i - 1] + k.length })
      started[i \in 1 .. Rounds] ==
        IF i = 1 THEN placed[1] + k.length
        ELSE Max({ placed[i] + k.length, started[i - 1] + k.reader })
  IN  Max({ 1 + Rounds * k.writer, started[Rounds] + k.reader })

(***************************************************************************)
(* The simulated time of two kernels over a pipe is that of the reference, *)
(* whichever of them comes first in the hash table: a stalled read is      *)
(* retried often enough, and none is granted too early.  The two           *)
(* processors with DRAM banks do not disturb each other, and the filters   *)
(* take the cycles they are documented to take.  The elements of an array  *)
(* work at the same time, whether a launch is split or merged with a copy. *)
(***************************************************************************)
TimingPipe ==
  phase = "stopped" =>
    CASE P.id <= 18 -> time = ReferenceEnd(Kernel(P.id - 1))
      [] P.id = 19 -> time = 11
      [] P.id \in 20 .. 24 -> time = 1 + FilterCycles[P.id - 19]
      [] P.id \in 30 .. 34 -> time = 1 + ArrayCycles[P.id - 29]
      [] OTHER -> TRUE

(***************************************************************************)
(* The loops that parallel-to-equeue unrolls end with a barrier: a block   *)
(* of the array does not go past its await before every launch and copy    *)
(* that was started in it, in this and every earlier round, is over, with  *)
(* whatever passes have split, merged or moved the launches.               *)
(***************************************************************************)
Barrier ==
  P.id \in 30 .. 34 =>
    \A a, e \in Ops :
      kind(a) = "await" /\ kind(e) \in EventKinds /\ blockOf(e) = blockOf(a)
        => opMap[a] <= valueMap[doneOf(e)]
=============================================================================
