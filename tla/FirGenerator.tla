---------------------------- MODULE FirGenerator ----------------------------
(***************************************************************************)
(* The programs that the generators of example/FIR/FIR.cpp print, for any  *)
(* number of kernels and rounds.  Kernel i of a pipeline is a processor of *)
(* its own.  In a round it takes four words off input stream i, adds their *)
(* products to the partial sums it takes off the output stream of kernel   *)
(* i - 1, and puts those into its own output stream.  The host writes all  *)
(* input before the first round, launches every kernel in every round, and *)
(* awaits only the last launch of the last kernel.                         *)
(*                                                                         *)
(* A pipeline is a record F:                                               *)
(*   kernels, rounds, inner    inner: samples of four words in a launch    *)
(*   before, after             mac4 operations around the read of an input *)
(*   stream                    the connections, input streams first        *)
(* Allocations and look-ups of buffers, which are free and only name the   *)
(* memories, are left out; the registers are one bank that costs nothing.  *)
(***************************************************************************)
EXTENDS ProgramText

Word  == 32
Words == 4 * Word   \* the bits of ArrayRef<int64_t>{4}

Register(what, b) == Access(what, b, "rf", 0, Unconnected, 0)
Streamed(what, b, connection, bits) == Access(what, b, "rf", 0, connection, bits)
Mac(n, b) == [i \in 1 .. n |-> Other(b)]
Repeat(n, ops) == FlattenSeq([i \in 1 .. n |-> ops])

ifmapStream(F, i) == F.stream[i + 1]
ofmapStream(F, i) == F.stream[F.kernels + i + 1]

-----------------------------------------------------------------------------
(* Kernel i in one round: its body, for a launch at position w.             *)
Sample(F, i, w) ==
  (IF i = 0 THEN <<>>
   ELSE << Streamed("read", w, ofmapStream(F, i - 1), Words), Register("write", w) >>)
  \o Mac(F.before, w)
  \o << Streamed("read", w, ifmapStream(F, i), Words), Register("write", w) >>
  \o Mac(F.after, w)
  \o << Register("read", w), Streamed("write", w, ofmapStream(F, i), Words) >>

LaunchLength(F, i) == 2 + F.inner * Len(Sample(F, i, 0))

(* Where things are: the input writes, the processors, the set-up of three  *)
(* operations for each kernel behind the start signal, then the rounds.     *)
ProcOf(F, i)    == F.kernels + i + 1
Signal(F)       == 2 * F.kernels + 1
SetupAt(F, i)   == Signal(F) + 3 * i + 1
LaunchedIn(F, i) == FoldLeft(LAMBDA at, j : at + LaunchLength(F, j - 1), 1,
                             [j \in 1 .. i |-> j])
RoundAt(F, k)   == SetupAt(F, F.kernels) + (k - 1) * LaunchedIn(F, F.kernels)
LaunchAt(F, k, i) == RoundAt(F, k) + LaunchedIn(F, i)

Setup(F) ==
  [i \in 1 .. F.kernels |->
     Streamed("write", 0, ifmapStream(F, i - 1), F.rounds * F.inner * Words)]
  \o [i \in 1 .. F.kernels |-> Create(0)]
  \o << Start(0) >>
  \o FlattenSeq([i \in 1 .. F.kernels |->
       LET w == SetupAt(F, i - 1)
       IN  << Launch(0, ProcOf(F, i - 1), Res(Signal(F), 0)), Return(w, <<>>),
              Await(0, << Res(w, 0) >>) >>])

Round(F, k) ==
  << Start(0) >>
  \o FlattenSeq([i \in 1 .. F.kernels |->
       LET w == LaunchAt(F, k, i - 1)
       IN  << Launch(0, ProcOf(F, i - 1), Res(RoundAt(F, k), 0)) >>
           \o Repeat(F.inner, Sample(F, i - 1, w))
           \o << Return(w, <<>>) >>])

Pipeline(F) ==
  Setup(F)
  \o FlattenSeq([k \in 1 .. F.rounds |-> Round(F, k)])
  \o << Await(0, << Res(LaunchAt(F, F.rounds, F.kernels - 1), 0) >>), Free(0) >>

-----------------------------------------------------------------------------
(* One kernel alone: a pass computes four outputs in 16 cycles and reads    *)
(* four words behind its twelfth.                                           *)
firSingleKernel(passes, stream) ==
  << Create(0), Streamed("write", 0, stream, passes * Words), Start(0),
     Launch(0, 1, Res(3, 0)), Return(4, <<>>), Await(0, << Res(4, 0) >>),
     Launch(0, 1, Res(3, 0)) >>
  \o Repeat(passes,
            Mac(12, 7) \o << Streamed("read", 7, stream, Words), Register("write", 7) >>
              \o Mac(4, 7))
  \o << Return(7, <<>>), Await(0, << Res(7, 0) >>), Free(0) >>

(* A kernel for every two coefficients: one mac4 a sample.  With streams of *)
(* 1024 bits a cycle (fir16Kernel) or of 32 (fir16LimitedKernel).           *)
fir16Pipeline(kernels, rounds, stream) ==
  [kernels |-> kernels, rounds |-> rounds, inner |-> 1, before |-> 0, after |-> 1,
   stream |-> stream]

fir16Kernel(kernels, rounds, wide) == Pipeline(fir16Pipeline(kernels, rounds, wide))
fir16LimitedKernel(kernels, rounds, narrow) ==
  Pipeline(fir16Pipeline(kernels, rounds, narrow))

(* A quarter of the kernels with four times the work, four samples a launch *)
(* over narrow streams.                                                     *)
firMultiKernel(kernels, rounds, narrow) ==
  Pipeline([kernels |-> kernels, rounds |-> rounds, inner |-> 4, before |-> 2, after |-> 2,
            stream |-> narrow])
=============================================================================
