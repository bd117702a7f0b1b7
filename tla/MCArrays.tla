------------------------------ MODULE MCArrays ------------------------------
(***************************************************************************)
(* Runner on programs that the passes of EventPasses make of a loop nest   *)
(* that the processor of an accelerator runs, for an array of two          *)
(* processing elements, in the way of test/LoweringPipeline.               *)
(***************************************************************************)
EXTENDS MCNested

E == INSTANCE EventPasses

Named(comp_name, op) == T!Field(<< comp_name >>, op)
RF(what, b) == T!Access(what, b, "rf", 0, "no connection", 0)

ArrayRounds == 2
PEs    == 2
Work   == 2     \* cycles of the body

(* A processing element is a processor or a DMA engine, of that name.       *)
Accelerator(pe, shape) == <<
  T!Create(0), T!Components(0, << Named(pe, 1) >>),                  \* 1 2
  T!Splat(0, 2, shape),                                              \* 3
  T!Create(0),                                                       \* 4
  T!Components(0, << Named("pe_array", 3), Named("proc", 4) >>),     \* 5
  T!Start(0),                                                        \* 6
  T!Launch(0, 4, Res(6, 0)),                                         \* 7
    T!For(7, 1, <<>>) >>                                             \* 8

Body == << RF("read", 8), T!Other(8), T!Other(8) >>

OneNest(pe, shape, body) ==
  Accelerator(pe, shape) \o body
  \o << T!Yield(8, <<>>), T!Return(7, <<>>), T!Await(0, << Res(7, 0) >>), T!Free(0) >>

(* The loop over the array, and the one around it runs ArrayRounds times.   *)
RowNest(pe, body) ==
  E!ModifyLoop(E!AddLoop(OneNest(pe, << PEs >>, body), 8, PEs, 0, Len(body)),
               1 :> ArrayRounds)

PlaneOnce == E!AddLoop(OneNest("proc", << PEs, 1 >>, Body), 8, 1, 1, 1 + Len(Body))
PlaneNest == E!ModifyLoop(E!AddLoop(PlaneOnce, 9, PEs, 0, Len(Body)), 2 :> ArrayRounds)

PE(offsets, pe) == << [name |-> << "pe_array" >>, plus |-> offsets],
                      [name |-> << pe >>, plus |-> <<>>] >>

Accel == 5
ProcNest == RowNest("proc", Body)
Matched == E!StructureMatching(ProcNest, 9, 0, 3, Accel, PE(<< 0 >>, "proc"))
LaunchOf(p, b) == CHOOSE o \in DOMAIN p : p[o].kind = "launch" /\ p[o].block = b
CopyOf(p) == CHOOSE o \in DOMAIN p : p[o].kind = "memcpy"

InParallel(p) == E!ParallelToEQueue(E!MyParallelize(p, {1}), 9)

(* Without lower-extraction all elements are the one the vector is made of. *)
Shared == InParallel(Matched)

(* An array of two dimensions, whose launches are split.                    *)
PlaneMatched == E!StructureMatching(PlaneNest, 10, 0, 3, Accel, PE(<< 0, 0 >>, "proc"))
SplitNest    == E!SplitLaunch(PlaneMatched, LaunchOf(PlaneMatched, 10), 2)
SplitPlane   == E!ParallelToEQueue(E!MyParallelize(SplitNest, {1, 2}), 10)
Split        == E!LowerExtraction(SplitPlane)

(* A copy by the processor itself, merged into the launch.                  *)
CopyNest  == E!MemCopy(Matched, 9, 0, Accel, PE(<< 0 >>, "proc"), "no bank", 1)
MergeNest == E!MergeMemCopyLaunch(CopyNest, LaunchOf(CopyNest, 9), CopyOf(CopyNest),
                                  << RF("read", 0) >>, RF("write", 0))
MergeRow  == InParallel(MergeNest)
Merged    == E!LowerExtraction(MergeRow)

(* Copies by the DMA engine of the next element, which the last one has     *)
(* not; and as launches on the engine.                                      *)
Copied    == E!MemCopy(RowNest("dma", << >>), 9, 0, Accel, PE(<< 1 >>, "dma"), "no bank", 1)
CopiedRow == InParallel(Copied)
CopiedLowered == E!LowerExtraction(CopiedRow)
LaunchedNest  == E!MemCopyToLaunch(Copied, CopyOf(Copied), RF("read", 0), T!Other(0))
LaunchedRow   == InParallel(LaunchedNest)
CopiedLaunched == E!LowerExtraction(LaunchedRow)

Arrays == << Shared, Split, Merged, CopiedLowered, CopiedLaunched >>

(* All elements work at the same time, but for those that are one.          *)
ArrayCycles ==
  << ArrayRounds * PEs * Work, ArrayRounds * Work, ArrayRounds * Work,
     ArrayRounds, ArrayRounds >>
=============================================================================
