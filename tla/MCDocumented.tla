---------------------------- MODULE MCDocumented ----------------------------
(***************************************************************************)
(* Small programs on which the simulator does not do what mydoc/Dialect.md *)
(* says of the dialect.                                                    *)
(***************************************************************************)
EXTENDS RunnerProperties

T == INSTANCE ProgramText

NoSignal    == T!Undefined
NoBandwidth == T!NoBandwidth

Res(o, i) == T!Res(o, i)
Arg(o, i) == T!Arg(o, i)

(* Signal "dep" is carried round the loop from the launch to the next copy, *)
(* and the host waits for the last one: test/EQueue/gpu.mlir has this form. *)
Carried == { T!Tables(<<
  T!Create(0), T!Create(0), T!Start(0),                              \* 1 2 3
  T!For(0, 2, << Res(3, 0) >>),                                      \* 4
    T!Copy(4, 2, Arg(4, 0), "dma", 2),                               \* 5
    T!Launch(4, 1, Res(5, 0)),                                       \* 6
      T!Other(6), T!Other(6), T!Other(6), T!Return(6, <<>>),         \* 7 8 9 10
    T!Yield(4, << Res(6, 0) >>),                                     \* 11
  T!Await(0, << Res(4, 0) >>),                                       \* 12
  T!Free(0) >>) }

(* A processor starts two copies on a DMA engine whose queue has one place, *)
(* while another launch is in its own queue.                                *)
Full == { T!Tables(<<
  T!Create(0), T!Create(0), T!Start(0),                              \* 1 2 3
  T!Launch(0, 1, Res(3, 0)),                                         \* 4
    T!Copy(4, 2, Res(3, 0), "dma", 1),                               \* 5
    T!Copy(4, 2, Res(3, 0), "dma", 1),                               \* 6
    T!Return(4, <<>>),                                               \* 7
  T!Launch(0, 1, Res(3, 0)),                                         \* 8
    T!Other(8), T!Return(8, <<>>),                                   \* 9 10
  T!Free(0) >>) }

-----------------------------------------------------------------------------
(***************************************************************************)
(* An await blocks until the events its signals represent have finished:   *)
(* when a loop gives the signal, until they have in every iteration.       *)
(***************************************************************************)
AwaitedFinished ==
  \A o \in Ops : kind(o) = "await" =>
    \A i \in DOMAIN P.ins[o] :
      LET id == valueId(P.ins[o][i])
      IN  opMap[o] * P.defExs[id] <= P.blockExs[blockOf(o)] * valueMap[id]
=============================================================================
