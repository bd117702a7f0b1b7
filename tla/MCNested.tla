------------------------------ MODULE MCNested ------------------------------
(***************************************************************************)
(* Runner on programs in the style of test/EQueue and example: launches in *)
(* launches, loops on the host and on a processor, loops in loops, signals *)
(* passed into and out of a launch, components looked up by name.          *)
(***************************************************************************)
EXTENDS RunnerProperties

T == INSTANCE ProgramText

NoSignal == T!Undefined

Res(o, i) == T!Res(o, i)
Arg(o, i) == T!Arg(o, i)

(* A processor starts a copy and another launch and waits for the copy; the *)
(* host joins its own launch with the one the processor has returned.       *)
Nest == <<
  T!Create(0), T!Create(0), T!Create(0),                             \* 1 2 3
  T!Components(0, << T!Field("p", 2), T!Field("d", 3) >>),           \* 4
  T!Start(0),                                                        \* 5
  T!LaunchWith(0, 1, Res(5, 0), << Res(5, 0) >>, 1),                 \* 6
    T!GetComponent(6, 4, "d"), T!GetComponent(6, 4, "p"),            \* 7 8
    T!Copy(6, 7, Arg(6, 0), "dma", 2),                               \* 9
    T!Launch(6, 8, Res(9, 0)),                                       \* 10
      T!Other(10), T!Return(10, <<>>),                               \* 11 12
    T!Await(6, << Res(9, 0) >>),                                     \* 13
    T!Return(6, << Res(10, 0) >>),                                   \* 14
  T!And(0, << Res(6, 0), Res(6, 1) >>),                              \* 15
  T!Launch(0, 1, Res(15, 0)),                                        \* 16
    T!Other(16), T!Return(16, <<>>),                                 \* 17 18
  T!Await(0, << Res(16, 0) >>),                                      \* 19
  T!Free(0) >>

(* A component that only one of two has, as at the border of an array of    *)
(* processors: the events for the missing one are done at once.             *)
Border == <<
  T!Create(0), T!Create(0),                                          \* 1 2
  T!Components(0, << T!Field("p", 1) >>),                            \* 3
  T!AddComponents(0, 3, << T!Field("d", 2) >>),                      \* 4
  T!GetComponent(0, 3, "d"), T!GetComponent(0, 3, "q"),              \* 5 6
  T!Start(0),                                                        \* 7
  T!Copy(0, 5, Res(7, 0), "dma", 1),                                 \* 8
  T!Launch(0, 6, Res(8, 0)),                                         \* 9
    T!Other(9), T!Return(9, <<>>),                                   \* 10 11
  T!Copy(0, 6, Res(9, 0), "no bank", 1),                             \* 12
  T!Launch(0, 1, Res(12, 0)),                                        \* 13
    T!Other(13), T!Return(13, <<>>),                                 \* 14 15
  T!Await(0, << Res(13, 0) >>),                                      \* 16
  T!Free(0) >>

(* The host loops and never waits, so that the events of both iterations    *)
(* fill the queues; the copy has two signals to wait for.                   *)
HostLoop == <<
  T!Create(0), T!Create(0), T!Create(0), T!Start(0),                 \* 1 2 3 4
  T!For(0, 2, <<>>),                                                 \* 5
    T!Launch(5, 1, Res(4, 0)),                                       \* 6
      T!Other(6), T!Other(6), T!Return(6, <<>>),                     \* 7 8 9
    T!And(5, << Res(6, 0), Res(4, 0) >>),                            \* 10
    T!Copy(5, 3, Res(10, 0), "dma", 3),                              \* 11
    T!Launch(5, 2, Res(11, 0)),                                      \* 12
      T!Other(12), T!Return(12, <<>>),                               \* 13 14
    T!Launch(5, 1, Res(4, 0)),                                       \* 15
      T!Return(15, <<>>),                                            \* 16
    T!Yield(5, <<>>),                                                \* 17
  T!Launch(0, 1, Res(4, 0)),                                         \* 18
    T!Return(18, <<>>),                                              \* 19
  T!Await(0, << Res(18, 0) >>),                                      \* 20
  T!Free(0) >>

(* Two processors loop, each with copies over the same DMA engine that it   *)
(* waits for, one of them in a loop in a loop.                              *)
DeviceLoops == <<
  T!Create(0), T!Create(0), T!Create(0), T!Start(0),                 \* 1 2 3 4
  T!Launch(0, 1, Res(4, 0)),                                         \* 5
    T!For(5, 2, <<>>),                                               \* 6
      T!Start(6),                                                    \* 7
      T!Copy(6, 3, Res(7, 0), "dma", 1),                             \* 8
      T!For(6, 2, <<>>),                                             \* 9
        T!Copy(9, 3, Res(8, 0), "dma", 2),                           \* 10
        T!Await(9, << Res(10, 0) >>),                                \* 11
        T!Yield(9, <<>>),                                            \* 12
      T!Yield(6, <<>>),                                              \* 13
    T!Return(5, <<>>),                                               \* 14
  T!Launch(0, 2, Res(4, 0)),                                         \* 15
    T!For(15, 3, <<>>),                                              \* 16
      T!Start(16),                                                   \* 17
      T!Copy(16, 3, Res(17, 0), "dma", 1),                           \* 18
      T!Other(16),                                                   \* 19
      T!Await(16, << Res(18, 0) >>),                                 \* 20
      T!Yield(16, <<>>),                                             \* 21
    T!Return(15, <<>>),                                              \* 22
  T!And(0, << Res(5, 0), Res(15, 0) >>),                             \* 23
  T!Await(0, << Res(23, 0) >>),                                      \* 24
  T!Free(0) >>

(* A signal carried round a loop: each copy starts on the launch before it. *)
Carried == <<
  T!Create(0), T!Create(0), T!Start(0),                              \* 1 2 3
  T!For(0, 2, << Res(3, 0) >>),                                      \* 4
    T!Copy(4, 2, Arg(4, 0), "dma", 2),                               \* 5
    T!Launch(4, 1, Res(5, 0)),                                       \* 6
      T!Other(6), T!Return(6, <<>>),                                 \* 7 8
    T!Yield(4, << Res(6, 0) >>),                                     \* 9
  T!Await(0, << Res(4, 0) >>),                                       \* 10
  T!Free(0) >>

Nested == << Nest, Border, HostLoop, DeviceLoops, Carried >>
=============================================================================
