----------------------------- MODULE MCStraight -----------------------------
(***************************************************************************)
(* Runner on every straight-line host program of three asynchronous        *)
(* operations: launches on two processors, copies on a DMA and control     *)
(* operations, each waiting for any signal before it; then an await on the *)
(* last signal.                                                            *)
(***************************************************************************)
EXTENDS RunnerProperties

CONSTANT Length      \* how many asynchronous operations

T == INSTANCE ProgramText

NoSignal    == T!Undefined
NoBandwidth == T!NoBandwidth

(***************************************************************************)
(* The programs are numbered: operation i of program n is of one of four   *)
(* kinds and depends on one of the i signals before it.                    *)
(***************************************************************************)
Whats == <<"p1", "p2", "dma", "and">>

Place == LET place[i \in 1 .. Length + 1] ==
               IF i = 1 THEN 1 ELSE place[i - 1] * 4 * (i - 1)
         IN  place

Choice(n, i) ==
  LET digit == (n \div Place[i]) % (4 * i)
  IN  [what |-> Whats[(digit % 4) + 1], dep |-> (digit \div 4) + 1]

(* acc: the program so far, and the signals it has defined. *)
AddChoice(acc, c) ==
  LET o     == Len(acc.program) + 1
      start == acc.signals[c.dep]
      code  == CASE c.what = "p1" -> << T!Launch(0, 1, start), T!Other(o),
                                        T!Return(o, <<>>) >>
                 [] c.what = "p2" -> << T!Launch(0, 2, start), T!Other(o),
                                        T!Other(o), T!Return(o, <<>>) >>
                 [] c.what = "dma" -> << T!Copy(0, 3, start, "dma", 3) >>
                 [] c.what = "and" -> << T!And(0, <<start, acc.signals[Len(acc.signals)]>>) >>
  IN  [program |-> acc.program \o code, signals |-> Append(acc.signals, T!Res(o, 0))]

Prelude ==
  [program |-> << T!Create(0), T!Create(0), T!Create(0),
                  T!Start(0) >>,
   signals |-> << T!Res(4, 0) >>]

ProgramOf(n) ==
  LET upTo[i \in 0 .. Length] ==
        IF i = 0 THEN Prelude ELSE AddChoice(upTo[i - 1], Choice(n, i))
      body == upTo[Length]
  IN  body.program \o
        << T!Await(0, <<body.signals[Length + 1]>>),
           T!Free(0) >>

(* TLC evaluates a definition once when it is not itself substituted for a *)
(* constant.                                                               *)
StraightTables == { T!Numbered(n, ProgramOf(n)) : n \in 0 .. Place[Length + 1] - 1 }
Straight == StraightTables

(***************************************************************************)
(* The time each signal should come at, computed from the program alone: a *)
(* device runs its events one after the other in program order, each as    *)
(* soon as its start signal is there.                                      *)
(***************************************************************************)
Duration(what) == CASE what = "p1" -> 1 [] what = "p2" -> 2 [] what = "dma" -> 3

Max0(S) == IF S = {} THEN 0 ELSE Max(S)

ReferenceTimes(n) ==
  LET c    == [i \in 1 .. Length |-> Choice(n, i)]
      done[i \in 0 .. Length] ==
        IF i = 0 THEN 1
        ELSE LET ready == done[c[i].dep - 1]
                 free  == Max0({ done[j] : j \in { k \in 1 .. i - 1 : c[k].what = c[i].what } })
             IN  IF c[i].what = "and" THEN Max({ready, done[i - 1]})
                 ELSE Max({ready, free}) + Duration(c[i].what)
  IN  done

(***************************************************************************)
(* The simulated time of a program is that of the reference schedule,      *)
(* whatever the order of the hash table.                                   *)
(***************************************************************************)
TimingExact ==
  phase = "stopped" => time = Max({ ReferenceTimes(P.id)[i] : i \in 0 .. Length })
=============================================================================
