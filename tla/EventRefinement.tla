--------------------------- MODULE EventRefinement ---------------------------
(***************************************************************************)
(* The simulator implements EventSemantics.  The abstract program is read  *)
(* off the tables; the abstract state off the queues and counts:           *)
(*   - an operation has begun when it was counted in opMap, or when it is  *)
(*     an event that its launcher has taken and not yet scheduled;         *)
(*   - it was issued when it has begun or is in a queue.                   *)
(***************************************************************************)
EXTENDS RunnerProperties

(* The launch whose body operation o of program p is in. *)
bodyOf(p, o) ==
  LET launchOf[b \in OpsIn(p) \cup {Host}] ==
        IF b = Host \/ p.kind[b] = "launch" THEN b ELSE launchOf[p.block[b]]
  IN  launchOf[p.block[o]]

GraphOf(p) ==
  LET ofKind(kinds) == { o \in OpsIn(p) : p.kind[o] \in kinds }
      ops     == ofKind(AsyncKinds \cup {"await"})
      async   == ofKind(AsyncKinds)
      runs(b) == p.blockExs[b]
      ids(vs) == { p.valueIds[v] : v \in vs }
      waited(o) == IF p.kind[o] = "launch" THEN {p.ins[o][1]} ELSE Range(p.ins[o])
  IN [ events   |-> ofKind(EventKinds),
       controls |-> ofKind(ControlKinds),
       awaits   |-> ofKind({"await"}),
       devices  |-> ofKind({"create"}),
       device   |-> [o \in ofKind(EventKinds) |-> p.target[o]],
       signal   |-> [o \in async |-> p.valueIds[p.results[o][1]]],
       results  |-> [o \in async |-> [i \in DOMAIN p.results[o] |->
                                        p.valueIds[p.results[o][i]]]],
       block    |-> [o \in ops |-> p.block[o]],
       body     |-> [o \in ops |-> bodyOf(p, o)],
       runs     |-> [o \in ops |-> runs(p.block[o])],
       perBody  |-> [o \in ops |-> runs(p.block[o]) \div runs(bodyOf(p, o))],
       signalRuns |-> p.defExs,
       needs    |-> [o \in ops |-> { s \in ids(waited(o)) :
                       /\ p.iterInitValue[s] = NoValue
                       /\ runs(p.block[o]) % p.defExs[s] = 0 }] ]

countedOps == { o \in Ops : kind(o) \in AsyncKinds \cup {"await"} }

acquired(o) == kind(o) \in EventKinds /\ \E l \in Launchers : opEntry[l] = o /\ ~ is_started(l)

begunOf(o) == opMap[o] + IF acquired(o) THEN 1 ELSE 0

queued(o) ==
  LET q == IF kind(o) \in ControlKinds THEN controlQueue
           ELSE IF kind(o) \in EventKinds /\ P.target[o] \in Launchers
             THEN eventQueue[P.target[o]]
           ELSE <<>>
  IN  Cardinality({ i \in DOMAIN q : q[i] = o })

Abstract ==
  INSTANCE EventSemantics WITH
    QueueSize <- EventQueueSize,
    Function  <- Host,
    graph     <- GraphOf(prog),
    present   <- Existing,
    issued    <- [o \in countedOps |-> begunOf(o) + queued(o)],
    begun     <- [o \in countedOps |-> begunOf(o)],
    queue     <- [d \in Launchers \ {Host} |-> eventQueue[d]],
    generated <- valueMap

(***************************************************************************)
(* Whatever the order of the hash table, the queues and the jumps of time: *)
(* every step of the simulator is a step of EventSemantics or changes      *)
(* nothing an event could notice.                                          *)
(***************************************************************************)
ImplementsEvents == Abstract!Spec
=============================================================================
