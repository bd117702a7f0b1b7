----------------------------- MODULE OrderProofs -----------------------------
(***************************************************************************)
(* The order in which launchers take operations, for every program and     *)
(* every order of the hash table.  A launcher leaves no operation of its   *)
(* block behind, and counts of what was begun and what is over agree.      *)
(***************************************************************************)
EXTENDS RunnerProofs

(* The step that BlockRunsToEnd asks for.                                   *)
RunsToEnd ==
  \A l \in Launchers : nextIter[l] # 0 /\ opEntry'[l] # opEntry[l] /\ opEntry'[l] # 0
                         => kind(opEntry'[l]) # "launch"

-----------------------------------------------------------------------------
(***************************************************************************)
(* After its call of setOpEntry a launcher, other than the host, has an    *)
(* operation or is at the end of its block.                                *)
(***************************************************************************)
launcherAt(i) == IF i = 0 THEN Host ELSE order[i]

walked(l) == l # Host /\ is_idle(l) => nextIter[l] = 0

WalkedSoFar == phase = "set" => \A i \in 0 .. Len(order) : i < pos => walked(launcherAt(i))

AllWalked ==
  phase \in {"check", "control"} => \A l \in {Host} \cup Existing : walked(l)

NoBlockYet == \A l \in Launchers : l \notin {Host} \cup Existing => nextIter[l] = 0

WalkInv == TypeOK /\ WalkedSoFar /\ AllWalked /\ NoBlockYet

LEMMA WalkInit == Init => WalkInv
<1> SUFFICES ASSUME Init PROVE WalkInv
  OBVIOUS
<1>1. phase = "set" /\ pos = 0 /\ order = <<>> /\ Len(order) = 0
  BY EmptySeq DEF Init
<1>2. \A l \in Launchers : l # Host => nextIter[l] = 0
  BY DEF Init
<1> QED
  BY <1>1, <1>2, InitType DEF WalkInv, WalkedSoFar, AllWalked, NoBlockYet

(* The call of setOpEntry on the current launcher is over.                  *)
LEMMA WalkedOn ==
  ASSUME WalkInv, TypeOK', phase = "set", prog' = prog, order' = order, Proceed("check"),
         \A l \in Launchers : walked(l) => walked(l)',
         Current # Host /\ opEntry'[Current] = 0 => nextIter'[Current] = 0,
         \A l \in Launchers : l # Current => nextIter'[l] = nextIter[l]
  PROVE  WalkInv'
<1>1. /\ Len(order) \in Nat /\ pos \in 0 .. Len(order) /\ Launchers' = Launchers
      /\ DOMAIN order = 1 .. Len(order) /\ \A i \in 1 .. Len(order) : order[i] \in Launchers
  BY Rigid, LenProperties, ElementOfSeq DEF WalkInv, TypeOK, ControlTypeOK
<1>2. Current = launcherAt(pos)
  BY DEF Current, launcherAt
<1>3. \A i \in 0 .. Len(order) : launcherAt(i) \in Launchers
  BY <1>1 DEF launcherAt, Launchers
<1>4. \A i \in 0 .. Len(order) : i <= pos => walked(launcherAt(i))'
  <2> SUFFICES ASSUME NEW i \in 0 .. Len(order), i <= pos PROVE walked(launcherAt(i))'
    OBVIOUS
  <2>1. launcherAt(i)' = launcherAt(i)
    BY DEF launcherAt
  <2>2. CASE i = pos
    BY <1>2, <2>1, <2>2 DEF walked, is_idle
  <2>3. CASE i < pos
    <3>1. walked(launcherAt(i))
      BY <2>3 DEF WalkInv, WalkedSoFar
    <3>2. PICK l \in Launchers : l = launcherAt(i)
      BY <1>3
    <3>3. walked(l)'
      BY <3>1, <3>2
    <3> QED
      BY <2>1, <3>2, <3>3 DEF walked, is_idle
  <2> QED
    BY <1>1, <2>2, <2>3
<1>5. WalkedSoFar'
  BY <1>1, <1>4 DEF Proceed, WalkedSoFar
<1>6. AllWalked'
  <2> SUFFICES ASSUME phase' \in {"check", "control"}, NEW l \in ({Host} \cup Existing)'
               PROVE  walked(l)'
    BY DEF AllWalked
  <2>1. pos = Len(order)
    <3>1. ~ (pos < Len(order))
      BY DEF Proceed
    <3>2. pos \in 0 .. Len(order) /\ Len(order) \in Nat
      BY <1>1
    <3> QED
      BY <3>1, <3>2
  <2>2. PICK i \in 0 .. Len(order) : l = launcherAt(i) /\ launcherAt(i)' = launcherAt(i)
    BY <1>1 DEF Existing, launcherAt
  <2>3. walked(launcherAt(i))'
    BY <1>1, <1>4, <2>1
  <2>4. l # Host /\ opEntry'[l] = 0 => nextIter'[l] = 0
    BY <2>2, <2>3 DEF walked, is_idle
  <2> QED
    BY <2>4 DEF walked, is_idle
<1>7. NoBlockYet'
  BY <1>1, CurrentExists DEF WalkInv, NoBlockYet, Existing
<1> QED
  BY <1>5, <1>6, <1>7 DEF WalkInv

(* A launcher that is still walking has not been passed.                    *)
LEMMA WalkingOn ==
  ASSUME WalkInv, TypeOK', NEW o \in Ops, SetOpEntry(o), prog' = prog, order' = order,
         UNCHANGED <<phase, pos, opEntry>>,
         nextIter' = [nextIter EXCEPT ![Current] = P.next[o]]
  PROVE  WalkInv'
<1>1. /\ Len(order) \in Nat /\ Launchers' = Launchers /\ Current \in {Host} \cup Existing
      /\ nextIter \in [Launchers -> Ops \cup {0}] /\ phase = "set"
      /\ is_idle(Current) /\ nextIter[Current] # 0
      /\ DOMAIN order = 1 .. Len(order) /\ \A i \in 1 .. Len(order) : order[i] \in Launchers
  BY Rigid, LenProperties, ElementOfSeq, CurrentExists
  DEF WalkInv, TypeOK, ControlTypeOK, LauncherTypeOK, SetOpEntry
<1>2. WalkedSoFar'
  <2> SUFFICES ASSUME NEW i \in 0 .. Len(order), i < pos PROVE walked(launcherAt(i))'
    BY DEF WalkedSoFar
  <2>1. launcherAt(i)' = launcherAt(i) /\ launcherAt(i) \in Launchers
    BY <1>1 DEF launcherAt, Launchers
  <2>2. walked(launcherAt(i))
    BY <1>1 DEF WalkInv, WalkedSoFar
  <2>3. launcherAt(i) # Host => launcherAt(i) # Current
    BY <1>1, <2>2 DEF walked
  <2> QED
    BY <1>1, <2>1, <2>2, <2>3 DEF walked, is_idle
<1>3. NoBlockYet'
  BY <1>1 DEF WalkInv, NoBlockYet, Existing
<1> QED
  BY <1>1, <1>2, <1>3 DEF WalkInv, AllWalked

LEMMA WalkNext ==
  ASSUME WalkInv, [Next]_vars, [hostStalls]_vars
  PROVE  WalkInv'
<1>1. TypeOK' /\ TypeOK
  BY NextType DEF WalkInv
<1>2. CASE NothingToSet
  BY <1>1, <1>2, WalkedOn
  DEF NothingToSet, nothingElse, launcher, walked, is_idle
<1>3. ASSUME NEW o \in Ops, StallOnFullQueue(o), Current = Host
       PROVE  WalkInv'
  BY <1>1, <1>3, WalkedOn
  DEF StallOnFullQueue, SetOpEntry, nothingElse, launcher, walked, is_idle
<1>4. ASSUME NEW o \in Ops, PushControl(o) \/ SkipMissingLauncher(o) \/ PushEvent(o)
      PROVE  WalkInv'
  BY <1>1, <1>4, WalkingOn
  DEF PushControl, SkipMissingLauncher, PushEvent, nothingElse
<1>5. ASSUME NEW o \in Ops, LoadOp(o)
      PROVE  WalkInv'
  <2>1. /\ phase = "set" /\ prog' = prog /\ order' = order /\ Proceed("check")
        /\ opEntry' = [opEntry EXCEPT ![Current] = o]
        /\ \E n : nextIter' = [nextIter EXCEPT ![Current] = n]
    BY <1>5 DEF LoadOp, nothingElse, SetOpEntry
  <2>2. /\ opEntry \in [Launchers -> Ops \cup {0}] /\ nextIter \in [Launchers -> Ops \cup {0}]
        /\ Current \in Launchers /\ o # 0
    BY <1>1, CurrentType, ProgramFacts
    DEF TypeOK, LauncherTypeOK, ControlTypeOK, ProgramTypeOK, Ops, Host
  <2>3. \A l \in Launchers : walked(l) => walked(l)'
    BY <2>1, <2>2 DEF walked, is_idle
  <2>4. opEntry'[Current] # 0
    BY <2>1, <2>2
  <2> QED
    BY <1>1, <2>1, <2>2, <2>3, <2>4, WalkedOn
<1>6. ASSUME NEW l \in Launchers, TakeEvent(l)
      PROVE  WalkInv'
  <2>1. /\ phase' = "control" /\ phase = "check" /\ prog' = prog /\ order' = order
        /\ l = Current
        /\ opEntry' = [opEntry EXCEPT ![l] = Head(eventQueue[l])]
        /\ nextIter' = nextIter \/ \E n : nextIter' = [nextIter EXCEPT ![l] = n]
    BY <1>6 DEF TakeEvent
  <2>2. /\ opEntry \in [Launchers -> Ops \cup {0}] /\ nextIter \in [Launchers -> Ops \cup {0}]
        /\ Head(eventQueue[l]) # 0
    <3>1. eventQueue[l] \in Seq(Ops) /\ eventQueue[l] # <<>>
      BY <1>1, <1>6 DEF TakeEvent, headReady, TypeOK, QueueTypeOK
    <3>2. Head(eventQueue[l]) \in Ops
      BY <3>1, HeadTailProperties
    <3> QED
      BY <1>1, <3>2, ProgramFacts
      DEF TypeOK, LauncherTypeOK, ControlTypeOK, ProgramTypeOK, Ops, Host
  <2>3. {Host} \cup Existing \subseteq Launchers
    BY <1>1, ExistingType DEF TypeOK, Launchers
  <2>4. AllWalked'
    BY <2>1, <2>2, <2>3, Rigid DEF WalkInv, AllWalked, Existing, walked, is_idle
  <2>5. NoBlockYet'
    BY <1>1, <2>1, <2>2, Rigid, CurrentExists DEF WalkInv, NoBlockYet, Existing
  <2> QED
    BY <1>1, <2>1, <2>4, <2>5 DEF WalkInv, WalkedSoFar
<1>7. ASSUME NEW l \in Launchers, FinishOp(l)
      PROVE  WalkInv'
  <2>1. /\ phase = "finish" /\ prog' = prog /\ nextIter' = nextIter
        /\ phase' = "set" => pos' = 0
        /\ phase' \in {"set", "finish"}
    BY <1>7 DEF FinishOp
  <2>2. Existing \subseteq Existing'
    <3>1. CASE order' \in orders(Existing \cup {opEntry[l]})
      BY <3>1 DEF orders, Existing, Range
    <3>2. CASE order' = order
      BY <3>2 DEF Existing
    <3> QED
      BY <1>7, <3>1, <3>2 DEF FinishOp
  <2>3. NoBlockYet'
    BY <2>1, <2>2, Rigid DEF WalkInv, NoBlockYet
  <2>4. \A i \in 0 .. Len(order') : ~ (i < 0)
    BY <1>1, LenProperties DEF TypeOK, ControlTypeOK
  <2> QED
    BY <1>1, <2>1, <2>3, <2>4 DEF WalkInv, WalkedSoFar, AllWalked
<1>8. ASSUME prog' = prog, order' = order, UNCHANGED <<opEntry, nextIter>>,
             phase' = "set" => pos' = 0 \/ (phase = "set" /\ pos' = pos),
             phase' \in {"check", "control"} => phase \in {"check", "control"}
      PROVE  WalkInv'
  <2>1. Len(order) \in Nat
    BY <1>1, LenProperties DEF TypeOK, ControlTypeOK
  <2>2. \A i \in 0 .. Len(order) : /\ launcherAt(i)' = launcherAt(i) /\ ~ (i < 0)
                                   /\ walked(launcherAt(i))' <=> walked(launcherAt(i))
    BY <1>8, <2>1 DEF launcherAt, walked, is_idle
  <2>3. WalkedSoFar'
    BY <1>8, <2>2 DEF WalkInv, WalkedSoFar
  <2>4. AllWalked' /\ NoBlockYet'
    BY <1>8, Rigid DEF WalkInv, AllWalked, NoBlockYet, Existing, walked, is_idle
  <2> QED
    BY <1>1, <2>3, <2>4 DEF WalkInv
<1>9. ASSUME NEW l \in Launchers, \/ TakeNoEvent(l) \/ NothingToSchedule(l) \/ StallRead(l)
                                  \/ StartOp(l) \/ NothingToFinish(l) \/ LinkSignal(l)
      PROVE  WalkInv'
  BY <1>8, <1>9 DEF TakeNoEvent, NothingToSchedule, StallRead, StartOp, NothingToFinish,
                    LinkSignal, nothingElse, launcher, Proceed
<1>10. ASSUME NEW i \in DOMAIN controlQueue, FireControl(i)
      PROVE  WalkInv'
  BY <1>8, <1>10 DEF FireControl, launcher
<1>11. CASE ControlQueueWaits \/ EndCondition \/ AdvanceTime \/ UNCHANGED vars
  BY <1>8, <1>11 DEF ControlQueueWaits, EndCondition, AdvanceTime, vars, launcher, control
<1> QED
  BY <1>2, <1>4, <1>5, <1>6, <1>7, <1>9, <1>10, <1>11, <1>3 DEF Next, Stopped, hostStalls

(* What a launcher takes is an event for it, and it exists.                 *)
LEMMA TakenFact ==
  ASSUME EventInv, NEW l \in Launchers, TakeEvent(l)
  PROVE  LET o == Head(eventQueue[l])
         IN  /\ o \in Ops /\ kind(o) \in EventKinds /\ P.target[o] = l /\ l \in Existing
<1>1. eventQueue[l] \in Seq(Ops) /\ eventQueue[l] # <<>>
  BY DEF TakeEvent, headReady, EventInv, TypeOK, QueueTypeOK
<1>2. Head(eventQueue[l]) = eventQueue[l][1] /\ Head(eventQueue[l]) \in Ops
      /\ 1 \in DOMAIN eventQueue[l]
  BY <1>1, HeadTailProperties, LenProperties, EmptySeq
<1> QED
  BY <1>2 DEF EventInv, Routed

(* A launch is only taken by a launcher that has nothing left to run.       *)
LEMMA EntersAtEnd ==
  ASSUME WalkInv, EventInv, [Next]_vars
  PROVE  [RunsToEnd]_vars
<1> SUFFICES ASSUME Next, NEW l \in Launchers, nextIter[l] # 0,
                    opEntry'[l] # opEntry[l], opEntry'[l] # 0
             PROVE  kind(opEntry'[l]) # "launch"
  BY DEF vars, launcher, RunsToEnd
<1>1. TypeOK /\ opEntry \in [Launchers -> Ops \cup {0}]
  BY DEF WalkInv, TypeOK, LauncherTypeOK
<1>2. ASSUME NEW o \in Ops, LoadOp(o)
      PROVE  kind(opEntry'[l]) # "launch"
  BY <1>1, <1>2 DEF LoadOp, AsyncKinds, EventKinds
<1>3. ASSUME NEW m \in Launchers, TakeEvent(m)
      PROVE  kind(opEntry'[l]) # "launch"
  <2>1. opEntry' = [opEntry EXCEPT ![m] = Head(eventQueue[m])] /\ m = Current
        /\ phase = "check" /\ is_idle(m)
    BY <1>3 DEF TakeEvent, headReady
  <2>2. l = m
    BY <1>1, <2>1
  <2>3. l \in Existing
    BY <1>3, <2>2, TakenFact
  <2>4. l # Host
    BY <1>1, <2>3, ExistingType DEF TypeOK
  <2> QED
    BY <2>1, <2>2, <2>3, <2>4 DEF WalkInv, AllWalked, walked
<1>4. ASSUME NEW m \in Launchers, FinishOp(m)
      PROVE  kind(opEntry'[l]) # "launch"
  BY <1>1, <1>4 DEF FinishOp
<1>5. CASE opEntry' = opEntry
  BY <1>5
<1> QED
  BY <1>2, <1>3, <1>4, <1>5
  DEF Next, NothingToSet, PushControl, SkipMissingLauncher, PushEvent, StallOnFullQueue,
      TakeNoEvent, FireControl, ControlQueueWaits, EndCondition, NothingToSchedule,
      StallRead, StartOp, AdvanceTime, NothingToFinish, LinkSignal, Stopped, vars, launcher

(***************************************************************************)
(* A launcher takes no launch from its queue while operations of its block *)
(* are left: that would overwrite next_iter and lose them.  It holds as    *)
(* long as no launcher but the host, which takes no launches, is stopped   *)
(* by a full queue and stays idle in the middle of its block.              *)
(***************************************************************************)
THEOREM LaunchersFinishBlocks == Spec /\ OnlyHostStalls => BlockRunsToEnd
<1>1. Init => WalkInv /\ EventInv
  BY WalkInit, InitInv
<1>2. (WalkInv /\ EventInv) /\ [Next]_vars /\ [hostStalls]_vars => (WalkInv /\ EventInv)'
  BY WalkNext, NextInv
<1>3. (WalkInv /\ EventInv) /\ [Next]_vars => [RunsToEnd]_vars
  BY EntersAtEnd
<1>4. BlockRunsToEnd <=> [][RunsToEnd]_vars
  BY PTL DEF BlockRunsToEnd, RunsToEnd
<1> QED
  BY <1>1, <1>2, <1>3, <1>4, PTL DEF Spec, OnlyHostStalls

-----------------------------------------------------------------------------
(* What BlockTypeOK says of the program, operation by operation.            *)
Blocks == Ops \cup {0}

inBlock(b) == { o \in Ops : blockOf(o) = b }

LEMMA BlockFacts ==
  ASSUME TypeOK
  PROVE  /\ Ops \subseteq Nat \ {0}
         /\ \A o \in Ops : blockOf(o) \in Blocks /\ blockOf(o) < o
         /\ \A o \in Ops : blockOf(o) # 0 => kind(blockOf(o)) \in {"launch", "for"}
         /\ \A o \in Ops : kind(o) = "yield" => kind(blockOf(o)) = "for" /\ blockOf(o) # 0
         /\ \A o \in Ops : kind(o) = "return" => kind(blockOf(o)) = "launch"
                                                 /\ blockOf(o) # 0
<1>1. ProgramTypeOK(P) /\ RegionTypeOK(P) /\ BlockTypeOK(P)
  BY ProgramFacts, RegionAssumption, BlockAssumption DEF TypeOK, ControlTypeOK, P
<1>2. Ops \subseteq Nat \ {0} /\ \A o \in Ops : blockOf(o) \in Blocks
  BY <1>1 DEF ProgramTypeOK, Ops, Host, Blocks, blockOf
<1>3. \A o \in Ops : /\ blockOf(o) < o
                     /\ blockOf(o) # 0 => kind(blockOf(o)) \in {"launch", "for"}
  BY <1>1 DEF BlockTypeOK, Ops, blockOf, kind
<1>4. \A o \in Ops : /\ kind(o) = "yield" => kind(blockOf(o)) = "for" /\ blockOf(o) # 0
                     /\ kind(o) = "return" => kind(blockOf(o)) = "launch" /\ blockOf(o) # 0
  BY <1>1, <1>2 DEF RegionTypeOK, Ops, blockOf, kind
<1> QED
  BY <1>2, <1>3, <1>4

LEMMA FirstFacts ==
  ASSUME TypeOK, NEW b \in Blocks
  PROVE  /\ P.first[b] \in Blocks
         /\ P.first[b] = 0 => inBlock(b) = {}
         /\ P.first[b] # 0 => /\ P.first[b] \in inBlock(b)
                              /\ \A x \in inBlock(b) : P.first[b] <= x
         /\ b # 0 /\ kind(b) \in {"launch", "for"} => P.first[b] # 0
<1>1. BlockTypeOK(P) /\ ProgramTypeOK(P)
  BY ProgramFacts, BlockAssumption DEF TypeOK, ControlTypeOK, P
<1>2. P.first[b] \in Blocks
  BY <1>1 DEF ProgramTypeOK, Ops, Blocks
<1>3. IF inBlock(b) = {} THEN P.first[b] = 0
      ELSE P.first[b] \in inBlock(b) /\ \A x \in inBlock(b) : P.first[b] <= x
  BY <1>1 DEF BlockTypeOK, inBlock, Ops, Blocks, blockOf
<1>4. inBlock(b) \subseteq Ops /\ 0 \notin Ops
  BY BlockFacts DEF inBlock
<1>5. b # 0 /\ kind(b) \in {"launch", "for"} => inBlock(b) # {}
  BY <1>1 DEF BlockTypeOK, inBlock, Ops, Blocks, blockOf, kind
<1> QED
  BY <1>2, <1>3, <1>4, <1>5

LEMMA NextFacts ==
  ASSUME TypeOK, NEW o \in Ops
  PROVE  /\ P.next[o] \in Blocks
         /\ P.next[o] = 0 => \A x \in inBlock(blockOf(o)) : x <= o
         /\ P.next[o] # 0 => /\ P.next[o] \in inBlock(blockOf(o)) /\ o < P.next[o]
                             /\ \A x \in inBlock(blockOf(o)) : o < x <=> P.next[o] <= x
         /\ kind(o) \in {"return", "yield"} => P.next[o] = 0
         /\ P.next[o] = 0 /\ kind(o) \notin {"return", "yield"} => blockOf(o) = 0
<1> DEFINE after == { x \in Ops : P.block[x] = P.block[o] /\ x > o }
<1>1. BlockTypeOK(P) /\ ProgramTypeOK(P)
  BY ProgramFacts, BlockAssumption DEF TypeOK, ControlTypeOK, P
<1>2. P.next[o] \in Blocks
  BY <1>1 DEF ProgramTypeOK, Ops, Blocks
<1>3. IF after = {} THEN P.next[o] = 0
      ELSE P.next[o] \in after /\ \A x \in after : P.next[o] <= x
  <2> DEFINE all == { x \in Ops : P.block[x] = P.block[o] }
  <2>1. after = { x \in all : x > o }
    OBVIOUS
  <2> QED
    BY <1>1, <2>1 DEF BlockTypeOK, Ops
<1>4. Ops \subseteq Nat \ {0}
  BY BlockFacts
<1>5. P.next[o] = 0 <=> after = {}
  BY <1>3, <1>4
<1>6. \A x \in inBlock(blockOf(o)) : x \in Nat /\ (x \in after <=> o < x)
  BY <1>4 DEF inBlock, blockOf
<1>7. o \in Nat /\ after \subseteq inBlock(blockOf(o)) /\ \A x \in after : o < x
  BY <1>4 DEF inBlock, blockOf
<1> HIDE DEF after
<1>8. P.next[o] = 0 => \A x \in inBlock(blockOf(o)) : x <= o
  BY <1>7, <1>5, <1>6
<1>9. P.next[o] # 0 => /\ P.next[o] \in inBlock(blockOf(o)) /\ o < P.next[o]
                      /\ \A x \in inBlock(blockOf(o)) : o < x <=> P.next[o] <= x
  <2>1. SUFFICES ASSUME P.next[o] # 0
        PROVE  /\ P.next[o] \in inBlock(blockOf(o)) /\ o < P.next[o]
               /\ \A x \in inBlock(blockOf(o)) : o < x <=> P.next[o] <= x
    OBVIOUS
  <2>2. P.next[o] \in after /\ \A x \in after : P.next[o] <= x
    BY <1>3, <1>5, <2>1
  <2>3. P.next[o] \in inBlock(blockOf(o)) /\ o < P.next[o]
    BY <1>7, <2>2
  <2> QED
    BY <1>7, <1>6, <2>2, <2>3
<1>10. kind(o) \in {"return", "yield"} => P.next[o] = 0
  BY <1>1 DEF BlockTypeOK, Ops, blockOf, kind
<1>11. P.next[o] = 0 /\ kind(o) \notin {"return", "yield"} => blockOf(o) = 0
  BY <1>1 DEF BlockTypeOK, Ops, blockOf, kind
<1> QED
  BY <1>2, <1>8, <1>9, <1>10, <1>11, Zenon

-----------------------------------------------------------------------------
(***************************************************************************)
(* How far each block has been walked.  Of a block b that is entered again *)
(* and again, r[b] is how often it was walked to its end and c[b] a number *)
(* behind the operations already walked this time.  Launcher l is inside   *)
(* the blocks at[l][1 .. depth[l]]: a launch of its own or the function,   *)
(* and the loops around the operation it is at.  None of this is in the    *)
(* state of the simulator; the invariant says that such numbers exist.     *)
(***************************************************************************)
walks(r, c, o) == r[blockOf(o)] + IF o < c[blockOf(o)] THEN 1 ELSE 0

GhostType(r, c, depth, at) ==
  /\ r \in [Blocks -> Nat] /\ c \in [Blocks -> Nat]
  /\ depth \in [Launchers -> Nat] /\ at \in [Launchers -> [Nat -> Blocks]]

inside(depth, l, i) == i \in Nat /\ 1 <= i /\ i <= depth[l]

Rooted(depth, at) ==
  \A l \in Launchers : depth[l] # 0 =>
    IF at[l][1] = 0 THEN l = Host
    ELSE /\ at[l][1] \in Ops /\ kind(at[l][1]) = "launch"
         /\ P.target[at[l][1]] = l /\ l # Host

Chained(depth, at) ==
  \A l \in Launchers : \A i \in Nat : inside(depth, l, i) /\ i # 1 =>
    /\ at[l][i] \in Ops /\ kind(at[l][i]) = "for"
    /\ blockOf(at[l][i]) = at[l][i - 1]

Separate(depth, at) ==
  \A l, m \in Launchers : \A i, j \in Nat :
    inside(depth, l, i) /\ inside(depth, m, j) /\ at[l][i] = at[m][j] => l = m /\ i = j

(* The operation a launcher is at is in the innermost block it is inside.   *)
Placed(depth, at) ==
  \A l \in Launchers :
    IF nextIter[l] = 0 THEN depth[l] = (IF l = Host THEN 1 ELSE 0)
    ELSE depth[l] # 0 /\ blockOf(nextIter[l]) = at[l][depth[l]]

Cursors(c, depth, at) ==
  \A l \in Launchers : \A i \in Nat : inside(depth, l, i) =>
    \A p \in inBlock(at[l][i]) :
      p < c[at[l][i]] <=> IF i < depth[l] THEN p <= at[l][i + 1]
                          ELSE nextIter[l] = 0 \/ p < nextIter[l]

(* A block that nobody is inside has not been begun.                        *)
Fresh(c, depth, at) ==
  \A b \in Blocks :
    (\A l \in Launchers : \A i \in Nat : inside(depth, l, i) => at[l][i] # b)
      => \A p \in inBlock(b) : ~ (p < c[b])

OrderAt(r, c, depth, at) ==
  /\ GhostType(r, c, depth, at)
  /\ Rooted(depth, at) /\ Chained(depth, at) /\ Separate(depth, at)
  /\ Placed(depth, at) /\ Cursors(c, depth, at) /\ Fresh(c, depth, at)

(* Operation o has been walked past once more, and no other one.            *)
WalksOnce(r, c, r2, c2, o) ==
  \A x \in Ops : walks(r2, c2, x) = walks(r, c, x) + IF x = o THEN 1 ELSE 0

(* Where a launcher is, read off the invariant.                             *)
LEMMA WhereItIs ==
  ASSUME TypeOK, NEW r, NEW c, NEW depth, NEW at, OrderAt(r, c, depth, at),
         NEW l \in Launchers, NEW o \in Ops, nextIter[l] = o
  PROVE  LET b == blockOf(o)
         IN  /\ b \in Blocks /\ o \in inBlock(b) /\ b = at[l][depth[l]]
             /\ inside(depth, l, depth[l])
             /\ \A p \in inBlock(b) : p < c[b] <=> p < o
             /\ \A m \in Launchers : \A i \in Nat :
                  inside(depth, m, i) /\ at[m][i] = b => m = l /\ i = depth[l]
             /\ b = 0 => l = Host /\ depth[l] = 1
<1> DEFINE b == blockOf(o)
           d == depth[l]
<1>1. o \in Nat \ {0} /\ b \in Blocks /\ Ops \subseteq Nat \ {0}
  BY BlockFacts
<1>2. d # 0 /\ b = at[l][d] /\ d \in Nat
  BY <1>1 DEF OrderAt, Placed, GhostType
<1>3. inside(depth, l, d)
  BY <1>2 DEF inside
<1>4. \A p \in inBlock(b) : p < c[b] <=> p < o
  BY <1>1, <1>2, <1>3 DEF OrderAt, Cursors
<1>5. \A m \in Launchers : \A i \in Nat : inside(depth, m, i) /\ at[m][i] = b => m = l /\ i = d
  BY <1>2, <1>3 DEF OrderAt, Separate
<1>6. b = 0 => l = Host /\ d = 1
  <2> SUFFICES ASSUME b = 0 PROVE l = Host /\ d = 1
    OBVIOUS
  <2>1. d = 1
    BY <1>1, <1>2, <1>3 DEF OrderAt, Chained
  <2> QED
    BY <1>2, <2>1 DEF OrderAt, Rooted
<1>7. o \in inBlock(b)
  BY DEF inBlock
<1> QED
  BY <1>1, <1>2, <1>3, <1>4, <1>5, <1>6, <1>7

(* Nothing moves.                                                           *)
LEMMA OrderSame ==
  ASSUME NEW r, NEW c, NEW depth, NEW at, OrderAt(r, c, depth, at),
         prog' = prog, nextIter' = nextIter
  PROVE  OrderAt(r, c, depth, at)'
<1>1. Blocks' = Blocks /\ \A b : inBlock(b)' = inBlock(b)
  BY Rigid DEF Blocks, inBlock, blockOf
<1>2. GhostType(r, c, depth, at)'
  BY <1>1, Rigid DEF OrderAt, GhostType
<1>3. Rooted(depth, at)' /\ Chained(depth, at)' /\ Separate(depth, at)'
  BY Rigid DEF OrderAt, Rooted, Chained, Separate, inside, kind, blockOf
<1>4. Placed(depth, at)'
  BY Rigid DEF OrderAt, Placed, blockOf
<1>5. Cursors(c, depth, at)' /\ Fresh(c, depth, at)'
  BY <1>1, Rigid DEF OrderAt, Cursors, Fresh, inside
<1> QED
  BY <1>2, <1>3, <1>4, <1>5 DEF OrderAt

(* The cursor of a block moves past one operation.                          *)
LEMMA PastOne ==
  ASSUME TypeOK, NEW r \in [Blocks -> Nat], NEW c \in [Blocks -> Nat], NEW o \in Ops,
         \A p \in inBlock(blockOf(o)) : p < c[blockOf(o)] <=> p < o,
         NEW c2, c2 = [c EXCEPT ![blockOf(o)] = o + 1]
  PROVE  WalksOnce(r, c, r, c2, o)
<1> DEFINE b == blockOf(o)
<1> SUFFICES ASSUME NEW x \in Ops
             PROVE  walks(r, c2, x) = walks(r, c, x) + IF x = o THEN 1 ELSE 0
  BY DEF WalksOnce
<1>1. /\ x \in Nat /\ o \in Nat /\ blockOf(x) \in Blocks /\ b \in Blocks
      /\ r[blockOf(x)] \in Nat /\ c[blockOf(x)] \in Nat
  BY BlockFacts
<1>2. CASE blockOf(x) = b
  <2>1. walks(r, c, x) = r[b] + IF x < o THEN 1 ELSE 0
    BY <1>2 DEF inBlock, walks
  <2>2. walks(r, c2, x) = r[b] + IF x < o + 1 THEN 1 ELSE 0
    BY <1>1, <1>2 DEF walks
  <2> QED
    BY <1>1, <1>2, <2>1, <2>2
<1>3. CASE blockOf(x) # b
  <2>1. x # o /\ c2[blockOf(x)] = c[blockOf(x)]
    BY <1>1, <1>3
  <2>2. walks(r, c2, x) = walks(r, c, x) /\ walks(r, c, x) \in Nat
    BY <1>1, <2>1 DEF walks
  <2> QED
    BY <2>1, <2>2
<1> QED
  BY <1>2, <1>3

(* Past an operation that is no loop and does not end its block.            *)
LEMMA WalkPast ==
  ASSUME TypeOK, NEW r, NEW c, NEW depth, NEW at, OrderAt(r, c, depth, at),
         NEW l \in Launchers, NEW o \in Ops, nextIter[l] = o, prog' = prog,
         nextIter' = [nextIter EXCEPT ![l] = P.next[o]],
         kind(o) \notin {"return", "yield"}, NEW c2, c2 = [c EXCEPT ![blockOf(o)] = o + 1]
  PROVE  OrderAt(r, c2, depth, at)' /\ WalksOnce(r, c, r, c2, o)
<1> DEFINE b == blockOf(o)
           d == depth[l]
           n == P.next[o]
<1>1. /\ b \in Blocks /\ o \in inBlock(b) /\ b = at[l][d] /\ inside(depth, l, d)
      /\ \A p \in inBlock(b) : p < c[b] <=> p < o
      /\ \A m \in Launchers : \A i \in Nat :
           inside(depth, m, i) /\ at[m][i] = b => m = l /\ i = d
      /\ b = 0 => l = Host /\ d = 1
  BY WhereItIs
<1>2. /\ n = 0 => b = 0 /\ \A x \in inBlock(b) : x <= o
      /\ n # 0 => n \in inBlock(b) /\ \A x \in inBlock(b) : o < x <=> n <= x
      /\ n \in Blocks
  BY NextFacts
<1>3. /\ Ops \subseteq Nat \ {0} /\ \A p : inBlock(p) \subseteq Ops
      /\ \A p \in Ops : blockOf(p) \in Blocks
  BY BlockFacts DEF inBlock
<1>4. /\ r \in [Blocks -> Nat] /\ c \in [Blocks -> Nat] /\ c2 \in [Blocks -> Nat]
      /\ c2[b] = o + 1 /\ \A x \in Blocks : x # b => c2[x] = c[x]
      /\ depth \in [Launchers -> Nat] /\ at \in [Launchers -> [Nat -> Blocks]]
  BY <1>1, <1>3 DEF OrderAt, GhostType
<1>5. nextIter'[l] = n /\ \A m \in Launchers : m # l => nextIter'[m] = nextIter[m]
  BY DEF TypeOK, LauncherTypeOK
<1>6. n # 0 => blockOf(n) = b
  BY <1>2 DEF inBlock
<1>7. d \in Nat /\ d = depth[l] /\ o \in Nat /\ \A p, x : p \in inBlock(x) => p \in Nat
  BY <1>3, <1>4
<1> HIDE DEF n, d, b
<1>8. Blocks' = Blocks /\ \A p : inBlock(p)' = inBlock(p)
  BY Rigid DEF Blocks, inBlock, blockOf
<1>9. GhostType(r, c2, depth, at)'
  BY <1>4, <1>8, Rigid DEF GhostType
<1>10. Rooted(depth, at)' /\ Chained(depth, at)' /\ Separate(depth, at)'
  BY Rigid DEF OrderAt, Rooted, Chained, Separate, inside, kind, blockOf
<1>11. Placed(depth, at)'
  <2> SUFFICES ASSUME NEW m \in Launchers
               PROVE  IF nextIter'[m] = 0 THEN depth[m] = (IF m = Host THEN 1 ELSE 0)
                      ELSE depth[m] # 0 /\ blockOf(nextIter'[m]) = at[m][depth[m]]
    BY Rigid DEF Placed, blockOf
  <2>1. CASE m # l
    BY <1>5, <2>1 DEF OrderAt, Placed
  <2>2. CASE m = l
    BY <1>1, <1>2, <1>5, <1>6, <2>2 DEF inside, d
  <2> QED
    BY <2>1, <2>2
<1>12. Cursors(c2, depth, at)'
  <2> SUFFICES ASSUME NEW m \in Launchers, NEW i \in Nat, inside(depth, m, i),
                      NEW p \in inBlock(at[m][i])
               PROVE  p < c2[at[m][i]] <=> IF i < depth[m] THEN p <= at[m][i + 1]
                                           ELSE nextIter'[m] = 0 \/ p < nextIter'[m]
    BY <1>8, Rigid DEF Cursors, inside
  <2>1. CASE at[m][i] = b
    <3>0. m = l /\ i = d
      BY <1>1, <2>1
    <3>1. m = l /\ i = d /\ ~ (i < depth[m]) /\ p \in Nat /\ o \in Nat
      BY <1>7, <3>0
    <3>2. p < c2[b] <=> p <= o
      BY <1>4, <3>1
    <3>3. p \in inBlock(b)
      BY <2>1
    <3>4. CASE n = 0
      BY <1>2, <1>5, <2>1, <3>1, <3>2, <3>3, <3>4
    <3>5. CASE n # 0
      <4>1. n \in Nat /\ (o < p <=> n <= p)
        BY <1>2, <1>3, <3>3, <3>5
      <4> QED
        BY <1>5, <2>1, <3>1, <3>2, <3>5, <4>1
    <3> QED
      BY <3>4, <3>5
  <2>2. CASE at[m][i] # b
    <3>1. m = l => i < d
      <4>1. m = l => i # d
        BY <1>1, <2>2
      <4> QED
        BY <1>7, <4>1 DEF inside
    <3>2. c2[at[m][i]] = c[at[m][i]]
      BY <1>4, <2>2
    <3>3. p < c[at[m][i]] <=> IF i < depth[m] THEN p <= at[m][i + 1]
                              ELSE nextIter[m] = 0 \/ p < nextIter[m]
      BY DEF OrderAt, Cursors
    <3> QED
      BY <1>5, <3>1, <3>2, <3>3 DEF d
  <2> QED
    BY <2>1, <2>2
<1>13. Fresh(c2, depth, at)'
  <2> SUFFICES ASSUME NEW x \in Blocks,
                      \A m \in Launchers : \A i \in Nat : inside(depth, m, i) => at[m][i] # x,
                      NEW p \in inBlock(x)
               PROVE  ~ (p < c2[x])
    BY <1>8, Rigid DEF Fresh, inside
  <2>1. x # b
    BY <1>1, <1>4 DEF inside, d
  <2> QED
    BY <1>4, <2>1 DEF OrderAt, Fresh
<1>14. OrderAt(r, c2, depth, at)'
  BY <1>9, <1>10, <1>11, <1>12, <1>13 DEF OrderAt
<1>15. WalksOnce(r, c, r, c2, o)
  BY <1>1, <1>4, PastOne DEF b
<1> QED
  BY <1>14, <1>15

(* A launcher goes from an operation into a loop: nobody was inside it.     *)
LEMMA NobodyInside ==
  ASSUME TypeOK, NEW r, NEW c, NEW depth, NEW at, OrderAt(r, c, depth, at),
         NEW l \in Launchers, NEW o \in Ops, nextIter[l] = o, kind(o) = "for"
  PROVE  \A m \in Launchers : \A i \in Nat : inside(depth, m, i) => at[m][i] # o
<1> SUFFICES ASSUME NEW m \in Launchers, NEW i \in Nat, inside(depth, m, i), at[m][i] = o
             PROVE  FALSE
  OBVIOUS
<1>1. blockOf(o) = at[l][depth[l]] /\ inside(depth, l, depth[l]) /\ o # 0
  BY WhereItIs, BlockFacts
<1>2. depth \in [Launchers -> Nat]
  BY DEF OrderAt, GhostType
<1>3. depth[m] \in Nat /\ depth[m] # 0 /\ depth[l] \in Nat
  BY <1>2 DEF inside
<1>4. i # 1
  <2> SUFFICES ASSUME i = 1 PROVE FALSE
    OBVIOUS
  <2> QED
    BY <1>1, <1>3 DEF OrderAt, Rooted
<1>5. blockOf(o) = at[m][i - 1] /\ i - 1 \in Nat /\ inside(depth, m, i - 1)
  BY <1>3, <1>4 DEF OrderAt, Chained, inside
<1>6. m = l /\ i - 1 = depth[l]
  BY <1>1, <1>3, <1>5 DEF OrderAt, Separate
<1> QED
  BY <1>3, <1>6 DEF inside

LEMMA WalkInto ==
  ASSUME TypeOK, NEW r, NEW c, NEW depth, NEW at, OrderAt(r, c, depth, at),
         NEW l \in Launchers, NEW o \in Ops, nextIter[l] = o, prog' = prog,
         nextIter' = [nextIter EXCEPT ![l] = P.first[o]],
         kind(o) = "for", NEW c2, c2 = [c EXCEPT ![blockOf(o)] = o + 1],
         NEW depth2, depth2 = [depth EXCEPT ![l] = depth[l] + 1],
         NEW at2, at2 = [at EXCEPT ![l] = [at[l] EXCEPT ![depth[l] + 1] = o]]
  PROVE  OrderAt(r, c2, depth2, at2)' /\ WalksOnce(r, c, r, c2, o)
<1> DEFINE b == blockOf(o)
           d == depth[l]
           n == P.first[o]
<1>1. /\ b \in Blocks /\ o \in inBlock(b) /\ b = at[l][d] /\ inside(depth, l, d)
      /\ \A p \in inBlock(b) : p < c[b] <=> p < o
      /\ \A m \in Launchers : \A i \in Nat :
           inside(depth, m, i) /\ at[m][i] = b => m = l /\ i = d
  BY WhereItIs
<1>2. n # 0 /\ n \in inBlock(o) /\ (\A x \in inBlock(o) : n <= x) /\ o \in Blocks
  BY FirstFacts, BlockFacts DEF Blocks
<1>3. /\ Ops \subseteq Nat \ {0} /\ \A p : inBlock(p) \subseteq Ops
      /\ \A p \in Ops : blockOf(p) \in Blocks /\ blockOf(p) < p
  BY BlockFacts DEF inBlock
<1>4. /\ r \in [Blocks -> Nat] /\ c \in [Blocks -> Nat]
      /\ depth \in [Launchers -> Nat] /\ at \in [Launchers -> [Nat -> Blocks]]
  BY DEF OrderAt, GhostType
<1>5. nextIter'[l] = n /\ \A m \in Launchers : m # l => nextIter'[m] = nextIter[m]
  BY DEF TypeOK, LauncherTypeOK
<1>6. blockOf(n) = o /\ d \in Nat /\ d = depth[l] /\ o \in Nat /\ o \in Blocks /\ n \in Nat
      /\ d # 0 /\ b # o /\ \A p, x : p \in inBlock(x) => p \in Nat
  <2>0. d \in Nat /\ d # 0
    BY <1>1, <1>4 DEF inside
  <2>1. blockOf(n) = o /\ o \in Nat /\ n \in Nat
    BY <1>2, <1>3 DEF inBlock
  <2>2. b < o /\ b \in Nat
    BY <1>1, <1>3 DEF Blocks
  <2> QED
    BY <1>2, <1>3, <2>0, <2>1, <2>2
<1>7. \A m \in Launchers : \A i \in Nat : inside(depth, m, i) => at[m][i] # o
  BY NobodyInside
<1> HIDE DEF n, d, b
<1>8. /\ c2 \in [Blocks -> Nat] /\ c2[b] = o + 1 /\ \A x \in Blocks : x # b => c2[x] = c[x]
  BY <1>1, <1>4, <1>6 DEF b
<1>9. /\ depth2 \in [Launchers -> Nat] /\ depth2[l] = d + 1
      /\ \A m \in Launchers : m # l => depth2[m] = depth[m]
  BY <1>4, <1>6
<1>10. /\ at2 \in [Launchers -> [Nat -> Blocks]] /\ at2[l][d + 1] = o
       /\ \A i \in Nat : i # d + 1 => at2[l][i] = at[l][i]
       /\ \A m \in Launchers : m # l => at2[m] = at[m]
  <2>1. d + 1 \in Nat /\ at[l] \in [Nat -> Blocks]
    BY <1>4, <1>6
  <2>2. [at[l] EXCEPT ![d + 1] = o] \in [Nat -> Blocks]
    BY <1>6, <2>1
  <2> QED
    BY <1>4, <1>6, <2>1, <2>2
<1>11. /\ \A m \in Launchers : \A i \in Nat : inside(depth, m, i) =>
            inside(depth2, m, i) /\ at2[m][i] = at[m][i]
       /\ \A m \in Launchers : \A i \in Nat : inside(depth2, m, i) =>
            inside(depth, m, i) \/ (m = l /\ i = d + 1)
       /\ inside(depth2, l, d + 1)
  <2>1. ASSUME NEW m \in Launchers, NEW i \in Nat, inside(depth, m, i)
        PROVE  inside(depth2, m, i) /\ at2[m][i] = at[m][i]
    <3>1. CASE m # l
      BY <1>9, <1>10, <2>1, <3>1 DEF inside
    <3>2. CASE m = l
      <4>1. i <= d /\ i # d + 1 /\ i <= d + 1
        BY <1>6, <2>1, <3>2 DEF inside
      <4> QED
        BY <1>9, <1>10, <2>1, <3>2, <4>1 DEF inside
    <3> QED
      BY <3>1, <3>2
  <2>2. ASSUME NEW m \in Launchers, NEW i \in Nat, inside(depth2, m, i)
        PROVE  inside(depth, m, i) \/ (m = l /\ i = d + 1)
    BY <1>6, <1>9, <2>2 DEF inside
  <2>3. inside(depth2, l, d + 1)
    BY <1>6, <1>9 DEF inside
  <2> QED
    BY <2>1, <2>2, <2>3
<1>12. Blocks' = Blocks /\ \A p : inBlock(p)' = inBlock(p)
  BY Rigid DEF Blocks, inBlock, blockOf
<1>13. GhostType(r, c2, depth2, at2)'
  BY <1>4, <1>8, <1>9, <1>10, <1>12, Rigid DEF GhostType
<1>14. Rooted(depth2, at2)'
  <2> SUFFICES ASSUME NEW m \in Launchers, depth2[m] # 0
               PROVE  IF at2[m][1] = 0 THEN m = Host
                      ELSE at2[m][1] \in Ops /\ kind(at2[m][1]) = "launch"
                           /\ P.target[at2[m][1]] = m /\ m # Host
    BY Rigid DEF Rooted, kind
  <2>1. depth[m] # 0 /\ depth[m] \in Nat
    BY <1>4, <1>6, <1>9
  <2>2. inside(depth, m, 1)
    BY <2>1 DEF inside
  <2>3. at2[m][1] = at[m][1]
    BY <1>11, <2>2
  <2> QED
    BY <2>1, <2>3 DEF OrderAt, Rooted
<1>15. Chained(depth2, at2)'
  <2> SUFFICES ASSUME NEW m \in Launchers, NEW i \in Nat, inside(depth2, m, i), i # 1
               PROVE  /\ at2[m][i] \in Ops /\ kind(at2[m][i]) = "for"
                      /\ blockOf(at2[m][i]) = at2[m][i - 1]
    BY Rigid DEF Chained, inside, kind, blockOf
  <2>1. CASE inside(depth, m, i)
    <3>1. inside(depth, m, i - 1) /\ i - 1 \in Nat
      BY <1>4, <2>1 DEF inside
    <3> QED
      BY <1>11, <2>1, <3>1 DEF OrderAt, Chained
  <2>2. CASE m = l /\ i = d + 1
    <3>1. i - 1 = d /\ at2[l][d] = at[l][d]
      BY <1>6, <1>10, <2>2
    <3> QED
      BY <1>1, <1>10, <2>2, <3>1 DEF b
  <2> QED
    BY <1>11, <2>1, <2>2
<1>16. Separate(depth2, at2)'
  <2> SUFFICES ASSUME NEW m \in Launchers, NEW k \in Launchers, NEW i \in Nat, NEW j \in Nat,
                      inside(depth2, m, i), inside(depth2, k, j), at2[m][i] = at2[k][j]
               PROVE  m = k /\ i = j
    BY Rigid DEF Separate, inside
  <2>1. CASE inside(depth, m, i) /\ inside(depth, k, j)
    BY <1>11, <2>1 DEF OrderAt, Separate
  <2>2. CASE inside(depth, m, i) /\ ~ inside(depth, k, j)
    <3>1. at2[m][i] = at[m][i] /\ at[m][i] # o
      BY <1>7, <1>11, <2>2
    <3>2. at2[k][j] = o
      BY <1>10, <1>11, <2>2
    <3> QED
      BY <3>1, <3>2
  <2>3. CASE ~ inside(depth, m, i) /\ inside(depth, k, j)
    <3>1. at2[k][j] = at[k][j] /\ at[k][j] # o
      BY <1>7, <1>11, <2>3
    <3>2. at2[m][i] = o
      BY <1>10, <1>11, <2>3
    <3> QED
      BY <3>1, <3>2
  <2>4. CASE ~ inside(depth, m, i) /\ ~ inside(depth, k, j)
    BY <1>11, <2>4
  <2> QED
    BY <2>1, <2>2, <2>3, <2>4
<1>17. Placed(depth2, at2)'
  <2> SUFFICES ASSUME NEW m \in Launchers
               PROVE  IF nextIter'[m] = 0 THEN depth2[m] = (IF m = Host THEN 1 ELSE 0)
                      ELSE depth2[m] # 0 /\ blockOf(nextIter'[m]) = at2[m][depth2[m]]
    BY Rigid DEF Placed, blockOf
  <2>1. CASE m # l
    BY <1>5, <1>9, <1>10, <2>1 DEF OrderAt, Placed
  <2>2. CASE m = l
    <3>1. d + 1 # 0
      BY <1>6
    <3> QED
      BY <1>2, <1>5, <1>6, <1>9, <1>10, <2>2, <3>1
  <2> QED
    BY <2>1, <2>2
<1>18. Cursors(c2, depth2, at2)'
  <2> SUFFICES ASSUME NEW m \in Launchers, NEW i \in Nat, inside(depth2, m, i),
                      NEW p \in inBlock(at2[m][i])
               PROVE  p < c2[at2[m][i]] <=> IF i < depth2[m] THEN p <= at2[m][i + 1]
                                            ELSE nextIter'[m] = 0 \/ p < nextIter'[m]
    BY <1>12, Rigid DEF Cursors, inside
  <2>0. p \in Nat
    BY <1>6
  <2>1. CASE m = l /\ i = d + 1
    <3>1. at2[m][i] = o /\ c2[o] = c[o] /\ ~ (p < c[o])
      BY <1>6, <1>7, <1>8, <1>10, <2>1 DEF OrderAt, Fresh
    <3>2. ~ (i < depth2[m]) /\ n <= p
      BY <1>2, <1>6, <1>9, <2>1, <3>1
    <3> QED
      BY <1>2, <1>5, <1>6, <2>0, <2>1, <3>1, <3>2
  <2>2. CASE m = l /\ i = d
    <3>1. at2[m][i] = b /\ i < depth2[m] /\ at2[m][i + 1] = o
      BY <1>1, <1>6, <1>9, <1>10, <2>2 DEF d
    <3> QED
      BY <1>6, <1>8, <2>0, <3>1
  <2>3. CASE m = l /\ i # d /\ i # d + 1
    <3>1. inside(depth, m, i) /\ at2[m][i] = at[m][i]
      BY <1>11, <2>3
    <3>2. i < depth[m] /\ i < depth2[m] /\ i + 1 \in Nat /\ i + 1 # d + 1
      BY <1>6, <1>9, <2>3, <3>1 DEF inside
    <3>3. at2[m][i + 1] = at[m][i + 1]
      BY <1>10, <2>3, <3>2
    <3>4. at[m][i] # b /\ at[m][i] \in Blocks
      BY <1>1, <1>4, <2>3, <3>1
    <3>5. c2[at[m][i]] = c[at[m][i]]
      BY <1>8, <3>4
    <3> QED
      BY <3>1, <3>2, <3>3, <3>5 DEF OrderAt, Cursors
  <2>4. CASE m # l
    <3>1. inside(depth, m, i) /\ at2[m] = at[m] /\ depth2[m] = depth[m]
          /\ nextIter'[m] = nextIter[m]
      BY <1>5, <1>9, <1>10, <1>11, <2>4
    <3>2. at[m][i] # b /\ at[m][i] \in Blocks
      BY <1>1, <1>4, <2>4, <3>1
    <3>3. c2[at[m][i]] = c[at[m][i]]
      BY <1>8, <3>2
    <3> QED
      BY <3>1, <3>3 DEF OrderAt, Cursors
  <2> QED
    BY <2>1, <2>2, <2>3, <2>4
<1>19. Fresh(c2, depth2, at2)'
  <2> SUFFICES ASSUME NEW x \in Blocks,
                      \A m \in Launchers : \A i \in Nat : inside(depth2, m, i) => at2[m][i] # x,
                      NEW p \in inBlock(x)
               PROVE  ~ (p < c2[x])
    BY <1>12, Rigid DEF Fresh, inside
  <2>1. \A m \in Launchers : \A i \in Nat : inside(depth, m, i) => at[m][i] # x
    BY <1>11
  <2>2. x # b
    BY <1>1, <1>6, <2>1 DEF d
  <2> QED
    BY <1>8, <2>1, <2>2 DEF OrderAt, Fresh
<1>20. WalksOnce(r, c, r, c2, o)
  BY <1>1, <1>3, <1>4, <1>8, PastOne DEF b
<1> QED
  BY <1>13, <1>14, <1>15, <1>16, <1>17, <1>18, <1>19, <1>20 DEF OrderAt

(* A block is at its end: one walk more, and the cursor is back.            *)
LEMMA EndOnce ==
  ASSUME TypeOK, NEW r \in [Blocks -> Nat], NEW c \in [Blocks -> Nat], NEW o \in Ops,
         kind(o) \in {"return", "yield"},
         \A p \in inBlock(blockOf(o)) : p < c[blockOf(o)] <=> p < o,
         NEW r2, r2 = [r EXCEPT ![blockOf(o)] = r[blockOf(o)] + 1],
         NEW c2, c2 = [c EXCEPT ![blockOf(o)] = 0]
  PROVE  WalksOnce(r, c, r2, c2, o)
<1> DEFINE b == blockOf(o)
<1> SUFFICES ASSUME NEW x \in Ops
             PROVE  walks(r2, c2, x) = walks(r, c, x) + IF x = o THEN 1 ELSE 0
  BY DEF WalksOnce
<1>1. /\ x \in Nat \ {0} /\ o \in Nat /\ blockOf(x) \in Blocks /\ b \in Blocks
      /\ r[blockOf(x)] \in Nat /\ c[blockOf(x)] \in Nat
  BY BlockFacts
<1>2. CASE blockOf(x) = b
  <2>1. walks(r, c, x) = r[b] + IF x < o THEN 1 ELSE 0
    BY <1>2 DEF inBlock, walks
  <2>2. walks(r2, c2, x) = r[b] + 1
    BY <1>1, <1>2 DEF walks
  <2>3. x <= o
    BY <1>2, NextFacts DEF inBlock
  <2> QED
    BY <1>1, <1>2, <2>1, <2>2, <2>3
<1>3. CASE blockOf(x) # b
  <2>1. x # o /\ c2[blockOf(x)] = c[blockOf(x)] /\ r2[blockOf(x)] = r[blockOf(x)]
    BY <1>1, <1>3
  <2>2. walks(r2, c2, x) = walks(r, c, x) /\ walks(r, c, x) \in Nat
    BY <1>1, <2>1 DEF walks
  <2> QED
    BY <2>1, <2>2
<1> QED
  BY <1>2, <1>3

(* From the end of a loop back to its first operation.                      *)
LEMMA WalkRound ==
  ASSUME TypeOK, NEW r, NEW c, NEW depth, NEW at, OrderAt(r, c, depth, at),
         NEW l \in Launchers, NEW o \in Ops, nextIter[l] = o, prog' = prog,
         kind(o) = "yield", nextIter' = [nextIter EXCEPT ![l] = P.first[blockOf(o)]],
         NEW r2, r2 = [r EXCEPT ![blockOf(o)] = r[blockOf(o)] + 1],
         NEW c2, c2 = [c EXCEPT ![blockOf(o)] = 0]
  PROVE  OrderAt(r2, c2, depth, at)' /\ WalksOnce(r, c, r2, c2, o)
<1> DEFINE b == blockOf(o)
           d == depth[l]
           n == P.first[b]
<1>1. /\ b \in Blocks /\ b = at[l][d] /\ inside(depth, l, d)
      /\ \A p \in inBlock(b) : p < c[b] <=> p < o
      /\ \A m \in Launchers : \A i \in Nat :
           inside(depth, m, i) /\ at[m][i] = b => m = l /\ i = d
  BY WhereItIs
<1>2. n # 0 /\ n \in inBlock(b) /\ \A x \in inBlock(b) : n <= x
  BY <1>1, FirstFacts, BlockFacts
<1>3. /\ Ops \subseteq Nat \ {0} /\ \A p : inBlock(p) \subseteq Ops
  BY BlockFacts DEF inBlock
<1>4. /\ r \in [Blocks -> Nat] /\ c \in [Blocks -> Nat]
      /\ depth \in [Launchers -> Nat] /\ at \in [Launchers -> [Nat -> Blocks]]
  BY DEF OrderAt, GhostType
<1>5. nextIter'[l] = n /\ \A m \in Launchers : m # l => nextIter'[m] = nextIter[m]
  BY DEF TypeOK, LauncherTypeOK
<1>6. /\ blockOf(n) = b /\ d \in Nat /\ d = depth[l] /\ n \in Nat /\ r[b] \in Nat
      /\ \A p, x : p \in inBlock(x) => p \in Nat \ {0}
  BY <1>1, <1>2, <1>3, <1>4 DEF inBlock
<1>7. WalksOnce(r, c, r2, c2, o)
  BY <1>1, <1>4, EndOnce
<1>8. r2 \in [Blocks -> Nat]
  BY <1>1, <1>4, <1>6
<1>9. /\ c2 \in [Blocks -> Nat] /\ c2[b] = 0 /\ \A x \in Blocks : x # b => c2[x] = c[x]
  BY <1>1, <1>4
<1> HIDE DEF n, d, b
<1>10. Blocks' = Blocks /\ \A p : inBlock(p)' = inBlock(p)
  BY Rigid DEF Blocks, inBlock, blockOf
<1>11. GhostType(r2, c2, depth, at)'
  BY <1>4, <1>8, <1>9, <1>10, Rigid DEF GhostType
<1>12. Rooted(depth, at)' /\ Chained(depth, at)' /\ Separate(depth, at)'
  BY Rigid DEF OrderAt, Rooted, Chained, Separate, inside, kind, blockOf
<1>13. Placed(depth, at)'
  <2> SUFFICES ASSUME NEW m \in Launchers
               PROVE  IF nextIter'[m] = 0 THEN depth[m] = (IF m = Host THEN 1 ELSE 0)
                      ELSE depth[m] # 0 /\ blockOf(nextIter'[m]) = at[m][depth[m]]
    BY Rigid DEF Placed, blockOf
  <2>1. CASE m # l
    BY <1>5, <2>1 DEF OrderAt, Placed
  <2>2. CASE m = l
    BY <1>1, <1>2, <1>5, <1>6, <2>2 DEF inside, d
  <2> QED
    BY <2>1, <2>2
<1>14. Cursors(c2, depth, at)'
  <2> SUFFICES ASSUME NEW m \in Launchers, NEW i \in Nat, inside(depth, m, i),
                      NEW p \in inBlock(at[m][i])
               PROVE  p < c2[at[m][i]] <=> IF i < depth[m] THEN p <= at[m][i + 1]
                                           ELSE nextIter'[m] = 0 \/ p < nextIter'[m]
    BY <1>10, Rigid DEF Cursors, inside
  <2>1. CASE at[m][i] = b
    <3>1. m = l /\ i = d /\ ~ (i < depth[m]) /\ p \in Nat /\ n <= p
      BY <1>1, <1>2, <1>6, <2>1
    <3> QED
      BY <1>2, <1>5, <1>6, <1>9, <2>1, <3>1
  <2>2. CASE at[m][i] # b
    <3>1. m = l => i < d
      <4>1. m = l => i # d
        BY <1>1, <2>2
      <4> QED
        BY <1>6, <4>1 DEF inside
    <3>2. c2[at[m][i]] = c[at[m][i]]
      BY <1>4, <1>9, <2>2
    <3>3. p < c[at[m][i]] <=> IF i < depth[m] THEN p <= at[m][i + 1]
                              ELSE nextIter[m] = 0 \/ p < nextIter[m]
      BY DEF OrderAt, Cursors
    <3> QED
      BY <1>5, <3>1, <3>2, <3>3 DEF d
  <2> QED
    BY <2>1, <2>2
<1>15. Fresh(c2, depth, at)'
  <2> SUFFICES ASSUME NEW x \in Blocks,
                      \A m \in Launchers : \A i \in Nat : inside(depth, m, i) => at[m][i] # x,
                      NEW p \in inBlock(x)
               PROVE  ~ (p < c2[x])
    BY <1>10, Rigid DEF Fresh, inside
  <2>1. x # b
    BY <1>1, <1>6
  <2> QED
    BY <1>9, <2>1 DEF OrderAt, Fresh
<1> QED
  BY <1>7, <1>11, <1>12, <1>13, <1>14, <1>15 DEF OrderAt

(* From the end of a loop to what comes after it.                           *)
LEMMA WalkOut ==
  ASSUME TypeOK, NEW r, NEW c, NEW depth, NEW at, OrderAt(r, c, depth, at),
         NEW l \in Launchers, NEW o \in Ops, nextIter[l] = o, prog' = prog,
         kind(o) = "yield", nextIter' = [nextIter EXCEPT ![l] = P.next[blockOf(o)]],
         NEW r2, r2 = [r EXCEPT ![blockOf(o)] = r[blockOf(o)] + 1],
         NEW c2, c2 = [c EXCEPT ![blockOf(o)] = 0],
         NEW depth2, depth2 = [depth EXCEPT ![l] = depth[l] - 1]
  PROVE  OrderAt(r2, c2, depth2, at)' /\ WalksOnce(r, c, r2, c2, o)
<1> DEFINE b == blockOf(o)
           d == depth[l]
           n == P.next[b]
           g == blockOf(b)
<1>1. /\ b \in Ops /\ kind(b) = "for" /\ b # 0 /\ b = at[l][d] /\ inside(depth, l, d)
      /\ \A p \in inBlock(b) : p < c[b] <=> p < o
      /\ \A m \in Launchers : \A i \in Nat :
           inside(depth, m, i) /\ at[m][i] = b => m = l /\ i = d
  BY WhereItIs, BlockFacts DEF Blocks
<1>2. /\ n = 0 => g = 0 /\ \A x \in inBlock(g) : x <= b
      /\ n # 0 => n \in inBlock(g) /\ \A x \in inBlock(g) : b < x <=> n <= x
      /\ n \in Blocks
  BY <1>1, NextFacts
<1>3. /\ Ops \subseteq Nat \ {0} /\ \A p : inBlock(p) \subseteq Ops
  BY BlockFacts DEF inBlock
<1>4. /\ r \in [Blocks -> Nat] /\ c \in [Blocks -> Nat]
      /\ depth \in [Launchers -> Nat] /\ at \in [Launchers -> [Nat -> Blocks]]
  BY DEF OrderAt, GhostType
<1>5. nextIter'[l] = n /\ \A m \in Launchers : m # l => nextIter'[m] = nextIter[m]
  BY DEF TypeOK, LauncherTypeOK
<1>6. /\ d \in Nat /\ d = depth[l] /\ r[b] \in Nat /\ b \in Blocks /\ b \in Nat
      /\ \A p, x : p \in inBlock(x) => p \in Nat \ {0}
  BY <1>1, <1>3, <1>4 DEF Blocks
<1>7. WalksOnce(r, c, r2, c2, o)
  BY <1>1, <1>4, EndOnce
<1>8. r2 \in [Blocks -> Nat]
  BY <1>4, <1>6
<1>9. /\ c2 \in [Blocks -> Nat] /\ c2[b] = 0 /\ \A x \in Blocks : x # b => c2[x] = c[x]
  BY <1>4, <1>6
<1>10. d # 1
  <2> SUFFICES ASSUME d = 1 PROVE FALSE
    OBVIOUS
  <2> QED
    BY <1>1 DEF OrderAt, Rooted
<1>11. d - 1 \in Nat /\ d - 1 # 0 /\ d - 1 < d /\ inside(depth, l, d - 1) /\ at[l][d - 1] = g
  <2>1. d # 0
    BY <1>1 DEF inside
  <2>2. d - 1 \in Nat /\ d - 1 # 0 /\ d - 1 < d /\ inside(depth, l, d - 1)
    BY <1>6, <1>10, <2>1 DEF inside
  <2> QED
    BY <1>1, <1>6, <1>10, <2>2 DEF OrderAt, Chained
<1>12. n # 0 => blockOf(n) = g
  BY <1>2 DEF inBlock
<1>13. g = 0 => l = Host /\ d - 1 = 1
  <2> SUFFICES ASSUME g = 0 PROVE l = Host /\ d - 1 = 1
    OBVIOUS
  <2>1. d - 1 = 1
    BY <1>3, <1>11 DEF OrderAt, Chained
  <2> QED
    BY <1>6, <1>11, <2>1 DEF OrderAt, Rooted
<1> HIDE DEF n, d, b, g
<1>14. /\ depth2 \in [Launchers -> Nat] /\ depth2[l] = d - 1
       /\ \A m \in Launchers : m # l => depth2[m] = depth[m]
  BY <1>4, <1>6, <1>11
<1>15. /\ \A m \in Launchers : \A i \in Nat : inside(depth2, m, i) =>
            inside(depth, m, i) /\ at[m][i] # b
       /\ \A m \in Launchers : \A i \in Nat : inside(depth, m, i) =>
            inside(depth2, m, i) \/ at[m][i] = b
  <2>1. ASSUME NEW m \in Launchers, NEW i \in Nat, inside(depth2, m, i)
        PROVE  inside(depth, m, i) /\ at[m][i] # b
    <3>1. inside(depth, m, i) /\ (m = l => i # d)
      BY <1>6, <1>11, <1>14, <2>1 DEF inside
    <3> QED
      BY <1>1, <3>1
  <2>2. ASSUME NEW m \in Launchers, NEW i \in Nat, inside(depth, m, i)
        PROVE  inside(depth2, m, i) \/ at[m][i] = b
    <3>1. inside(depth2, m, i) \/ (m = l /\ i = d)
      BY <1>6, <1>11, <1>14, <2>2 DEF inside
    <3> QED
      BY <1>1, <3>1
  <2> QED
    BY <2>1, <2>2
<1>16. Blocks' = Blocks /\ \A p : inBlock(p)' = inBlock(p)
  BY Rigid DEF Blocks, inBlock, blockOf
<1>17. GhostType(r2, c2, depth2, at)'
  BY <1>4, <1>8, <1>9, <1>14, <1>16, Rigid DEF GhostType
<1>18. Rooted(depth2, at)'
  <2> SUFFICES ASSUME NEW m \in Launchers, depth2[m] # 0
               PROVE  IF at[m][1] = 0 THEN m = Host
                      ELSE at[m][1] \in Ops /\ kind(at[m][1]) = "launch"
                           /\ P.target[at[m][1]] = m /\ m # Host
    BY Rigid DEF Rooted, kind
  <2>1. depth[m] # 0
    BY <1>1, <1>14 DEF inside
  <2> QED
    BY <2>1 DEF OrderAt, Rooted
<1>19. Chained(depth2, at)' /\ Separate(depth2, at)'
  <2>1. Chained(depth2, at)
    BY <1>15 DEF OrderAt, Chained
  <2>2. Separate(depth2, at)
    BY <1>15 DEF OrderAt, Separate
  <2> QED
    BY <2>1, <2>2, Rigid DEF Chained, Separate, inside, kind, blockOf
<1>20. Placed(depth2, at)'
  <2> SUFFICES ASSUME NEW m \in Launchers
               PROVE  IF nextIter'[m] = 0 THEN depth2[m] = (IF m = Host THEN 1 ELSE 0)
                      ELSE depth2[m] # 0 /\ blockOf(nextIter'[m]) = at[m][depth2[m]]
    BY Rigid DEF Placed, blockOf
  <2>1. CASE m # l
    BY <1>5, <1>14, <2>1 DEF OrderAt, Placed
  <2>2. CASE m = l
    BY <1>2, <1>5, <1>11, <1>12, <1>13, <1>14, <2>2
  <2> QED
    BY <2>1, <2>2
<1>21. Cursors(c2, depth2, at)'
  <2> SUFFICES ASSUME NEW m \in Launchers, NEW i \in Nat, inside(depth2, m, i),
                      NEW p \in inBlock(at[m][i])
               PROVE  p < c2[at[m][i]] <=> IF i < depth2[m] THEN p <= at[m][i + 1]
                                           ELSE nextIter'[m] = 0 \/ p < nextIter'[m]
    BY <1>16, Rigid DEF Cursors, inside
  <2>0. inside(depth, m, i) /\ at[m][i] # b
    BY <1>15
  <2>1. inside(depth, m, i) /\ c2[at[m][i]] = c[at[m][i]]
    BY <1>4, <1>9, <2>0
  <2>2. p < c[at[m][i]] <=> IF i < depth[m] THEN p <= at[m][i + 1]
                            ELSE nextIter[m] = 0 \/ p < nextIter[m]
    BY <2>1 DEF OrderAt, Cursors
  <2>3. CASE m # l
    BY <1>5, <1>14, <2>1, <2>2, <2>3
  <2>4. CASE m = l /\ i # d - 1
    <3>1. i < d /\ i < d - 1
      BY <1>6, <1>11, <1>14, <2>4 DEF inside
    <3> QED
      BY <1>6, <1>14, <2>1, <2>2, <2>4, <3>1
  <2>5. CASE m = l /\ i = d - 1
    <3>1. i < d /\ ~ (i < depth2[m]) /\ at[m][i + 1] = b /\ p \in inBlock(g) /\ p \in Nat
      BY <1>1, <1>6, <1>11, <1>14, <2>5
    <3>2. p < c[at[m][i]] <=> p <= b
      BY <1>6, <2>2, <2>5, <3>1
    <3>3. CASE n = 0
      BY <1>2, <1>5, <2>1, <2>5, <3>1, <3>2, <3>3
    <3>4. CASE n # 0
      <4>1. n \in Nat /\ (b < p <=> n <= p)
        BY <1>2, <1>6, <3>1, <3>4
      <4> QED
        BY <1>5, <1>6, <2>1, <2>5, <3>1, <3>2, <3>4, <4>1
    <3> QED
      BY <3>3, <3>4
  <2> QED
    BY <2>3, <2>4, <2>5
<1>22. Fresh(c2, depth2, at)'
  <2> SUFFICES ASSUME NEW x \in Blocks,
                      \A m \in Launchers : \A i \in Nat : inside(depth2, m, i) => at[m][i] # x,
                      NEW p \in inBlock(x)
               PROVE  ~ (p < c2[x])
    BY <1>16, Rigid DEF Fresh, inside
  <2>1. CASE x = b
    BY <1>6, <1>9, <2>1
  <2>2. CASE x # b
    <3>1. \A m \in Launchers : \A i \in Nat : inside(depth, m, i) => at[m][i] # x
      BY <1>15, <2>2
    <3>2. ~ (p < c[x])
      BY <3>1 DEF OrderAt, Fresh
    <3> QED
      BY <1>9, <2>2, <3>2
  <2> QED
    BY <2>1, <2>2
<1> QED
  BY <1>7, <1>17, <1>18, <1>19, <1>20, <1>21, <1>22 DEF OrderAt

(* From the end of the body of a launch out of it.                          *)
LEMMA WalkBack ==
  ASSUME TypeOK, NEW r, NEW c, NEW depth, NEW at, OrderAt(r, c, depth, at),
         NEW l \in Launchers, NEW o \in Ops, nextIter[l] = o, prog' = prog,
         kind(o) = "return", nextIter' = [nextIter EXCEPT ![l] = 0],
         NEW r2, r2 = [r EXCEPT ![blockOf(o)] = r[blockOf(o)] + 1],
         NEW c2, c2 = [c EXCEPT ![blockOf(o)] = 0],
         NEW depth2, depth2 = [depth EXCEPT ![l] = 0]
  PROVE  OrderAt(r2, c2, depth2, at)' /\ WalksOnce(r, c, r2, c2, o)
<1> DEFINE b == blockOf(o)
           d == depth[l]
<1>1. /\ b \in Ops /\ kind(b) = "launch" /\ b # 0 /\ b = at[l][d] /\ inside(depth, l, d)
      /\ \A p \in inBlock(b) : p < c[b] <=> p < o
      /\ \A m \in Launchers : \A i \in Nat :
           inside(depth, m, i) /\ at[m][i] = b => m = l /\ i = d
  BY WhereItIs, BlockFacts DEF Blocks
<1>2. /\ \A p \in inBlock(b) : p \in Nat \ {0} /\ b \in Blocks
  BY <1>1, BlockFacts DEF inBlock, Blocks
<1>3. /\ r \in [Blocks -> Nat] /\ c \in [Blocks -> Nat] /\ b \in Blocks /\ r[b] \in Nat
      /\ depth \in [Launchers -> Nat] /\ at \in [Launchers -> [Nat -> Blocks]]
  BY <1>1 DEF OrderAt, GhostType, Blocks
<1>4. nextIter'[l] = 0 /\ \A m \in Launchers : m # l => nextIter'[m] = nextIter[m]
  BY DEF TypeOK, LauncherTypeOK
<1>5. WalksOnce(r, c, r2, c2, o)
  BY <1>1, <1>3, EndOnce
<1>6. r2 \in [Blocks -> Nat]
  BY <1>3
<1>7. /\ c2 \in [Blocks -> Nat] /\ c2[b] = 0 /\ \A x \in Blocks : x # b => c2[x] = c[x]
  BY <1>3
<1>8. d \in Nat /\ d = 1
  <2>1. d \in Nat
    BY <1>3
  <2>2. d # 1 => kind(at[l][d]) = "for"
    BY <1>1, <2>1 DEF OrderAt, Chained
  <2> QED
    BY <1>1, <2>1, <2>2
<1>9. l # Host
  BY <1>1, <1>8 DEF OrderAt, Rooted
<1> HIDE DEF d, b
<1>10. /\ depth2 \in [Launchers -> Nat] /\ depth2[l] = 0
       /\ \A m \in Launchers : m # l => depth2[m] = depth[m]
  BY <1>3
<1>11. \A i \in Nat : inside(depth, l, i) => i = 1
  BY <1>8 DEF inside, d
<1>12. /\ \A m \in Launchers : \A i \in Nat : inside(depth2, m, i) =>
            m # l /\ inside(depth, m, i) /\ at[m][i] # b
       /\ \A m \in Launchers : \A i \in Nat : inside(depth, m, i) =>
            inside(depth2, m, i) \/ at[m][i] = b
  <2>1. ASSUME NEW m \in Launchers, NEW i \in Nat, inside(depth2, m, i)
        PROVE  m # l /\ inside(depth, m, i) /\ at[m][i] # b
    <3>1. m # l
      BY <1>10, <2>1 DEF inside
    <3>2. inside(depth, m, i)
      BY <1>10, <2>1, <3>1 DEF inside
    <3> QED
      BY <1>1, <3>1, <3>2
  <2>2. ASSUME NEW m \in Launchers, NEW i \in Nat, inside(depth, m, i)
        PROVE  inside(depth2, m, i) \/ at[m][i] = b
    <3>1. CASE m = l
      BY <1>1, <1>8, <1>11, <2>2, <3>1
    <3>2. CASE m # l
      BY <1>10, <2>2, <3>2 DEF inside
    <3> QED
      BY <3>1, <3>2
  <2> QED
    BY <2>1, <2>2
<1>13. Blocks' = Blocks /\ \A p : inBlock(p)' = inBlock(p)
  BY Rigid DEF Blocks, inBlock, blockOf
<1>14. GhostType(r2, c2, depth2, at)'
  BY <1>3, <1>6, <1>7, <1>10, <1>13, Rigid DEF GhostType
<1>15. Rooted(depth2, at)'
  <2> SUFFICES ASSUME NEW m \in Launchers, depth2[m] # 0
               PROVE  IF at[m][1] = 0 THEN m = Host
                      ELSE at[m][1] \in Ops /\ kind(at[m][1]) = "launch"
                           /\ P.target[at[m][1]] = m /\ m # Host
    BY Rigid DEF Rooted, kind
  <2>1. depth[m] # 0
    BY <1>10
  <2> QED
    BY <2>1 DEF OrderAt, Rooted
<1>16. Chained(depth2, at)' /\ Separate(depth2, at)'
  <2>1. Chained(depth2, at)
    BY <1>12 DEF OrderAt, Chained
  <2>2. Separate(depth2, at)
    BY <1>12 DEF OrderAt, Separate
  <2> QED
    BY <2>1, <2>2, Rigid DEF Chained, Separate, inside, kind, blockOf
<1>17. Placed(depth2, at)'
  <2> SUFFICES ASSUME NEW m \in Launchers
               PROVE  IF nextIter'[m] = 0 THEN depth2[m] = (IF m = Host THEN 1 ELSE 0)
                      ELSE depth2[m] # 0 /\ blockOf(nextIter'[m]) = at[m][depth2[m]]
    BY Rigid DEF Placed, blockOf
  <2> QED
    BY <1>4, <1>9, <1>10 DEF OrderAt, Placed
<1>18. Cursors(c2, depth2, at)'
  <2> SUFFICES ASSUME NEW m \in Launchers, NEW i \in Nat, inside(depth2, m, i),
                      NEW p \in inBlock(at[m][i])
               PROVE  p < c2[at[m][i]] <=> IF i < depth2[m] THEN p <= at[m][i + 1]
                                           ELSE nextIter'[m] = 0 \/ p < nextIter'[m]
    BY <1>13, Rigid DEF Cursors, inside
  <2>1. m # l /\ inside(depth, m, i) /\ at[m][i] # b
    BY <1>12
  <2>2. c2[at[m][i]] = c[at[m][i]] /\ nextIter'[m] = nextIter[m] /\ depth2[m] = depth[m]
    BY <1>3, <1>4, <1>7, <1>10, <2>1
  <2> QED
    BY <2>1, <2>2 DEF OrderAt, Cursors
<1>19. Fresh(c2, depth2, at)'
  <2> SUFFICES ASSUME NEW x \in Blocks,
                      \A m \in Launchers : \A i \in Nat : inside(depth2, m, i) => at[m][i] # x,
                      NEW p \in inBlock(x)
               PROVE  ~ (p < c2[x])
    BY <1>13, Rigid DEF Fresh, inside
  <2>1. CASE x = b
    BY <1>2, <1>7, <2>1
  <2>2. CASE x # b
    <3>1. \A m \in Launchers : \A i \in Nat : inside(depth, m, i) => at[m][i] # x
      BY <1>12, <2>2
    <3>2. ~ (p < c[x])
      BY <3>1 DEF OrderAt, Fresh
    <3> QED
      BY <1>7, <2>2, <3>2
  <2> QED
    BY <2>1, <2>2
<1> QED
  BY <1>5, <1>14, <1>15, <1>16, <1>17, <1>18, <1>19 DEF OrderAt

(* A launcher that is nowhere enters the body of a launch.                  *)
LEMMA WalkEnter ==
  ASSUME TypeOK, NEW r, NEW c, NEW depth, NEW at, OrderAt(r, c, depth, at),
         NEW l \in Launchers, l # Host, nextIter[l] = 0, prog' = prog,
         NEW o \in Ops, kind(o) = "launch", P.target[o] = l,
         nextIter' = [nextIter EXCEPT ![l] = P.first[o]],
         NEW depth2, depth2 = [depth EXCEPT ![l] = 1],
         NEW at2, at2 = [at EXCEPT ![l] = [at[l] EXCEPT ![1] = o]]
  PROVE  OrderAt(r, c, depth2, at2)'
<1> DEFINE n == P.first[o]
<1>1. depth[l] = 0
  BY DEF OrderAt, Placed
<1>2. n # 0 /\ n \in inBlock(o) /\ (\A x \in inBlock(o) : n <= x) /\ o # 0 /\ o \in Blocks
  BY FirstFacts, BlockFacts DEF Blocks
<1>3. /\ r \in [Blocks -> Nat] /\ c \in [Blocks -> Nat]
      /\ depth \in [Launchers -> Nat] /\ at \in [Launchers -> [Nat -> Blocks]]
  BY DEF OrderAt, GhostType
<1>4. nextIter'[l] = n /\ \A m \in Launchers : m # l => nextIter'[m] = nextIter[m]
  BY DEF TypeOK, LauncherTypeOK
<1>5. blockOf(n) = o /\ n \in Nat /\ \A p \in inBlock(o) : p \in Nat
  BY <1>2, BlockFacts DEF inBlock
<1>6. \A m \in Launchers : \A i \in Nat : inside(depth, m, i) => at[m][i] # o
  <2> SUFFICES ASSUME NEW m \in Launchers, NEW i \in Nat, inside(depth, m, i), at[m][i] = o
               PROVE  FALSE
    OBVIOUS
  <2>1. i = 1
    BY DEF OrderAt, Chained
  <2>2. depth[m] # 0
    BY <1>3 DEF inside
  <2>3. m = l
    BY <1>2, <2>1, <2>2 DEF OrderAt, Rooted
  <2> QED
    BY <1>1, <2>2, <2>3
<1> HIDE DEF n
<1>7. /\ depth2 \in [Launchers -> Nat] /\ depth2[l] = 1
      /\ \A m \in Launchers : m # l => depth2[m] = depth[m]
  BY <1>3
<1>8. /\ at2 \in [Launchers -> [Nat -> Blocks]] /\ at2[l][1] = o
      /\ \A m \in Launchers : m # l => at2[m] = at[m]
  <2>1. [at[l] EXCEPT ![1] = o] \in [Nat -> Blocks]
    BY <1>2, <1>3
  <2> QED
    BY <1>3, <2>1
<1>9. /\ \A m \in Launchers : \A i \in Nat : inside(depth, m, i) =>
           m # l /\ inside(depth2, m, i) /\ at2[m][i] = at[m][i]
      /\ \A m \in Launchers : \A i \in Nat : inside(depth2, m, i) =>
           (m # l /\ inside(depth, m, i)) \/ (m = l /\ i = 1)
      /\ inside(depth2, l, 1)
  <2>1. ASSUME NEW m \in Launchers, NEW i \in Nat, inside(depth, m, i)
        PROVE  m # l /\ inside(depth2, m, i) /\ at2[m][i] = at[m][i]
    <3>1. m # l
      BY <1>1, <2>1 DEF inside
    <3> QED
      BY <1>7, <1>8, <2>1, <3>1 DEF inside
  <2>2. ASSUME NEW m \in Launchers, NEW i \in Nat, inside(depth2, m, i)
        PROVE  (m # l /\ inside(depth, m, i)) \/ (m = l /\ i = 1)
    <3>1. CASE m # l
      BY <1>7, <2>2, <3>1 DEF inside
    <3>2. CASE m = l
      <4>1. 1 <= i /\ i <= depth2[l] /\ depth2[l] = 1
        BY <1>7, <2>2, <3>2 DEF inside
      <4> QED
        BY <3>2, <4>1
    <3> QED
      BY <3>1, <3>2
  <2>3. inside(depth2, l, 1)
    <3>1. depth2[l] = 1
      BY <1>7
    <3> QED
      BY <3>1 DEF inside
  <2> QED
    BY <2>1, <2>2, <2>3
<1>10. Blocks' = Blocks /\ \A p : inBlock(p)' = inBlock(p)
  BY Rigid DEF Blocks, inBlock, blockOf
<1>11. GhostType(r, c, depth2, at2)'
  BY <1>3, <1>7, <1>8, <1>10, Rigid DEF GhostType
<1>12. Rooted(depth2, at2)'
  <2> SUFFICES ASSUME NEW m \in Launchers, depth2[m] # 0
               PROVE  IF at2[m][1] = 0 THEN m = Host
                      ELSE at2[m][1] \in Ops /\ kind(at2[m][1]) = "launch"
                           /\ P.target[at2[m][1]] = m /\ m # Host
    BY Rigid DEF Rooted, kind
  <2>1. CASE m = l
    BY <1>2, <1>8, <2>1
  <2>2. CASE m # l
    BY <1>7, <1>8, <2>2 DEF OrderAt, Rooted
  <2> QED
    BY <2>1, <2>2
<1>13. Chained(depth2, at2)'
  <2> SUFFICES ASSUME NEW m \in Launchers, NEW i \in Nat, inside(depth2, m, i), i # 1
               PROVE  /\ at2[m][i] \in Ops /\ kind(at2[m][i]) = "for"
                      /\ blockOf(at2[m][i]) = at2[m][i - 1]
    BY Rigid DEF Chained, inside, kind, blockOf
  <2>1. m # l /\ inside(depth, m, i)
    BY <1>9
  <2> QED
    BY <1>8, <2>1 DEF OrderAt, Chained
<1>14. Separate(depth2, at2)'
  <2> SUFFICES ASSUME NEW m \in Launchers, NEW k \in Launchers, NEW i \in Nat, NEW j \in Nat,
                      inside(depth2, m, i), inside(depth2, k, j), at2[m][i] = at2[k][j]
               PROVE  m = k /\ i = j
    BY Rigid DEF Separate, inside
  <2>1. CASE inside(depth, m, i) /\ inside(depth, k, j)
    BY <1>9, <2>1 DEF OrderAt, Separate
  <2>2. CASE inside(depth, m, i) /\ ~ inside(depth, k, j)
    <3>1. at2[m][i] = at[m][i] /\ at[m][i] # o
      BY <1>6, <1>9, <2>2
    <3>2. k = l /\ j = 1
      BY <1>9, <2>2
    <3> QED
      BY <1>8, <3>1, <3>2
  <2>3. CASE ~ inside(depth, m, i) /\ inside(depth, k, j)
    <3>1. at2[k][j] = at[k][j] /\ at[k][j] # o
      BY <1>6, <1>9, <2>3
    <3>2. m = l /\ i = 1
      BY <1>9, <2>3
    <3> QED
      BY <1>8, <3>1, <3>2
  <2>4. CASE ~ inside(depth, m, i) /\ ~ inside(depth, k, j)
    <3>1. m = l /\ i = 1
      BY <1>9, <2>4
    <3>2. k = l /\ j = 1
      BY <1>9, <2>4
    <3> QED
      BY <3>1, <3>2
  <2> QED
    BY <2>1, <2>2, <2>3, <2>4
<1>15. Placed(depth2, at2)'
  <2> SUFFICES ASSUME NEW m \in Launchers
               PROVE  IF nextIter'[m] = 0 THEN depth2[m] = (IF m = Host THEN 1 ELSE 0)
                      ELSE depth2[m] # 0 /\ blockOf(nextIter'[m]) = at2[m][depth2[m]]
    BY Rigid DEF Placed, blockOf
  <2>1. CASE m # l
    BY <1>4, <1>7, <1>8, <2>1 DEF OrderAt, Placed
  <2>2. CASE m = l
    <3>1. nextIter'[l] = n /\ depth2[l] = 1 /\ at2[l][1] = o
      BY <1>4, <1>7, <1>8
    <3> QED
      BY <1>2, <1>5, <2>2, <3>1
  <2> QED
    BY <2>1, <2>2
<1>16. Cursors(c, depth2, at2)'
  <2> SUFFICES ASSUME NEW m \in Launchers, NEW i \in Nat, inside(depth2, m, i),
                      NEW p \in inBlock(at2[m][i])
               PROVE  p < c[at2[m][i]] <=> IF i < depth2[m] THEN p <= at2[m][i + 1]
                                           ELSE nextIter'[m] = 0 \/ p < nextIter'[m]
    BY <1>10, Rigid DEF Cursors, inside
  <2>1. CASE m = l /\ i = 1
    <3>1. at2[m][i] = o /\ ~ (p < c[o])
      BY <1>2, <1>6, <1>8, <2>1 DEF OrderAt, Fresh
    <3>2. ~ (i < depth2[m]) /\ n <= p /\ p \in Nat
      BY <1>2, <1>5, <1>7, <2>1, <3>1
    <3> QED
      BY <1>2, <1>4, <1>5, <2>1, <3>1, <3>2
  <2>2. CASE m # l /\ inside(depth, m, i)
    <3>1. at2[m] = at[m] /\ depth2[m] = depth[m] /\ nextIter'[m] = nextIter[m]
      BY <1>4, <1>7, <1>8, <2>2
    <3> QED
      BY <2>2, <3>1 DEF OrderAt, Cursors
  <2> QED
    BY <1>9, <2>1, <2>2
<1>17. Fresh(c, depth2, at2)'
  <2> SUFFICES ASSUME NEW x \in Blocks,
                      \A m \in Launchers : \A i \in Nat : inside(depth2, m, i) => at2[m][i] # x,
                      NEW p \in inBlock(x)
               PROVE  ~ (p < c[x])
    BY <1>10, Rigid DEF Fresh, inside
  <2>1. ASSUME NEW m \in Launchers, NEW i \in Nat, inside(depth, m, i)
        PROVE  at[m][i] # x
    <3>1. inside(depth2, m, i) /\ at2[m][i] = at[m][i]
      BY <1>9, <2>1
    <3> QED
      BY <3>1
  <2> QED
    BY <2>1 DEF OrderAt, Fresh
<1> QED
  BY <1>11, <1>12, <1>13, <1>14, <1>15, <1>16, <1>17 DEF OrderAt

-----------------------------------------------------------------------------
(***************************************************************************)
(* The events that a device still has to start: the one it has taken and   *)
(* those in its queue.  w[o] is how often event o was walked past, and     *)
(* num[l][i] the number, counted from 0, of the run that the i-th of them  *)
(* will be.                                                                *)
(***************************************************************************)
Events == { o \in Ops : kind(o) \in EventKinds }

taken(l) == opEntry[l] \in Events /\ ~ is_started(l)

backlog(l) == IF taken(l) THEN << opEntry[l] >> \o eventQueue[l] ELSE eventQueue[l]

backlogs == [l \in Launchers |-> backlog(l)]

QueueType(w, num, q, runs) ==
  /\ w \in [Ops -> Nat] /\ runs \in [Ops -> Nat]
  /\ num \in [Launchers -> [Nat -> Nat]] /\ q \in [Launchers -> Seq(Ops)]

Pending(w, num, q, runs) ==
  \A l \in Launchers : \A i \in 1 .. Len(q[l]) :
    /\ q[l][i] \in Events /\ P.target[q[l][i]] = l
    /\ runs[q[l][i]] <= num[l][i] /\ num[l][i] < w[q[l][i]]

isQueued(num, q, l, o, n) == \E i \in 1 .. Len(q[l]) : q[l][i] = o /\ num[l][i] = n

Complete(w, num, q, runs) ==
  \A o \in Events :
    /\ runs[o] <= w[o]
    /\ \A n \in Nat : runs[o] <= n /\ n < w[o] =>
         P.target[o] \in Launchers /\ isQueued(num, q, P.target[o], o, n)

(* Of one block, earlier runs come first, and of a run earlier operations.  *)
before(m, a, n, b) == m < n \/ (m = n /\ a < b)

Sorted(num, q) ==
  \A l \in Launchers : \A i, j \in 1 .. Len(q[l]) :
    i < j /\ blockOf(q[l][i]) = blockOf(q[l][j])
      => before(num[l][i], q[l][i], num[l][j], q[l][j])

InStep(runs) ==
  \A a, b \in Events :
    a < b /\ blockOf(a) = blockOf(b) /\ P.target[a] = P.target[b] => runs[a] - runs[b] \in {0, 1}

Queued(w, num, q, runs) ==
  /\ QueueType(w, num, q, runs) /\ Pending(w, num, q, runs) /\ Complete(w, num, q, runs)
  /\ Sorted(num, q) /\ InStep(runs)

(* A block is walked from its first operation to its last.                  *)
WalkOrder(w) ==
  \A a, b \in Ops : a < b /\ blockOf(a) = blockOf(b) => w[a] - w[b] \in {0, 1}

LEMMA QueuedRigid ==
  ASSUME NEW w, NEW num, NEW q, NEW runs, Queued(w, num, q, runs), prog' = prog
  PROVE  Queued(w, num, q, runs)'
<1>1. Events' = Events /\ Launchers' = Launchers /\ Ops' = Ops
  BY Rigid DEF Events, kind
<1>2. QueueType(w, num, q, runs)'
  BY <1>1 DEF Queued, QueueType
<1>3. P' = P
  BY Rigid
<1>4. Pending(w, num, q, runs)'
  BY <1>1, <1>3 DEF Queued, Pending
<1>5. Complete(w, num, q, runs)'
  BY <1>1, <1>3 DEF Queued, Complete, isQueued
<1>6. Sorted(num, q)' /\ InStep(runs)'
  BY <1>1, <1>3 DEF Queued, Sorted, InStep, before, blockOf
<1> QED
  BY <1>2, <1>4, <1>5, <1>6 DEF Queued

LEMMA EventFacts ==
  ASSUME TypeOK
  PROVE  Events \subseteq Ops /\ Ops \subseteq Nat \ {0}
BY BlockFacts DEF Events

(* Other operations may be walked past.                                     *)
LEMMA QueuedOther ==
  ASSUME TypeOK, NEW w, NEW num, NEW q, NEW runs, Queued(w, num, q, runs),
         NEW w2 \in [Ops -> Nat], NEW runs2 \in [Ops -> Nat],
         \A o \in Events : w2[o] = w[o] /\ runs2[o] = runs[o]
  PROVE  Queued(w2, num, q, runs2)
<1>1. QueueType(w2, num, q, runs2)
  BY DEF Queued, QueueType
<1>2. Pending(w2, num, q, runs2)
  BY DEF Queued, Pending
<1>3. Complete(w2, num, q, runs2)
  BY DEF Queued, Complete
<1>4. InStep(runs2)
  BY DEF Queued, InStep
<1> QED
  BY <1>1, <1>2, <1>3, <1>4 DEF Queued

(* One of the numbers goes up by one.                                       *)
OnceMore(f, o, f2) ==
  f2 \in [Ops -> Nat] /\ f2[o] = f[o] + 1 /\ \A x \in Ops : x # o => f2[x] = f[x]

(* An event is pushed: its run is numbered by how often it was walked past. *)
Pushed(w, num, q, l, o, w2, num2, q2) ==
  /\ q2 \in [Launchers -> Seq(Ops)] /\ q2[l] = Append(q[l], o)
  /\ \A m \in Launchers : m # l => q2[m] = q[m]
  /\ w2 \in [Ops -> Nat] /\ w2[o] = w[o] + 1 /\ \A x \in Ops : x # o => w2[x] = w[x]
  /\ num2 \in [Launchers -> [Nat -> Nat]] /\ num2[l][Len(q[l]) + 1] = w[o]
  /\ \A i \in Nat : i # Len(q[l]) + 1 => num2[l][i] = num[l][i]
  /\ \A m \in Launchers : m # l => num2[m] = num[m]

LEMMA QueuedPush ==
  ASSUME TypeOK, NEW w, NEW num, NEW q, NEW runs, Queued(w, num, q, runs), WalkOrder(w),
         NEW l \in Launchers, NEW o \in Events, P.target[o] = l,
         NEW w2, NEW num2, NEW q2, Pushed(w, num, q, l, o, w2, num2, q2)
  PROVE  Queued(w2, num2, q2, runs)
<1> DEFINE k == Len(q[l])
<1>1. /\ Events \subseteq Ops /\ Ops \subseteq Nat \ {0} /\ runs \in [Ops -> Nat]
      /\ w \in [Ops -> Nat] /\ num \in [Launchers -> [Nat -> Nat]]
      /\ q \in [Launchers -> Seq(Ops)] /\ q[l] \in Seq(Ops)
  BY EventFacts DEF Queued, QueueType
<1>2. k \in Nat /\ o \in Ops /\ k + 1 \in Nat
  BY <1>1, LenProperties
<1>3. /\ q2[l] = Append(q[l], o) /\ q2 \in [Launchers -> Seq(Ops)]
      /\ \A m \in Launchers : m # l => q2[m] = q[m]
  BY DEF Pushed
<1>4. /\ Len(q2[l]) = k + 1 /\ q2[l][k + 1] = o
      /\ \A i \in 1 .. k : q2[l][i] = q[l][i]
  BY <1>1, <1>2, <1>3, AppendProperties
<1>5. /\ w2 \in [Ops -> Nat] /\ w2[o] = w[o] + 1
      /\ \A x \in Ops : x # o => w2[x] = w[x]
  BY DEF Pushed
<1>6. /\ num2 \in [Launchers -> [Nat -> Nat]] /\ num2[l][k + 1] = w[o]
      /\ \A i \in Nat : i # k + 1 => num2[l][i] = num[l][i]
      /\ \A m \in Launchers : m # l => num2[m] = num[m]
  BY DEF Pushed
<1>7. runs[o] <= w[o]
  BY DEF Queued, Complete
<1>8. \A i \in 1 .. k : /\ q[l][i] \in Events /\ P.target[q[l][i]] = l
                        /\ runs[q[l][i]] <= num[l][i] /\ num[l][i] < w[q[l][i]]
  BY DEF Queued, Pending
<1>9. \A x \in Ops : w[x] <= w2[x] /\ w2[x] \in Nat /\ w[x] \in Nat /\ runs[x] \in Nat
  <2> SUFFICES ASSUME NEW x \in Ops PROVE w[x] <= w2[x] /\ w2[x] \in Nat
    BY <1>1, <1>5
  <2>1. w[x] \in Nat /\ w2[x] \in Nat
    BY <1>1, <1>5
  <2>2. w2[x] = w[x] \/ w2[x] = w[x] + 1
    BY <1>5
  <2> QED
    BY <2>1, <2>2
<1> HIDE DEF k
<1>10. \A i \in 1 .. k : i \in Nat /\ i # k + 1 /\ num2[l][i] = num[l][i] /\ num[l][i] \in Nat
  <2> SUFFICES ASSUME NEW i \in 1 .. k
               PROVE  i \in Nat /\ i # k + 1 /\ num2[l][i] = num[l][i] /\ num[l][i] \in Nat
    OBVIOUS
  <2>1. i \in Nat /\ i # k + 1
    BY <1>2
  <2> QED
    BY <1>1, <1>6, <2>1
<1>11. Pending(w2, num2, q2, runs)
  <2> SUFFICES ASSUME NEW m \in Launchers, NEW i \in 1 .. Len(q2[m])
               PROVE  /\ q2[m][i] \in Events /\ P.target[q2[m][i]] = m
                      /\ runs[q2[m][i]] <= num2[m][i] /\ num2[m][i] < w2[q2[m][i]]
    BY DEF Pending
  <2>1. CASE m # l
    <3>1. /\ q[m][i] \in Events /\ P.target[q[m][i]] = m
          /\ runs[q[m][i]] <= num[m][i] /\ num[m][i] < w[q[m][i]]
      BY <1>3, <2>1 DEF Queued, Pending
    <3>2. q[m][i] # o /\ q[m][i] \in Ops
      BY <1>1, <2>1, <3>1
    <3> QED
      BY <1>3, <1>5, <1>6, <2>1, <3>1, <3>2
  <2>2. CASE m = l /\ i = k + 1
    <3>1. q2[m][i] = o /\ num2[m][i] = w[o] /\ w2[o] = w[o] + 1 /\ w[o] \in Nat
      BY <1>2, <1>4, <1>5, <1>6, <1>9, <2>2
    <3> QED
      BY <1>7, <2>2, <3>1
  <2>3. CASE m = l /\ i # k + 1
    <3>1. i \in 1 .. k
      BY <1>2, <1>4, <2>3
    <3>2. q2[m][i] = q[l][i] /\ num2[m][i] = num[l][i] /\ num[l][i] \in Nat
      BY <1>4, <1>10, <2>3, <3>1
    <3>3. q[l][i] \in Ops
      BY <1>1, <1>8, <3>1
    <3>4. num[l][i] < w2[q[l][i]]
      BY <1>8, <1>9, <3>1, <3>2, <3>3
    <3> QED
      BY <1>8, <2>3, <3>1, <3>2, <3>4
  <2> QED
    BY <2>1, <2>2, <2>3
<1>12. Complete(w2, num2, q2, runs)
  <2> SUFFICES ASSUME NEW x \in Events
               PROVE  /\ runs[x] <= w2[x]
                      /\ \A n \in Nat : runs[x] <= n /\ n < w2[x] =>
                           P.target[x] \in Launchers /\ isQueued(num2, q2, P.target[x], x, n)
    BY DEF Complete
  <2>1. runs[x] <= w2[x]
    <3>1. runs[x] <= w[x] /\ x \in Ops
      BY <1>1 DEF Queued, Complete
    <3> QED
      BY <1>9, <3>1
  <2>2. ASSUME NEW n \in Nat, runs[x] <= n, n < w[x]
        PROVE  P.target[x] \in Launchers /\ isQueued(num2, q2, P.target[x], x, n)
    <3>1. P.target[x] \in Launchers /\ isQueued(num, q, P.target[x], x, n)
      BY <2>2 DEF Queued, Complete
    <3>2. CASE P.target[x] # l
      BY <1>3, <1>6, <3>1, <3>2 DEF isQueued
    <3>3. CASE P.target[x] = l
      <4>1. PICK i \in 1 .. k : q[l][i] = x /\ num[l][i] = n
        BY <3>1, <3>3 DEF isQueued, k
      <4>2. i \in 1 .. Len(q2[l])
        BY <1>2, <1>4
      <4>3. q2[l][i] = x /\ num2[l][i] = n
        BY <1>4, <1>10, <4>1
      <4> QED
        BY <3>1, <3>3, <4>2, <4>3 DEF isQueued
    <3> QED
      BY <3>2, <3>3
  <2>3. P.target[o] \in Launchers /\ isQueued(num2, q2, P.target[o], o, w[o])
    <3>1. k + 1 \in 1 .. Len(q2[l])
      BY <1>2, <1>4
    <3> QED
      BY <1>4, <1>6, <3>1 DEF isQueued
  <2>4. ASSUME NEW n \in Nat, runs[x] <= n, n < w2[x]
        PROVE  P.target[x] \in Launchers /\ isQueued(num2, q2, P.target[x], x, n)
    <3>0. x \in Ops /\ w[x] \in Nat /\ w[o] \in Nat
      BY <1>1, <1>2, <1>9
    <3>1. CASE n < w[x]
      BY <2>2, <2>4, <3>1
    <3>2. CASE ~ (n < w[x])
      <4>1. x = o
        BY <1>5, <2>4, <3>0, <3>2
      <4>2. n < w[o] + 1 /\ ~ (n < w[o])
        BY <1>5, <2>4, <3>2, <4>1
      <4>3. n = w[o]
        BY <3>0, <4>2
      <4> QED
        BY <2>3, <4>1, <4>3
    <3> QED
      BY <3>1, <3>2
  <2> QED
    BY <2>1, <2>4
<1>13. Sorted(num2, q2)
  <2> SUFFICES ASSUME NEW m \in Launchers, NEW i \in 1 .. Len(q2[m]),
                      NEW j \in 1 .. Len(q2[m]), i < j,
                      blockOf(q2[m][i]) = blockOf(q2[m][j])
               PROVE  before(num2[m][i], q2[m][i], num2[m][j], q2[m][j])
    BY DEF Sorted
  <2>1. CASE m # l
    <3>1. q2[m] = q[m] /\ num2[m] = num[m]
      BY <1>3, <1>6, <2>1
    <3> QED
      BY <3>1 DEF Queued, Sorted
  <2>2. CASE m = l /\ j # k + 1
    <3>0. i \in 1 .. k /\ j \in 1 .. k
      BY <1>2, <1>4, <2>2
    <3>1. q2[l][i] = q[l][i] /\ q2[l][j] = q[l][j]
      BY <1>4, <3>0
    <3>2. before(num[l][i], q[l][i], num[l][j], q[l][j])
      BY <2>2, <3>0, <3>1 DEF Queued, Sorted, k
    <3>3. num2[l][i] = num[l][i] /\ num2[l][j] = num[l][j]
      BY <1>10, <3>0
    <3> QED
      BY <2>2, <3>1, <3>2, <3>3
  <2>3. CASE m = l /\ j = k + 1
    <3>0. i \in 1 .. k
      BY <1>2, <1>4, <2>3
    <3>1. q2[m][i] = q[l][i] /\ q2[m][j] = o /\ blockOf(q[l][i]) = blockOf(o)
      BY <1>4, <2>3, <3>0
    <3>2. num2[m][i] = num[l][i] /\ num2[m][j] = w[o]
      BY <1>6, <1>10, <2>3, <3>0
    <3>3. q[l][i] \in Ops /\ num[l][i] < w[q[l][i]] /\ num[l][i] \in Nat
      BY <1>1, <1>8, <1>10, <3>0
    <3> SUFFICES before(num[l][i], q[l][i], w[o], o)
      BY <3>1, <3>2
    <3>4. w[q[l][i]] \in Nat /\ w[o] \in Nat /\ q[l][i] \in Nat /\ o \in Nat
      BY <1>1, <1>2, <1>9, <3>3
    <3>5. CASE q[l][i] = o
      BY <3>3, <3>5 DEF before
    <3>6. CASE q[l][i] < o
      <4>1. w[q[l][i]] - w[o] \in {0, 1}
        BY <1>2, <3>1, <3>3, <3>6 DEF WalkOrder
      <4> QED
        BY <3>3, <3>4, <3>6, <4>1 DEF before
    <3>7. CASE o < q[l][i]
      <4>1. w[o] - w[q[l][i]] \in {0, 1}
        BY <1>2, <3>1, <3>3, <3>7 DEF WalkOrder
      <4> QED
        BY <3>3, <3>4, <4>1 DEF before
    <3> QED
      BY <3>4, <3>5, <3>6, <3>7
  <2>4. j \in Nat
    OBVIOUS
  <2> QED
    BY <2>1, <2>2, <2>3
<1>14. QueueType(w2, num2, q2, runs)
  BY <1>1, <1>3, <1>5, <1>6 DEF QueueType
<1> QED
  BY <1>11, <1>12, <1>13, <1>14 DEF Queued

(* The first event of a device is started.                                  *)
Started(num, q, runs, l, o, num2, q2, runs2) ==
  /\ q[l] # <<>> /\ o = Head(q[l])
  /\ q2 \in [Launchers -> Seq(Ops)] /\ q2[l] = Tail(q[l])
  /\ \A m \in Launchers : m # l => q2[m] = q[m]
  /\ runs2 \in [Ops -> Nat] /\ runs2[o] = runs[o] + 1
  /\ \A x \in Ops : x # o => runs2[x] = runs[x]
  /\ num2 \in [Launchers -> [Nat -> Nat]]
  /\ \A i \in Nat : num2[l][i] = num[l][i + 1]
  /\ \A m \in Launchers : m # l => num2[m] = num[m]

LEMMA QueuedStart ==
  ASSUME TypeOK, NEW w, NEW num, NEW q, NEW runs, Queued(w, num, q, runs), WalkOrder(w),
         NEW l \in Launchers, NEW o \in Events,
         NEW num2, NEW q2, NEW runs2, Started(num, q, runs, l, o, num2, q2, runs2)
  PROVE  Queued(w, num2, q2, runs2)
<1> DEFINE k == Len(q[l])
           B == runs[o]
<1>1. /\ Events \subseteq Ops /\ Ops \subseteq Nat \ {0} /\ runs \in [Ops -> Nat]
      /\ w \in [Ops -> Nat] /\ num \in [Launchers -> [Nat -> Nat]]
      /\ q \in [Launchers -> Seq(Ops)] /\ q[l] \in Seq(Ops)
  BY EventFacts DEF Queued, QueueType
<1>2. /\ q[l] # <<>> /\ o = Head(q[l]) /\ q2[l] = Tail(q[l]) /\ q2 \in [Launchers -> Seq(Ops)]
      /\ \A m \in Launchers : m # l => q2[m] = q[m]
  BY DEF Started
<1>3. /\ k \in Nat \ {0} /\ q[l][1] = o /\ Len(q2[l]) = k - 1
      /\ \A i \in 1 .. k - 1 : q2[l][i] = q[l][i + 1]
  BY <1>1, <1>2, HeadTailProperties, LenProperties
<1>4. runs2 \in [Ops -> Nat] /\ runs2[o] = B + 1 /\ \A x \in Ops : x # o => runs2[x] = runs[x]
  BY DEF Started
<1>5. /\ num2 \in [Launchers -> [Nat -> Nat]] /\ \A i \in Nat : num2[l][i] = num[l][i + 1]
      /\ \A m \in Launchers : m # l => num2[m] = num[m]
  BY DEF Started
<1>6. \A i \in 1 .. k : /\ q[l][i] \in Events /\ P.target[q[l][i]] = l
                        /\ runs[q[l][i]] <= num[l][i] /\ num[l][i] < w[q[l][i]]
  BY DEF Queued, Pending
<1>7. /\ o \in Ops /\ B \in Nat /\ \A i \in 1 .. k : i \in Nat /\ num[l][i] \in Nat
  BY <1>1, <1>3
<1>8. 1 \in 1 .. k /\ P.target[o] = l /\ B <= num[l][1] /\ num[l][1] < w[o]
  BY <1>3, <1>6
<1>9. ASSUME NEW i \in 1 .. k, i # 1, blockOf(q[l][i]) = blockOf(o)
      PROVE  before(num[l][1], o, num[l][i], q[l][i])
  <2>1. 1 < i
    BY <1>7, <1>9
  <2> QED
    BY <1>3, <1>8, <1>9, <2>1 DEF Queued, Sorted
<1>10. num[l][1] = B
  <2>0. w[o] \in Nat /\ num[l][1] \in Nat
    BY <1>1, <1>7, <1>8
  <2>1. B < w[o]
    BY <1>7, <1>8, <2>0
  <2>2. PICK i \in 1 .. k : q[l][i] = o /\ num[l][i] = B
    BY <1>7, <1>8, <2>1 DEF Queued, Complete, isQueued
  <2>3. CASE i = 1
    BY <2>2, <2>3
  <2>4. CASE i # 1
    <3>1. before(num[l][1], o, B, o)
      BY <1>9, <2>2, <2>4
    <3> QED
      BY <1>7, <1>8, <2>0, <3>1 DEF before
  <2> QED
    BY <2>3, <2>4
<1> HIDE DEF k, B
<1>11. ASSUME NEW x \in Events, P.target[x] = l, blockOf(x) = blockOf(o), NEW n \in Nat,
              runs[x] <= n, n < w[x], ~ (x = o /\ n = B)
       PROVE  before(B, o, n, x)
  <2>1. PICK i \in 1 .. k : q[l][i] = x /\ num[l][i] = n
    BY <1>11 DEF Queued, Complete, isQueued, k
  <2>2. i # 1
    BY <1>3, <1>10, <1>11, <2>1
  <2> QED
    BY <1>9, <1>10, <1>11, <2>1, <2>2
<1>12. \A i \in 1 .. Len(q2[l]) : /\ i \in Nat /\ i + 1 \in 1 .. k /\ i + 1 # 1
                                  /\ q2[l][i] = q[l][i + 1] /\ num2[l][i] = num[l][i + 1]
  <2> SUFFICES ASSUME NEW i \in 1 .. k - 1
               PROVE  /\ i \in Nat /\ i + 1 \in 1 .. k /\ i + 1 # 1
                      /\ q2[l][i] = q[l][i + 1] /\ num2[l][i] = num[l][i + 1]
    BY <1>3
  <2>1. i \in Nat /\ i + 1 \in 1 .. k /\ i + 1 # 1
    BY <1>3
  <2> QED
    BY <1>3, <1>5, <2>1
<1>13. \A i \in 1 .. k : i # 1 => i - 1 \in 1 .. Len(q2[l]) /\ (i - 1) + 1 = i
  BY <1>3
<1>14. Pending(w, num2, q2, runs2)
  <2> SUFFICES ASSUME NEW m \in Launchers, NEW i \in 1 .. Len(q2[m])
               PROVE  /\ q2[m][i] \in Events /\ P.target[q2[m][i]] = m
                      /\ runs2[q2[m][i]] <= num2[m][i] /\ num2[m][i] < w[q2[m][i]]
    BY DEF Pending
  <2>1. CASE m # l
    <3>0. q2[m] = q[m] /\ num2[m] = num[m]
      BY <1>2, <1>5, <2>1
    <3>1. /\ q[m][i] \in Events /\ P.target[q[m][i]] = m
          /\ runs[q[m][i]] <= num[m][i] /\ num[m][i] < w[q[m][i]]
      BY <3>0 DEF Queued, Pending
    <3>2. q[m][i] # o /\ q[m][i] \in Ops
      BY <1>1, <1>8, <2>1, <3>1
    <3> QED
      BY <1>4, <3>0, <3>1, <3>2
  <2>2. CASE m = l
    <3>1. /\ i \in Nat /\ i + 1 \in 1 .. k /\ i + 1 # 1
          /\ q2[l][i] = q[l][i + 1] /\ num2[l][i] = num[l][i + 1]
      BY <1>12, <2>2
    <3>2. /\ q[l][i + 1] \in Events /\ P.target[q[l][i + 1]] = l
          /\ runs[q[l][i + 1]] <= num[l][i + 1] /\ num[l][i + 1] < w[q[l][i + 1]]
      BY <1>6, <3>1
    <3>3. CASE q[l][i + 1] = o
      <4>1. before(B, o, num[l][i + 1], o)
        BY <1>9, <1>10, <3>1, <3>3
      <4>2. B < num[l][i + 1] /\ num[l][i + 1] \in Nat
        <5>1. ~ (o < o)
          BY <1>1, <1>7
        <5> QED
          BY <1>7, <3>1, <4>1, <5>1 DEF before
      <4>3. B + 1 <= num[l][i + 1]
        BY <1>7, <4>2
      <4> QED
        BY <1>4, <2>2, <3>1, <3>2, <3>3, <4>3
    <3>4. CASE q[l][i + 1] # o
      <4>1. runs2[q[l][i + 1]] = runs[q[l][i + 1]]
        BY <1>1, <1>4, <3>2, <3>4
      <4> QED
        BY <2>2, <3>1, <3>2, <4>1
    <3> QED
      BY <3>3, <3>4
  <2> QED
    BY <2>1, <2>2
<1>15. Complete(w, num2, q2, runs2)
  <2> SUFFICES ASSUME NEW x \in Events
               PROVE  /\ runs2[x] <= w[x]
                      /\ \A n \in Nat : runs2[x] <= n /\ n < w[x] =>
                           P.target[x] \in Launchers /\ isQueued(num2, q2, P.target[x], x, n)
    BY DEF Complete
  <2>0. /\ x \in Ops /\ runs[x] \in Nat /\ w[x] \in Nat /\ runs[x] <= w[x]
    BY <1>1 DEF Queued, Complete
  <2>1. runs2[x] <= w[x]
    <3>1. CASE x = o
      <4>1. B < w[o]
        BY <1>8, <1>10
      <4> QED
        BY <1>4, <1>7, <2>0, <3>1, <4>1
    <3> QED
      BY <1>4, <2>0, <3>1
  <2>2. ASSUME NEW n \in Nat, runs2[x] <= n, n < w[x]
        PROVE  P.target[x] \in Launchers /\ isQueued(num2, q2, P.target[x], x, n)
    <3>1. runs[x] <= n /\ (x = o => n # B)
      <4>1. CASE x = o
        <5>1. B + 1 <= n /\ runs[x] = B
          BY <1>4, <2>2, <4>1 DEF B
        <5> QED
          BY <1>7, <5>1
      <4> QED
        BY <1>4, <2>0, <2>2, <4>1
    <3>2. P.target[x] \in Launchers /\ isQueued(num, q, P.target[x], x, n)
      BY <2>2, <3>1 DEF Queued, Complete
    <3>3. CASE P.target[x] # l
      BY <1>2, <1>5, <3>2, <3>3 DEF isQueued
    <3>4. CASE P.target[x] = l
      <4>1. PICK i \in 1 .. k : q[l][i] = x /\ num[l][i] = n
        BY <3>2, <3>4 DEF isQueued, k
      <4>2. i # 1
        BY <1>3, <1>10, <3>1, <4>1
      <4>3. PICK j \in 1 .. Len(q2[l]) : j + 1 = i
        BY <1>13, <4>2
      <4>4. q2[l][j] = x /\ num2[l][j] = n
        BY <1>12, <4>1, <4>3
      <4> QED
        BY <3>2, <3>4, <4>3, <4>4 DEF isQueued
    <3> QED
      BY <3>3, <3>4
  <2> QED
    BY <2>1, <2>2
<1>16. Sorted(num2, q2)
  <2> SUFFICES ASSUME NEW m \in Launchers, NEW i \in 1 .. Len(q2[m]),
                      NEW j \in 1 .. Len(q2[m]), i < j,
                      blockOf(q2[m][i]) = blockOf(q2[m][j])
               PROVE  before(num2[m][i], q2[m][i], num2[m][j], q2[m][j])
    BY DEF Sorted
  <2>1. CASE m # l
    <3>1. q2[m] = q[m] /\ num2[m] = num[m]
      BY <1>2, <1>5, <2>1
    <3> QED
      BY <3>1 DEF Queued, Sorted
  <2>2. CASE m = l
    <3>1. /\ i \in Nat /\ i + 1 \in 1 .. k /\ q2[l][i] = q[l][i + 1] /\ num2[l][i] = num[l][i + 1]
          /\ j \in Nat /\ j + 1 \in 1 .. k /\ q2[l][j] = q[l][j + 1] /\ num2[l][j] = num[l][j + 1]
      BY <1>12, <2>2
    <3>2. i + 1 < j + 1
      BY <3>1
    <3>3. before(num[l][i + 1], q[l][i + 1], num[l][j + 1], q[l][j + 1])
      BY <2>2, <3>1, <3>2 DEF Queued, Sorted, k
    <3> QED
      BY <2>2, <3>1, <3>3
  <2> QED
    BY <2>1, <2>2
<1>17. InStep(runs2)
  <2> SUFFICES ASSUME NEW a \in Events, NEW b \in Events, a < b,
                      blockOf(a) = blockOf(b), P.target[a] = P.target[b]
               PROVE  runs2[a] - runs2[b] \in {0, 1}
    BY DEF InStep
  <2>1. /\ a \in Ops /\ b \in Ops /\ a \in Nat /\ b \in Nat /\ runs[a] \in Nat /\ runs[b] \in Nat
        /\ w[a] \in Nat /\ w[b] \in Nat /\ runs[a] - runs[b] \in {0, 1} /\ w[a] - w[b] \in {0, 1}
    BY <1>1 DEF Queued, InStep, WalkOrder
  <2>2. CASE b = o
    <3>1. ~ (runs[a] <= B /\ B < w[a])
      <4> SUFFICES ASSUME runs[a] <= B, B < w[a] PROVE FALSE
        OBVIOUS
      <4>1. before(B, o, B, a)
        BY <1>7, <1>8, <1>11, <2>1, <2>2
      <4> QED
        BY <1>7, <2>1, <2>2, <4>1 DEF before
    <3>2. B < w[b] /\ runs[b] = B
      BY <1>8, <1>10, <2>2 DEF B
    <3>3. runs2[a] = runs[a] /\ runs2[b] = B + 1
      BY <1>4, <2>1, <2>2
    <3> QED
      BY <1>7, <2>1, <3>1, <3>2, <3>3
  <2>3. CASE a = o
    <3>1. \A n \in Nat : runs[b] <= n /\ n < w[b] => ~ (n < B)
      <4> SUFFICES ASSUME NEW n \in Nat, runs[b] <= n, n < w[b], n < B PROVE FALSE
        OBVIOUS
      <4>1. before(B, o, n, b)
        BY <1>8, <1>11, <2>1, <2>3
      <4> QED
        BY <1>7, <2>1, <4>1 DEF before
    <3>2. B < w[a] /\ runs[a] = B
      BY <1>8, <1>10, <2>3 DEF B
    <3>3. runs2[b] = runs[b] /\ runs2[a] = B + 1
      BY <1>4, <2>1, <2>3
    <3>4. runs[b] < w[b] => ~ (runs[b] < B)
      BY <2>1, <3>1
    <3> QED
      BY <1>7, <2>1, <3>2, <3>3, <3>4
  <2>4. CASE a # o /\ b # o
    BY <1>4, <2>1, <2>4
  <2> QED
    BY <2>2, <2>3, <2>4
<1>18. QueueType(w, num2, q2, runs2)
  BY <1>1, <1>2, <1>4, <1>5 DEF QueueType
<1> QED
  BY <1>14, <1>15, <1>16, <1>17, <1>18 DEF Queued

(* An event of a device that does not exist is over at once.                *)
LEMMA QueuedSkip ==
  ASSUME TypeOK, NEW w, NEW num, NEW q, NEW runs, Queued(w, num, q, runs), NEW o \in Events,
         P.target[o] \in Launchers => q[P.target[o]] = <<>>,
         NEW w2, OnceMore(w, o, w2), NEW runs2, OnceMore(runs, o, runs2), WalkOrder(w2)
  PROVE  Queued(w2, num, q, runs2)
<1>1. /\ w2 \in [Ops -> Nat] /\ w2[o] = w[o] + 1
      /\ \A x \in Ops : x # o => w2[x] = w[x]
  BY DEF OnceMore
<1>2. /\ runs2 \in [Ops -> Nat] /\ runs2[o] = runs[o] + 1
       /\ \A x \in Ops : x # o => runs2[x] = runs[x]
  BY DEF OnceMore
<1>3. /\ Events \subseteq Ops /\ Ops \subseteq Nat \ {0} /\ runs \in [Ops -> Nat]
      /\ w \in [Ops -> Nat] /\ q \in [Launchers -> Seq(Ops)]
  BY EventFacts DEF Queued, QueueType
<1>4. \A x \in Events : P.target[x] = P.target[o] => runs[x] = w[x]
  <2> SUFFICES ASSUME NEW x \in Events, P.target[x] = P.target[o], runs[x] # w[x]
               PROVE  FALSE
    OBVIOUS
  <2>1. runs[x] \in Nat /\ w[x] \in Nat /\ runs[x] <= w[x]
    BY <1>3 DEF Queued, Complete
  <2>2. runs[x] < w[x]
    BY <2>1
  <2>3. P.target[x] \in Launchers /\ isQueued(num, q, P.target[x], x, runs[x])
    BY <2>1, <2>2 DEF Queued, Complete
  <2> QED
    BY <2>3 DEF isQueued
<1>5. \A x \in Events : P.target[x] = P.target[o] => runs2[x] = w2[x]
  BY <1>3, <1>4, <1>1, <1>2
<1>6. \A x \in Events : P.target[x] # P.target[o] => runs2[x] = runs[x] /\ w2[x] = w[x]
  BY <1>3, <1>1, <1>2
<1>7. Pending(w2, num, q, runs2)
  <2> SUFFICES ASSUME NEW m \in Launchers, NEW i \in 1 .. Len(q[m])
               PROVE  /\ q[m][i] \in Events /\ P.target[q[m][i]] = m
                      /\ runs2[q[m][i]] <= num[m][i] /\ num[m][i] < w2[q[m][i]]
    BY DEF Pending
  <2>1. /\ q[m][i] \in Events /\ P.target[q[m][i]] = m
        /\ runs[q[m][i]] <= num[m][i] /\ num[m][i] < w[q[m][i]]
    BY DEF Queued, Pending
  <2>2. m # P.target[o]
    <3> SUFFICES ASSUME m = P.target[o] PROVE FALSE
      OBVIOUS
    <3>1. Len(q[m]) = 0
      OBVIOUS
    <3> QED
      BY <3>1
  <2> QED
    BY <1>6, <2>1, <2>2
<1>8. Complete(w2, num, q, runs2)
  <2> SUFFICES ASSUME NEW x \in Events
               PROVE  /\ runs2[x] <= w2[x]
                      /\ \A n \in Nat : runs2[x] <= n /\ n < w2[x] =>
                           P.target[x] \in Launchers /\ isQueued(num, q, P.target[x], x, n)
    BY DEF Complete
  <2>1. CASE P.target[x] # P.target[o]
    BY <1>6, <2>1 DEF Queued, Complete
  <2>2. CASE P.target[x] = P.target[o]
    <3>1. runs2[x] = w2[x] /\ w2[x] \in Nat
      BY <1>3, <1>5, <1>1, <2>2
    <3> QED
      BY <3>1
  <2> QED
    BY <2>1, <2>2
<1>9. InStep(runs2)
  <2> SUFFICES ASSUME NEW a \in Events, NEW b \in Events, a < b,
                      blockOf(a) = blockOf(b), P.target[a] = P.target[b]
               PROVE  runs2[a] - runs2[b] \in {0, 1}
    BY DEF InStep
  <2>1. CASE P.target[a] # P.target[o]
    BY <1>6, <2>1 DEF Queued, InStep
  <2>2. CASE P.target[a] = P.target[o]
    BY <1>3, <1>5, <2>2 DEF WalkOrder
  <2> QED
    BY <2>1, <2>2
<1>10. QueueType(w2, num, q, runs2)
  BY <1>1, <1>2 DEF Queued, QueueType
<1> QED
  BY <1>7, <1>8, <1>9, <1>10 DEF Queued

-----------------------------------------------------------------------------
(***************************************************************************)
(* The invariant: there are a place for every launcher and a number for    *)
(* every pending run that agree with the state.                            *)
(***************************************************************************)
allWalks(r, c) == [x \in Ops |-> walks(r, c, x)]

Accounts(r, c, depth, at, w, num, q, runs) ==
  /\ OrderAt(r, c, depth, at)
  /\ Queued(w, num, q, runs)
  /\ w = allWalks(r, c) /\ q = backlogs /\ runs = opMap

InOrder == \E r, c, depth, at, w, num, q, runs : Accounts(r, c, depth, at, w, num, q, runs)

OrderInv == EventInv /\ InOrder

LEMMA WalksType ==
  ASSUME TypeOK, NEW r \in [Blocks -> Nat], NEW c \in [Blocks -> Nat]
  PROVE  \A o \in Ops : walks(r, c, o) \in Nat
BY BlockFacts DEF walks

LEMMA WalksInOrder ==
  ASSUME TypeOK, NEW r \in [Blocks -> Nat], NEW c \in [Blocks -> Nat],
         NEW w, \A o \in Ops : w[o] = walks(r, c, o)
  PROVE  WalkOrder(w)
<1> SUFFICES ASSUME NEW a \in Ops, NEW b \in Ops, a < b, blockOf(a) = blockOf(b)
             PROVE  w[a] - w[b] \in {0, 1}
  BY DEF WalkOrder
<1>1. /\ a \in Nat /\ b \in Nat /\ blockOf(a) \in Blocks
      /\ r[blockOf(a)] \in Nat /\ c[blockOf(a)] \in Nat
  BY BlockFacts
<1>2. /\ w[a] = r[blockOf(a)] + IF a < c[blockOf(a)] THEN 1 ELSE 0
      /\ w[b] = r[blockOf(a)] + IF b < c[blockOf(a)] THEN 1 ELSE 0
  BY DEF walks
<1> QED
  BY <1>1, <1>2

LEMMA BacklogSame ==
  ASSUME prog' = prog,
         \A l \in Launchers : eventQueue'[l] = eventQueue[l] /\ (taken(l)' <=> taken(l))
                              /\ (taken(l) => opEntry'[l] = opEntry[l])
  PROVE  backlogs' = backlogs
BY Rigid DEF backlogs, backlog

LEMMA TakenSame ==
  ASSUME prog' = prog, UNCHANGED <<opEntry, startTime, endTime>>
  PROVE  \A l \in Launchers : (taken(l)' <=> taken(l)) /\ opEntry'[l] = opEntry[l]
BY Rigid DEF taken, is_started, Events, kind

(* No event is walked past, started or skipped.                             *)
LEMMA OrderOther ==
  ASSUME TypeOK, TypeOK', prog' = prog, NEW r, NEW c, NEW depth, NEW at, NEW w, NEW num,
         NEW q, NEW runs, Accounts(r, c, depth, at, w, num, q, runs),
         NEW r2, NEW c2, NEW depth2, NEW at2, OrderAt(r2, c2, depth2, at2)',
         \A o \in Events : walks(r2, c2, o) = walks(r, c, o) /\ opMap'[o] = opMap[o],
         backlogs' = backlogs
  PROVE  InOrder'
<1>1. r2 \in [Blocks -> Nat] /\ c2 \in [Blocks -> Nat]
  BY Rigid DEF OrderAt, GhostType, Blocks
<1>2. PICK w2 : w2 = allWalks(r2, c2)
  OBVIOUS
<1>3. PICK runs2 : runs2 = opMap'
  OBVIOUS
<1>4. w2 \in [Ops -> Nat] /\ runs2 \in [Ops -> Nat]
  BY <1>1, <1>2, <1>3, WalksType, Rigid DEF TypeOK, CountTypeOK, allWalks
<1>5. \A o \in Events : w2[o] = w[o] /\ runs2[o] = runs[o]
  BY <1>2, <1>3, EventFacts DEF Accounts, allWalks
<1>6. Queued(w, num, q, runs)
  BY DEF Accounts
<1>7. Queued(w2, num, q, runs2)
  BY <1>4, <1>5, <1>6, QueuedOther
<1>8. Queued(w2, num, q, runs2)'
  BY <1>7, QueuedRigid
<1>9. w2 = allWalks(r2, c2)'
  BY <1>2, Rigid DEF allWalks, walks, blockOf
<1>10. q = backlogs'
  BY DEF Accounts
<1>11. Accounts(r2, c2, depth2, at2, w2, num, q, runs2)'
  BY <1>3, <1>8, <1>9, <1>10 DEF Accounts
<1> QED
  BY <1>11 DEF InOrder

LEMMA OrderQuiet ==
  ASSUME OrderInv, TypeOK', prog' = prog, nextIter' = nextIter, backlogs' = backlogs,
         \A o \in Events : opMap'[o] = opMap[o]
  PROVE  InOrder'
<1>1. PICK r, c, depth, at, w, num, q, runs : Accounts(r, c, depth, at, w, num, q, runs)
  BY DEF OrderInv, InOrder
<1>2. OrderAt(r, c, depth, at)'
  BY <1>1, OrderSame DEF Accounts
<1> QED
  BY <1>1, <1>2, OrderOther DEF OrderInv, EventInv

(* The host is at the start of the function, and nothing has been walked.   *)
LEMMA OrderStart ==
  ASSUME Init, NEW r, r = [b \in Blocks |-> 0],
         NEW depth, depth = [l \in Launchers |-> IF l = Host THEN 1 ELSE 0],
         NEW at, at = [l \in Launchers |-> [i \in Nat |-> 0]]
  PROVE  /\ OrderAt(r, r, depth, at)
         /\ \A l \in Launchers : \A i \in Nat : inside(depth, l, i) <=> l = Host /\ i = 1
         /\ \A o \in Ops : walks(r, r, o) = 0
<1>1. TypeOK
  BY InitType
<1>2. r = [b \in Blocks |-> 0]
  OBVIOUS
<1>3. depth = [l \in Launchers |-> IF l = Host THEN 1 ELSE 0]
  OBVIOUS
<1>4. at = [l \in Launchers |-> [i \in Nat |-> 0]]
  OBVIOUS
<1>8. /\ \A l \in Launchers : nextIter[l] = IF l = Host THEN P.first[0] ELSE 0
      /\ opMap = [o \in Ops |-> 0] /\ eventQueue = [l \in Launchers |-> <<>>]
      /\ opEntry = [l \in Launchers |-> 0]
  BY DEF Init
<1>9. Ops \subseteq Nat \ {0} /\ 0 \in Blocks /\ Host \in Launchers
  BY <1>1, BlockFacts DEF Blocks, Launchers
<1>10. GhostType(r, r, depth, at)
  BY <1>2, <1>3, <1>4, <1>9 DEF GhostType
<1>11. \A l \in Launchers : \A i \in Nat : inside(depth, l, i) <=> l = Host /\ i = 1
  BY <1>3 DEF inside
<1>12. Rooted(depth, at) /\ Chained(depth, at) /\ Separate(depth, at)
  <2>1. Rooted(depth, at)
    BY <1>3, <1>4 DEF Rooted
  <2>2. Chained(depth, at)
    BY <1>11 DEF Chained
  <2>3. Separate(depth, at)
    BY <1>11 DEF Separate
  <2> QED
    BY <2>1, <2>2, <2>3
<1>13. Placed(depth, at)
  <2> SUFFICES ASSUME NEW l \in Launchers
               PROVE  IF nextIter[l] = 0 THEN depth[l] = (IF l = Host THEN 1 ELSE 0)
                      ELSE depth[l] # 0 /\ blockOf(nextIter[l]) = at[l][depth[l]]
    BY DEF Placed
  <2>1. CASE nextIter[l] = 0
    BY <1>3, <2>1
  <2>2. CASE nextIter[l] # 0
    <3>1. l = Host /\ P.first[0] # 0
      BY <1>8, <2>2
    <3>2. blockOf(P.first[0]) = 0
      BY <1>1, <1>9, <3>1, FirstFacts DEF inBlock
    <3>3. depth[l] = 1 /\ at[l][1] = 0
      BY <1>3, <1>4, <3>1
    <3> QED
      BY <1>8, <3>1, <3>2, <3>3
  <2> QED
    BY <2>1, <2>2
<1>14. \A b \in Blocks : \A p \in inBlock(b) : ~ (p < r[b])
  <2> SUFFICES ASSUME NEW b \in Blocks, NEW p \in inBlock(b) PROVE ~ (p < r[b])
    OBVIOUS
  <2>1. r[b] = 0 /\ p \in Nat
    BY <1>2, <1>9 DEF inBlock
  <2> QED
    BY <2>1
<1>15. Cursors(r, depth, at)
  <2> SUFFICES ASSUME NEW l \in Launchers, NEW i \in Nat, inside(depth, l, i),
                      NEW p \in inBlock(at[l][i])
               PROVE  p < r[at[l][i]] <=> IF i < depth[l] THEN p <= at[l][i + 1]
                                          ELSE nextIter[l] = 0 \/ p < nextIter[l]
    BY DEF Cursors
  <2>1. l = Host /\ i = 1 /\ at[l][i] = 0 /\ depth[l] = 1
    BY <1>3, <1>4, <1>11
  <2>2. nextIter[l] = P.first[0] /\ p \in inBlock(0)
    BY <1>8, <2>1
  <2>3. P.first[0] \in inBlock(0) /\ P.first[0] <= p /\ P.first[0] # 0
    BY <1>1, <1>9, <2>2, FirstFacts
  <2>4. P.first[0] \in Nat /\ p \in Nat
    BY <1>9, <2>2, <2>3 DEF inBlock
  <2>5. ~ (p < r[at[l][i]]) /\ ~ (p < nextIter[l])
    BY <1>9, <1>14, <2>1, <2>2, <2>3, <2>4
  <2> QED
    BY <2>1, <2>2, <2>3, <2>5
<1>16. Fresh(r, depth, at)
  BY <1>14 DEF Fresh
<1>17. OrderAt(r, r, depth, at)
  BY <1>10, <1>12, <1>13, <1>15, <1>16 DEF OrderAt
<1>18. \A o \in Ops : walks(r, r, o) = 0
  <2> TAKE o \in Ops
  <2>1. blockOf(o) \in Blocks /\ o \in inBlock(blockOf(o))
    BY <1>1, BlockFacts DEF inBlock
  <2>2. r[blockOf(o)] = 0 /\ ~ (o < r[blockOf(o)])
    BY <1>2, <1>14, <2>1
  <2> QED
    BY <2>2 DEF walks
<1> QED
  BY <1>11, <1>17, <1>18

LEMMA OrderInit == Init => InOrder
<1> SUFFICES ASSUME Init PROVE InOrder
  OBVIOUS
<1>1. TypeOK
  BY InitType
<1>2. PICK r : r = [b \in Blocks |-> 0]
  OBVIOUS
<1>3. PICK depth : depth = [l \in Launchers |-> IF l = Host THEN 1 ELSE 0]
  OBVIOUS
<1>4. PICK at : at = [l \in Launchers |-> [i \in Nat |-> 0]]
  OBVIOUS
<1>5. PICK w : w = [o \in Ops |-> 0]
  OBVIOUS
<1>6. PICK num : num = [l \in Launchers |-> [i \in Nat |-> 0]]
  OBVIOUS
<1>7. PICK q : q = [l \in Launchers |-> <<>>]
  OBVIOUS
<1>8. /\ opMap = [o \in Ops |-> 0] /\ eventQueue = [l \in Launchers |-> <<>>]
      /\ opEntry = [l \in Launchers |-> 0]
  BY DEF Init
<1>9. Ops \subseteq Nat \ {0}
  BY <1>1, BlockFacts
<1>10. OrderAt(r, r, depth, at) /\ \A o \in Ops : walks(r, r, o) = 0
  BY <1>2, <1>3, <1>4, OrderStart
<1>11. q = backlogs
  <2>1. \A l \in Launchers : ~ taken(l)
    BY <1>8, <1>9 DEF taken, Events
  <2> QED
    BY <1>7, <1>8, <2>1 DEF backlogs, backlog
<1>12. w = allWalks(r, r)
  BY <1>5, <1>10 DEF allWalks
<1>13. Queued(w, num, q, opMap)
  <2>0. Events \subseteq Ops
    BY <1>1, EventFacts
  <2>1. QueueType(w, num, q, opMap)
    BY <1>5, <1>6, <1>7, <1>8 DEF QueueType
  <2>2. Pending(w, num, q, opMap) /\ Sorted(num, q)
    <3>1. \A l \in Launchers : 1 .. Len(q[l]) = {}
      BY <1>7
    <3> QED
      BY <3>1 DEF Pending, Sorted
  <2>3. Complete(w, num, q, opMap) /\ InStep(opMap)
    <3>1. \A o \in Events : w[o] = 0 /\ opMap[o] = 0
      BY <1>5, <1>8, <2>0
    <3> QED
      BY <3>1 DEF Complete, InStep
  <2> QED
    BY <2>1, <2>2, <2>3 DEF Queued
<1>14. PICK runs : runs = opMap
  OBVIOUS
<1>15. Accounts(r, r, depth, at, w, num, q, runs)
  BY <1>10, <1>11, <1>12, <1>13, <1>14 DEF Accounts
<1> QED
  BY <1>15 DEF InOrder

-----------------------------------------------------------------------------
(* Walking past an operation that is not an event, on the current launcher. *)
LEMMA OrderPast ==
  ASSUME OrderInv, TypeOK', prog' = prog, backlogs' = backlogs, opMap' = opMap,
         NEW o \in Ops, SetOpEntry(o), o \notin Events, NEW n, n \in Blocks,
         nextIter' = [nextIter EXCEPT ![Current] = n],
         CASE kind(o) = "for" -> n = P.first[o]
           [] kind(o) = "yield" -> n = P.first[blockOf(o)] \/ n = P.next[blockOf(o)]
           [] OTHER -> n = P.next[o]
  PROVE  InOrder'
<1>1. PICK r, c, depth, at, w, num, q, runs : Accounts(r, c, depth, at, w, num, q, runs)
  BY DEF OrderInv, InOrder
<1>2. TypeOK /\ OrderAt(r, c, depth, at)
  BY <1>1 DEF OrderInv, EventInv, Accounts
<1>3. PICK l \in Launchers : l = Current
  BY <1>2, CurrentType DEF TypeOK
<1>4. nextIter[l] = o /\ nextIter' = [nextIter EXCEPT ![l] = n]
  BY <1>3 DEF SetOpEntry
<1>5. PICK c2 : c2 = [c EXCEPT ![blockOf(o)] = o + 1]
  OBVIOUS
<1>6. PICK c3 : c3 = [c EXCEPT ![blockOf(o)] = 0]
  OBVIOUS
<1>7. PICK r3 : r3 = [r EXCEPT ![blockOf(o)] = r[blockOf(o)] + 1]
  OBVIOUS
<1>8. \E r2, cc, depth2, at2 : OrderAt(r2, cc, depth2, at2)' /\ WalksOnce(r, c, r2, cc, o)
  <2>1. CASE kind(o) = "for"
    <3>1. nextIter' = [nextIter EXCEPT ![l] = P.first[o]]
      BY <1>4, <2>1
    <3>2. PICK depth2 : depth2 = [depth EXCEPT ![l] = depth[l] + 1]
      OBVIOUS
    <3>3. PICK at2 : at2 = [at EXCEPT ![l] = [at[l] EXCEPT ![depth[l] + 1] = o]]
      OBVIOUS
    <3>4. OrderAt(r, c2, depth2, at2)' /\ WalksOnce(r, c, r, c2, o)
      BY <1>2, <1>4, <1>5, <2>1, <3>1, <3>2, <3>3, WalkInto
    <3> QED
      BY <3>4
  <2>2. CASE kind(o) = "yield" /\ n = P.first[blockOf(o)]
    <3>1. nextIter' = [nextIter EXCEPT ![l] = P.first[blockOf(o)]]
      BY <1>4, <2>2
    <3>2. OrderAt(r3, c3, depth, at)' /\ WalksOnce(r, c, r3, c3, o)
      BY <1>2, <1>4, <1>6, <1>7, <2>2, <3>1, WalkRound
    <3> QED
      BY <3>2
  <2>3. CASE kind(o) = "yield" /\ n = P.next[blockOf(o)]
    <3>1. nextIter' = [nextIter EXCEPT ![l] = P.next[blockOf(o)]]
      BY <1>4, <2>3
    <3>2. PICK depth2 : depth2 = [depth EXCEPT ![l] = depth[l] - 1]
      OBVIOUS
    <3>3. OrderAt(r3, c3, depth2, at)' /\ WalksOnce(r, c, r3, c3, o)
      BY <1>2, <1>4, <1>6, <1>7, <2>3, <3>1, <3>2, WalkOut
    <3> QED
      BY <3>3
  <2>4. CASE kind(o) = "return"
    <3>1. n = 0
      BY <1>2, <2>4, NextFacts
    <3>2. nextIter' = [nextIter EXCEPT ![l] = 0]
      BY <1>4, <3>1
    <3>3. PICK depth2 : depth2 = [depth EXCEPT ![l] = 0]
      OBVIOUS
    <3>4. OrderAt(r3, c3, depth2, at)' /\ WalksOnce(r, c, r3, c3, o)
      BY <1>2, <1>4, <1>6, <1>7, <2>4, <3>2, <3>3, WalkBack
    <3> QED
      BY <3>4
  <2>5. CASE kind(o) \notin {"for", "yield", "return"}
    <3>1. nextIter' = [nextIter EXCEPT ![l] = P.next[o]]
      BY <1>4, <2>5
    <3>2. OrderAt(r, c2, depth, at)' /\ WalksOnce(r, c, r, c2, o)
      BY <1>2, <1>4, <1>5, <2>5, <3>1, WalkPast
    <3> QED
      BY <3>2
  <2>6. kind(o) = "yield" => n = P.first[blockOf(o)] \/ n = P.next[blockOf(o)]
    OBVIOUS
  <2> QED
    BY <2>1, <2>2, <2>3, <2>4, <2>5, <2>6
<1>9. PICK r2, cc, depth2, at2 : OrderAt(r2, cc, depth2, at2)' /\ WalksOnce(r, c, r2, cc, o)
  BY <1>8
<1>10. r \in [Blocks -> Nat] /\ c \in [Blocks -> Nat]
  BY <1>2 DEF OrderAt, GhostType
<1>11. ASSUME NEW x \in Events
       PROVE  walks(r2, cc, x) = walks(r, c, x) /\ opMap'[x] = opMap[x]
  <2>1. x \in Ops /\ x # o
    BY DEF Events
  <2>2. walks(r, c, x) \in Nat
    BY <1>2, <1>10, <2>1, WalksType
  <2> QED
    BY <1>9, <2>1, <2>2 DEF WalksOnce
<1> QED
  BY <1>1, <1>2, <1>9, <1>11, OrderOther

LEMMA PushControlOrder ==
  ASSUME OrderInv, TypeOK', NEW o \in Ops, PushControl(o)
  PROVE  InOrder'
<1>1. /\ SetOpEntry(o) /\ prog' = prog /\ opMap' = opMap /\ eventQueue' = eventQueue
      /\ UNCHANGED <<opEntry, startTime, endTime>>
      /\ nextIter' = [nextIter EXCEPT ![Current] = P.next[o]]
      /\ kind(o) \in ControlKinds
  BY DEF PushControl, nothingElse, counts
<1>2. o \notin Events
  BY <1>1 DEF Events, ControlKinds, EventKinds
<1>3. backlogs' = backlogs
  BY <1>1, BacklogSame, TakenSame
<1>4. P.next[o] \in Blocks
  BY NextFacts DEF OrderInv, EventInv
<1>5. kind(o) \notin {"for", "yield"}
  BY <1>1 DEF ControlKinds
<1> QED
  BY <1>1, <1>2, <1>3, <1>4, <1>5, OrderPast

LEMMA LoadOpOrder ==
  ASSUME OrderInv, TypeOK', NEW o \in Ops, LoadOp(o)
  PROVE  InOrder'
<1>0. TypeOK
  BY DEF OrderInv, EventInv
<1>1. /\ SetOpEntry(o) /\ prog' = prog /\ opMap' = opMap /\ eventQueue' = eventQueue
      /\ opEntry' = [opEntry EXCEPT ![Current] = o]
      /\ startTime' = [startTime EXCEPT ![Current] = 0]
      /\ endTime' = [endTime EXCEPT ![Current] = 0]
      /\ is_idle(Current) /\ kind(o) \notin AsyncKinds
  BY DEF LoadOp, nothingElse, counts, SetOpEntry
<1>2. PICK n : n = CASE kind(o) = "for" -> P.first[o]
                     [] kind(o) = "yield" -> afterYield(o)
                     [] OTHER -> P.next[o]
  OBVIOUS
<1>3. nextIter' = [nextIter EXCEPT ![Current] = n]
  BY <1>2 DEF LoadOp
<1>4. o \notin Events /\ 0 \notin Events
  BY <1>0, <1>1, EventFacts DEF Events, AsyncKinds
<1>5. backlogs' = backlogs
  <2>1. /\ opEntry \in [Launchers -> Ops \cup {0}] /\ startTime \in [Launchers -> Nat]
        /\ endTime \in [Launchers -> Nat]
    BY <1>0 DEF TypeOK, LauncherTypeOK
  <2>2. Events' = Events
    BY <1>1, Rigid DEF Events, kind
  <2>3. ASSUME NEW l \in Launchers
        PROVE  (taken(l)' <=> taken(l)) /\ (taken(l) => opEntry'[l] = opEntry[l])
    <3>1. CASE l = Current
      BY <1>1, <1>4, <2>1, <2>2, <3>1 DEF taken, is_idle
    <3>2. CASE l # Current
      BY <1>1, <2>1, <2>2, <3>2 DEF taken, is_started
    <3> QED
      BY <3>1, <3>2
  <2> QED
    BY <1>1, <2>3, BacklogSame
<1>6. kind(o) = "yield" => n = P.first[blockOf(o)] \/ n = P.next[blockOf(o)]
  BY <1>2 DEF afterYield
<1>7. n \in Blocks
  <2>1. CASE kind(o) = "yield"
    BY <1>0, <1>6, <2>1, FirstFacts, NextFacts, BlockFacts DEF Blocks
  <2>2. CASE kind(o) # "yield"
    BY <1>0, <1>2, <2>2, FirstFacts, NextFacts DEF Blocks
  <2> QED
    BY <2>1, <2>2
<1> QED
  BY <1>1, <1>2, <1>3, <1>4, <1>5, <1>6, <1>7, OrderPast

(* An event is walked past: it is pushed or skipped.                        *)
LEMMA PastEvent ==
  ASSUME TypeOK, NEW r \in [Blocks -> Nat], NEW c \in [Blocks -> Nat],
         NEW c2 \in [Blocks -> Nat], NEW o \in Ops, WalksOnce(r, c, r, c2, o)
  PROVE  /\ OnceMore(allWalks(r, c), o, allWalks(r, c2))
         /\ WalkOrder(allWalks(r, c)) /\ WalkOrder(allWalks(r, c2))
<1> DEFINE w == allWalks(r, c)
           w2 == allWalks(r, c2)
<1>1. /\ \A x \in Ops : w[x] = walks(r, c, x) /\ walks(r, c, x) \in Nat
      /\ \A x \in Ops : w2[x] = walks(r, c2, x) /\ walks(r, c2, x) \in Nat
      /\ w2 \in [Ops -> Nat]
  BY WalksType DEF allWalks
<1>2. WalkOrder(w) /\ WalkOrder(w2)
  BY <1>1, WalksInOrder
<1> HIDE DEF w, w2
<1>3. \A x \in Ops : w2[x] = w[x] + IF x = o THEN 1 ELSE 0
  BY <1>1 DEF WalksOnce
<1>4. \A x \in Ops : x # o => w2[x] = w[x]
  BY <1>1, <1>3
<1>5. w2[o] = w[o] + 1
  BY <1>3
<1>6. OnceMore(w, o, w2)
  BY <1>1, <1>4, <1>5 DEF OnceMore
<1> QED
  BY <1>2, <1>6 DEF w, w2

LEMMA PastHere ==
  ASSUME OrderInv, prog' = prog, NEW o \in Events, SetOpEntry(o),
         nextIter' = [nextIter EXCEPT ![Current] = P.next[o]]
  PROVE  \E l \in Launchers : nextIter[l] = o /\ nextIter' = [nextIter EXCEPT ![l] = P.next[o]]
<1>1. PICK l \in Launchers : l = Current
  BY CurrentType DEF TypeOK, OrderInv, EventInv
<1> QED
  BY <1>1 DEF SetOpEntry

LEMMA PushEventOrder ==
  ASSUME OrderInv, TypeOK', NEW o \in Ops, PushEvent(o)
  PROVE  InOrder'
<1>0. TypeOK
  BY DEF OrderInv, EventInv
<1>1. /\ SetOpEntry(o) /\ prog' = prog /\ opMap' = opMap
      /\ UNCHANGED <<opEntry, startTime, endTime>>
      /\ nextIter' = [nextIter EXCEPT ![Current] = P.next[o]]
      /\ o \in Events /\ P.target[o] \in Existing
      /\ eventQueue' = [eventQueue EXCEPT ![P.target[o]] = Append(@, o)]
  BY DEF PushEvent, nothingElse, counts, push, Events
<1>2. PICK l \in Launchers : l = P.target[o]
  BY <1>0, <1>1, ExistingType DEF TypeOK
<1>3. PICK r, c, depth, at, w, num, q, runs : Accounts(r, c, depth, at, w, num, q, runs)
  BY DEF OrderInv, InOrder
<1>4. PICK c2 : c2 = [c EXCEPT ![blockOf(o)] = o + 1]
  OBVIOUS
<1>5. PICK w2 : w2 = allWalks(r, c2)
  OBVIOUS
<1>6. /\ OrderAt(r, c, depth, at) /\ w = allWalks(r, c)
      /\ Queued(w, num, q, runs) /\ q = backlogs /\ runs = opMap
  BY <1>3 DEF Accounts
<1>7. /\ OrderAt(r, c2, depth, at)' /\ w2 = allWalks(r, c2)'
      /\ OnceMore(w, o, w2) /\ WalkOrder(w) /\ WalkOrder(w2)
  <2>1. PICK m \in Launchers :
          nextIter[m] = o /\ nextIter' = [nextIter EXCEPT ![m] = P.next[o]]
    BY <1>1, PastHere
  <2>2. kind(o) \notin {"return", "yield"}
    BY <1>1 DEF Events, EventKinds
  <2>3. OrderAt(r, c2, depth, at)' /\ WalksOnce(r, c, r, c2, o)
    BY <1>0, <1>1, <1>4, <1>6, <2>1, <2>2, WalkPast
  <2>4. r \in [Blocks -> Nat] /\ c2 \in [Blocks -> Nat] /\ c \in [Blocks -> Nat]
    BY <1>1, <1>6, <2>3, Rigid DEF OrderAt, GhostType, Blocks
  <2>5. OnceMore(w, o, w2) /\ WalkOrder(w) /\ WalkOrder(w2)
    BY <1>0, <1>5, <1>6, <2>3, <2>4, PastEvent
  <2>6. w2 = allWalks(r, c2)'
    BY <1>1, <1>5, Rigid DEF allWalks, walks, blockOf
  <2> QED
    BY <2>3, <2>5, <2>6
<1>8. q[l] \in Seq(Ops) /\ Len(q[l]) \in Nat /\ w[o] \in Nat
      /\ num \in [Launchers -> [Nat -> Nat]] /\ q \in [Launchers -> Seq(Ops)]
  BY <1>1, <1>6, LenProperties DEF Queued, QueueType
<1>9. PICK q2 : q2 = backlogs'
  OBVIOUS
<1>10. PICK row : row = [i \in Nat |-> IF i = Len(q[l]) + 1 THEN w[o] ELSE num[l][i]]
  OBVIOUS
<1>11. PICK num2 : num2 = [m \in Launchers |-> IF m = l THEN row ELSE num[m]]
  OBVIOUS
<1>12. \A m \in Launchers : (taken(m)' <=> taken(m)) /\ opEntry'[m] = opEntry[m]
  BY <1>1, TakenSame
<1>13. eventQueue \in [Launchers -> Seq(Ops)]
  BY <1>0 DEF TypeOK, QueueTypeOK
<1>14. /\ q2[l] = Append(q[l], o) /\ q2 \in [Launchers -> Seq(Ops)]
       /\ \A m \in Launchers : m # l => q2[m] = q[m]
  <2>1. Launchers' = Launchers
    BY <1>1, Rigid
  <2>2. \A m \in Launchers : q2[m] = backlog(m)' /\ q[m] = backlog(m)
    BY <1>6, <1>9, <2>1 DEF backlogs
  <2>3. /\ eventQueue'[l] = Append(eventQueue[l], o)
        /\ \A m \in Launchers : m # l => eventQueue'[m] = eventQueue[m]
    BY <1>1, <1>2, <1>13
  <2>4. ASSUME NEW m \in Launchers, m # l PROVE q2[m] = q[m]
    BY <1>12, <2>2, <2>3, <2>4 DEF backlog
  <2>5. q2[l] = Append(q[l], o)
    <3>1. CASE ~ taken(l)
      BY <1>12, <2>2, <2>3, <3>1 DEF backlog
    <3>2. CASE taken(l)
      <4>1. opEntry[l] \in Ops
        BY <3>2 DEF taken, Events
      <4>2. << opEntry[l] >> \o Append(eventQueue[l], o)
              = Append(<< opEntry[l] >> \o eventQueue[l], o)
        BY <1>13, <4>1
      <4> QED
        BY <1>12, <2>2, <2>3, <3>2, <4>2 DEF backlog
    <3> QED
      BY <3>1, <3>2
  <2>6. q2 \in [Launchers -> Seq(Ops)]
    <3>1. q2 = [m \in Launchers |-> q2[m]]
      BY <1>9, <2>1 DEF backlogs
    <3>2. Append(q[l], o) \in Seq(Ops)
      BY <1>8, AppendProperties
    <3>3. \A m \in Launchers : q2[m] \in Seq(Ops)
      BY <1>8, <2>4, <2>5, <3>2
    <3> QED
      BY <3>1, <3>3
  <2> QED
    BY <2>4, <2>5, <2>6
<1>15. Pushed(w, num, q, l, o, w2, num2, q2)
  <2>1. row \in [Nat -> Nat]
    BY <1>8, <1>10
  <2>2. num2 \in [Launchers -> [Nat -> Nat]] /\ num2[l] = row
        /\ \A m \in Launchers : m # l => num2[m] = num[m]
    BY <1>8, <1>11, <2>1
  <2>3. row[Len(q[l]) + 1] = w[o] /\ \A i \in Nat : i # Len(q[l]) + 1 => row[i] = num[l][i]
    BY <1>8, <1>10
  <2>4. w2 \in [Ops -> Nat] /\ w2[o] = w[o] + 1 /\ \A x \in Ops : x # o => w2[x] = w[x]
    BY <1>7 DEF OnceMore
  <2> QED
    BY <1>14, <2>2, <2>3, <2>4 DEF Pushed
<1>16. Queued(w2, num2, q2, runs)
  BY <1>0, <1>1, <1>2, <1>6, <1>7, <1>15, QueuedPush
<1>17. Queued(w2, num2, q2, runs)'
  BY <1>1, <1>16, QueuedRigid
<1>18. runs = opMap'
  BY <1>1, <1>6
<1>19. Accounts(r, c2, depth, at, w2, num2, q2, runs)'
  BY <1>7, <1>9, <1>17, <1>18 DEF Accounts
<1> QED
  BY <1>19 DEF InOrder

(* A device that does not exist has no pending runs.                        *)
LEMMA NoBacklog ==
  ASSUME EventInv, NEW l \in Launchers, l \notin Existing
  PROVE  backlog(l) = <<>>
<1>1. ~ taken(l)
  BY EventFacts DEF EventInv, Routed, taken, Events
<1>2. eventQueue[l] \in Seq(Ops)
  BY DEF EventInv, TypeOK, QueueTypeOK
<1>3. DOMAIN eventQueue[l] = {}
  BY DEF EventInv, Routed
<1>4. eventQueue[l] = <<>>
  <2>1. Len(eventQueue[l]) \in Nat /\ 1 \notin 1 .. Len(eventQueue[l])
    BY <1>2, <1>3, LenProperties
  <2>2. Len(eventQueue[l]) = 0
    BY <2>1
  <2>3. eventQueue[l] # <<>> => Len(eventQueue[l]) \in Nat \ {0}
    BY <1>2, EmptySeq
  <2> QED
    BY <2>2, <2>3
<1> QED
  BY <1>1, <1>4 DEF backlog

LEMMA SkipMissingLauncherOrder ==
  ASSUME OrderInv, TypeOK', NEW o \in Ops, SkipMissingLauncher(o)
  PROVE  InOrder'
<1>0. TypeOK
  BY DEF OrderInv, EventInv
<1>1. /\ SetOpEntry(o) /\ prog' = prog /\ eventQueue' = eventQueue
      /\ UNCHANGED <<opEntry, startTime, endTime>>
      /\ nextIter' = [nextIter EXCEPT ![Current] = P.next[o]]
      /\ opMap' = [opMap EXCEPT ![o] = @ + 1]
      /\ o \in Events /\ P.target[o] \notin Existing
  BY DEF SkipMissingLauncher, nothingElse, Events
<1>2. PICK r, c, depth, at, w, num, q, runs : Accounts(r, c, depth, at, w, num, q, runs)
  BY DEF OrderInv, InOrder
<1>3. PICK c2 : c2 = [c EXCEPT ![blockOf(o)] = o + 1]
  OBVIOUS
<1>4. PICK w2 : w2 = allWalks(r, c2)
  OBVIOUS
<1>5. /\ OrderAt(r, c, depth, at) /\ w = allWalks(r, c)
      /\ Queued(w, num, q, runs) /\ q = backlogs /\ runs = opMap
  BY <1>2 DEF Accounts
<1>6. /\ OrderAt(r, c2, depth, at)' /\ w2 = allWalks(r, c2)'
      /\ OnceMore(w, o, w2) /\ WalkOrder(w2)
  <2>1. PICK m \in Launchers :
          nextIter[m] = o /\ nextIter' = [nextIter EXCEPT ![m] = P.next[o]]
    BY <1>1, PastHere
  <2>2. kind(o) \notin {"return", "yield"}
    BY <1>1 DEF Events, EventKinds
  <2>3. OrderAt(r, c2, depth, at)' /\ WalksOnce(r, c, r, c2, o)
    BY <1>0, <1>1, <1>3, <1>5, <2>1, <2>2, WalkPast
  <2>4. r \in [Blocks -> Nat] /\ c2 \in [Blocks -> Nat] /\ c \in [Blocks -> Nat]
    BY <1>1, <1>5, <2>3, Rigid DEF OrderAt, GhostType, Blocks
  <2>5. OnceMore(w, o, w2) /\ WalkOrder(w2)
    BY <1>0, <1>4, <1>5, <2>3, <2>4, PastEvent
  <2>6. w2 = allWalks(r, c2)'
    BY <1>1, <1>4, Rigid DEF allWalks, walks, blockOf
  <2> QED
    BY <2>3, <2>5, <2>6
<1>7. PICK runs2 : runs2 = opMap'
  OBVIOUS
<1>8. OnceMore(runs, o, runs2)
  BY <1>0, <1>1, <1>5, <1>7 DEF TypeOK, CountTypeOK, OnceMore
<1>9. P.target[o] \in Launchers => q[P.target[o]] = <<>>
  BY <1>1, <1>5, NoBacklog DEF backlogs, OrderInv
<1>10. Queued(w2, num, q, runs2)
  BY <1>0, <1>1, <1>5, <1>6, <1>8, <1>9, QueuedSkip
<1>11. Queued(w2, num, q, runs2)'
  BY <1>1, <1>10, QueuedRigid
<1>12. q = backlogs'
  BY <1>1, <1>5, TakenSame, BacklogSame
<1>13. Accounts(r, c2, depth, at, w2, num, q, runs2)'
  BY <1>6, <1>7, <1>11, <1>12 DEF Accounts
<1> QED
  BY <1>13 DEF InOrder

-----------------------------------------------------------------------------
(* A launcher takes an event: it stays the first of the pending runs.       *)
LEMMA TakeBacklog ==
  ASSUME EventInv, NEW l \in Launchers, TakeEvent(l)
  PROVE  backlogs' = backlogs
<1> DEFINE o == Head(eventQueue[l])
<1>1. /\ prog' = prog /\ eventQueue[l] # <<>> /\ opEntry[l] = 0
      /\ opEntry' = [opEntry EXCEPT ![l] = o] /\ startTime' = [startTime EXCEPT ![l] = 0]
      /\ endTime' = [endTime EXCEPT ![l] = 0]
      /\ eventQueue' = [eventQueue EXCEPT ![l] = Tail(@)]
  BY DEF TakeEvent, headReady, is_idle
<1>2. /\ eventQueue \in [Launchers -> Seq(Ops)] /\ opEntry \in [Launchers -> Ops \cup {0}]
      /\ startTime \in [Launchers -> Nat] /\ endTime \in [Launchers -> Nat]
  BY DEF EventInv, TypeOK, QueueTypeOK, LauncherTypeOK
<1>3. /\ o \in Ops /\ Tail(eventQueue[l]) \in Seq(Ops)
      /\ << o >> \o Tail(eventQueue[l]) = eventQueue[l]
      /\ o = eventQueue[l][1] /\ 1 \in DOMAIN eventQueue[l]
  <2>1. eventQueue[l] \in Seq(Ops) /\ eventQueue[l] # <<>>
    BY <1>1, <1>2
  <2>2. o = eventQueue[l][1] /\ o \in Ops /\ Tail(eventQueue[l]) \in Seq(Ops)
        /\ Len(eventQueue[l]) \in Nat \ {0} /\ DOMAIN eventQueue[l] = 1 .. Len(eventQueue[l])
    BY <2>1, HeadTailProperties, LenProperties, EmptySeq
  <2>3. << o >> \o Tail(eventQueue[l]) = eventQueue[l]
    BY <2>1, <2>2
  <2> QED
    BY <2>2, <2>3
<1>4. o \in Events
  BY <1>3 DEF EventInv, Routed, Events
<1>5. Events' = Events /\ Launchers' = Launchers
  BY <1>1, Rigid DEF Events, kind
<1>6. ASSUME NEW m \in Launchers PROVE backlog(m)' = backlog(m)
  <2>1. CASE m # l
    BY <1>1, <1>2, <1>5, <2>1 DEF backlog, taken, is_started
  <2>2. CASE m = l
    <3>1. ~ taken(l) /\ taken(l)'
      BY <1>1, <1>2, <1>4, <1>5, EventFacts DEF taken, is_started, EventInv
    <3>2. opEntry'[l] = o /\ eventQueue'[l] = Tail(eventQueue[l])
      BY <1>1, <1>2
    <3> QED
      BY <1>3, <2>2, <3>1, <3>2 DEF backlog
  <2> QED
    BY <2>1, <2>2
<1> QED
  BY <1>5, <1>6 DEF backlogs

LEMMA TakeEventOrder ==
  ASSUME OrderInv, TypeOK', NEW l \in Launchers, TakeEvent(l), [RunsToEnd]_vars
  PROVE  InOrder'
<1> DEFINE o == Head(eventQueue[l])
<1>1. TypeOK /\ EventInv
  BY DEF OrderInv, EventInv
<1>2. backlogs' = backlogs
  BY <1>1, TakeBacklog
<1>3. /\ prog' = prog /\ opMap' = opMap /\ phase = "check" /\ l = Current
      /\ is_idle(l) /\ eventQueue[l] # <<>>
  BY DEF TakeEvent, headReady, counts
<1>4. CASE kind(o) # "launch"
  <2>1. nextIter' = nextIter
    BY <1>4 DEF TakeEvent
  <2> QED
    BY <1>2, <1>3, <2>1, OrderQuiet
<1>5. CASE kind(o) = "launch"
  <2>1. nextIter' = [nextIter EXCEPT ![l] = P.first[o]]
    BY <1>5 DEF TakeEvent
  <2>2. o \in Ops /\ P.target[o] = l /\ l \in Existing
    BY <1>1, TakenFact
  <2>3. l # Host /\ nextIter[l] = 0
    <3>1. l # Host
      BY <1>1, <2>2, ExistingType DEF TypeOK
    <3>2. opEntry' = [opEntry EXCEPT ![l] = o] /\ opEntry \in [Launchers -> Ops \cup {0}]
      BY <1>1 DEF TakeEvent, TypeOK, LauncherTypeOK
    <3>3. opEntry'[l] = o /\ o # 0 /\ opEntry[l] = 0
      BY <1>1, <1>3, <2>2, <3>2, BlockFacts DEF is_idle
    <3>4. kind(opEntry'[l]) = "launch" /\ opEntry' # opEntry
      BY <1>5, <3>3
    <3>5. RunsToEnd
      BY <3>4 DEF vars, launcher
    <3> QED
      BY <3>1, <3>3, <3>4, <3>5 DEF RunsToEnd
  <2>4. PICK r, c, depth, at, w, num, q, runs : Accounts(r, c, depth, at, w, num, q, runs)
    BY DEF OrderInv, InOrder
  <2>5. OrderAt(r, c, depth, at)
    BY <2>4 DEF Accounts
  <2>6. PICK depth2 : depth2 = [depth EXCEPT ![l] = 1]
    OBVIOUS
  <2>7. PICK at2 : at2 = [at EXCEPT ![l] = [at[l] EXCEPT ![1] = o]]
    OBVIOUS
  <2>8. OrderAt(r, c, depth2, at2)'
    BY <1>1, <1>3, <1>5, <2>1, <2>2, <2>3, <2>5, <2>6, <2>7, WalkEnter
  <2>9. \A x \in Events : walks(r, c, x) = walks(r, c, x) /\ opMap'[x] = opMap[x]
    BY <1>3
  <2> QED
    BY <1>1, <1>2, <1>3, <2>4, <2>8, <2>9, OrderOther
<1> QED
  BY <1>4, <1>5

-----------------------------------------------------------------------------
(* An event starts: the first of the pending runs of its device is over.    *)
LEMMA StartOpOrder ==
  ASSUME OrderInv, TypeOK', NEW l \in Launchers, StartOp(l)
  PROVE  InOrder'
<1>1. TypeOK /\ EventInv
  BY DEF OrderInv, EventInv
<1>2. PICK o : o = opEntry[l]
  OBVIOUS
<1>3. /\ prog' = prog /\ nextIter' = nextIter /\ eventQueue' = eventQueue
      /\ opEntry' = opEntry /\ o \in Ops /\ ~ is_started(l)
      /\ startTime' = [startTime EXCEPT ![l] = time]
      /\ endTime' = [endTime EXCEPT ![l] = modelOp(o)]
  BY <1>1, <1>2, EntryType DEF StartOp, nothingElse, mayStart
<1>4. /\ startTime \in [Launchers -> Nat] /\ endTime \in [Launchers -> Nat]
      /\ time # 0 /\ modelOp(o) # 0 /\ eventQueue \in [Launchers -> Seq(Ops)]
      /\ opMap \in [Ops -> Nat]
  BY <1>1, <1>3, ModelOpType
  DEF TypeOK, LauncherTypeOK, ControlTypeOK, QueueTypeOK, CountTypeOK
<1>5. Events' = Events /\ Launchers' = Launchers
  BY <1>3, Rigid DEF Events, kind
<1>6. ~ taken(l)' /\ \A m \in Launchers : m # l => (taken(m)' <=> taken(m))
  BY <1>3, <1>4, <1>5, <1>2 DEF taken, is_started
<1>7. CASE o \notin Events
  <2>1. backlogs' = backlogs
    <3>1. ~ taken(l)
      BY <1>7, <1>2 DEF taken
    <3> QED
      BY <1>3, <1>6, <3>1, BacklogSame
  <2>2. \A x \in Events : opMap'[x] = opMap[x]
    <3>1. opMap' = opMap \/ opMap' = [opMap EXCEPT ![o] = @ + 1]
      BY <1>2 DEF StartOp
    <3> QED
      BY <1>4, <1>7, <3>1 DEF Events
  <2> QED
    BY <1>3, <2>1, <2>2, OrderQuiet
<1>8. CASE o \in Events
  <2>1. opMap' = [opMap EXCEPT ![o] = @ + 1]
    BY <1>8, <1>2 DEF StartOp, Events
  <2>2. PICK r, c, depth, at, w, num, q, runs : Accounts(r, c, depth, at, w, num, q, runs)
    BY DEF OrderInv, InOrder
  <2>3. /\ OrderAt(r, c, depth, at) /\ w = allWalks(r, c)
        /\ Queued(w, num, q, runs) /\ q = backlogs /\ runs = opMap
    BY <2>2 DEF Accounts
  <2>4. PICK q2 : q2 = backlogs'
    OBVIOUS
  <2>5. PICK runs2 : runs2 = opMap'
    OBVIOUS
  <2>6. PICK row : row = [i \in Nat |-> num[l][i + 1]]
    OBVIOUS
  <2>7. PICK num2 : num2 = [m \in Launchers |-> IF m = l THEN row ELSE num[m]]
    OBVIOUS
  <2>8. q[l] = << o >> \o eventQueue[l] /\ q2[l] = eventQueue[l]
        /\ \A m \in Launchers : m # l => q2[m] = q[m]
    <3>1. taken(l)
      BY <1>3, <1>8, <1>2 DEF taken
    <3>2. \A m \in Launchers : q2[m] = backlog(m)' /\ q[m] = backlog(m)
      BY <1>5, <2>3, <2>4 DEF backlogs
    <3>3. ASSUME NEW m \in Launchers, m # l PROVE q2[m] = q[m]
      BY <1>3, <1>6, <3>2, <3>3 DEF backlog
    <3>4. q[l] = << o >> \o eventQueue[l]
      BY <1>2, <3>1, <3>2 DEF backlog
    <3>5. q2[l] = eventQueue[l]
      BY <1>3, <1>6, <3>2 DEF backlog
    <3> QED
      BY <3>3, <3>4, <3>5
  <2>9. q[l] # <<>> /\ Head(q[l]) = o /\ Tail(q[l]) = eventQueue[l]
    BY <1>3, <1>4, <2>8
  <2>10. /\ num \in [Launchers -> [Nat -> Nat]] /\ q \in [Launchers -> Seq(Ops)]
    BY <2>3 DEF Queued, QueueType
  <2>11. OnceMore(runs, o, runs2)
    BY <1>3, <1>4, <2>1, <2>3, <2>5 DEF OnceMore
  <2>12. Started(num, q, runs, l, o, num2, q2, runs2)
    <3>1. row \in [Nat -> Nat] /\ \A i \in Nat : row[i] = num[l][i + 1]
      BY <2>6, <2>10
    <3>2. num2 \in [Launchers -> [Nat -> Nat]] /\ num2[l] = row
          /\ \A m \in Launchers : m # l => num2[m] = num[m]
      BY <2>7, <2>10, <3>1
    <3>3. q2 \in [Launchers -> Seq(Ops)]
      <4>1. q2 = [m \in Launchers |-> q2[m]]
        BY <1>5, <2>4 DEF backlogs
      <4>2. \A m \in Launchers : q2[m] \in Seq(Ops)
        BY <1>4, <2>8, <2>10
      <4> QED
        BY <4>1, <4>2
    <3>4. runs2 \in [Ops -> Nat] /\ runs2[o] = runs[o] + 1
          /\ \A x \in Ops : x # o => runs2[x] = runs[x]
      BY <2>11 DEF OnceMore
    <3> QED
      BY <2>8, <2>9, <3>1, <3>2, <3>3, <3>4 DEF Started
  <2>13. WalkOrder(w)
    <3>1. r \in [Blocks -> Nat] /\ c \in [Blocks -> Nat]
      BY <2>3 DEF OrderAt, GhostType
    <3> QED
      BY <1>1, <2>3, <3>1, WalksInOrder DEF allWalks
  <2>14. Queued(w, num2, q2, runs2)
    BY <1>1, <1>8, <2>3, <2>12, <2>13, QueuedStart
  <2>15. Queued(w, num2, q2, runs2)'
    BY <1>3, <2>14, QueuedRigid
  <2>16. OrderAt(r, c, depth, at)'
    BY <1>3, <2>3, OrderSame
  <2>17. w = allWalks(r, c)'
    BY <1>3, <2>3, Rigid DEF allWalks, walks, blockOf
  <2>18. Accounts(r, c, depth, at, w, num2, q2, runs2)'
    BY <2>4, <2>5, <2>15, <2>16, <2>17 DEF Accounts
  <2> QED
    BY <2>18 DEF InOrder
<1> QED
  BY <1>7, <1>8

(* What is over is no longer pending.                                       *)
LEMMA FinishOpOrder ==
  ASSUME OrderInv, TypeOK', NEW l \in Launchers, FinishOp(l)
  PROVE  InOrder'
<1>1. /\ prog' = prog /\ nextIter' = nextIter /\ eventQueue' = eventQueue
      /\ opMap' = opMap /\ is_started(l)
      /\ opEntry' = [opEntry EXCEPT ![l] = 0]
      /\ startTime' = [startTime EXCEPT ![l] = 0] /\ endTime' = [endTime EXCEPT ![l] = 0]
  BY DEF FinishOp, finishes
<1>2. TypeOK /\ startTime \in [Launchers -> Nat] /\ endTime \in [Launchers -> Nat]
      /\ opEntry \in [Launchers -> Ops \cup {0}]
  BY DEF OrderInv, EventInv, TypeOK, LauncherTypeOK
<1>3. Events' = Events /\ 0 \notin Events
  BY <1>1, <1>2, Rigid, EventFacts DEF Events, kind
<1>4. ASSUME NEW m \in Launchers
      PROVE  (taken(m)' <=> taken(m)) /\ (taken(m) => opEntry'[m] = opEntry[m])
  <2>1. CASE m = l
    BY <1>1, <1>2, <1>3, <2>1 DEF taken
  <2>2. CASE m # l
    BY <1>1, <1>2, <1>3, <2>2 DEF taken, is_started
  <2> QED
    BY <2>1, <2>2
<1>5. backlogs' = backlogs
  BY <1>1, <1>4, BacklogSame
<1> QED
  BY <1>1, <1>5, OrderQuiet

(* Control operations are in no queue of a device.                          *)
LEMMA FireControlOrder ==
  ASSUME OrderInv, TypeOK', NEW i \in DOMAIN controlQueue, FireControl(i)
  PROVE  InOrder'
<1> DEFINE o == controlQueue[i]
<1>1. /\ prog' = prog /\ nextIter' = nextIter /\ eventQueue' = eventQueue
      /\ UNCHANGED <<opEntry, startTime, endTime>> /\ opMap' = [opMap EXCEPT ![o] = @ + 1]
  BY DEF FireControl, launcher
<1>2. kind(o) \in ControlKinds /\ opMap \in [Ops -> Nat]
  BY DEF OrderInv, EventInv, Routed, TypeOK, CountTypeOK
<1>3. o \notin Events
  BY <1>2 DEF Events, ControlKinds, EventKinds
<1>4. \A x \in Events : opMap'[x] = opMap[x]
  BY <1>1, <1>2, <1>3 DEF Events
<1>5. backlogs' = backlogs
  BY <1>1, TakenSame, BacklogSame
<1> QED
  BY <1>1, <1>4, <1>5, OrderQuiet

LEMMA OrderNext ==
  ASSUME OrderInv, [Next]_vars, [RunsToEnd]_vars
  PROVE  OrderInv'
<1>1. EventInv' /\ TypeOK'
  BY NextInv DEF OrderInv, EventInv
<1>2. ASSUME prog' = prog, nextIter' = nextIter, eventQueue' = eventQueue, opMap' = opMap,
             UNCHANGED <<opEntry, startTime, endTime>>
      PROVE  InOrder'
  <2>1. backlogs' = backlogs
    BY <1>2, TakenSame, BacklogSame
  <2> QED
    BY <1>1, <1>2, <2>1, OrderQuiet
<1>3. ASSUME NEW o \in Ops,
             PushControl(o) \/ SkipMissingLauncher(o) \/ PushEvent(o) \/ LoadOp(o)
      PROVE  InOrder'
  BY <1>1, <1>3, PushControlOrder, SkipMissingLauncherOrder, PushEventOrder, LoadOpOrder
<1>4. ASSUME NEW l \in Launchers, TakeEvent(l) \/ StartOp(l) \/ FinishOp(l)
      PROVE  InOrder'
  BY <1>1, <1>4, TakeEventOrder, StartOpOrder, FinishOpOrder
<1>5. ASSUME NEW i \in DOMAIN controlQueue, FireControl(i)
      PROVE  InOrder'
  BY <1>1, <1>5, FireControlOrder
<1>6. ASSUME NEW l \in Launchers, TakeNoEvent(l) \/ NothingToSchedule(l) \/ StallRead(l)
                                  \/ NothingToFinish(l) \/ LinkSignal(l)
      PROVE  InOrder'
  BY <1>2, <1>6 DEF TakeNoEvent, NothingToSchedule, StallRead, NothingToFinish,
                    LinkSignal, nothingElse, launcher, counts
<1>7. ASSUME NEW o \in Ops, StallOnFullQueue(o)
      PROVE  InOrder'
  BY <1>2, <1>7 DEF StallOnFullQueue, nothingElse, launcher, counts
<1>8. ASSUME \/ NothingToSet \/ ControlQueueWaits \/ EndCondition \/ AdvanceTime
             \/ UNCHANGED vars
      PROVE  InOrder'
  BY <1>2, <1>8 DEF NothingToSet, ControlQueueWaits, EndCondition, AdvanceTime, nothingElse,
                    vars, launcher, counts
<1>9. InOrder'
  BY <1>3, <1>4, <1>5, <1>6, <1>8, <1>7 DEF Next, Stopped
<1> QED
  BY <1>1, <1>9 DEF OrderInv

(* Runs of a block are numbered, so what is in step is in order.            *)
LEMMA InOrderRuns == InOrder => DeviceInOrder
<1> SUFFICES ASSUME InOrder, NEW a \in Ops, NEW b \in Ops, a < b, blockOf(a) = blockOf(b),
                    {kind(a), kind(b)} \subseteq EventKinds, P.target[a] = P.target[b]
             PROVE  opMap[a] - opMap[b] \in {0, 1}
  BY DEF DeviceInOrder
<1>1. InStep(opMap)
  BY DEF InOrder, Accounts, Queued
<1>2. a \in Events /\ b \in Events
  BY DEF Events
<1> QED
  BY <1>1, <1>2 DEF InStep

(***************************************************************************)
(* The events of one block for one device run in program order, however    *)
(* many launchers push to its queue, as long as no launcher enters another *)
(* block before the one it is in is at its end (BlockRunsToEnd): checked   *)
(* as DeviceInOrder.  The argument: a launcher walks a block from the      *)
(* first operation to the last and no two are in one block, so a queue     *)
(* holds the runs of a block that are not over in the order of the block,  *)
(* and every device takes its runs from the front.                         *)
(***************************************************************************)
THEOREM DevicesRunInOrder == Spec /\ BlockRunsToEnd => []DeviceInOrder
<1>1. Init => OrderInv
  BY InitInv, OrderInit DEF OrderInv
<1>2. OrderInv /\ [Next]_vars /\ [RunsToEnd]_vars => OrderInv'
  BY OrderNext
<1>3. OrderInv => DeviceInOrder
  BY InOrderRuns DEF OrderInv
<1>4. BlockRunsToEnd <=> [][RunsToEnd]_vars
  BY PTL DEF BlockRunsToEnd, RunsToEnd
<1> QED
  BY <1>1, <1>2, <1>3, <1>4, PTL DEF Spec

-----------------------------------------------------------------------------
(***************************************************************************)
(* Copies: begun and over.  An event of a device that does not exist       *)
(* generates all its results at once; for a launch these are also signals  *)
(* of operations of its body, which never run.                             *)
(***************************************************************************)
copying(o) == { l \in Launchers : opEntry[l] = o /\ is_started(l) }

isCopy(o) == o \in Ops /\ kind(o) = "memcpy"

CopyInv == EventInv /\ CopiesAccounted

LEMMA SignalFacts ==
  ASSUME TypeOK, NEW o \in Ops, kind(o) \in AsyncKinds
  PROVE  /\ P.results[o] \in Seq(Values) /\ Len(P.results[o]) >= 1
         /\ P.results[o][1] \in Values /\ doneOf(o) \in Values
         /\ kind(o) # "launch" => Len(P.results[o]) = 1
         /\ \A x \in Ops : isCopy(x) /\ doneOf(x) = doneOf(o) => x = o
<1>1. ProgramTypeOK(P) /\ RegionTypeOK(P) /\ SignalTypeOK(P)
  BY ProgramFacts, RegionAssumption, BlockAssumption DEF TypeOK, ControlTypeOK, P
<1>2. P.results[o] \in Seq(Values) /\ P.valueIds \in [Values -> Values]
  BY <1>1 DEF ProgramTypeOK, Ops, Values
<1>3. Len(P.results[o]) >= 1
  BY <1>1 DEF RegionTypeOK, Ops, kind
<1>4. P.results[o][1] \in Values
  BY <1>2, <1>3, LenProperties, ElementOfSeq
<1>5. /\ kind(o) # "launch" => Len(P.results[o]) = 1
      /\ \A x \in Ops : kind(x) \in AsyncKinds /\ doneOf(x) = doneOf(o) => x = o
  BY <1>1 DEF SignalTypeOK, Ops, kind, doneOf
<1>6. \A x : isCopy(x) => kind(x) \in AsyncKinds
  BY DEF isCopy, AsyncKinds, EventKinds
<1> QED
  BY <1>2, <1>3, <1>4, <1>5, <1>6 DEF doneOf

(* One signal, generated once.                                              *)
LEMMA OneSignal ==
  ASSUME NEW S, NEW vs \in Seq(S), Len(vs) = 1, NEW v
  PROVE  /\ valueId(vs[1]) = v => generatedBy(vs, v) = 1
         /\ valueId(vs[1]) # v => generatedBy(vs, v) = 0
<1>1. DOMAIN vs = {1}
  BY LenProperties
<1>2. /\ valueId(vs[1]) = v => { i \in DOMAIN vs : valueId(vs[i]) = v } = {1}
      /\ valueId(vs[1]) # v => { i \in DOMAIN vs : valueId(vs[i]) = v } = {}
  BY <1>1
<1>3. Cardinality({1}) = 1 /\ Cardinality({}) = 0
  BY FS_Singleton, FS_EmptySet
<1> QED
  BY <1>2, <1>3 DEF generatedBy

(* A signal of an operation that is no copy counts for no copy.             *)
LEMMA OneDone ==
  ASSUME TypeOK, NEW o \in Ops, kind(o) \in AsyncKinds,
         NEW vs, vs \in Seq(Values), Len(vs) = 1, vs[1] = P.results[o][1], updateExecution(vs)
  PROVE  \A x \in Ops : isCopy(x) =>
           /\ x = o => valueMap'[doneOf(x)] = valueMap[doneOf(x)] + 1
           /\ x # o => valueMap'[doneOf(x)] = valueMap[doneOf(x)]
<1> SUFFICES ASSUME NEW x \in Ops, isCopy(x)
             PROVE  /\ x = o => valueMap'[doneOf(x)] = valueMap[doneOf(x)] + 1
                    /\ x # o => valueMap'[doneOf(x)] = valueMap[doneOf(x)]
  OBVIOUS
<1>1. doneOf(x) \in Values
  BY SignalFacts DEF isCopy, AsyncKinds, EventKinds
<1>2. valueMap[doneOf(x)] \in Nat
  BY <1>1 DEF TypeOK, CountTypeOK
<1>3. valueMap'[doneOf(x)] = valueMap[doneOf(x)] + generatedBy(vs, doneOf(x))
  BY <1>1 DEF updateExecution
<1>4. valueId(vs[1]) = doneOf(o)
  BY DEF valueId, doneOf
<1>5. x # o => doneOf(x) # doneOf(o)
  BY SignalFacts
<1>6. /\ doneOf(x) = doneOf(o) => generatedBy(vs, doneOf(x)) = 1
      /\ doneOf(x) # doneOf(o) => generatedBy(vs, doneOf(x)) = 0
  BY <1>4, OneSignal
<1> QED
  BY <1>2, <1>3, <1>5, <1>6

(* A copy is only on its own device.                                        *)
LEMMA CopyingOnce ==
  ASSUME EventInv, NEW o, isCopy(o)
  PROVE  /\ copying(o) \subseteq {P.target[o]}
         /\ Cardinality(copying(o)) \in Nat
<1>1. \A l \in Launchers : opEntry[l] = o => P.target[o] = l
  BY BlockFacts DEF EventInv, Routed, isCopy, EventKinds
<1>2. copying(o) \subseteq {P.target[o]}
  BY <1>1 DEF copying
<1>3. IsFiniteSet(copying(o))
  BY <1>2, FS_Singleton, FS_Subset
<1> QED
  BY <1>2, <1>3, FS_CardinalityType

(* A step that begins a copy, finishes one, does both or neither.           *)
same(o) == /\ opMap'[o] = opMap[o] /\ valueMap'[doneOf(o)] = valueMap[doneOf(o)]
           /\ copying(o)' = copying(o)

begun(o, l) == /\ opMap'[o] = opMap[o] + 1 /\ valueMap'[doneOf(o)] = valueMap[doneOf(o)]
               /\ copying(o) = {} /\ copying(o)' = {l}

over(o, l) == /\ opMap'[o] = opMap[o] /\ valueMap'[doneOf(o)] = valueMap[doneOf(o)] + 1
              /\ copying(o) = {l} /\ copying(o)' = {}

both(o) == /\ opMap'[o] = opMap[o] + 1 /\ valueMap'[doneOf(o)] = valueMap[doneOf(o)] + 1
           /\ copying(o)' = copying(o)

LEMMA CopyStep ==
  ASSUME CopyInv, prog' = prog,
         \A o \in Ops : isCopy(o) =>
           same(o) \/ both(o) \/ \E l \in Launchers : begun(o, l) \/ over(o, l)
  PROVE  CopiesAccounted'
<1> SUFFICES ASSUME NEW o \in Ops, kind(o) = "memcpy"
             PROVE  opMap'[o] = valueMap'[doneOf(o)] + Cardinality(copying(o)')
  BY Rigid DEF CopiesAccounted, copying, kind, doneOf
<1>1. doneOf(o) \in Values /\ isCopy(o)
  BY SignalFacts DEF isCopy, AsyncKinds, EventKinds, CopyInv, EventInv
<1>2. opMap[o] = valueMap[doneOf(o)] + Cardinality(copying(o))
  BY DEF CopyInv, CopiesAccounted, copying
<1>3. opMap[o] \in Nat /\ valueMap[doneOf(o)] \in Nat /\ Cardinality(copying(o)) \in Nat
  BY <1>1, CopyingOnce DEF CopyInv, EventInv, TypeOK, CountTypeOK
<1>4. CASE same(o) \/ both(o)
  BY <1>2, <1>3, <1>4 DEF same, both
<1>5. ASSUME NEW l \in Launchers, begun(o, l) \/ over(o, l)
      PROVE  opMap'[o] = valueMap'[doneOf(o)] + Cardinality(copying(o)')
  <2>1. Cardinality({l}) = 1 /\ Cardinality({}) = 0
    BY FS_Singleton, FS_EmptySet
  <2>2. CASE begun(o, l)
    <3>1. Cardinality(copying(o)) = 0 /\ Cardinality(copying(o)') = 1
      BY <2>1, <2>2 DEF begun
    <3> QED
      BY <1>2, <1>3, <2>2, <3>1 DEF begun
  <2>3. CASE over(o, l)
    <3>1. Cardinality(copying(o)) = 1 /\ Cardinality(copying(o)') = 0
      BY <2>1, <2>3 DEF over
    <3> QED
      BY <1>2, <1>3, <2>3, <3>1 DEF over
  <2> QED
    BY <1>5, <2>2, <2>3
<1> QED
  BY <1>1, <1>4, <1>5

(* Launchers that begin or finish no copy.                                  *)
LEMMA CopyingSame ==
  ASSUME prog' = prog, NEW o,
         \A l \in Launchers :
           (opEntry'[l] = o /\ is_started(l)') <=> (opEntry[l] = o /\ is_started(l))
  PROVE  copying(o)' = copying(o)
BY Rigid DEF copying

LEMMA CopyQuiet ==
  ASSUME CopyInv, prog' = prog, UNCHANGED <<opMap, valueMap>>,
         \A o \in Ops : isCopy(o) => \A l \in Launchers :
           (opEntry'[l] = o /\ is_started(l)') <=> (opEntry[l] = o /\ is_started(l))
  PROVE  CopiesAccounted'
<1>1. \A o \in Ops : isCopy(o) => same(o)
  BY CopyingSame DEF same
<1> QED
  BY <1>1, CopyStep

(* An event or a control operation is over at once.                         *)
LEMMA CopyAtOnce ==
  ASSUME CopyInv, prog' = prog, UNCHANGED <<opEntry, startTime, endTime>>,
         NEW o \in Ops, kind(o) \in AsyncKinds, Len(P.results[o]) = 1,
         opMap' = [opMap EXCEPT ![o] = @ + 1], updateExecution(P.results[o])
  PROVE  CopiesAccounted'
<1>1. TypeOK /\ opMap \in [Ops -> Nat]
  BY DEF CopyInv, EventInv, TypeOK, CountTypeOK
<1>2. \A x \in Ops : copying(x)' = copying(x)
  BY CopyingSame DEF is_started
<1>3. \A x \in Ops : isCopy(x) =>
        /\ x = o => valueMap'[doneOf(x)] = valueMap[doneOf(x)] + 1
        /\ x # o => valueMap'[doneOf(x)] = valueMap[doneOf(x)]
  BY <1>1, SignalFacts, OneDone
<1>4. \A x \in Ops : isCopy(x) => same(x) \/ both(x)
  BY <1>1, <1>2, <1>3 DEF same, both
<1> QED
  BY <1>4, CopyStep

LEMMA StartOpCopy ==
  ASSUME CopyInv, NEW l \in Launchers, StartOp(l)
  PROVE  CopiesAccounted'
<1>1. TypeOK /\ EventInv
  BY DEF CopyInv, EventInv
<1>2. PICK o : o = opEntry[l]
  OBVIOUS
<1>3. /\ prog' = prog /\ valueMap' = valueMap /\ opEntry' = opEntry
      /\ o \in Ops /\ ~ is_started(l)
      /\ startTime' = [startTime EXCEPT ![l] = time]
      /\ endTime' = [endTime EXCEPT ![l] = modelOp(o)]
      /\ opMap' = IF kind(o) \in EventKinds \cup {"await"}
                    THEN [opMap EXCEPT ![o] = @ + 1] ELSE opMap
  BY <1>1, <1>2, EntryType DEF StartOp, nothingElse, mayStart
<1>4. /\ startTime \in [Launchers -> Nat] /\ endTime \in [Launchers -> Nat]
      /\ time # 0 /\ modelOp(o) # 0 /\ opMap \in [Ops -> Nat]
  BY <1>1, <1>3, ModelOpType DEF TypeOK, LauncherTypeOK, ControlTypeOK, CountTypeOK
<1>5. is_started(l)' /\ \A m \in Launchers : m # l => (is_started(m)' <=> is_started(m))
  BY <1>3, <1>4 DEF is_started
<1>6. ASSUME NEW x \in Ops, isCopy(x), x # o
      PROVE  same(x)
  <2>1. opMap'[x] = opMap[x]
    BY <1>3, <1>4, <1>6
  <2>2. copying(x)' = copying(x)
    BY <1>2, <1>3, <1>5, <1>6, CopyingSame
  <2> QED
    BY <1>3, <2>1, <2>2 DEF same
<1>7. ASSUME isCopy(o)
      PROVE  begun(o, l)
  <2>1. opMap'[o] = opMap[o] + 1
    BY <1>3, <1>4, <1>7 DEF isCopy, EventKinds
  <2>2. \A m \in Launchers : opEntry[m] = o => m = l
    BY <1>1, <1>2, <1>3, <1>7, BlockFacts DEF EventInv, Routed, isCopy, EventKinds
  <2>3. copying(o) = {} /\ copying(o)' = {l}
    BY <1>2, <1>3, <1>5, <2>2, Rigid DEF copying
  <2> QED
    BY <1>3, <2>1, <2>3 DEF begun
<1> QED
  BY <1>3, <1>6, <1>7, CopyStep

LEMMA FinishOpCopy ==
  ASSUME CopyInv, NEW l \in Launchers, FinishOp(l)
  PROVE  CopiesAccounted'
<1>1. TypeOK /\ EventInv
  BY DEF CopyInv, EventInv
<1>2. PICK o : o = opEntry[l]
  OBVIOUS
<1>3. /\ prog' = prog /\ opMap' = opMap /\ o \in Ops /\ is_started(l)
      /\ opEntry' = [opEntry EXCEPT ![l] = 0]
      /\ startTime' = [startTime EXCEPT ![l] = 0] /\ endTime' = [endTime EXCEPT ![l] = 0]
      /\ kind(o) = "memcpy" => updateExecution(P.results[o])
      /\ kind(o) = "return" => updateExecution(<<P.results[blockOf(o)][1]>>)
      /\ kind(o) \notin {"memcpy", "return"} => valueMap' = valueMap
  BY <1>1, <1>2, EntryType DEF FinishOp, finishes
<1>4. /\ startTime \in [Launchers -> Nat] /\ endTime \in [Launchers -> Nat]
      /\ opEntry \in [Launchers -> Ops \cup {0}] /\ 0 \notin Ops
  BY <1>1, BlockFacts DEF TypeOK, LauncherTypeOK
<1>5. \A m \in Launchers : /\ m # l => (is_started(m)' <=> is_started(m))
                           /\ m # l => opEntry'[m] = opEntry[m]
  BY <1>3, <1>4 DEF is_started
<1>6. opEntry'[l] = 0
  BY <1>3, <1>4
<1>7. \A x \in Ops : x # o => copying(x)' = copying(x)
  BY <1>2, <1>4, <1>5, <1>6, <1>3, CopyingSame
<1>8. \A x \in Ops : isCopy(x) /\ x # o => valueMap'[doneOf(x)] = valueMap[doneOf(x)]
  <2>1. CASE kind(o) = "memcpy"
    <3>1. kind(o) \in AsyncKinds /\ kind(o) # "launch"
      BY <2>1 DEF AsyncKinds, EventKinds
    <3> QED
      BY <1>1, <1>3, <2>1, <3>1, SignalFacts, OneDone
  <2>2. CASE kind(o) = "return"
    <3>1. blockOf(o) \in Ops /\ kind(blockOf(o)) = "launch"
      BY <1>1, <1>3, <2>2, BlockFacts DEF Blocks
    <3>2. kind(blockOf(o)) \in AsyncKinds /\ P.results[blockOf(o)][1] \in Values
      BY <1>1, <3>1, SignalFacts DEF AsyncKinds, EventKinds
    <3>3. PICK vs : vs = <<P.results[blockOf(o)][1]>>
      OBVIOUS
    <3>4. vs \in Seq(Values) /\ Len(vs) = 1 /\ vs[1] = P.results[blockOf(o)][1]
          /\ updateExecution(vs)
      BY <1>3, <2>2, <3>2, <3>3
    <3>5. \A x \in Ops : isCopy(x) => x # blockOf(o)
      BY <3>1 DEF isCopy
    <3> QED
      BY <1>1, <3>1, <3>2, <3>4, <3>5, OneDone
  <2>3. CASE kind(o) \notin {"memcpy", "return"}
    BY <1>3, <2>3
  <2> QED
    BY <2>1, <2>2, <2>3
<1>9. \A x \in Ops : isCopy(x) /\ x # o => same(x)
  BY <1>3, <1>7, <1>8 DEF same
<1>10. ASSUME isCopy(o)
       PROVE  over(o, l)
  <2>1. kind(o) \in AsyncKinds /\ kind(o) # "launch" /\ kind(o) = "memcpy"
    BY <1>10 DEF isCopy, AsyncKinds, EventKinds
  <2>2. valueMap'[doneOf(o)] = valueMap[doneOf(o)] + 1
    BY <1>1, <1>3, <1>10, <2>1, SignalFacts, OneDone
  <2>3. \A m \in Launchers : opEntry[m] = o => m = l
    BY <1>1, <1>2, <1>3, <1>4, <2>1 DEF EventInv, Routed, EventKinds
  <2>4. copying(o) = {l}
    BY <1>2, <1>3, <2>3 DEF copying
  <2>5. copying(o)' = {}
    <3>1. \A m \in Launchers : opEntry'[m] # o
      BY <1>3, <1>4, <1>5, <1>6, <2>3
    <3> QED
      BY <1>3, <3>1, Rigid DEF copying
  <2> QED
    BY <1>3, <2>2, <2>4, <2>5 DEF over
<1> QED
  BY <1>3, <1>9, <1>10, CopyStep

LEMMA CopyNext ==
  ASSUME CopyInv, [Next]_vars, [skipsNoResults]_vars
  PROVE  CopyInv'
<1>1. EventInv' /\ EventInv /\ TypeOK
  BY NextInv DEF CopyInv, EventInv
<1>2. ASSUME prog' = prog, UNCHANGED <<opEntry, startTime, endTime, opMap, valueMap>>
      PROVE  CopiesAccounted'
  BY <1>2, CopyQuiet DEF is_started
<1>3. ASSUME NEW o \in Ops, SkipMissingLauncher(o), Len(P.results[o]) = 1
      PROVE  CopiesAccounted'
  BY <1>3, CopyAtOnce DEF SkipMissingLauncher, nothingElse, AsyncKinds
<1>4. ASSUME NEW i \in DOMAIN controlQueue, FireControl(i)
      PROVE  CopiesAccounted'
  <2>1. PICK o : o = controlQueue[i]
    OBVIOUS
  <2>2. o \in Ops /\ kind(o) \in ControlKinds
    <3>1. controlQueue \in Seq(Ops)
      BY <1>1 DEF TypeOK, QueueTypeOK
    <3> QED
      BY <1>1, <2>1, <3>1, ElementOfSeq, LenProperties DEF EventInv, Routed
  <2>3. kind(o) \in AsyncKinds /\ kind(o) # "launch"
    BY <2>2 DEF AsyncKinds, ControlKinds
  <2>4. Len(P.results[o]) = 1
    BY <1>1, <2>2, <2>3, SignalFacts
  <2> QED
    BY <1>4, <2>1, <2>2, <2>3, <2>4, CopyAtOnce DEF FireControl, launcher
<1>5. ASSUME NEW l \in Launchers, StartOp(l) \/ FinishOp(l)
      PROVE  CopiesAccounted'
  BY <1>5, StartOpCopy, FinishOpCopy
<1>6. ASSUME NEW l \in Launchers, NEW x, prog' = prog, UNCHANGED <<opMap, valueMap>>,
             is_idle(l), opEntry' = [opEntry EXCEPT ![l] = x],
             startTime' = [startTime EXCEPT ![l] = 0], endTime' = [endTime EXCEPT ![l] = 0]
      PROVE  CopiesAccounted'
  <2>1. /\ startTime \in [Launchers -> Nat] /\ endTime \in [Launchers -> Nat]
        /\ opEntry \in [Launchers -> Ops \cup {0}] /\ 0 \notin Ops
    BY <1>1, BlockFacts DEF TypeOK, LauncherTypeOK
  <2>2. \A o \in Ops : isCopy(o) => \A m \in Launchers :
          (opEntry'[m] = o /\ is_started(m)') <=> (opEntry[m] = o /\ is_started(m))
    BY <1>6, <2>1 DEF is_started, is_idle
  <2> QED
    BY <1>6, <2>2, CopyQuiet
<1>7. ASSUME NEW o \in Ops, LoadOp(o)
      PROVE  CopiesAccounted'
  BY <1>1, <1>6, <1>7, CurrentType DEF LoadOp, SetOpEntry, nothingElse, counts, TypeOK
<1>8. ASSUME NEW l \in Launchers, TakeEvent(l)
      PROVE  CopiesAccounted'
  BY <1>6, <1>8 DEF TakeEvent, headReady, counts
<1>9. ASSUME NEW l \in Launchers, \/ TakeNoEvent(l) \/ NothingToSchedule(l) \/ StallRead(l)
                                  \/ NothingToFinish(l) \/ LinkSignal(l)
      PROVE  CopiesAccounted'
  BY <1>2, <1>9 DEF TakeNoEvent, NothingToSchedule, StallRead, NothingToFinish,
                    LinkSignal, nothingElse, launcher, counts
<1>10. ASSUME NEW o \in Ops, PushControl(o) \/ PushEvent(o) \/ StallOnFullQueue(o)
       PROVE  CopiesAccounted'
  BY <1>2, <1>10 DEF PushControl, PushEvent, StallOnFullQueue, nothingElse, launcher, counts
<1>11. ASSUME \/ NothingToSet \/ ControlQueueWaits \/ EndCondition \/ AdvanceTime
              \/ UNCHANGED vars
       PROVE  CopiesAccounted'
  BY <1>2, <1>11 DEF NothingToSet, ControlQueueWaits, EndCondition, AdvanceTime, nothingElse,
                     vars, launcher, counts
<1>12. \/ skipsNoResults \/ UNCHANGED vars
  OBVIOUS
<1>13. CopiesAccounted'
  BY <1>3, <1>4, <1>5, <1>7, <1>8, <1>9, <1>10, <1>11, <1>12
  DEF Next, Stopped, skipsNoResults
<1> QED
  BY <1>1, <1>13 DEF CopyInv

LEMMA CopyInit == Init => CopiesAccounted
<1> SUFFICES ASSUME Init, NEW o \in Ops, kind(o) = "memcpy"
             PROVE  opMap[o] = valueMap[doneOf(o)] + Cardinality(copying(o))
  BY DEF CopiesAccounted, copying
<1>1. TypeOK /\ doneOf(o) \in Values /\ 0 \notin Ops
  BY InitType, SignalFacts, BlockFacts DEF AsyncKinds, EventKinds
<1>2. opMap[o] = 0 /\ valueMap[doneOf(o)] = 0 /\ \A l \in Launchers : opEntry[l] = 0
  BY <1>1 DEF Init
<1>3. copying(o) = {} /\ Cardinality({}) = 0
  BY <1>1, <1>2, FS_EmptySet DEF copying
<1> QED
  BY <1>2, <1>3

(***************************************************************************)
(* What was executed was either finished or is on its launcher: checked as *)
(* CopiesAccounted.  It holds as long as no launch that passes signals on  *)
(* goes to a processor that does not exist: skipping such a launch counts  *)
(* the signals of the copies in its body, none of which has run.           *)
(***************************************************************************)
THEOREM CopiesBalance == Spec /\ NoResultsSkipped => []CopiesAccounted
<1>1. Init => CopyInv
  BY InitInv, CopyInit DEF CopyInv
<1>2. CopyInv /\ [Next]_vars /\ [skipsNoResults]_vars => CopyInv'
  BY CopyNext
<1>3. CopyInv => CopiesAccounted
  BY DEF CopyInv
<1> QED
  BY <1>1, <1>2, <1>3, PTL DEF Spec, NoResultsSkipped
=============================================================================
