------------------------- MODULE BankScheduleProofs -------------------------
(***************************************************************************)
(* The schedules of the banks are well formed whatever the processors      *)
(* share.  Banks that only one processor accesses are kept in order: for   *)
(* every memory, every length of the accesses and every interleaving.  All *)
(* of that rests on one fact: when a processor asks for its bank, all that *)
(* the bank was ever asked for is over, so that scheduleEvent grants the   *)
(* access at once.  linalg.generic asks for one line after the other and   *)
(* does not look at the answers: what it leaves is followed line by line,  *)
(* through the fold that the model computes it with.                       *)
(***************************************************************************)
EXTENDS BankSchedule, DeviceEventsProofs

(* Induction along 0 .. n, for a set: the first number outside it would     *)
(* follow one inside.                                                       *)
LEMMA UpTo ==
  ASSUME NEW n \in Nat, NEW Q, 0 \in Q, \A i \in 1 .. n : i - 1 \in Q => i \in Q
  PROVE  \A i \in 0 .. n : i \in Q
<1> DEFINE out == { i \in 0 .. n : i \notin Q }
<1>1. SUFFICES ASSUME out # {} PROVE FALSE
  OBVIOUS
<1>2. out \in SUBSET Nat
  OBVIOUS
<1>3. Min(out) \in out /\ \A y \in out : Min(out) <= y
  BY <1>1, <1>2, MinOfNaturals
<1>4. PICK k \in out : \A y \in out : k <= y
  BY <1>3
<1>5. k \in 1 .. n
  BY <1>4
<1>6. k - 1 \in 0 .. n /\ ~ (k <= k - 1)
  BY <1>5
<1>7. k - 1 \notin out
  BY <1>4, <1>6
<1>8. k - 1 \in Q
  BY <1>6, <1>7
<1> QED
  BY <1>4, <1>5, <1>8

LEMMA MaxOfPrefix ==
  ASSUME NEW m \in Nat, NEW U \in SUBSET (1 .. m + 1), m + 1 \in U
  PROVE  Max(U) = m + 1
<1>1. \A y \in U : m + 1 >= y
  OBVIOUS
<1>2. \A x \in U : (\A y \in U : x >= y) => x = m + 1
  OBVIOUS
<1> QED
  BY <1>1, <1>2 DEF Max

(* A fold over a sequence: what it has computed from each set of positions, *)
(* the last of them first.                                                  *)
IsFold(h, n, S, base, step) ==
  /\ h \in [SUBSET (1 .. n) -> S]
  /\ h[{}] = base
  /\ \A U \in SUBSET (1 .. n) : U # {} => h[U] = step[<<h[U \ {Max(U)}], Max(U)>>]

LEMMA FoldExists ==
  ASSUME NEW n \in Nat, NEW S, NEW base \in S, NEW step \in [S \X (1 .. n) -> S]
  PROVE  \E h : IsFold(h, n, S, base, step)
<1> DEFINE Q == { m \in 0 .. n : \E h : IsFold(h, m, S, base, step) }
<1>1. 0 \in Q
  <2>1. 1 .. 0 = {} /\ \A U \in SUBSET {} : U = {}
    OBVIOUS
  <2>2. IsFold([U \in SUBSET {} |-> base], 0, S, base, step)
    BY <2>1 DEF IsFold
  <2> QED
    BY <2>2
<1>2. ASSUME NEW i \in 1 .. n, i - 1 \in Q
      PROVE  i \in Q
  <2>0. PICK m \in Nat : m = i - 1 /\ i = m + 1 /\ m \in Q
    BY <1>2
  <2>1. PICK h : IsFold(h, m, S, base, step)
    BY <2>0
  <2> DEFINE more == [U \in SUBSET (1 .. m + 1) |->
                        IF m + 1 \in U THEN step[<<h[U \ {m + 1}], m + 1>>] ELSE h[U]]
  <2>2. \A U \in SUBSET (1 .. m + 1) :
          /\ U \ {m + 1} \in SUBSET (1 .. m)
          /\ m + 1 \notin U => U \in SUBSET (1 .. m)
    <3>1. \A x \in 1 .. m + 1 : x # m + 1 => x \in 1 .. m
      OBVIOUS
    <3> QED
      BY <3>1
  <2>3. /\ h \in [SUBSET (1 .. m) -> S] /\ h[{}] = base
        /\ \A U \in SUBSET (1 .. m) : U # {} => h[U] = step[<<h[U \ {Max(U)}], Max(U)>>]
    BY <2>1 DEF IsFold
  <2>4. m + 1 \in 1 .. n
    BY <2>0
  <2>5. more \in [SUBSET (1 .. m + 1) -> S]
    <3>1. ASSUME NEW U \in SUBSET (1 .. m + 1)
          PROVE  (IF m + 1 \in U THEN step[<<h[U \ {m + 1}], m + 1>>] ELSE h[U]) \in S
      <4>1. CASE m + 1 \in U
        <5>1. h[U \ {m + 1}] \in S
          BY <2>2, <2>3
        <5> QED
          BY <2>4, <4>1, <5>1
      <4>2. CASE m + 1 \notin U
        BY <2>2, <2>3, <4>2
      <4> QED
        BY <4>1, <4>2
    <3> QED
      BY <3>1
  <2>6. \A U \in SUBSET (1 .. m) : U \in SUBSET (1 .. m + 1) /\ m + 1 \notin U
    <3>1. \A x \in 1 .. m : x \in 1 .. m + 1 /\ x # m + 1
      OBVIOUS
    <3> QED
      BY <3>1
  <2>7. \A U \in SUBSET (1 .. m) : more[U] = h[U]
    BY <2>6
  <2>8. more[{}] = base
    BY <2>3, <2>7
  <2>9. ASSUME NEW U \in SUBSET (1 .. m + 1), U # {}
        PROVE  more[U] = step[<<more[U \ {Max(U)}], Max(U)>>]
    <3>1. CASE m + 1 \in U
      <4>1. Max(U) = m + 1
        BY <3>1, MaxOfPrefix
      <4>2. more[U] = step[<<h[U \ {m + 1}], m + 1>>]
        BY <3>1
      <4> QED
        BY <2>2, <2>7, <4>1, <4>2
    <3>2. CASE m + 1 \notin U
      <4>1. U \in SUBSET (1 .. m)
        BY <2>2, <3>2
      <4>2. more[U] = h[U] /\ h[U] = step[<<h[U \ {Max(U)}], Max(U)>>]
        BY <2>3, <2>7, <2>9, <4>1
      <4>3. more[U \ {Max(U)}] = h[U \ {Max(U)}]
        BY <2>7, <4>1
      <4> QED
        BY <4>2, <4>3
    <3> QED
      BY <3>1, <3>2
  <2> HIDE DEF more
  <2>10. IsFold(more, m + 1, S, base, step)
    BY <2>5, <2>8, <2>9 DEF IsFold
  <2> QED
    BY <2>0, <2>10
<1> HIDE DEF Q
<1>3. n \in Q
  BY <1>1, <1>2, UpTo
<1> QED
  BY <1>3 DEF Q
LEMMA MaxOfSome ==
  ASSUME NEW n \in Nat, NEW U \in SUBSET (1 .. n), U # {}
  PROVE  Max(U) \in U /\ \A y \in U : y <= Max(U)
<1> DEFINE bounds == { k \in Nat : \A y \in U : y <= k }
<1>1. n \in bounds /\ bounds \in SUBSET Nat
  OBVIOUS
<1>2. Min(bounds) \in bounds /\ \A k \in bounds : Min(bounds) <= k
  BY <1>1, MinOfNaturals
<1>3. PICK m \in bounds : \A k \in bounds : m <= k
  BY <1>2
<1>4. m \in U
  <2>1. SUFFICES ASSUME m \notin U PROVE FALSE
    OBVIOUS
  <2>2. \A y \in U : y \in Nat \ {0} /\ y <= m /\ y # m
    BY <1>3, <2>1
  <2>3. \A y \in U : y <= m - 1
    BY <1>3, <2>2
  <2>4. m - 1 \in Nat
    <3>1. PICK y \in U : TRUE
      OBVIOUS
    <3> QED
      BY <1>3, <2>2, <3>1
  <2>5. m - 1 \in bounds
    BY <2>3, <2>4
  <2> QED
    BY <1>3, <2>5
<1>5. \A x \in U : (\A y \in U : x >= y) <=> x = m
  BY <1>3, <1>4
<1> HIDE DEF bounds
<1>6. Max(U) = CHOOSE x \in U : \A y \in U : x >= y
  BY DEF Max
<1>7. m \in U /\ \A y \in U : m >= y
  BY <1>4, <1>5
<1>8. Max(U) \in U /\ \A y \in U : Max(U) >= y
  BY <1>6, <1>7
<1> QED
  BY <1>8

(* The value of such a fold, position by position. *)
LEMMA FoldSteps ==
  ASSUME NEW n \in Nat, NEW h
  PROVE  /\ h[1 .. 0] = h[{}]
         /\ \A i \in 1 .. n : /\ 1 .. i # {} /\ 1 .. i \in SUBSET (1 .. n)
                              /\ Max(1 .. i) = i /\ (1 .. i) \ {i} = 1 .. i - 1
<1>1. 1 .. 0 = {}
  OBVIOUS
<1>2. ASSUME NEW i \in 1 .. n
      PROVE  /\ 1 .. i # {} /\ 1 .. i \in SUBSET (1 .. n)
             /\ Max(1 .. i) = i /\ (1 .. i) \ {i} = 1 .. i - 1
  <2>1. PICK m \in Nat : i = m + 1
    <3>1. i - 1 \in Nat /\ i = (i - 1) + 1
      OBVIOUS
    <3> QED
      BY <3>1
  <2>2. 1 .. i \in SUBSET (1 .. m + 1) /\ m + 1 \in 1 .. i
    BY <2>1
  <2>3. Max(1 .. i) = i
    BY <2>1, <2>2, MaxOfPrefix
  <2>4. \A x \in 1 .. i : x \in 1 .. n /\ (x # i => x \in 1 .. i - 1)
    OBVIOUS
  <2>5. \A x \in 1 .. i - 1 : x \in 1 .. i /\ x # i
    OBVIOUS
  <2>6. i \in 1 .. i
    OBVIOUS
  <2> QED
    BY <2>3, <2>4, <2>5, <2>6
<1> QED
  BY <1>1, <1>2

(* What such a fold computes for each prefix of the sequence. *)
LEMMA FoldPrefixes ==
  ASSUME NEW n \in Nat, NEW S, NEW base, NEW step, NEW h, IsFold(h, n, S, base, step)
  PROVE  /\ h[1 .. 0] = base
         /\ \A i \in 1 .. n : h[1 .. i] = step[<<h[1 .. i - 1], i>>]
<1>1. /\ h[1 .. 0] = h[{}]
      /\ \A i \in 1 .. n : /\ 1 .. i # {} /\ 1 .. i \in SUBSET (1 .. n)
                           /\ Max(1 .. i) = i /\ (1 .. i) \ {i} = 1 .. i - 1
  BY FoldSteps
<1> QED
  BY <1>1 DEF IsFold

(* A sum of lines is a natural number, and so is a product. *)
LEMMA LinesNatural ==
  ASSUME NEW buffers \in Seq(Nat)
  PROVE  LinesOf(buffers) \in Nat /\ Scaled(buffers) \in Nat
<1>0. Len(buffers) \in Nat /\ DOMAIN buffers = 1 .. Len(buffers)
      /\ \A i \in 1 .. Len(buffers) : buffers[i] \in Nat
  BY LenProperties, ElementOfSeq
<1>1. PICK n \in Nat : DOMAIN buffers = 1 .. n /\ \A i \in 1 .. n : buffers[i] \in Nat
  BY <1>0
<1>2. \A x, y \in Nat : x + y \in Nat /\ x * y \in Nat
  OBVIOUS
<1>3. LinesOf(buffers) \in Nat
  <2> DEFINE step == [x \in Nat \X (1 .. n) |-> x[1] + buffers[x[2]]]
             fold(g) == [U \in SUBSET DOMAIN buffers |->
                           IF U = {} THEN 0 ELSE g[U \ {Max(U)}] + buffers[Max(U)]]
             iter == CHOOSE g : g = fold(g)
  <2>1. step \in [Nat \X (1 .. n) -> Nat]
    BY <1>1, <1>2
  <2>2. PICK h : IsFold(h, n, Nat, 0, step)
    <3> HIDE DEF step
    <3> QED
      BY <2>1, FoldExists
  <2>3. h = fold(h)
    <3>1. ASSUME NEW U \in SUBSET (1 .. n), U # {}
          PROVE  h[U] = h[U \ {Max(U)}] + buffers[Max(U)]
      <4>1. h[U] = step[<<h[U \ {Max(U)}], Max(U)>>] /\ h[U \ {Max(U)}] \in Nat
        <5> HIDE DEF step
        <5> QED
          BY <2>2, <3>1 DEF IsFold
      <4>2. Max(U) \in 1 .. n
        BY <3>1, MaxOfSome
      <4> QED
        BY <4>1, <4>2
    <3>2. h \in [SUBSET (1 .. n) -> Nat] /\ h[{}] = 0
      BY <2>2 DEF IsFold
    <3> HIDE DEF step
    <3> QED
      BY <1>1, <3>1, <3>2
  <2>4. iter = fold(iter)
    <3> HIDE DEF fold
    <3> QED
      BY <2>3
  <2>5. LinesOf(buffers) = iter[DOMAIN buffers]
    BY DEF LinesOf, FoldLeft, MapThenFoldSet
  <2> DEFINE Q == { i \in 0 .. n : iter[1 .. i] \in Nat }
  <2>6. \A U \in SUBSET (1 .. n) :
          iter[U] = IF U = {} THEN 0 ELSE iter[U \ {Max(U)}] + buffers[Max(U)]
    BY <1>1, <2>4
  <2> HIDE DEF iter
  <2>7. 0 \in Q
    <3>1. {} \in SUBSET (1 .. n)
      OBVIOUS
    <3>2. iter[{}] = 0
      BY <2>6, <3>1
    <3>3. 1 .. 0 = {}
      OBVIOUS
    <3> QED
      BY <3>2, <3>3
  <2>8. \A i \in 1 .. n : iter[1 .. i] = iter[1 .. i - 1] + buffers[i]
    BY <2>6, FoldSteps
  <2>9. \A i \in 1 .. n : i - 1 \in Q => i \in Q
    BY <1>1, <1>2, <2>8
  <2>10. \A i \in 0 .. n : i \in Q
    <3> HIDE DEF Q
    <3> QED
      BY <2>7, <2>9, UpTo
  <2> QED
    BY <1>1, <2>5, <2>10
<1>4. Scaled(buffers) \in Nat
  <2> DEFINE step == [x \in Nat \X (1 .. n) |-> x[1] * buffers[x[2]]]
             fold(g) == [U \in SUBSET DOMAIN buffers |->
                           IF U = {} THEN 1 ELSE g[U \ {Max(U)}] * buffers[Max(U)]]
             iter == CHOOSE g : g = fold(g)
  <2>1. step \in [Nat \X (1 .. n) -> Nat]
    BY <1>1, <1>2
  <2>2. PICK h : IsFold(h, n, Nat, 1, step)
    <3> HIDE DEF step
    <3> QED
      BY <2>1, FoldExists
  <2>3. h = fold(h)
    <3>1. ASSUME NEW U \in SUBSET (1 .. n), U # {}
          PROVE  h[U] = h[U \ {Max(U)}] * buffers[Max(U)]
      <4>1. h[U] = step[<<h[U \ {Max(U)}], Max(U)>>] /\ h[U \ {Max(U)}] \in Nat
        <5> HIDE DEF step
        <5> QED
          BY <2>2, <3>1 DEF IsFold
      <4>2. Max(U) \in 1 .. n
        BY <3>1, MaxOfSome
      <4> QED
        BY <4>1, <4>2
    <3>2. h \in [SUBSET (1 .. n) -> Nat] /\ h[{}] = 1
      BY <2>2 DEF IsFold
    <3> HIDE DEF step
    <3> QED
      BY <1>1, <3>1, <3>2
  <2>4. iter = fold(iter)
    <3> HIDE DEF fold
    <3> QED
      BY <2>3
  <2>5. Scaled(buffers) = iter[DOMAIN buffers]
    BY DEF Scaled, FoldLeft, MapThenFoldSet
  <2> DEFINE Q == { i \in 0 .. n : iter[1 .. i] \in Nat }
  <2>6. \A U \in SUBSET (1 .. n) :
          iter[U] = IF U = {} THEN 1 ELSE iter[U \ {Max(U)}] * buffers[Max(U)]
    BY <1>1, <2>4
  <2> HIDE DEF iter
  <2>7. 0 \in Q
    <3>1. {} \in SUBSET (1 .. n)
      OBVIOUS
    <3>2. iter[{}] = 1
      BY <2>6, <3>1
    <3>3. 1 .. 0 = {}
      OBVIOUS
    <3> QED
      BY <3>2, <3>3
  <2>8. \A i \in 1 .. n : iter[1 .. i] = iter[1 .. i - 1] * buffers[i]
    BY <2>6, FoldSteps
  <2>9. \A i \in 1 .. n : i - 1 \in Q => i \in Q
    BY <1>1, <1>2, <2>8
  <2>10. \A i \in 0 .. n : i \in Q
    <3> HIDE DEF Q
    <3> QED
      BY <2>7, <2>9, UpTo
  <2> QED
    BY <1>1, <2>5, <2>10
<1> QED
  BY <1>3, <1>4
LEMMA CyclesNatural ==
  ASSUME NEW dlines \in Nat, NEW op
  PROVE  getReadOrWriteCycles(Mem, dlines, op) \in Nat
<1> USE BankScheduleAssumption DEF ENOUGH
<1>1. ASSUME NEW ports \in {ENOUGH} \cup (Nat \ {0})
      PROVE  portCycles(ports, Mem, dlines) \in Nat
  <2>1. CASE ports = ENOUGH
    BY <2>1 DEF portCycles
  <2>2. CASE ports # ENOUGH
    <3>1. ports \in Nat \ {0}
      BY <2>2
    <3>2. (dlines + ports - 1) \div ports \in Nat
      <4>1. dlines + ports - 1 \in Nat
        BY <3>1
      <4>2. ASSUME NEW x \in Nat, NEW y \in Nat \ {0} PROVE x \div y \in Nat
        BY SMT
      <4> QED
        BY <3>1, <4>1, <4>2
    <3> QED
      BY <2>2, <3>2 DEF portCycles, CeilDiv
  <2> QED
    BY <2>1, <2>2
<1> QED
  BY <1>1 DEF getReadOrWriteCycles

-----------------------------------------------------------------------------
(* The lines of a linalg.generic, asked for one after the other. *)
GrantType == [proc : Procs, bank : Banks, at : Nat, event : EventType]

LineState == [events : Schedule, at : Nat \ {0}, granted : SUBSET GrantType]

scheduleAll(p, b, start, lines) ==
  FoldLeft(LAMBDA s, cycles : scheduleLine(p, b, s, cycles), start, lines)

LEMMA LineType ==
  ASSUME NEW p \in Procs, NEW b \in Banks, NEW s \in LineState, NEW cycles \in Nat
  PROVE  scheduleLine(p, b, s, cycles) \in LineState
<1> DEFINE result == scheduleEvent(s.events, s.at, cycles, TRUE)
           new == Grant(p, b, s.at, cycles, result.end)
<1>1. s.events \in Schedule /\ s.at \in Nat \ {0} /\ s.granted \in SUBSET GrantType
  BY DEF LineState
<1>2. result.events \in Schedule /\ result.end \in Nat /\ result.end - cycles \in Nat
  BY <1>1, ScheduleEventType
<1> HIDE DEF result
<1>3. new \in SUBSET GrantType
  BY <1>1, <1>2 DEF Grant, GrantType, Event, EventType
<1>4. s.at + cycles \in Nat \ {0}
  BY <1>1
<1>5. scheduleLine(p, b, s, cycles)
        = [events |-> result.events, at |-> s.at + cycles, granted |-> s.granted \cup new]
  BY DEF scheduleLine, result
<1>6. s.granted \cup new \in SUBSET GrantType
  BY <1>1, <1>3
<1> HIDE DEF new
<1> QED
  BY <1>2, <1>4, <1>5, <1>6 DEF LineState

(* t[i] is what the first i lines leave. *)
IsTrace(t, p, b, start, n, lines) ==
  /\ t[0] = start
  /\ \A i \in 1 .. n : t[i] = scheduleLine(p, b, t[i - 1], lines[i])
  /\ \A i \in 0 .. n : t[i] \in LineState

LEMMA LinesTrace ==
  ASSUME NEW p \in Procs, NEW b \in Banks, NEW start \in LineState,
         NEW n \in Nat, NEW lines \in [1 .. n -> Nat]
  PROVE  \E t : IsTrace(t, p, b, start, n, lines) /\ scheduleAll(p, b, start, lines) = t[n]
<1> DEFINE step == [x \in LineState \X (1 .. n) |-> scheduleLine(p, b, x[1], lines[x[2]])]
           fold(g) == [U \in SUBSET DOMAIN lines |->
                         IF U = {} THEN start
                         ELSE scheduleLine(p, b, g[U \ {Max(U)}], lines[Max(U)])]
           iter == CHOOSE g : g = fold(g)
<1>1. DOMAIN lines = 1 .. n /\ \A i \in 1 .. n : lines[i] \in Nat
  OBVIOUS
<1>2. step \in [LineState \X (1 .. n) -> LineState]
  BY <1>1, LineType
<1>3. PICK h : IsFold(h, n, LineState, start, step)
  <2> HIDE DEF step
  <2> QED
    BY <1>2, FoldExists
<1>4. h = fold(h)
  <2>1. ASSUME NEW U \in SUBSET (1 .. n), U # {}
        PROVE  h[U] = scheduleLine(p, b, h[U \ {Max(U)}], lines[Max(U)])
    <3>1. h[U] = step[<<h[U \ {Max(U)}], Max(U)>>] /\ h[U \ {Max(U)}] \in LineState
      <4> HIDE DEF step
      <4> QED
        BY <1>3, <2>1 DEF IsFold
    <3>2. Max(U) \in 1 .. n
      BY <2>1, MaxOfSome
    <3> QED
      BY <3>1, <3>2
  <2>2. h \in [SUBSET (1 .. n) -> LineState] /\ h[{}] = start
    BY <1>3 DEF IsFold
  <2> HIDE DEF step
  <2> QED
    BY <1>1, <2>1, <2>2
<1>5. iter = fold(iter)
  <2> HIDE DEF fold
  <2> QED
    BY <1>4
<1>6. scheduleAll(p, b, start, lines) = iter[DOMAIN lines]
  BY DEF scheduleAll, FoldLeft, MapThenFoldSet
<1>7. \A U \in SUBSET (1 .. n) :
        iter[U] = IF U = {} THEN start
                  ELSE scheduleLine(p, b, iter[U \ {Max(U)}], lines[Max(U)])
  BY <1>1, <1>5
<1> HIDE DEF iter
<1> DEFINE t == [i \in 0 .. n |-> iter[1 .. i]]
<1>8. iter[1 .. 0] = start
  <2>1. {} \in SUBSET (1 .. n)
    OBVIOUS
  <2>2. iter[{}] = start
    BY <1>7, <2>1
  <2>3. 1 .. 0 = {}
    OBVIOUS
  <2> QED
    BY <2>2, <2>3
<1>9. \A i \in 1 .. n : iter[1 .. i] = scheduleLine(p, b, iter[1 .. i - 1], lines[i])
  BY <1>7, FoldSteps
<1>10. \A i \in 1 .. n : i \in 0 .. n /\ i - 1 \in 0 .. n
  OBVIOUS
<1>11. t[0] = start /\ \A i \in 1 .. n : t[i] = scheduleLine(p, b, t[i - 1], lines[i])
  BY <1>8, <1>9, <1>10
<1>12. t[n] = iter[1 .. n]
  OBVIOUS
<1> HIDE DEF t
<1> DEFINE Q == { i \in 0 .. n : t[i] \in LineState }
<1>13. 0 \in Q
  BY <1>11
<1>14. \A i \in 1 .. n : i - 1 \in Q => i \in Q
  BY <1>1, <1>10, <1>11, LineType
<1>15. \A i \in 0 .. n : i \in Q
  <2> HIDE DEF Q
  <2> QED
    BY <1>13, <1>14, UpTo
<1> QED
  BY <1>1, <1>6, <1>11, <1>12, <1>15 DEF IsTrace
LEMMA GenericLines ==
  ASSUME NEW generic \in Generics
  PROVE  /\ LinesOf(generic.inputs) \in Nat /\ LinesOf(generic.outputs) \in Nat
         /\ Scaled(generic.inputs) \in Nat /\ generic.body \in Nat
         /\ LineCycles("Read") \in Nat /\ LineCycles("Write") \in Nat
         /\ genericLines(generic) \in [1 .. LinesOf(generic.inputs) + LinesOf(generic.outputs) -> Nat]
         /\ genericCycles(generic) \in Nat
<1>1. generic.inputs \in Seq(Nat) /\ generic.outputs \in Seq(Nat) /\ generic.body \in Nat
  BY BankScheduleAssumption
<1>2. LinesOf(generic.inputs) \in Nat /\ LinesOf(generic.outputs) \in Nat /\ Scaled(generic.inputs) \in Nat
  BY <1>1, LinesNatural
<1>3. \A op : LineCycles(op) \in Nat
  BY CyclesNatural DEF LineCycles
<1>4. genericLines(generic) \in [1 .. LinesOf(generic.inputs) + LinesOf(generic.outputs) -> Nat]
  BY <1>3 DEF genericLines
<1>5. \A x, y \in Nat : x * y \in Nat /\ x + y \in Nat
  OBVIOUS
<1>6. genericCycles(generic) \in Nat
  <2>1. /\ LinesOf(generic.inputs) * LineCycles("Read") \in Nat
        /\ LinesOf(generic.outputs) * LineCycles("Write") \in Nat
        /\ Scaled(generic.inputs) * generic.body \in Nat
    BY <1>1, <1>2, <1>3, <1>5
  <2> QED
    BY <1>5, <2>1 DEF genericCycles
<1> QED
  BY <1>1, <1>2, <1>3, <1>4, <1>6

(* The lines of a linalg.generic that p begins now. *)
LineStart(b) == [events |-> events[b], at |-> time, granted |-> granted]

LEMMA GenericTrace ==
  ASSUME TypeOK, time # 0, NEW p \in Procs, NEW b \in Banks, NEW generic \in Generics
  PROVE  \E n \in Nat : \E t :
           /\ n = LinesOf(generic.inputs) + LinesOf(generic.outputs)
           /\ IsTrace(t, p, b, LineStart(b), n, genericLines(generic))
           /\ scheduleLines(p, b, generic) = t[n]
<1>1. PICK n \in Nat : n = LinesOf(generic.inputs) + LinesOf(generic.outputs)
  <2>1. LinesOf(generic.inputs) + LinesOf(generic.outputs) \in Nat
    BY GenericLines
  <2> QED
    BY <2>1
<1>2. PICK lines \in [1 .. n -> Nat] : lines = genericLines(generic)
  BY <1>1, GenericLines
<1>3. PICK start : start = LineStart(b)
  OBVIOUS
<1>4. start \in LineState
  BY <1>3 DEF TypeOK, LineState, LineStart, GrantType
<1>5. PICK t : IsTrace(t, p, b, start, n, lines) /\ scheduleAll(p, b, start, lines) = t[n]
  BY <1>2, <1>4, LinesTrace
<1>6. scheduleLines(p, b, generic) = scheduleAll(p, b, start, lines)
  BY <1>2, <1>3 DEF scheduleLines, scheduleAll, LineStart
<1> QED
  BY <1>1, <1>2, <1>3, <1>5, <1>6

LEMMA TypeNext == TypeOK /\ time # 0 /\ [Next]_vars => TypeOK' /\ time' # 0
<1> SUFFICES ASSUME TypeOK, time # 0, [Next]_vars PROVE TypeOK' /\ time' # 0
  OBVIOUS
<1>0. /\ events \in [Banks -> Schedule] /\ time \in Nat \ {0}
      /\ endTime \in [Procs -> Nat] /\ opsRun \in [Procs -> 0 .. MaxOps]
      /\ granted \subseteq GrantType /\ MaxOps \in Nat
  BY BankScheduleAssumption DEF TypeOK, GrantType
<1>1. ASSUME NEW p \in Procs, NEW end \in Nat, Starts(p, end)
      PROVE  /\ time' = time /\ endTime' \in [Procs -> Nat]
             /\ opsRun' \in [Procs -> 0 .. MaxOps]
  <2>1. opsRun[p] + 1 \in 0 .. MaxOps
    BY <1>0, <1>1 DEF Starts, CanStart
  <2> QED
    BY <1>0, <1>1, <2>1 DEF Starts
<1>2. ASSUME NEW p \in Procs, NEW b \in Banks, NEW dlines \in Lines, NEW op \in {"Read", "Write"},
             Access(p, b, dlines, op)
      PROVE  TypeOK' /\ time' # 0
  <2> DEFINE n == getReadOrWriteCycles(Mem, dlines, op)
             result == scheduleEvent(events[b], time, n, TRUE)
  <2>1. /\ Starts(p, result.end)
        /\ events' = [events EXCEPT ![b] = result.events]
        /\ granted' = granted \cup Grant(p, b, time, n, result.end)
    BY <1>2 DEF Access
  <2>2. n \in Nat
    BY CyclesNatural, BankScheduleAssumption
  <2> HIDE DEF n
  <2>3. result.events \in Schedule /\ result.end \in Nat /\ result.end - n \in Nat
    BY <1>0, <2>2, ScheduleEventType
  <2> HIDE DEF result
  <2>4. Grant(p, b, time, n, result.end) \subseteq GrantType
    BY <1>0, <2>3 DEF Grant, GrantType, Event, EventType
  <2>5. events' \in [Banks -> Schedule] /\ granted' \subseteq GrantType
    BY <1>0, <2>1, <2>3, <2>4
  <2> QED
    BY <1>0, <1>1, <2>1, <2>3, <2>5 DEF TypeOK, GrantType
<1>3. ASSUME NEW p \in Procs, NEW b \in Banks, NEW generic \in Generics, Generic(p, b, generic)
      PROVE  TypeOK' /\ time' # 0
  <2> DEFINE scheduled == scheduleLines(p, b, generic)
             end == time + genericCycles(generic)
  <2>1. /\ Starts(p, end)
        /\ events' = [events EXCEPT ![b] = scheduled.events]
        /\ granted' = scheduled.granted
    BY <1>3 DEF Generic
  <2>2. end \in Nat
    BY <1>0, GenericLines
  <2>3. scheduled \in LineState
    <3>1. \A n \in Nat : n \in 0 .. n
      OBVIOUS
    <3> QED
      BY <3>1, GenericTrace DEF IsTrace
  <2> HIDE DEF scheduled, end
  <2>4. scheduled.events \in Schedule /\ scheduled.granted \subseteq GrantType
    BY <2>3 DEF LineState
  <2>5. events' \in [Banks -> Schedule] /\ granted' \subseteq GrantType
    BY <1>0, <2>1, <2>4
  <2> QED
    BY <1>0, <1>1, <2>1, <2>2, <2>5 DEF TypeOK, GrantType
<1>4. ASSUME NEW p \in Procs, Compute(p)
      PROVE  TypeOK' /\ time' # 0
  <2>1. Starts(p, time + 1) /\ UNCHANGED <<events, granted>> /\ time + 1 \in Nat
    BY <1>0, <1>4 DEF Compute
  <2> QED
    BY <1>0, <1>1, <2>1 DEF TypeOK, GrantType
<1>5. CASE AdvanceTime
  <2> DEFINE running == { p \in Procs : endTime[p] # 0 }
             ends == { endTime[p] : p \in running }
  <2>1. ends \in SUBSET Nat /\ ends # {} /\ 0 \notin ends
    BY <1>0, <1>5 DEF AdvanceTime
  <2>2. /\ time' = Min(ends) /\ UNCHANGED <<events, opsRun, granted>>
        /\ endTime' = [p \in Procs |-> IF endTime[p] <= Min(ends) THEN 0 ELSE endTime[p]]
    BY <1>5 DEF AdvanceTime
  <2> HIDE DEF ends
  <2>3. Min(ends) \in ends
    BY <2>1, MinOfNaturals
  <2>4. time' \in Nat \ {0} /\ endTime' \in [Procs -> Nat]
    BY <1>0, <2>1, <2>2, <2>3
  <2> QED
    BY <1>0, <2>2, <2>4 DEF TypeOK, GrantType
<1>6. CASE UNCHANGED vars
  BY <1>0, <1>6 DEF vars, TypeOK, GrantType
<1>7. CASE Done
  BY <1>6, <1>7 DEF Done
<1> QED
  BY <1>2, <1>3, <1>4, <1>5, <1>6, <1>7 DEF Next

LEMMA TypeInit == Init => TypeOK /\ time # 0
<1> SUFFICES ASSUME Init PROVE TypeOK /\ time # 0
  OBVIOUS
<1>1. NewEventList \in Schedule
  BY ScheduleEvents
<1> QED
  BY <1>1, BankScheduleAssumption DEF Init, TypeOK

(***************************************************************************)
(* Whatever banks the processors share and whatever they access, a bank's  *)
(* schedule stays a list of natural times (Device::scheduleEvent), the     *)
(* list it began as or one of two events at least, and the end times of    *)
(* the operations and what was granted stay times: no start is taken below *)
(* zero, by a processor that asks late or by one that asks for line after  *)
(* line, and none is read past the end of a list.                          *)
(***************************************************************************)
THEOREM SchedulesWellFormed == Spec => []TypeOK
<1>1. TypeOK /\ time # 0 /\ [Next]_vars => (TypeOK /\ time # 0)'
  BY TypeNext
<1>2. Init => TypeOK /\ time # 0
  BY TypeInit
<1> QED
  BY <1>1, <1>2, PTL DEF Spec
-----------------------------------------------------------------------------
OneProcessorPerBank ==
  \A p, q \in Procs : \A b \in Banks : b \in Uses[p] /\ b \in Uses[q] => p = q

(* Until when a processor and its banks are taken. *)
until(p) == IF endTime[p] = 0 THEN time ELSE endTime[p]

Ahead == time # 0 /\ \A p \in Procs : endTime[p] # 0 => time <= endTime[p]

BanksOver == \A p \in Procs : \A b \in Uses[p] : events[b] \in Seq(OverBy(until(p)))

GrantsOver ==
  \A g \in granted : /\ g.bank \in Uses[g.proc]
                     /\ g.event \in OverBy(until(g.proc))

Inv == TypeOK /\ Ahead /\ BanksOver /\ GrantsOver /\ NoEarlyGrant /\ BankExclusive

LEMMA UntilType == ASSUME TypeOK, NEW p \in Procs PROVE until(p) \in Nat
  BY DEF TypeOK, until

LEMMA InvInit == Init => Inv
<1> SUFFICES ASSUME Init PROVE Inv
  OBVIOUS
<1>1. NewEventList \in Seq(OverBy(1)) /\ NewEventList \in Schedule
  BY ScheduleEvents DEF NewEventList, Event, OverBy, EventType
<1>2. \A p \in Procs : until(p) = 1
  BY DEF Init, until
<1>3. TypeOK
  BY <1>1, BankScheduleAssumption DEF Init, TypeOK
<1>4. BanksOver
  BY <1>1, <1>2, BankScheduleAssumption DEF Init, BanksOver
<1> QED
  BY <1>3, <1>4 DEF Inv, Init, Ahead, GrantsOver, NoEarlyGrant, BankExclusive

(* What was granted is still over after a step that takes no time back.     *)
LEMMA Monotone ==
  ASSUME Inv, TypeOK', \A p \in Procs : until(p) <= until(p)'
  PROVE  /\ \A p \in Procs : \A list : list \in Seq(OverBy(until(p)))
                                         => list \in Seq(OverBy(until(p)'))
         /\ \A g \in granted : g.bank \in Uses[g.proc] /\ g.event \in OverBy(until(g.proc)')
<1>1. \A p \in Procs : until(p) \in Nat /\ until(p)' \in Nat
  BY DEF Inv, TypeOK, until
<1>2. ASSUME NEW p \in Procs, NEW list \in Seq(OverBy(until(p)))
      PROVE  list \in Seq(OverBy(until(p)'))
  BY <1>1, <1>2, OverLater
<1>3. ASSUME NEW g \in granted
      PROVE  g.bank \in Uses[g.proc] /\ g.event \in OverBy(until(g.proc)')
  <2>1. g.proc \in Procs
    BY DEF Inv, TypeOK
  <2>2. g.bank \in Uses[g.proc] /\ g.event \in OverBy(until(g.proc))
    BY DEF Inv, GrantsOver
  <2> QED
    BY <1>1, <2>1, <2>2 DEF OverBy, EventType
<1> QED
  BY <1>2, <1>3

LEMMA AdvanceKeeps == Inv /\ AdvanceTime => Inv' /\ time <= time'
<1> SUFFICES ASSUME Inv, AdvanceTime PROVE Inv' /\ time <= time'
  OBVIOUS
<1> DEFINE ends == { endTime[p] : p \in { p \in Procs : endTime[p] # 0 } }
<1>0. TypeOK /\ Ahead
  BY DEF Inv
<1>1. ends \in SUBSET Nat /\ ends # {}
  BY <1>0 DEF AdvanceTime, TypeOK
<1>2. Min(ends) \in ends /\ \A y \in ends : Min(ends) <= y
  BY <1>1, MinOfNaturals
<1>3. /\ time' = Min(ends)
      /\ endTime' = [p \in Procs |-> IF endTime[p] <= Min(ends) THEN 0 ELSE endTime[p]]
      /\ UNCHANGED <<events, opsRun, granted>>
  BY DEF AdvanceTime
<1>4. time' \in Nat /\ time <= time'
  BY <1>0, <1>1, <1>2, <1>3 DEF Ahead, TypeOK
<1> HIDE DEF ends
<1>5. TypeOK'
  BY <1>0, <1>3, <1>4 DEF TypeOK
<1>6. Ahead'
  BY <1>0, <1>3, <1>4 DEF Ahead, TypeOK
<1>7. \A p \in Procs : until(p) <= until(p)'
  BY <1>0, <1>3, <1>4 DEF until, Ahead, TypeOK
<1>8. BanksOver' /\ GrantsOver'
  BY <1>3, <1>5, <1>7, Monotone DEF Inv, BanksOver, GrantsOver
<1>9. NoEarlyGrant' /\ BankExclusive'
  BY <1>3 DEF Inv, NoEarlyGrant, BankExclusive
<1> QED
  BY <1>4, <1>5, <1>6, <1>8, <1>9 DEF Inv

(* A processor that has nothing to do starts an operation. *)
LEMMA StartsKeeps ==
  ASSUME Inv, NEW p \in Procs, NEW end \in Nat, time <= end, Starts(p, end)
  PROVE  /\ opsRun' \in [Procs -> 0 .. MaxOps] /\ endTime' \in [Procs -> Nat] /\ time' = time
         /\ Ahead'
         /\ until(p) = time /\ until(p)' = end
         /\ \A q \in Procs : until(q) <= until(q)'
         /\ \A q \in Procs \ {p} : until(q)' = until(q)
<1>0. /\ TypeOK /\ Ahead /\ time \in Nat /\ MaxOps \in Nat
      /\ endTime \in [Procs -> Nat] /\ opsRun \in [Procs -> 0 .. MaxOps]
  BY BankScheduleAssumption DEF Inv, TypeOK
<1>1. /\ endTime[p] = 0 /\ opsRun[p] < MaxOps
      /\ endTime' = [endTime EXCEPT ![p] = end]
      /\ opsRun' = [opsRun EXCEPT ![p] = @ + 1]
      /\ time' = time
  BY DEF Starts, CanStart
<1>2. opsRun[p] + 1 \in 0 .. MaxOps
  BY <1>0, <1>1
<1>3. opsRun' \in [Procs -> 0 .. MaxOps] /\ endTime' \in [Procs -> Nat]
  BY <1>0, <1>1, <1>2
<1>4. end # 0
  BY <1>0 DEF Ahead
<1>5. Ahead'
  BY <1>0, <1>1 DEF Ahead
<1>6. until(p) = time /\ until(p)' = end
  BY <1>0, <1>1, <1>4 DEF until
<1>7. \A q \in Procs \ {p} : until(q)' = until(q)
  BY <1>0, <1>1 DEF until
<1>8. \A q \in Procs : until(q) <= until(q)'
  BY <1>0, <1>6, <1>7 DEF until
<1> QED
  BY <1>1, <1>3, <1>5, <1>6, <1>7, <1>8

LEMMA ComputeKeeps == \A p \in Procs : Inv /\ Compute(p) => Inv' /\ time <= time'
<1> SUFFICES ASSUME NEW p \in Procs, Inv, Compute(p) PROVE Inv' /\ time <= time'
  OBVIOUS
<1>0. time \in Nat /\ time + 1 \in Nat /\ time <= time + 1
  BY DEF Inv, TypeOK
<1>1. Starts(p, time + 1) /\ UNCHANGED <<events, granted>>
  BY DEF Compute
<1>2. TypeOK'
  BY <1>0, <1>1, StartsKeeps DEF Inv, TypeOK
<1>3. Ahead' /\ (\A q \in Procs : until(q) <= until(q)') /\ time' = time
  BY <1>0, <1>1, StartsKeeps
<1>4. BanksOver' /\ GrantsOver'
  BY <1>1, <1>2, <1>3, Monotone DEF Inv, BanksOver, GrantsOver
<1>5. NoEarlyGrant' /\ BankExclusive'
  BY <1>1 DEF Inv, NoEarlyGrant, BankExclusive
<1> QED
  BY <1>0, <1>2, <1>3, <1>4, <1>5 DEF Inv

(* Processor p and its bank while the lines of an operation are asked for:  *)
(* what p was granted is over when the next line is asked for, and nothing  *)
(* but p's grants has been added to those there were.                       *)
Settled(p, before, s) ==
  /\ s.at \in Nat \ {0} /\ s.events \in Seq(OverBy(s.at)) /\ s.granted \subseteq GrantType
  /\ \A g \in s.granted : g.bank \in Uses[g.proc] /\ g.event.first >= g.at
  /\ \A g \in s.granted : g.proc = p => g.event \in OverBy(s.at)
  /\ \A g \in s.granted : g.proc # p => g \in before
  /\ \A g, h \in s.granted : g # h /\ g.bank = h.bank =>
       g.event.second <= h.event.first \/ h.event.second <= g.event.first

LEMMA LineSettles ==
  ASSUME OneProcessorPerBank, NEW p \in Procs, NEW b \in Banks, b \in Uses[p],
         NEW before, NEW s, Settled(p, before, s), NEW n \in Nat
  PROVE  /\ Settled(p, before, scheduleLine(p, b, s, n))
         /\ scheduleLine(p, b, s, n).at = s.at + n
         /\ scheduleEvent(s.events, s.at, n, TRUE).end = s.at + n
<1> DEFINE result == scheduleEvent(s.events, s.at, n, TRUE)
           new == [proc |-> p, bank |-> b, at |-> s.at, event |-> Event(s.at, s.at + n)]
           added == Grant(p, b, s.at, n, result.end)
           next == scheduleLine(p, b, s, n)
<1>1. /\ s.at \in Nat \ {0} /\ s.events \in Seq(OverBy(s.at)) /\ s.granted \subseteq GrantType
      /\ \A g \in s.granted : g.bank \in Uses[g.proc] /\ g.event.first >= g.at
      /\ \A g \in s.granted : g.proc = p => g.event \in OverBy(s.at)
      /\ \A g \in s.granted : g.proc # p => g \in before
      /\ \A g, h \in s.granted : g # h /\ g.bank = h.bank =>
           g.event.second <= h.event.first \/ h.event.second <= g.event.first
  BY DEF Settled
<1>2. result.end = s.at + n /\ result.events \in Seq(OverBy(s.at + n))
  BY <1>1, GrantedAtOnce
<1>3. /\ next.events = result.events /\ next.at = s.at + n
      /\ next.granted = s.granted \cup added
  BY DEF scheduleLine
<1> HIDE DEF result, next
<1>4. added \subseteq {new}
  <2>1. result.end - n = s.at
    BY <1>1, <1>2
  <2> QED
    BY <1>2, <2>1 DEF Grant
<1>5. /\ new.event \in OverBy(s.at + n) /\ new.event.first = s.at /\ new.at = s.at /\ new.bank = b
      /\ new.proc = p /\ new \in GrantType
  BY <1>1 DEF Event, OverBy, EventType, GrantType
<1> HIDE DEF new, added
<1>6. s.at + n \in Nat \ {0} /\ s.at <= s.at + n
  BY <1>1
<1>7. \A e \in OverBy(s.at) : e \in OverBy(s.at + n)
  BY <1>1, <1>6 DEF OverBy, EventType
<1>8. \A g \in next.granted : g \in s.granted \/ g = new
  BY <1>3, <1>4
<1>9. ASSUME NEW g \in s.granted, g.bank = b
      PROVE  g.event.second <= new.event.first
  <2>1. g.proc \in Procs /\ b \in Uses[g.proc]
    BY <1>1, <1>9 DEF GrantType
  <2>2. g.proc = p
    BY <2>1 DEF OneProcessorPerBank
  <2> QED
    BY <1>1, <1>5, <2>2 DEF OverBy
<1>10. \A g, h \in next.granted : g # h /\ g.bank = h.bank =>
         g.event.second <= h.event.first \/ h.event.second <= g.event.first
  <2> SUFFICES ASSUME NEW g \in next.granted, NEW h \in next.granted, g # h, g.bank = h.bank
               PROVE  g.event.second <= h.event.first \/ h.event.second <= g.event.first
    OBVIOUS
  <2>1. CASE g \in s.granted /\ h \in s.granted
    BY <1>1, <2>1
  <2>2. CASE g \in s.granted /\ h = new
    BY <1>5, <1>9, <2>2
  <2>3. CASE g = new /\ h \in s.granted
    BY <1>5, <1>9, <2>3
  <2> QED
    BY <1>8, <2>1, <2>2, <2>3
<1>11. next.granted \subseteq GrantType
  BY <1>1, <1>5, <1>8
<1>12. /\ \A g \in next.granted : g.bank \in Uses[g.proc] /\ g.event.first >= g.at
       /\ \A g \in next.granted : g.proc = p => g.event \in OverBy(s.at + n)
       /\ \A g \in next.granted : g.proc # p => g \in before
  BY <1>1, <1>5, <1>7, <1>8
<1>13. Settled(p, before, next)
  BY <1>2, <1>3, <1>6, <1>10, <1>11, <1>12 DEF Settled
<1> QED
  BY <1>2, <1>3, <1>13 DEF result, next

(* Before the operation begins ... *)
LEMMA SettledBefore ==
  ASSUME Inv, NEW p \in Procs, NEW b \in Banks, b \in Uses[p], endTime[p] = 0
  PROVE  Settled(p, granted, LineStart(b)) /\ LineStart(b) \in LineState
<1>1. /\ TypeOK /\ time \in Nat \ {0} /\ granted \subseteq GrantType
      /\ events \in [Banks -> Schedule]
  BY DEF Inv, TypeOK, Ahead, GrantType
<1>2. until(p) = time
  BY DEF until
<1>3. events[b] \in Seq(OverBy(time))
  BY <1>2 DEF Inv, BanksOver
<1>4. \A g \in granted : g.bank \in Uses[g.proc] /\ g.event \in OverBy(until(g.proc))
  BY DEF Inv, GrantsOver
<1>5. /\ \A g \in granted : g.event.first >= g.at
      /\ \A g, h \in granted : g # h /\ g.bank = h.bank =>
           g.event.second <= h.event.first \/ h.event.second <= g.event.first
  BY DEF Inv, NoEarlyGrant, BankExclusive
<1>6. LineStart(b).at = time /\ LineStart(b).events = events[b] /\ LineStart(b).granted = granted
  BY DEF LineStart
<1>7. LineStart(b) \in LineState
  BY <1>1 DEF LineStart, LineState
<1>8. \A g \in granted : g.proc = p => g.event \in OverBy(time)
  BY <1>2, <1>4
<1> QED
  BY <1>1, <1>3, <1>4, <1>5, <1>6, <1>7, <1>8 DEF Settled

(* ... and when it runs until its lines are there, or longer. *)
LEMMA SettledKeeps ==
  ASSUME OneProcessorPerBank, Inv, [Next]_vars,
         NEW p \in Procs, NEW b \in Banks, b \in Uses[p],
         NEW s, Settled(p, granted, s), time <= s.at,
         NEW end \in Nat, s.at <= end, Starts(p, end),
         events' = [events EXCEPT ![b] = s.events], granted' = s.granted
  PROVE  Inv' /\ time <= time'
<1>0. /\ TypeOK /\ time \in Nat \ {0} /\ s.at \in Nat
      /\ events \in [Banks -> Schedule]
  BY DEF Inv, TypeOK, Ahead, Settled
<1>1. TypeOK'
  BY <1>0, TypeNext
<1>2. /\ time' = time /\ Ahead' /\ until(p)' = end
      /\ \A q \in Procs : until(q) <= until(q)'
      /\ \A q \in Procs \ {p} : until(q)' = until(q)
  BY <1>0, StartsKeeps
<1>3. /\ \A q \in Procs : \A list : list \in Seq(OverBy(until(q))) => list \in Seq(OverBy(until(q)'))
      /\ \A g \in granted : g.bank \in Uses[g.proc] /\ g.event \in OverBy(until(g.proc)')
  BY <1>1, <1>2, Monotone
<1>4. s.events \in Seq(OverBy(end))
  BY <1>0, OverLater DEF Settled
<1>5. \A e \in OverBy(s.at) : e \in OverBy(end)
  BY <1>0 DEF OverBy, EventType
<1>6. BanksOver'
  <2> SUFFICES ASSUME NEW q \in Procs, NEW c \in Uses[q]
               PROVE  events'[c] \in Seq(OverBy(until(q)'))
    BY DEF BanksOver
  <2>1. c \in Banks
    BY BankScheduleAssumption
  <2>2. CASE c = b
    <3>1. q = p
      BY <2>1, <2>2 DEF OneProcessorPerBank
    <3> QED
      BY <1>0, <1>2, <1>4, <2>2, <3>1
  <2>3. CASE c # b
    BY <1>0, <1>3, <2>1, <2>3 DEF Inv, BanksOver
  <2> QED
    BY <2>2, <2>3
<1>7. ASSUME NEW g \in granted'
      PROVE  g.bank \in Uses[g.proc] /\ g.event \in OverBy(until(g.proc)') /\ g.event.first >= g.at
  <2>1. g \in s.granted /\ g.bank \in Uses[g.proc] /\ g.event.first >= g.at
    BY <1>7 DEF Settled
  <2>2. CASE g.proc = p
    BY <1>2, <1>5, <2>1, <2>2 DEF Settled
  <2>3. CASE g.proc # p
    <3>1. g \in granted
      BY <2>1, <2>3 DEF Settled
    <3> QED
      BY <1>3, <2>1, <3>1
  <2> QED
    BY <2>1, <2>2, <2>3
<1>8. GrantsOver' /\ NoEarlyGrant'
  BY <1>7 DEF GrantsOver, NoEarlyGrant
<1>9. BankExclusive'
  BY DEF BankExclusive, Settled
<1> QED
  BY <1>0, <1>1, <1>2, <1>6, <1>8, <1>9 DEF Inv

LEMMA AccessKeeps ==
  ASSUME OneProcessorPerBank, Inv,
         NEW p \in Procs, NEW b \in Banks, NEW dlines \in Lines, NEW op \in {"Read", "Write"},
         Access(p, b, dlines, op)
  PROVE  Inv' /\ time <= time'
<1> DEFINE n == getReadOrWriteCycles(Mem, dlines, op)
           s == scheduleLine(p, b, LineStart(b), n)
           result == scheduleEvent(events[b], time, n, TRUE)
<1>1. /\ b \in Uses[p]
      /\ Starts(p, result.end)
      /\ events' = [events EXCEPT ![b] = result.events]
      /\ granted' = granted \cup Grant(p, b, time, n, result.end)
  BY DEF Access
<1>2. n \in Nat /\ time \in Nat
  BY CyclesNatural, BankScheduleAssumption DEF Inv, TypeOK
<1>3. [Next]_vars
  BY DEF Next
<1> HIDE DEF n
<1>4. LineStart(b).events = events[b] /\ LineStart(b).at = time /\ LineStart(b).granted = granted
  BY DEF LineStart
<1>5. s.events = result.events /\ s.granted = granted \cup Grant(p, b, time, n, result.end)
  BY <1>4 DEF scheduleLine
<1>6. endTime[p] = 0
  BY <1>1 DEF Starts, CanStart
<1> HIDE DEF s, result
<1>7. Settled(p, granted, LineStart(b))
  BY <1>1, <1>6, SettledBefore
<1>8. /\ Settled(p, granted, s) /\ s.at = LineStart(b).at + n
      /\ scheduleEvent(LineStart(b).events, LineStart(b).at, n, TRUE).end = LineStart(b).at + n
  <2>1. PICK start, before : start = LineStart(b) /\ before = granted
    OBVIOUS
  <2>2. Settled(p, before, start)
    BY <1>7, <2>1
  <2>3. /\ Settled(p, before, scheduleLine(p, b, start, n))
        /\ scheduleLine(p, b, start, n).at = start.at + n
        /\ scheduleEvent(start.events, start.at, n, TRUE).end = start.at + n
    BY <1>1, <1>2, <2>2, LineSettles
  <2> QED
    BY <2>1, <2>3 DEF s
<1>9. s.at = time + n /\ result.end = time + n
  BY <1>4, <1>8 DEF result
<1>10. time + n \in Nat /\ time <= time + n /\ time + n <= time + n
  BY <1>2
<1>11. Starts(p, time + n) /\ time <= s.at /\ s.at <= time + n
  BY <1>1, <1>9, <1>10
<1>12. events' = [events EXCEPT ![b] = s.events] /\ granted' = s.granted
  BY <1>1, <1>5
<1> QED
  BY <1>1, <1>3, <1>8, <1>10, <1>11, <1>12, SettledKeeps
LEMMA OneMore == \A i, c \in Nat : (i + 1) * c = i * c + c /\ 0 * c = 0
  OBVIOUS

(* When each line of a linalg.generic is asked for. *)
LEMMA LineTimes ==
  ASSUME OneProcessorPerBank, NEW p \in Procs, NEW b \in Banks, b \in Uses[p],
         NEW generic \in Generics, NEW before, NEW start, Settled(p, before, start),
         NEW t, NEW n, n = LinesOf(generic.inputs) + LinesOf(generic.outputs),
         IsTrace(t, p, b, start, n, genericLines(generic))
  PROVE  /\ Settled(p, before, t[n])
         /\ t[n].at = start.at + (LinesOf(generic.inputs) * LineCycles("Read")
                                   + LinesOf(generic.outputs) * LineCycles("Write"))
<1>1. PICK reads \in Nat, writes \in Nat, R \in Nat, W \in Nat :
        /\ reads = LinesOf(generic.inputs) /\ writes = LinesOf(generic.outputs)
        /\ R = LineCycles("Read") /\ W = LineCycles("Write")
  BY GenericLines
<1>2. n = reads + writes /\ n \in Nat
  BY <1>1
<1>3. ASSUME NEW i \in 1 .. n
      PROVE  genericLines(generic)[i] = IF i <= reads THEN R ELSE W
  BY <1>1, <1>2, <1>3 DEF genericLines
<1>4. /\ t[0] = start
      /\ \A i \in 1 .. n : t[i] = scheduleLine(p, b, t[i - 1], genericLines(generic)[i])
  BY DEF IsTrace
<1>5. PICK at0 \in Nat : at0 = start.at
  BY DEF Settled
<1> DEFINE cycles(i) == IF i <= reads THEN i * R ELSE reads * R + (i - reads) * W
           Q == { i \in 0 .. n : Settled(p, before, t[i]) /\ t[i].at = at0 + cycles(i) }
<1>6. \A i \in 0 .. n : cycles(i) \in Nat
  <2>1. \A x, y \in Nat : x * y \in Nat /\ x + y \in Nat
    OBVIOUS
  <2> SUFFICES ASSUME NEW i \in 0 .. n PROVE cycles(i) \in Nat
    OBVIOUS
  <2>2. CASE i <= reads
    BY <2>1, <2>2
  <2>3. CASE ~ (i <= reads)
    <3>1. i - reads \in Nat
      BY <2>3
    <3> QED
      BY <2>1, <2>3, <3>1
  <2> QED
    BY <2>2, <2>3
<1>7. \A i \in 1 .. n : cycles(i) = cycles(i - 1) + (IF i <= reads THEN R ELSE W)
  <2> SUFFICES ASSUME NEW i \in 1 .. n
               PROVE  cycles(i) = cycles(i - 1) + (IF i <= reads THEN R ELSE W)
    OBVIOUS
  <2>1. PICK m \in Nat : m = i - 1 /\ i = m + 1
    <3>1. i - 1 \in Nat /\ i = (i - 1) + 1
      OBVIOUS
    <3> QED
      BY <3>1
  <2>2. CASE i <= reads
    <3>1. cycles(i) = (m + 1) * R /\ cycles(i - 1) = m * R
      BY <2>1, <2>2
    <3>2. (m + 1) * R = m * R + R
      BY OneMore
    <3> HIDE DEF cycles
    <3> QED
      BY <2>2, <3>1, <3>2
  <2>3. CASE i = reads + 1
    <3>1. cycles(i) = reads * R + (i - reads) * W /\ cycles(i - 1) = reads * R
      BY <2>1, <2>3
    <3>2. (i - reads) * W = W /\ ~ (i <= reads)
      BY <2>3
    <3> HIDE DEF cycles
    <3> QED
      BY <3>1, <3>2
  <2>4. CASE i > reads + 1
    <3>1. PICK k \in Nat : k = (i - 1) - reads /\ i - reads = k + 1
      <4>1. (i - 1) - reads \in Nat /\ i - reads = ((i - 1) - reads) + 1
        BY <2>4
      <4> QED
        BY <4>1
    <3>2. cycles(i) = reads * R + (k + 1) * W /\ cycles(i - 1) = reads * R + k * W
      BY <2>4, <3>1
    <3>3. (k + 1) * W = k * W + W
      BY OneMore
    <3>4. reads * R \in Nat /\ k * W \in Nat /\ ~ (i <= reads)
      BY <2>4
    <3> HIDE DEF cycles
    <3> QED
      BY <3>2, <3>3, <3>4
  <2> QED
    BY <2>2, <2>3, <2>4
<1>8. cycles(0) = 0
  BY OneMore
<1>9. cycles(n) = reads * R + writes * W
  <2>1. CASE writes = 0
    <3>1. cycles(n) = n * R /\ n = reads /\ writes * W = 0
      BY <1>2, <2>1
    <3>2. reads * R \in Nat
      OBVIOUS
    <3> QED
      BY <2>1, <3>1, <3>2
  <2>2. CASE writes # 0
    <3>1. ~ (n <= reads) /\ n - reads = writes
      BY <1>2, <2>2
    <3> QED
      BY <3>1
  <2> QED
    BY <2>1, <2>2
<1> HIDE DEF cycles
<1>10. 0 \in Q
  BY <1>2, <1>4, <1>5, <1>8
<1>11. ASSUME NEW i \in 1 .. n, i - 1 \in Q
       PROVE  i \in Q
  <2>1. PICK c \in Nat : c = genericLines(generic)[i] /\ c = IF i <= reads THEN R ELSE W
    BY <1>3
  <2>2. PICK prev : prev = t[i - 1]
    OBVIOUS
  <2>3. i - 1 \in 0 .. n /\ Settled(p, before, prev) /\ prev.at = at0 + cycles(i - 1)
    BY <1>11, <2>2
  <2>4. Settled(p, before, scheduleLine(p, b, prev, c)) /\ scheduleLine(p, b, prev, c).at = prev.at + c
    <3> HIDE DEF Q
    <3>1. b \in Uses[p] /\ c \in Nat
      BY <2>1
    <3>2. Settled(p, before, scheduleLine(p, b, prev, c))
      BY <2>3, <3>1, LineSettles
    <3>3. scheduleLine(p, b, prev, c).at = prev.at + c
      BY DEF scheduleLine
    <3> QED
      BY <3>2, <3>3
  <2>5. t[i] = scheduleLine(p, b, prev, c)
    BY <1>4, <2>1, <2>2
  <2>6. t[i].at = at0 + cycles(i)
    <3>1. cycles(i) = cycles(i - 1) + c /\ cycles(i) \in Nat /\ cycles(i - 1) \in Nat
      <4>1. i \in 0 .. n
        BY <1>2
      <4> QED
        BY <1>6, <1>7, <2>1, <2>3, <4>1
    <3> QED
      BY <2>3, <2>4, <2>5, <3>1
  <2> QED
    BY <1>2, <2>4, <2>5, <2>6
<1>12. n \in Q
  <2>1. n \in 0 .. n
    BY <1>2
  <2> HIDE DEF Q
  <2> QED
    BY <1>2, <1>10, <1>11, <2>1, UpTo
<1> QED
  BY <1>1, <1>5, <1>9, <1>12

LEMMA GenericKeeps ==
  ASSUME OneProcessorPerBank, Inv,
         NEW p \in Procs, NEW b \in Banks, NEW generic \in Generics, Generic(p, b, generic)
  PROVE  Inv' /\ time <= time'
<1>1. /\ b \in Uses[p]
      /\ Starts(p, time + genericCycles(generic))
      /\ events' = [events EXCEPT ![b] = scheduleLines(p, b, generic).events]
      /\ granted' = scheduleLines(p, b, generic).granted
  BY DEF Generic
<1>2. [Next]_vars
  BY DEF Next
<1>3. TypeOK /\ time \in Nat \ {0} /\ endTime[p] = 0
  BY <1>1 DEF Inv, TypeOK, Ahead, Starts, CanStart
<1>4. PICK n, t : /\ n = LinesOf(generic.inputs) + LinesOf(generic.outputs)
                  /\ IsTrace(t, p, b, LineStart(b), n, genericLines(generic))
                  /\ scheduleLines(p, b, generic) = t[n]
  BY <1>3, GenericTrace
<1>5. PICK start, before : start = LineStart(b) /\ before = granted
  OBVIOUS
<1>6. Settled(p, before, start)
  BY <1>1, <1>3, <1>5, SettledBefore
<1>7. /\ Settled(p, before, t[n])
      /\ t[n].at = start.at + (LinesOf(generic.inputs) * LineCycles("Read")
                                + LinesOf(generic.outputs) * LineCycles("Write"))
  <2>1. IsTrace(t, p, b, start, n, genericLines(generic))
    BY <1>4, <1>5
  <2> QED
    BY <1>1, <1>4, <1>6, <2>1, LineTimes
<1>8. start.at = time
  BY <1>5 DEF LineStart
<1>9. PICK lines \in Nat, body \in Nat :
        /\ lines = LinesOf(generic.inputs) * LineCycles("Read")
                     + LinesOf(generic.outputs) * LineCycles("Write")
        /\ body = Scaled(generic.inputs) * generic.body
        /\ genericCycles(generic) = lines + body
  <2>1. \A x, y \in Nat : x * y \in Nat /\ x + y \in Nat
    OBVIOUS
  <2>2. /\ LinesOf(generic.inputs) * LineCycles("Read")
             + LinesOf(generic.outputs) * LineCycles("Write") \in Nat
        /\ Scaled(generic.inputs) * generic.body \in Nat
    BY <2>1, GenericLines
  <2> QED
    BY <2>2 DEF genericCycles
<1>10. t[n].at = time + lines
  BY <1>7, <1>8, <1>9
<1>11. PICK end \in Nat : end = time + genericCycles(generic) /\ time <= t[n].at /\ t[n].at <= end
  BY <1>3, <1>9, <1>10
<1>12. /\ Settled(p, granted, t[n]) /\ Starts(p, end)
       /\ events' = [events EXCEPT ![b] = t[n].events] /\ granted' = t[n].granted
  BY <1>1, <1>4, <1>5, <1>7, <1>11
<1> QED
  BY <1>1, <1>2, <1>11, <1>12, SettledKeeps

LEMMA StepKeeps ==
  ASSUME OneProcessorPerBank, Inv, [Next]_vars
  PROVE  Inv' /\ time <= time'
<1>0. time \in Nat
  BY DEF Inv, TypeOK
<1>1. ASSUME NEW p \in Procs, NEW b \in Banks, NEW dlines \in Lines, NEW op \in {"Read", "Write"},
             Access(p, b, dlines, op)
      PROVE  Inv' /\ time <= time'
  BY <1>1, AccessKeeps
<1>2. ASSUME NEW p \in Procs, Compute(p)
      PROVE  Inv' /\ time <= time'
  BY <1>2, ComputeKeeps
<1>6. ASSUME NEW p \in Procs, NEW b \in Banks, NEW generic \in Generics, Generic(p, b, generic)
      PROVE  Inv' /\ time <= time'
  BY <1>6, GenericKeeps
<1>3. CASE AdvanceTime
  BY <1>3, AdvanceKeeps
<1>4. CASE UNCHANGED vars
  BY <1>0, <1>4 DEF vars, Inv, TypeOK, Ahead, BanksOver, GrantsOver, until, NoEarlyGrant, BankExclusive
<1>5. CASE Done
  BY <1>4, <1>5 DEF Done
<1> QED
  BY <1>1, <1>2, <1>3, <1>4, <1>5, <1>6 DEF Next

LEMMA InvAlways == ASSUME OneProcessorPerBank PROVE Spec => []Inv
<1>1. Init => Inv
  BY InvInit
<1>2. Inv /\ [Next]_vars => Inv'
  BY StepKeeps
<1> QED
  BY <1>1, <1>2, PTL DEF Spec

(***************************************************************************)
(* A bank that only one processor accesses serves one access at a time     *)
(* (Device::scheduleEvent), however long the accesses are.  With two       *)
(* processors it does not: the assumption is the one the programs of the   *)
(* repository keep, and the code does not check.                           *)
(***************************************************************************)
THEOREM OwnBanksExclusive ==
  ASSUME OneProcessorPerBank PROVE Spec => []BankExclusive
<1>1. Inv => BankExclusive
  BY DEF Inv
<1> QED
  BY <1>1, InvAlways, PTL

(* ... it grants no access a time before the processor asked for it ...     *)
THEOREM OwnBanksNotEarly ==
  ASSUME OneProcessorPerBank PROVE Spec => []NoEarlyGrant
<1>1. Inv => NoEarlyGrant
  BY DEF Inv
<1> QED
  BY <1>1, InvAlways, PTL

(* ... a processor has its operation until the bank is done with it ...     *)
THEOREM OwnBanksCovered ==
  ASSUME OneProcessorPerBank PROVE Spec => []OperationsCoverGrants
<1>1. Inv => OperationsCoverGrants
  BY DEF Inv, TypeOK, GrantsOver, OperationsCoverGrants, OverBy, until
<1> QED
  BY <1>1, InvAlways, PTL

(* ... and the simulation loop, which jumps to the nearest end time         *)
(* (Runner::simulateFunction), never goes back in time.                     *)
THEOREM OwnBanksTimeForward ==
  ASSUME OneProcessorPerBank PROVE Spec => TimeNeverBack
<1>1. Inv /\ [Next]_vars => time' >= time
  <2> SUFFICES ASSUME Inv, [Next]_vars PROVE time' >= time
    OBVIOUS
  <2>1. Inv' /\ time <= time'
    BY StepKeeps
  <2>2. time \in Nat /\ time' \in Nat
    BY <2>1 DEF Inv, TypeOK
  <2> QED
    BY <2>1, <2>2
<1>2. Inv /\ [Next]_vars => [time' >= time]_vars
  BY <1>1
<1> QED
  BY <1>2, InvAlways, PTL DEF Spec, TimeNeverBack
=============================================================================
