------------------------ MODULE ConnectionPipeProofs ------------------------
(***************************************************************************)
(* What scheduleTransmission of a connection keeps when it is used as a    *)
(* pipe: its schedule stays well formed, no bits are lost or delivered     *)
(* twice, and no more are delivered than the bandwidth allows.             *)
(*                                                                         *)
(* The sums over the schedule are the community modules' MapThenSumSet,    *)
(* whose recursive function must first be shown to exist and not to depend *)
(* on the order of the elements.  Both follow from a smallest              *)
(* counterexample.                                                         *)
(***************************************************************************)
EXTENDS ConnectionPipe, FiniteSetTheorems, WellFoundedInduction, TLAPS

-----------------------------------------------------------------------------
(* Among subsets of a finite set one has none of the others inside it.      *)
LEMMA MinimalSubset ==
  ASSUME NEW S, IsFiniteSet(S), NEW Q, Q \subseteq SUBSET S, Q # {}
  PROVE  \E T \in Q : \A U \in Q : U \subseteq T => U = T
<1>1. IsWellFoundedOn(StrictSubsetOrdering(S), FiniteSubsetsOf(S))
  BY FS_StrictSubsetOrderingWellFounded
<1>2. Q \subseteq FiniteSubsetsOf(S)
  BY FS_FiniteSubsetsOfFinite
<1>3. PICK T \in Q : \A U \in Q : <<U, T>> \notin StrictSubsetOrdering(S)
  BY <1>1, <1>2, WFMin
<1> QED
  BY <1>3 DEF StrictSubsetOrdering

(* The sum of f over T, and what a function s that gives it must satisfy.   *)
total(f, T) == MapThenSumSet(LAMBDA k : f[k], T)

Sums(f, D, s) ==
  /\ s \in [SUBSET D -> Nat]
  /\ s[{}] = 0
  /\ \A T \in SUBSET D : \A x \in T : s[T] = f[x] + s[T \ {x}]

(* Such a function exists: extend that of a smaller set by one element.     *)
LEMMA SumsExist ==
  ASSUME NEW D, IsFiniteSet(D), NEW f, \A k \in D : f[k] \in Nat
  PROVE  \E s : Sums(f, D, s)
<1> DEFINE Q == { T \in SUBSET D : ~ \E s : Sums(f, T, s) }
<1>1. SUFFICES ASSUME Q # {} PROVE FALSE
  OBVIOUS
<1>2. PICK T \in Q : \A U \in Q : U \subseteq T => U = T
  <2>1. Q \subseteq SUBSET D
    OBVIOUS
  <2> HIDE DEF Q
  <2> QED
    BY <1>1, <2>1, MinimalSubset
<1>3. T # {}
  <2>1. Sums(f, {}, [U \in SUBSET {} |-> 0])
    BY DEF Sums
  <2> QED
    BY <2>1
<1>4. PICK x \in T : TRUE
  BY <1>3
<1>5. T \ {x} \notin Q
  BY <1>2, <1>4
<1>6. PICK s : Sums(f, T \ {x}, s)
  BY <1>5
<1> DEFINE more == [U \in SUBSET T |-> IF x \in U THEN f[x] + s[U \ {x}] ELSE s[U]]
<1>7. \A U \in SUBSET T : U \ {x} \in SUBSET (T \ {x}) /\ (x \notin U => U \in SUBSET (T \ {x}))
  OBVIOUS
<1>8. /\ s \in [SUBSET (T \ {x}) -> Nat] /\ s[{}] = 0
      /\ \A U \in SUBSET (T \ {x}) : \A y \in U : s[U] = f[y] + s[U \ {y}]
  BY <1>6 DEF Sums
<1>9. more \in [SUBSET T -> Nat] /\ more[{}] = 0
  BY <1>7, <1>8, <1>4
<1>10. ASSUME NEW U \in SUBSET T, NEW y \in U
       PROVE  more[U] = f[y] + more[U \ {y}]
  <2>1. CASE x \notin U
    BY <1>7, <1>8, <2>1
  <2>2. CASE x = y
    BY <1>7, <1>8, <2>2
  <2>3. CASE x \in U /\ x # y
    <3>1. /\ more[U] = f[x] + s[U \ {x}] /\ more[U \ {y}] = f[x] + s[(U \ {y}) \ {x}]
          /\ s[U \ {x}] = f[y] + s[(U \ {x}) \ {y}]
      BY <1>7, <1>8, <2>3
    <3>2. (U \ {y}) \ {x} = (U \ {x}) \ {y} /\ (U \ {x}) \ {y} \in SUBSET (T \ {x})
      OBVIOUS
    <3>3. f[x] \in Nat /\ f[y] \in Nat /\ s[(U \ {x}) \ {y}] \in Nat
      BY <1>2, <1>4, <1>8, <3>2
    <3>4. s[(U \ {y}) \ {x}] = s[(U \ {x}) \ {y}]
      BY <3>2
    <3> HIDE DEF more
    <3> QED
      BY <3>1, <3>3, <3>4
  <2> QED
    BY <2>1, <2>2, <2>3
<1>11. Sums(f, T, more)
  <2> HIDE DEF more
  <2> QED
    BY <1>9, <1>10 DEF Sums
<1> QED
  BY <1>2, <1>11

(* The fold computes it, whatever elements CHOOSE picks on the way.         *)
LEMMA TotalIsIt ==
  ASSUME NEW f, NEW D, NEW T \in SUBSET D, IsFiniteSet(D), NEW s, Sums(f, D, s)
  PROVE  total(f, T) = s[T]
<1> DEFINE step(g) == [U \in SUBSET T |-> IF U = {} THEN 0
                          ELSE f[CHOOSE x \in U : TRUE] + g[U \ {CHOOSE x \in U : TRUE}]]
           h == [U \in SUBSET T |-> s[U]]
           iter == CHOOSE g : g = step(g)
<1>1. h = step(h)
  <2>1. ASSUME NEW U \in SUBSET T, U # {}
        PROVE  s[U] = f[CHOOSE x \in U : TRUE] + s[U \ {CHOOSE x \in U : TRUE}]
    BY <2>1 DEF Sums
  <2> QED
    BY <2>1 DEF Sums
<1>2. iter = step(iter)
  <2> HIDE DEF step
  <2> QED
    BY <1>1
<1>3. \A U \in SUBSET T : iter[U] = s[U]
  <2> DEFINE Q == { U \in SUBSET T : iter[U] # s[U] }
  <2>1. SUFFICES ASSUME Q # {} PROVE FALSE
    OBVIOUS
  <2>2. IsFiniteSet(T)
    BY FS_Subset
  <2>3. PICK U \in Q : \A V \in Q : V \subseteq U => V = U
    <3>1. Q \subseteq SUBSET T
      OBVIOUS
    <3> HIDE DEF Q
    <3> QED
      BY <2>1, <2>2, <3>1, MinimalSubset
  <2> DEFINE x == CHOOSE x \in U : TRUE
  <2>4. iter[U] = IF U = {} THEN 0 ELSE f[x] + iter[U \ {x}]
    BY <1>2
  <2>5. s[U] = IF U = {} THEN 0 ELSE f[x] + s[U \ {x}]
    BY DEF Sums
  <2>6. U # {} => x \in U
    OBVIOUS
  <2>7. U # {} => U \ {x} \notin Q /\ U \ {x} \in SUBSET T
    BY <2>3, <2>6
  <2> HIDE DEF x, iter
  <2> QED
    BY <2>4, <2>5, <2>7
<1>4. total(f, T) = iter[T]
  BY DEF total, MapThenSumSet, MapThenFoldSet
<1> QED
  BY <1>3, <1>4

(* The laws of sums that the rest of the module uses.                       *)
Weighs(f, T) == IsFiniteSet(T) /\ \A k \in T : f[k] \in Nat

LEMMA TotalEmpty ==
  ASSUME NEW f
  PROVE  total(f, {}) = 0
<1>1. PICK s : Sums(f, {}, s)
  BY SumsExist, FS_EmptySet
<1>2. {} \in SUBSET {} /\ IsFiniteSet({})
  BY FS_EmptySet
<1>3. total(f, {}) = s[{}]
  BY <1>1, <1>2, TotalIsIt
<1> QED
  BY <1>1, <1>3 DEF Sums

LEMMA TotalWith ==
  ASSUME NEW f, NEW T, Weighs(f, T)
  PROVE  /\ total(f, T) \in Nat
         /\ \A x \in T : total(f, T) = f[x] + total(f, T \ {x})
<1>1. PICK s : Sums(f, T, s)
  BY SumsExist DEF Weighs
<1>2. \A U \in SUBSET T : total(f, U) = s[U]
  BY <1>1, TotalIsIt DEF Weighs
<1>3. \A x \in T : T \ {x} \in SUBSET T
  OBVIOUS
<1>4. T \in SUBSET T
  OBVIOUS
<1> QED
  BY <1>1, <1>2, <1>3, <1>4 DEF Sums

LEMMA TotalSame ==
  ASSUME NEW f, NEW g, NEW T, Weighs(f, T), \A k \in T : f[k] = g[k]
  PROVE  total(f, T) = total(g, T)
<1>1. PICK s : Sums(f, T, s)
  BY SumsExist DEF Weighs
<1>2. Sums(g, T, s)
  BY <1>1 DEF Sums
<1>3. T \in SUBSET T /\ IsFiniteSet(T)
  BY DEF Weighs
<1> QED
  BY <1>1, <1>2, <1>3, TotalIsIt

LEMMA TotalSplit ==
  ASSUME NEW f, NEW T, Weighs(f, T), NEW V \in SUBSET T
  PROVE  total(f, T) = total(f, V) + total(f, T \ V)
<1>1. PICK s : Sums(f, T, s)
  BY SumsExist DEF Weighs
<1>2. \A U \in SUBSET T : total(f, U) = s[U]
  BY <1>1, TotalIsIt DEF Weighs
<1> DEFINE Q == { U \in SUBSET V : s[U \cup (T \ V)] # s[U] + s[T \ V] }
<1>3. Q = {}
  <2>1. SUFFICES ASSUME Q # {} PROVE FALSE
    OBVIOUS
  <2>2. PICK U \in Q : \A W \in Q : W \subseteq U => W = U
    <3>1. Q \subseteq SUBSET V /\ IsFiniteSet(V)
      BY FS_Subset DEF Weighs
    <3> HIDE DEF Q
    <3> QED
      BY <2>1, <3>1, MinimalSubset
  <2>3. U \in SUBSET V /\ s[U \cup (T \ V)] # s[U] + s[T \ V]
    OBVIOUS
  <2>4. T \ V \in SUBSET T /\ U \cup (T \ V) \in SUBSET T /\ U \in SUBSET T
    BY <2>3
  <2>5. U # {}
    <3>1. U = {} => s[U \cup (T \ V)] = s[T \ V]
      OBVIOUS
    <3>2. s[T \ V] \in Nat /\ s[{}] = 0
      BY <1>1, <2>4 DEF Sums
    <3> HIDE DEF Q
    <3> QED
      BY <2>3, <3>1, <3>2
  <2>6. PICK x \in U : TRUE
    BY <2>5
  <2>7. U \ {x} \in SUBSET V /\ U \ {x} \notin Q
    BY <2>2, <2>3, <2>6
  <2>8. s[(U \ {x}) \cup (T \ V)] = s[U \ {x}] + s[T \ V]
    BY <2>7
  <2> HIDE DEF Q
  <2>9. (U \cup (T \ V)) \ {x} = (U \ {x}) \cup (T \ V) /\ x \in U \cup (T \ V) /\ x \in T
    BY <2>3, <2>6
  <2>10. s[U \cup (T \ V)] = f[x] + s[(U \cup (T \ V)) \ {x}] /\ s[U] = f[x] + s[U \ {x}]
    BY <1>1, <2>4, <2>9 DEF Sums
  <2>11. f[x] \in Nat /\ s[U \ {x}] \in Nat /\ s[T \ V] \in Nat
    BY <1>1, <2>4, <2>9 DEF Sums, Weighs
  <2>12. s[(U \cup (T \ V)) \ {x}] = s[U \ {x}] + s[T \ V]
    BY <2>8, <2>9
  <2> QED
    BY <2>3, <2>10, <2>11, <2>12
<1>4. s[V \cup (T \ V)] = s[V] + s[T \ V]
  BY <1>3
<1>5. V \cup (T \ V) = T /\ T \ V \in SUBSET T /\ T \in SUBSET T
  OBVIOUS
<1> QED
  BY <1>2, <1>4, <1>5

-----------------------------------------------------------------------------
(* A finite set has a maximal element in any strict order.                  *)
LEMMA MaximalElement ==
  ASSUME NEW S, IsFiniteSet(S), S # {}, NEW R,
         \A x, y, z \in S : <<x, y>> \in R /\ <<y, z>> \in R => <<x, z>> \in R,
         \A x \in S : <<x, x>> \notin R
  PROVE  \E x \in S : \A y \in S : <<x, y>> \notin R
<1> DEFINE above == [x \in S |-> { y \in S : <<x, y>> \in R }]
           Q == { U \in SUBSET S : \E x \in S : U = above[x] }
<1>1. \A x \in S : above[x] \subseteq S /\ \A y \in S : y \in above[x] <=> <<x, y>> \in R
  OBVIOUS
<1>2. Q \subseteq SUBSET S /\ \A A \in Q : \E x \in S : A = above[x]
  OBVIOUS
<1>3. \A x \in S : above[x] \in Q
  OBVIOUS
<1>4. Q # {}
  BY <1>3
<1> HIDE DEF above, Q
<1>5. PICK A \in Q : \A B \in Q : B \subseteq A => B = A
  BY <1>2, <1>4, MinimalSubset
<1>6. PICK x \in S : A = above[x]
  BY <1>2
<1>7. ASSUME NEW y \in S, <<x, y>> \in R
      PROVE  FALSE
  <2>1. above[y] \subseteq above[x]
    BY <1>1, <1>7
  <2>2. above[y] = above[x]
    BY <1>3, <1>5, <1>6, <2>1
  <2> QED
    BY <1>1, <1>7, <2>2
<1> QED
  BY <1>7

LEMMA ExtremesOfFinite ==
  ASSUME NEW S \in SUBSET Nat, IsFiniteSet(S), S # {}
  PROVE  /\ Max(S) \in S /\ \A y \in S : y <= Max(S)
         /\ Min(S) \in S /\ \A y \in S : Min(S) <= y
<1> DEFINE less == { p \in Nat \X Nat : p[1] < p[2] }
           more == { p \in Nat \X Nat : p[2] < p[1] }
<1>1. \A x, y \in S : (<<x, y>> \in less <=> x < y) /\ (<<x, y>> \in more <=> y < x)
  OBVIOUS
<1>2. \A x \in S : x \in Nat
  OBVIOUS
<1> HIDE DEF less, more
<1>3. /\ \A x, y, z \in S : <<x, y>> \in less /\ <<y, z>> \in less => <<x, z>> \in less
      /\ \A x, y, z \in S : <<x, y>> \in more /\ <<y, z>> \in more => <<x, z>> \in more
      /\ \A x \in S : <<x, x>> \notin less /\ <<x, x>> \notin more
  BY <1>1, <1>2
<1>4. \E x \in S : \A y \in S : <<x, y>> \notin less
  BY <1>3, MaximalElement
<1>5. \E x \in S : \A y \in S : <<x, y>> \notin more
  BY <1>3, MaximalElement
<1>6. Max(S) \in S /\ \A y \in S : y <= Max(S)
  <2>1. \E x \in S : \A y \in S : x >= y
    <3>1. PICK x \in S : \A y \in S : <<x, y>> \notin less
      BY <1>4
    <3>2. ASSUME NEW y \in S PROVE x >= y
      <4>1. x \in Nat /\ y \in Nat /\ ~ (x < y)
        BY <1>1, <1>2, <3>1
      <4> QED
        BY <4>1
    <3> QED
      BY <3>2
  <2>2. Max(S) \in S /\ \A y \in S : Max(S) >= y
    BY <2>1 DEF Max
  <2> QED
    BY <1>2, <2>2
<1>7. Min(S) \in S /\ \A y \in S : Min(S) <= y
  <2>1. \E x \in S : \A y \in S : x <= y
    <3>1. PICK x \in S : \A y \in S : <<x, y>> \notin more
      BY <1>5
    <3>2. ASSUME NEW y \in S PROVE x <= y
      <4>1. x \in Nat /\ y \in Nat /\ ~ (y < x)
        BY <1>1, <1>2, <3>1
      <4> QED
        BY <4>1
    <3> QED
      BY <3>2
  <2> QED
    BY <2>1 DEF Min
<1> QED
  BY <1>6, <1>7

(* std::map::insert adds an entry and leaves those that exist alone.        *)
LEMMA InsertFacts ==
  ASSUME NEW schedule, ScheduleType(schedule), NEW c \in Nat, NEW bits \in Nat
  PROVE  /\ ScheduleType(insert(schedule, c, bits))
         /\ DOMAIN insert(schedule, c, bits) = DOMAIN schedule \cup {c}
         /\ \A k \in DOMAIN schedule : insert(schedule, c, bits)[k] = schedule[k]
         /\ c \notin DOMAIN schedule => insert(schedule, c, bits)[c] = bits
<1>1. IsFiniteSet(DOMAIN schedule \cup {c})
  BY FS_AddElement DEF ScheduleType
<1>2. CASE c \in DOMAIN schedule
  <2>1. insert(schedule, c, bits) = schedule /\ DOMAIN schedule \cup {c} = DOMAIN schedule
    BY <1>2 DEF insert
  <2> QED
    BY <1>2, <2>1
<1>3. CASE c \notin DOMAIN schedule
  <2>1. insert(schedule, c, bits)
        = [k \in DOMAIN schedule \cup {c} |-> IF k = c THEN bits ELSE schedule[k]]
    BY <1>3 DEF insert
  <2> QED
    BY <1>1, <1>3, <2>1 DEF ScheduleType
<1> QED
  BY <1>2, <1>3

extends(new, schedule, c, bits) ==
  /\ DOMAIN new = DOMAIN schedule \cup {c} /\ new[c] = bits
  /\ \A k \in DOMAIN schedule : new[k] = schedule[k]

LEMMA InsertNew ==
  ASSUME NEW schedule, ScheduleType(schedule), NEW c \in Nat, NEW bits \in Nat,
         c \notin DOMAIN schedule
  PROVE  /\ ScheduleType(insert(schedule, c, bits))
         /\ extends(insert(schedule, c, bits), schedule, c, bits)
  BY InsertFacts DEF extends

LEMMA PendingType ==
  ASSUME NEW schedule, ScheduleType(schedule)
  PROVE  pendingBits(schedule) \in Nat
<1>1. Weighs(schedule, DOMAIN schedule)
  BY DEF Weighs, ScheduleType
<1>2. total(schedule, DOMAIN schedule) \in Nat
  BY <1>1, TotalWith
<1> QED
  BY <1>2 DEF pendingBits, total

(* The bits that are in a schedule after an insertion at a cycle of its own. *)
LEMMA InsertTotal ==
  ASSUME NEW schedule, ScheduleType(schedule), NEW c \in Nat, NEW bits \in Nat,
         c \notin DOMAIN schedule
  PROVE  /\ pendingBits(insert(schedule, c, bits)) = pendingBits(schedule) + bits
         /\ \A T \in SUBSET DOMAIN schedule :
              total(insert(schedule, c, bits), T) = total(schedule, T)
<1> DEFINE new == insert(schedule, c, bits)
<1>1. /\ ScheduleType(new) /\ DOMAIN new = DOMAIN schedule \cup {c} /\ new[c] = bits
      /\ \A k \in DOMAIN schedule : new[k] = schedule[k]
  BY InsertFacts
<1> HIDE DEF new
<1>2. Weighs(new, DOMAIN new) /\ Weighs(schedule, DOMAIN schedule)
  BY <1>1 DEF ScheduleType, Weighs
<1>3. ASSUME NEW T \in SUBSET DOMAIN schedule
      PROVE  total(new, T) = total(schedule, T)
  <2>1. Weighs(new, T) /\ \A k \in T : new[k] = schedule[k]
    BY <1>1, <1>2, FS_Subset DEF Weighs
  <2> QED
    BY <2>1, TotalSame
<1>4. total(new, DOMAIN new) = new[c] + total(new, DOMAIN new \ {c})
  BY <1>1, <1>2, TotalWith
<1>5. DOMAIN new \ {c} = DOMAIN schedule /\ DOMAIN schedule \in SUBSET DOMAIN schedule
  BY <1>1
<1>6. total(new, DOMAIN new) = bits + total(schedule, DOMAIN schedule)
  BY <1>1, <1>3, <1>4, <1>5
<1>7. total(schedule, DOMAIN schedule) \in Nat
  BY <1>2, TotalWith
<1>8. pendingBits(new) = pendingBits(schedule) + bits
  BY <1>6, <1>7 DEF pendingBits, total
<1> QED
  BY <1>3, <1>8 DEF new

(* The cycle of a write: not before now, and its own length behind the last.*)
LEMMA WriteCycle ==
  ASSUME NEW schedule, ScheduleType(schedule), NEW now \in Nat, NEW bits \in Nat,
         Bandwidth \in Nat \ {0}
  PROVE  /\ writeCycle(schedule, now, bits, Bandwidth) \in Nat
         /\ now <= writeCycle(schedule, now, bits, Bandwidth)
         /\ \A k \in DOMAIN schedule :
              k + bits \div Bandwidth <= writeCycle(schedule, now, bits, Bandwidth)
         /\ DOMAIN schedule = {} => writeCycle(schedule, now, bits, Bandwidth) = now
<1>1. bits \div Bandwidth \in Nat
  OBVIOUS
<1>2. CASE DOMAIN schedule = {}
  BY <1>2 DEF writeCycle
<1>3. CASE DOMAIN schedule # {}
  <2>1. PICK m \in DOMAIN schedule : m = Max(DOMAIN schedule) /\ \A k \in DOMAIN schedule : k <= m
    BY <1>3, ExtremesOfFinite DEF ScheduleType
  <2>2. PICK S : S = {now, m + bits \div Bandwidth}
    OBVIOUS
  <2>3. S \in SUBSET Nat /\ IsFiniteSet(S) /\ S # {}
    <3>1. m \in Nat
      BY <2>1 DEF ScheduleType
    <3>2. S = {now} \cup {m + bits \div Bandwidth}
      BY <2>2
    <3>3. IsFiniteSet({now})
      BY FS_Singleton
    <3>4. IsFiniteSet(S)
      BY <3>2, <3>3, FS_AddElement
    <3> QED
      BY <1>1, <2>2, <3>1, <3>4
  <2>4. Max(S) \in S /\ \A y \in S : y <= Max(S)
    BY <2>3, ExtremesOfFinite
  <2>5. writeCycle(schedule, now, bits, Bandwidth) = Max(S)
    BY <1>3, <2>1, <2>2 DEF writeCycle, transferCycles
  <2>6. Max(S) \in Nat /\ now <= Max(S) /\ m + bits \div Bandwidth <= Max(S)
    BY <2>2, <2>3, <2>4
  <2> QED
    BY <1>1, <1>3, <2>1, <2>5, <2>6 DEF ScheduleType
<1> QED
  BY <1>2, <1>3

-----------------------------------------------------------------------------
(* Division and products by the bandwidth.                                  *)
LEMMA Division ==
  ASSUME NEW a \in Nat, NEW b \in Nat \ {0}
  PROVE  /\ a \div b \in Nat /\ a % b \in Nat /\ a % b < b
         /\ a = b * (a \div b) + (a % b)
  OBVIOUS

LEMMA Times ==
  ASSUME NEW b \in Nat, NEW x \in Int, NEW y \in Int
  PROVE  /\ x <= y => b * x <= b * y
         /\ b * (x + y) = b * x + b * y
         /\ b * (x - y) = b * x - b * y
         /\ b * x \in Int
  OBVIOUS

Multiple(x) == \E q \in Nat : x = Bandwidth * q

LEMMA MultipleFacts ==
  /\ Multiple(0)
  /\ \A x, y \in Nat : Multiple(x) /\ Multiple(y) => Multiple(x + y)
  /\ \A x, y \in Nat : Multiple(x) /\ Multiple(y) /\ y <= x => Multiple(x - y)
  /\ \A x \in Nat : x % Bandwidth = 0 => Multiple(x) /\ x = Bandwidth * (x \div Bandwidth)
  /\ \A x \in Nat : Multiple(x) => x = Bandwidth * (x \div Bandwidth)
<1>1. Bandwidth \in Nat \ {0}
  BY ConnectionPipeAssumption
<1>2. Multiple(0)
  BY <1>1 DEF Multiple
<1>3. ASSUME NEW x \in Nat, NEW y \in Nat, Multiple(x), Multiple(y)
      PROVE  Multiple(x + y) /\ (y <= x => Multiple(x - y))
  <2>1. PICK p \in Nat : x = Bandwidth * p
    BY <1>3 DEF Multiple
  <2>2. PICK q \in Nat : y = Bandwidth * q
    BY <1>3 DEF Multiple
  <2>3. x + y = Bandwidth * (p + q) /\ x - y = Bandwidth * (p - q)
    BY <1>1, <2>1, <2>2, Times
  <2>4. y <= x => q <= p
    <3>1. q > p => /\ Bandwidth * (p + 1) <= Bandwidth * q
                   /\ Bandwidth * (p + 1) = Bandwidth * p + Bandwidth
      BY <1>1, Times
    <3> QED
      BY <1>1, <2>1, <2>2, <3>1
  <2>5. p + q \in Nat /\ (q <= p => p - q \in Nat)
    OBVIOUS
  <2> QED
    BY <2>3, <2>4, <2>5 DEF Multiple
<1>4. ASSUME NEW x \in Nat, x % Bandwidth = 0
      PROVE  Multiple(x) /\ x = Bandwidth * (x \div Bandwidth)
  <2>1. x \div Bandwidth \in Nat /\ x = Bandwidth * (x \div Bandwidth)
    BY <1>1, <1>4, Division
  <2> QED
    BY <2>1 DEF Multiple
<1>5. ASSUME NEW x \in Nat, Multiple(x)
      PROVE  x = Bandwidth * (x \div Bandwidth)
  <2>1. PICK q \in Nat : x = Bandwidth * q
    BY <1>5 DEF Multiple
  <2>2. PICK d \in Nat, r \in Nat : d = x \div Bandwidth /\ r = x % Bandwidth
                                   /\ r < Bandwidth /\ x = Bandwidth * d + r
    BY <1>1, Division
  <2>3. Bandwidth * (q - d) = r
    BY <1>1, <2>1, <2>2, Times
  <2>4. q - d <= 0 => r <= 0
    BY <1>1, <2>3, Times
  <2>5. q - d >= 1 => r >= Bandwidth
    <3>1. q - d >= 1 => Bandwidth * 1 <= Bandwidth * (q - d)
      BY <1>1, Times
    <3> QED
      BY <1>1, <2>3, <3>1
  <2>6. r = 0
    BY <1>1, <2>2, <2>4, <2>5
  <2> QED
    BY <1>1, <2>2, <2>6
<1> QED
  BY <1>2, <1>3, <1>4, <1>5

(* A sum of whole numbers of cycles is one.                                 *)
LEMMA TotalMultiple ==
  ASSUME NEW f, NEW T, Weighs(f, T), \A k \in T : Multiple(f[k])
  PROVE  Multiple(total(f, T))
<1>1. PICK s : Sums(f, T, s)
  BY SumsExist DEF Weighs
<1>2. \A U \in SUBSET T : total(f, U) = s[U]
  BY <1>1, TotalIsIt DEF Weighs
<1> DEFINE Q == { U \in SUBSET T : ~ Multiple(s[U]) }
<1>3. \A U \in SUBSET T : U \in Q <=> ~ Multiple(s[U])
  OBVIOUS
<1>4. Q \subseteq SUBSET T
  OBVIOUS
<1> HIDE DEF Q
<1>5. Q = {}
  <2>1. SUFFICES ASSUME Q # {} PROVE FALSE
    OBVIOUS
  <2>2. PICK U \in Q : \A W \in Q : W \subseteq U => W = U
    BY <1>4, <2>1, MinimalSubset DEF Weighs
  <2>3. U \in SUBSET T
    BY <1>4
  <2>4. U # {}
    <3>1. U = {} => Multiple(s[U])
      BY <1>1, MultipleFacts DEF Sums
    <3> QED
      BY <1>3, <2>3, <3>1
  <2>5. PICK x \in U : TRUE
    BY <2>4
  <2>6. U \ {x} \in SUBSET T /\ U \ {x} # U /\ U \ {x} \subseteq U /\ x \in T
    BY <2>3, <2>5
  <2>7. Multiple(s[U \ {x}])
    BY <1>3, <2>2, <2>6
  <2>8. s[U] = f[x] + s[U \ {x}] /\ f[x] \in Nat /\ s[U \ {x}] \in Nat
    BY <1>1, <2>3, <2>5, <2>6 DEF Sums, Weighs
  <2>9. Multiple(f[x])
    BY <2>6
  <2>10. Multiple(f[x] + s[U \ {x}])
    BY <2>7, <2>8, <2>9, MultipleFacts
  <2> QED
    BY <1>3, <2>3, <2>8, <2>10
<1>6. T \in SUBSET T
  OBVIOUS
<1>7. Multiple(s[T])
  BY <1>3, <1>5, <1>6
<1> QED
  BY <1>2, <1>6, <1>7

-----------------------------------------------------------------------------
(***************************************************************************)
(* Each entry of the schedule has been transferred when the next one       *)
(* begins: neither a write, nor what a read leaves of an entry, is put at  *)
(* the cycle of another entry, where std::map::insert would drop it.       *)
(***************************************************************************)
Spaced(schedule) ==
  \A j, k \in DOMAIN schedule : j < k => schedule[j] <= Bandwidth * (k - j)

Fits(schedule) ==
  \A k \in DOMAIN schedule : \A w \in WriteSizes : schedule[k] <= w

(* All writes are of one size, a whole number of cycles long.               *)
Steady == \A v, w \in WriteSizes : v = w /\ v % Bandwidth = 0

PipeInv ==
  /\ TypeOK
  /\ BitsConserved
  /\ Spaced(write_schedule)
  /\ Fits(write_schedule)

(***************************************************************************)
(* Before the cycle of an entry, the bits delivered and those to deliver   *)
(* before it fit into the cycles that pass until then.                     *)
(***************************************************************************)
earlier(schedule, k) == { j \in DOMAIN schedule : j < k }

Paced(schedule, delivered) ==
  \A k \in DOMAIN schedule :
    1 <= k /\ delivered + total(schedule, earlier(schedule, k)) <= Bandwidth * (k - 1)

Whole(schedule) == \A k \in DOMAIN schedule : Multiple(schedule[k])

WholeReads == \A r \in ReadSizes : r % Bandwidth = 0

PaceInv ==
  /\ PipeInv
  /\ Paced(write_schedule, received)
  /\ Whole(write_schedule)
  /\ WithinBandwidth

LEMMA WriteType ==
  ASSUME NEW schedule, ScheduleType(schedule), NEW now \in Nat, NEW bits \in WriteSizes
  PROVE  ScheduleType(transmitWrite(schedule, now, bits, Bandwidth))
  BY WriteCycle, InsertFacts, ConnectionPipeAssumption DEF transmitWrite

(* A write is entered behind all the others.                                *)
LEMMA WriteBehind ==
  ASSUME NEW schedule, ScheduleType(schedule), Spaced(schedule), Fits(schedule), Steady,
         NEW now \in Nat, NEW bits \in WriteSizes
  PROVE  \E c \in Nat :
           /\ now <= c /\ (DOMAIN schedule = {} => c = now)
           /\ \A k \in DOMAIN schedule : k < c /\ schedule[k] <= Bandwidth * (c - k)
           /\ transmitWrite(schedule, now, bits, Bandwidth) = insert(schedule, c, bits)
<1>1. Bandwidth \in Nat \ {0} /\ bits \in Nat \ {0}
  BY ConnectionPipeAssumption
<1>2. PICK c \in Nat : c = writeCycle(schedule, now, bits, Bandwidth)
  BY <1>1, WriteCycle
<1>3. PICK q \in Nat : q = bits \div Bandwidth /\ bits = Bandwidth * q
  <2>1. bits % Bandwidth = 0
    BY DEF Steady
  <2>2. bits \div Bandwidth \in Nat /\ bits = Bandwidth * (bits \div Bandwidth)
    BY <1>1, <2>1, MultipleFacts, Division
  <2> QED
    BY <2>2
<1>4. now <= c /\ (DOMAIN schedule = {} => c = now) /\ \A k \in DOMAIN schedule : k + q <= c
  BY <1>1, <1>2, <1>3, WriteCycle
<1>5. q >= 1
  BY <1>1, <1>3
<1>6. ASSUME NEW k \in DOMAIN schedule
      PROVE  k < c /\ schedule[k] <= Bandwidth * (c - k)
  <2>1. k \in Nat /\ schedule[k] \in Nat /\ schedule[k] <= bits /\ k + q <= c
    BY <1>4 DEF ScheduleType, Fits
  <2>2. Bandwidth * q <= Bandwidth * (c - k)
    BY <1>1, <2>1, Times
  <2>3. Bandwidth * (c - k) \in Int
    BY <1>1, <2>1, Times
  <2> QED
    BY <1>1, <1>3, <1>5, <2>1, <2>2, <2>3
<1>7. transmitWrite(schedule, now, bits, Bandwidth) = insert(schedule, c, bits)
  BY <1>2 DEF transmitWrite
<1> QED
  BY <1>4, <1>6, <1>7

(* So a write adds its bits to those of the schedule,                       *)
LEMMA WriteKeeps ==
  ASSUME NEW schedule, ScheduleType(schedule), Spaced(schedule), Fits(schedule), Steady,
         NEW now \in Nat, NEW bits \in WriteSizes,
         NEW new, new = transmitWrite(schedule, now, bits, Bandwidth)
  PROVE  /\ pendingBits(new) = pendingBits(schedule) + bits
         /\ Spaced(new) /\ Fits(new)
<1>1. PICK c \in Nat :
        /\ \A k \in DOMAIN schedule : k < c /\ schedule[k] <= Bandwidth * (c - k)
        /\ new = insert(schedule, c, bits)
  BY WriteBehind
<1>2. bits \in Nat /\ c \notin DOMAIN schedule
  BY <1>1, ConnectionPipeAssumption
<1>3. /\ DOMAIN new = DOMAIN schedule \cup {c} /\ new[c] = bits
      /\ \A k \in DOMAIN schedule : new[k] = schedule[k]
  <2>1. extends(insert(schedule, c, bits), schedule, c, bits)
    BY <1>2, InsertNew
  <2> QED
    BY <1>1, <2>1 DEF extends
<1>4. pendingBits(new) = pendingBits(schedule) + bits
  BY <1>1, <1>2, InsertTotal
<1>5. Spaced(new)
  <2>1. SUFFICES ASSUME NEW j \in DOMAIN new, NEW k \in DOMAIN new, j < k
        PROVE  new[j] <= Bandwidth * (k - j)
    BY DEF Spaced
  <2>2. j \in DOMAIN schedule
    BY <1>1, <1>3, <2>1 DEF ScheduleType
  <2>3. CASE k = c
    BY <1>1, <1>3, <2>2, <2>3
  <2>4. CASE k \in DOMAIN schedule
    BY <1>3, <2>1, <2>2, <2>4 DEF Spaced
  <2> QED
    BY <1>3, <2>3, <2>4
<1>6. Fits(new)
  BY <1>2, <1>3 DEF Fits, Steady
<1> QED
  BY <1>4, <1>5, <1>6

(* and they are not due before the pipe has had the cycles for them.        *)
LEMMA WritePaced ==
  ASSUME NEW schedule, ScheduleType(schedule), Spaced(schedule), Fits(schedule), Steady,
         NEW now \in Nat, NEW bits \in WriteSizes,
         NEW new, new = transmitWrite(schedule, now, bits, Bandwidth),
         NEW delivered \in Nat, Paced(schedule, delivered), Whole(schedule),
         1 <= now, delivered <= Bandwidth * (now - 1)
  PROVE  Paced(new, delivered) /\ Whole(new)
<1>1. PICK c \in Nat :
        /\ now <= c /\ (DOMAIN schedule = {} => c = now)
        /\ \A k \in DOMAIN schedule : k < c /\ schedule[k] <= Bandwidth * (c - k)
        /\ new = insert(schedule, c, bits)
  BY WriteBehind
<1>2. bits \in Nat /\ c \notin DOMAIN schedule /\ Bandwidth \in Nat
  BY <1>1, ConnectionPipeAssumption
<1>3. /\ DOMAIN new = DOMAIN schedule \cup {c} /\ new[c] = bits
      /\ \A k \in DOMAIN schedule : new[k] = schedule[k]
  <2>1. extends(insert(schedule, c, bits), schedule, c, bits)
    BY <1>2, InsertNew
  <2> QED
    BY <1>1, <2>1 DEF extends
<1>4. \A T \in SUBSET DOMAIN schedule : total(new, T) = total(schedule, T)
  BY <1>1, <1>2, InsertTotal
<1>5. Whole(new)
  <2>1. Multiple(bits)
    BY <1>2, MultipleFacts DEF Steady
  <2> QED
    BY <1>3, <2>1 DEF Whole
<1>6. \A k \in DOMAIN schedule : k \in Nat /\ schedule[k] \in Nat
  BY DEF ScheduleType
<1>7. ASSUME NEW k \in DOMAIN schedule
      PROVE  1 <= k /\ delivered + total(new, earlier(new, k)) <= Bandwidth * (k - 1)
  <2>1. earlier(new, k) = earlier(schedule, k) /\ earlier(schedule, k) \in SUBSET DOMAIN schedule
    BY <1>1, <1>3, <1>6 DEF earlier
  <2> QED
    BY <1>4, <2>1 DEF Paced
<1>8. 1 <= c /\ delivered + total(new, earlier(new, c)) <= Bandwidth * (c - 1)
  <2>1. earlier(new, c) = DOMAIN schedule
    <3>1. \A j \in DOMAIN schedule : j \in DOMAIN new /\ j < c
      BY <1>1, <1>3
    <3>2. \A j \in DOMAIN new : j < c => j \in DOMAIN schedule
      BY <1>3
    <3> QED
      BY <3>1, <3>2 DEF earlier
  <2>2. total(new, earlier(new, c)) = total(schedule, DOMAIN schedule)
    BY <1>4, <2>1
  <2>3. CASE DOMAIN schedule = {}
    BY <1>1, <2>2, <2>3, TotalEmpty
  <2>4. CASE DOMAIN schedule # {}
    <3>1. PICK m \in DOMAIN schedule : \A k \in DOMAIN schedule : k <= m
      BY <2>4, ExtremesOfFinite DEF ScheduleType
    <3>2. DOMAIN schedule \ {m} = earlier(schedule, m)
      BY <1>6, <3>1 DEF earlier
    <3>3. PICK a \in Nat : a = total(schedule, earlier(schedule, m))
      <4>1. Weighs(schedule, earlier(schedule, m))
        BY <1>6, FS_Subset DEF Weighs, earlier, ScheduleType
      <4> QED
        BY <4>1, TotalWith
    <3>4. total(schedule, DOMAIN schedule) = schedule[m] + a
      <4>1. Weighs(schedule, DOMAIN schedule)
        BY DEF Weighs, ScheduleType
      <4> QED
        BY <3>2, <3>3, <4>1, TotalWith
    <3>5. 1 <= m /\ delivered + a <= Bandwidth * (m - 1)
      BY <3>3 DEF Paced
    <3>6. schedule[m] <= Bandwidth * (c - m) /\ m < c /\ m \in Nat /\ schedule[m] \in Nat
      BY <1>1, <1>6
    <3>7. Bandwidth * (m - 1) + Bandwidth * (c - m) = Bandwidth * (c - 1)
          /\ Bandwidth * (m - 1) \in Int /\ Bandwidth * (c - m) \in Int
      BY <1>2, <3>6, Times
    <3> HIDE DEF earlier
    <3>8. delivered + (schedule[m] + a) <= Bandwidth * (c - 1)
      BY <3>5, <3>6, <3>7
    <3> QED
      BY <2>2, <3>4, <3>5, <3>6, <3>8
  <2> QED
    BY <2>3, <2>4
<1> QED
  BY <1>3, <1>5, <1>7, <1>8 DEF Paced

-----------------------------------------------------------------------------
(***************************************************************************)
(* A read that can be granted ends in an entry last: those before it hold  *)
(* prev bits, and the t bits that the read takes of it are at least one.   *)
(***************************************************************************)
reaches(schedule, bits, last, prev, t) ==
  /\ last \in DOMAIN schedule /\ prev \in Nat /\ t \in Nat
  /\ last = Min(enough(schedule, bits))
  /\ prev = total(schedule, earlier(schedule, last))
  /\ volumeUpTo(schedule, last) = prev + schedule[last]
  /\ bits = prev + t /\ 0 < t /\ t <= schedule[last]
  /\ requiredCycle(schedule, bits, Bandwidth) = last + t \div Bandwidth

(* The volume up to an entry is what lies before it and its own bits.       *)
LEMMA Volume ==
  ASSUME NEW schedule, ScheduleType(schedule), NEW k \in DOMAIN schedule
  PROVE  /\ k \in Nat /\ schedule[k] \in Nat
         /\ total(schedule, earlier(schedule, k)) \in Nat
         /\ volumeUpTo(schedule, k) = total(schedule, earlier(schedule, k)) + schedule[k]
<1>1. k \in Nat /\ schedule[k] \in Nat /\ \A j \in DOMAIN schedule : j \in Nat
  BY DEF ScheduleType
<1> DEFINE upto == { j \in DOMAIN schedule : j <= k }
<1>2. upto \in SUBSET DOMAIN schedule /\ earlier(schedule, k) \in SUBSET DOMAIN schedule
  BY DEF earlier
<1>3. Weighs(schedule, upto) /\ Weighs(schedule, earlier(schedule, k))
  BY <1>2, FS_Subset DEF Weighs, ScheduleType
<1>4. k \in upto /\ upto \ {k} = earlier(schedule, k)
  BY <1>1 DEF earlier
<1>5. volumeUpTo(schedule, k) = total(schedule, upto)
  BY DEF volumeUpTo, total
<1> HIDE DEF upto
<1>6. total(schedule, upto) = schedule[k] + total(schedule, upto \ {k})
  BY <1>3, <1>4, TotalWith
<1>7. total(schedule, earlier(schedule, k)) \in Nat
  BY <1>3, TotalWith
<1> QED
  BY <1>1, <1>4, <1>5, <1>6, <1>7

(* A read for which there is enough ends in an entry.                       *)
LEMMA ReadReaches ==
  ASSUME NEW schedule, ScheduleType(schedule), NEW bits \in Nat \ {0},
         enough(schedule, bits) # {}
  PROVE  \E last, prev, t : reaches(schedule, bits, last, prev, t)
<1>1. /\ enough(schedule, bits) \in SUBSET Nat /\ IsFiniteSet(enough(schedule, bits))
      /\ enough(schedule, bits) \subseteq DOMAIN schedule
  BY FS_Subset DEF enough, ScheduleType
<1>2. PICK last \in enough(schedule, bits) :
        last = Min(enough(schedule, bits)) /\ \A k \in enough(schedule, bits) : last <= k
  BY <1>1, ExtremesOfFinite
<1>3. last \in DOMAIN schedule /\ volumeUpTo(schedule, last) >= bits
  BY <1>2 DEF enough
<1>4. PICK prev \in Nat : prev = total(schedule, earlier(schedule, last))
  BY <1>3, Volume
<1>5. last \in Nat /\ schedule[last] \in Nat
      /\ volumeUpTo(schedule, last) = prev + schedule[last]
  BY <1>3, <1>4, Volume
<1>6. prev < bits
  <2>1. CASE earlier(schedule, last) = {}
    BY <1>4, <2>1, TotalEmpty
  <2>2. CASE earlier(schedule, last) # {}
    <3>1. /\ earlier(schedule, last) \in SUBSET Nat /\ IsFiniteSet(earlier(schedule, last))
          /\ earlier(schedule, last) \subseteq DOMAIN schedule
      BY FS_Subset DEF earlier, ScheduleType
    <3>2. PICK m \in earlier(schedule, last) : \A k \in earlier(schedule, last) : k <= m
      BY <2>2, <3>1, ExtremesOfFinite
    <3>3. m \in DOMAIN schedule /\ m \in Nat /\ m < last
      BY <3>1, <3>2 DEF earlier
    <3>4. m \notin enough(schedule, bits)
      BY <1>2, <1>5, <3>3
    <3>5. ~ (volumeUpTo(schedule, m) >= bits)
      BY <3>3, <3>4 DEF enough
    <3>6. { j \in DOMAIN schedule : j <= m } = earlier(schedule, last)
      <4>1. ASSUME NEW j \in DOMAIN schedule PROVE j <= m <=> j < last
        <5>1. j \in Nat
          BY DEF ScheduleType
        <5>2. j < last => j <= m
          BY <3>2 DEF earlier
        <5> QED
          BY <1>5, <3>3, <5>1, <5>2
      <4> QED
        BY <4>1 DEF earlier
    <3>7. volumeUpTo(schedule, m) = prev
      BY <1>4, <3>6 DEF volumeUpTo, total
    <3> QED
      BY <3>5, <3>7
  <2> QED
    BY <2>1, <2>2
<1>7. PICK t \in Nat : t = bits - prev
  BY <1>6
<1>8. requiredCycle(schedule, bits, Bandwidth) = last + t \div Bandwidth
  <2>1. volumeUpTo(schedule, last) - schedule[last] = prev
    BY <1>5
  <2> QED
    BY <1>2, <1>7, <2>1 DEF requiredCycle, transferCycles
<1>9. reaches(schedule, bits, last, prev, t)
  BY <1>2, <1>3, <1>4, <1>5, <1>6, <1>7, <1>8 DEF reaches
<1> QED
  BY <1>9

(* What is left behind the entry that a read ends in.                       *)
later(schedule, k) == { j \in DOMAIN schedule : j > k }

LEMMA RestFacts ==
  ASSUME NEW schedule, ScheduleType(schedule), NEW last \in DOMAIN schedule,
         NEW rest, rest = Restrict(schedule, later(schedule, last))
  PROVE  /\ ScheduleType(rest)
         /\ DOMAIN rest = later(schedule, last)
         /\ \A k \in DOMAIN rest : rest[k] = schedule[k]
         /\ \A T \in SUBSET DOMAIN rest : total(rest, T) = total(schedule, T)
         /\ pendingBits(rest) \in Nat
         /\ pendingBits(schedule) = volumeUpTo(schedule, last) + pendingBits(rest)
<1>1. DOMAIN rest = later(schedule, last) /\ \A k \in DOMAIN rest : rest[k] = schedule[k]
  BY DEF Restrict
<1>2. later(schedule, last) \in SUBSET DOMAIN schedule
  BY DEF later
<1>3. ScheduleType(rest)
  BY <1>1, <1>2, FS_Subset DEF ScheduleType
<1>4. ASSUME NEW T \in SUBSET DOMAIN rest
      PROVE  total(rest, T) = total(schedule, T)
  <2>1. Weighs(rest, T) /\ \A k \in T : rest[k] = schedule[k]
    BY <1>1, <1>3, FS_Subset DEF Weighs, ScheduleType
  <2> QED
    BY <2>1, TotalSame
<1> DEFINE upto == { j \in DOMAIN schedule : j <= last }
<1>5. DOMAIN schedule \ upto = later(schedule, last) /\ upto \in SUBSET DOMAIN schedule
  BY DEF later, ScheduleType
<1>6. volumeUpTo(schedule, last) = total(schedule, upto)
  BY DEF volumeUpTo, total
<1> HIDE DEF upto
<1>7. Weighs(schedule, DOMAIN schedule) /\ Weighs(rest, DOMAIN rest)
  BY <1>3 DEF Weighs, ScheduleType
<1>8. total(schedule, DOMAIN schedule)
      = total(schedule, upto) + total(schedule, DOMAIN schedule \ upto)
  BY <1>5, <1>7, TotalSplit
<1>9. total(rest, DOMAIN rest) = total(schedule, later(schedule, last))
      /\ total(rest, DOMAIN rest) \in Nat
  <2>1. DOMAIN rest \in SUBSET DOMAIN rest
    OBVIOUS
  <2> QED
    BY <1>1, <1>4, <1>7, <2>1, TotalWith
<1>10. pendingBits(schedule) = total(schedule, DOMAIN schedule)
       /\ pendingBits(rest) = total(rest, DOMAIN rest)
  BY DEF pendingBits, total
<1> QED
  BY <1>1, <1>3, <1>4, <1>5, <1>6, <1>8, <1>9, <1>10

(* The two outcomes of a read, with what it leaves of the last entry.       *)
leaves(schedule, bits, new, last, t, rest) ==
  /\ rest = Restrict(schedule, later(schedule, last))
  /\ IF t = schedule[last] THEN new = rest
     ELSE new = insert(rest, last + t \div Bandwidth, schedule[last] - t)

LEMMA ReadLeaves ==
  ASSUME NEW schedule, ScheduleType(schedule), NEW bits \in Nat \ {0},
         NEW last, NEW prev, NEW t, reaches(schedule, bits, last, prev, t)
  PROVE  \E rest : leaves(schedule, bits, transmitRead(schedule, bits, Bandwidth), last, t, rest)
<1>1. /\ last = Min(enough(schedule, bits)) /\ last \in DOMAIN schedule
      /\ prev \in Nat /\ t \in Nat /\ bits = prev + t
      /\ volumeUpTo(schedule, last) = prev + schedule[last]
      /\ requiredCycle(schedule, bits, Bandwidth) = last + t \div Bandwidth
  BY DEF reaches
<1>2. schedule[last] \in Nat
  BY <1>1, Volume
<1>3. PICK rest : rest = Restrict(schedule, later(schedule, last))
  OBVIOUS
<1>4. transmitRead(schedule, bits, Bandwidth)
      = IF prev + schedule[last] = bits THEN rest
        ELSE insert(rest, last + t \div Bandwidth, prev + schedule[last] - bits)
  <2>1. PICK v, c, first :
          /\ v = volumeUpTo(schedule, last) /\ c = requiredCycle(schedule, bits, Bandwidth)
          /\ first = Min(enough(schedule, bits))
    OBVIOUS
  <2>2. first = last /\ v = prev + schedule[last] /\ c = last + t \div Bandwidth
    BY <1>1, <2>1
  <2>3. /\ volumeUpTo(schedule, first) = v
        /\ rest = Restrict(schedule, {k \in DOMAIN schedule : k > first})
    BY <1>3, <2>1, <2>2 DEF later
  <2>4. transmitRead(schedule, bits, Bandwidth)
        = IF v = bits THEN rest ELSE insert(rest, c, v - bits)
    BY <2>1, <2>3 DEF transmitRead
  <2>5. v - bits = prev + schedule[last] - bits /\ (v = bits <=> prev + schedule[last] = bits)
    BY <1>1, <1>2, <2>2
  <2> QED
    BY <2>2, <2>4, <2>5
<1>5. (prev + schedule[last] = bits <=> t = schedule[last])
      /\ prev + schedule[last] - bits = schedule[last] - t
  BY <1>1, <1>2
<1>6. leaves(schedule, bits, transmitRead(schedule, bits, Bandwidth), last, t, rest)
  BY <1>3, <1>4, <1>5 DEF leaves
<1> QED
  BY <1>6

LEMMA ReadType ==
  ASSUME NEW schedule, ScheduleType(schedule), NEW bits \in Nat \ {0},
         enough(schedule, bits) # {}
  PROVE  ScheduleType(transmitRead(schedule, bits, Bandwidth))
<1>1. PICK last, prev, t : reaches(schedule, bits, last, prev, t)
  BY ReadReaches
<1>2. PICK rest : leaves(schedule, bits, transmitRead(schedule, bits, Bandwidth), last, t, rest)
  BY <1>1, ReadLeaves
<1>3. last \in DOMAIN schedule /\ t \in Nat /\ t <= schedule[last]
  BY <1>1 DEF reaches
<1>4. ScheduleType(rest)
  BY <1>2, <1>3, RestFacts DEF leaves
<1>5. last + t \div Bandwidth \in Nat /\ schedule[last] - t \in Nat
  <2>1. t \div Bandwidth \in Nat
    BY <1>3, Division, ConnectionPipeAssumption
  <2> QED
    BY <1>3, <2>1, Volume
<1>6. ScheduleType(insert(rest, last + t \div Bandwidth, schedule[last] - t))
  BY <1>4, <1>5, InsertFacts
<1> QED
  BY <1>2, <1>4, <1>6 DEF leaves

(* What is left of the last entry goes in front of all the other entries.   *)
LEMMA LeftInFront ==
  ASSUME NEW schedule, ScheduleType(schedule), Spaced(schedule),
         NEW last \in DOMAIN schedule, NEW t \in Nat, t < schedule[last],
         NEW c, c = last + t \div Bandwidth
  PROVE  /\ c \in Nat /\ last <= c
         /\ \A k \in later(schedule, last) :
              c < k /\ schedule[last] - t <= Bandwidth * (k - c)
<1>1. Bandwidth \in Nat \ {0} /\ last \in Nat /\ schedule[last] \in Nat
  BY Volume, ConnectionPipeAssumption
<1>2. PICK q \in Nat, r \in Nat : q = t \div Bandwidth /\ t = Bandwidth * q + r
  BY <1>1, Division
<1>3. ASSUME NEW k \in later(schedule, last)
      PROVE  c < k /\ schedule[last] - t <= Bandwidth * (k - c)
  <2>1. k \in Nat /\ last < k /\ schedule[last] <= Bandwidth * (k - last)
    BY <1>1 DEF later, Spaced, ScheduleType
  <2>2. Bandwidth * (k - last) - Bandwidth * q = Bandwidth * ((k - last) - q)
        /\ Bandwidth * (k - last) \in Int /\ Bandwidth * q \in Int
    BY <1>1, <2>1, Times
  <2>3. (k - last) - q = k - c
    BY <1>1, <1>2, <2>1
  <2>4. schedule[last] - t <= Bandwidth * (k - c)
    BY <1>1, <1>2, <2>1, <2>2, <2>3
  <2>5. k - c <= 0 => Bandwidth * (k - c) <= Bandwidth * 0
    BY <1>1, <1>2, <2>1, Times
  <2>6. 0 < schedule[last] - t /\ k - c \in Int
    BY <1>1, <1>2, <2>1
  <2> QED
    BY <1>1, <1>2, <2>1, <2>4, <2>5, <2>6
<1> QED
  BY <1>1, <1>2, <1>3

(* So a read takes its bits out of the schedule and no others.              *)
LEMMA ReadKeeps ==
  ASSUME NEW schedule, ScheduleType(schedule), Spaced(schedule), Fits(schedule),
         NEW bits \in Nat \ {0}, enough(schedule, bits) # {},
         NEW new, new = transmitRead(schedule, bits, Bandwidth)
  PROVE  /\ pendingBits(schedule) = pendingBits(new) + bits
         /\ Spaced(new) /\ Fits(new)
<1>1. PICK last, prev, t : reaches(schedule, bits, last, prev, t)
  BY ReadReaches
<1>2. PICK rest : leaves(schedule, bits, new, last, t, rest)
  BY <1>1, ReadLeaves
<1>3. /\ last \in DOMAIN schedule /\ prev \in Nat /\ t \in Nat
      /\ volumeUpTo(schedule, last) = prev + schedule[last]
      /\ bits = prev + t /\ 0 < t /\ t <= schedule[last]
  BY <1>1 DEF reaches
<1>4. /\ ScheduleType(rest) /\ DOMAIN rest = later(schedule, last)
      /\ \A k \in DOMAIN rest : rest[k] = schedule[k]
      /\ pendingBits(rest) \in Nat
      /\ pendingBits(schedule) = volumeUpTo(schedule, last) + pendingBits(rest)
  BY <1>2, <1>3, RestFacts DEF leaves
<1>5. schedule[last] \in Nat /\ DOMAIN rest \subseteq DOMAIN schedule
  BY <1>3, <1>4, Volume DEF later
<1>6. Spaced(rest) /\ Fits(rest)
  BY <1>4, <1>5 DEF Spaced, Fits
<1>7. CASE t = schedule[last]
  <2>1. new = rest
    BY <1>2, <1>7 DEF leaves
  <2> QED
    BY <1>3, <1>4, <1>5, <1>6, <1>7, <2>1
<1>8. CASE t # schedule[last]
  <2>1. PICK c : c = last + t \div Bandwidth /\ new = insert(rest, c, schedule[last] - t)
    BY <1>2, <1>8 DEF leaves
  <2>2. c \in Nat /\ \A k \in DOMAIN rest : c < k /\ schedule[last] - t <= Bandwidth * (k - c)
    BY <1>3, <1>4, <1>5, <1>8, <2>1, LeftInFront
  <2>3. c \notin DOMAIN rest /\ schedule[last] - t \in Nat
    BY <1>3, <1>5, <2>2
  <2>4. pendingBits(new) = pendingBits(rest) + (schedule[last] - t)
    BY <1>4, <2>1, <2>2, <2>3, InsertTotal
  <2>5. /\ DOMAIN new = DOMAIN rest \cup {c} /\ new[c] = schedule[last] - t
        /\ \A k \in DOMAIN rest : new[k] = rest[k]
    <3>1. extends(insert(rest, c, schedule[last] - t), rest, c, schedule[last] - t)
      BY <1>4, <2>2, <2>3, InsertNew
    <3> QED
      BY <2>1, <3>1 DEF extends
  <2>6. Spaced(new)
    <3>1. SUFFICES ASSUME NEW j \in DOMAIN new, NEW k \in DOMAIN new, j < k
          PROVE  new[j] <= Bandwidth * (k - j)
      BY DEF Spaced
    <3>2. k \in DOMAIN rest
      <4>1. k = c => j \notin DOMAIN rest /\ j # c
        BY <1>4, <2>2, <3>1 DEF ScheduleType
      <4> QED
        BY <2>5, <4>1
    <3>3. CASE j = c
      BY <2>2, <2>5, <3>2, <3>3
    <3>4. CASE j \in DOMAIN rest
      BY <1>6, <2>5, <3>1, <3>2, <3>4 DEF Spaced
    <3> QED
      BY <2>5, <3>3, <3>4
  <2>7. Fits(new)
    <3>1. SUFFICES ASSUME NEW k \in DOMAIN new, NEW w \in WriteSizes
          PROVE  new[k] <= w
      BY DEF Fits
    <3>2. w \in Nat /\ schedule[last] <= w
      BY <1>3, ConnectionPipeAssumption DEF Fits
    <3>3. CASE k = c
      BY <1>3, <1>5, <2>5, <3>2, <3>3
    <3>4. CASE k \in DOMAIN rest
      BY <1>6, <2>5, <3>4 DEF Fits
    <3> QED
      BY <2>5, <3>3, <3>4
  <2> QED
    BY <1>3, <1>4, <1>5, <2>4, <2>6, <2>7
<1> QED
  BY <1>7, <1>8

(* A read keeps the pace, and what it delivers has had its cycles.          *)
LEMMA ReadPaced ==
  ASSUME NEW schedule, ScheduleType(schedule), Spaced(schedule),
         NEW bits \in Nat \ {0}, Multiple(bits),
         NEW now \in Nat, readGranted(schedule, now, bits, Bandwidth),
         NEW new, new = transmitRead(schedule, bits, Bandwidth),
         NEW delivered \in Nat, Paced(schedule, delivered), Whole(schedule)
  PROVE  /\ Paced(new, delivered + bits) /\ Whole(new)
         /\ delivered + bits <= Bandwidth * (now - 1)
<1>1. enough(schedule, bits) # {} /\ requiredCycle(schedule, bits, Bandwidth) <= now
  BY DEF readGranted
<1>2. PICK last, prev, t : reaches(schedule, bits, last, prev, t)
  BY <1>1, ReadReaches
<1>3. PICK rest : leaves(schedule, bits, new, last, t, rest)
  BY <1>2, ReadLeaves
<1>4. /\ last \in DOMAIN schedule /\ prev \in Nat /\ t \in Nat
      /\ prev = total(schedule, earlier(schedule, last))
      /\ volumeUpTo(schedule, last) = prev + schedule[last]
      /\ bits = prev + t /\ 0 < t /\ t <= schedule[last]
      /\ last + t \div Bandwidth <= now
  BY <1>1, <1>2 DEF reaches
<1>5. /\ ScheduleType(rest) /\ DOMAIN rest = later(schedule, last)
      /\ \A k \in DOMAIN rest : rest[k] = schedule[k]
      /\ \A T \in SUBSET DOMAIN rest : total(rest, T) = total(schedule, T)
  BY <1>3, <1>4, RestFacts DEF leaves
<1>6. schedule[last] \in Nat /\ last \in Nat /\ DOMAIN rest \subseteq DOMAIN schedule
      /\ \A k \in DOMAIN schedule : k \in Nat /\ schedule[k] \in Nat
  BY <1>4, <1>5, Volume DEF later
<1>7. Bandwidth \in Nat \ {0}
  BY ConnectionPipeAssumption
<1>8. Multiple(t) /\ t = Bandwidth * (t \div Bandwidth) /\ Multiple(schedule[last] - t)
  <2>1. Weighs(schedule, earlier(schedule, last))
        /\ \A k \in earlier(schedule, last) : Multiple(schedule[k])
    BY <1>6, FS_Subset DEF Weighs, earlier, ScheduleType, Whole
  <2>2. Multiple(prev)
    BY <1>4, <2>1, TotalMultiple
  <2>3. t = bits - prev /\ prev <= bits
    BY <1>4
  <2>4. Multiple(t)
    BY <1>4, <2>2, <2>3, MultipleFacts
  <2>5. Multiple(schedule[last])
    BY <1>4 DEF Whole
  <2> QED
    BY <1>4, <1>6, <2>4, <2>5, MultipleFacts
<1>9. PICK q \in Nat : q = t \div Bandwidth /\ t = Bandwidth * q
  BY <1>4, <1>7, <1>8, Division
<1>10. 1 <= last /\ delivered + prev <= Bandwidth * (last - 1)
  BY <1>4 DEF Paced
<1>11. delivered + bits <= Bandwidth * ((last + q) - 1) /\ 1 <= last + q
  <2>1. Bandwidth * (last - 1) + Bandwidth * q = Bandwidth * ((last - 1) + q)
        /\ Bandwidth * (last - 1) \in Int
    BY <1>6, <1>7, Times
  <2>2. (last - 1) + q = (last + q) - 1
    BY <1>6
  <2> QED
    BY <1>4, <1>6, <1>7, <1>9, <1>10, <2>1, <2>2
<1>12. delivered + bits <= Bandwidth * (now - 1)
  <2>1. Bandwidth * ((last + q) - 1) <= Bandwidth * (now - 1)
    BY <1>4, <1>6, <1>7, <1>9, Times
  <2>2. Bandwidth * ((last + q) - 1) \in Int /\ Bandwidth * (now - 1) \in Int
    BY <1>6, <1>7, Times
  <2> QED
    BY <1>11, <2>1, <2>2
(* The bits in front of an entry that stays, before the read and after.     *)
<1>13. ASSUME NEW k \in DOMAIN rest
       PROVE  /\ Weighs(schedule, earlier(rest, k)) /\ total(schedule, earlier(rest, k)) \in Nat
              /\ total(schedule, earlier(schedule, k))
                 = prev + schedule[last] + total(schedule, earlier(rest, k))
              /\ 1 <= k /\ delivered + total(schedule, earlier(schedule, k)) <= Bandwidth * (k - 1)
  <2>1. k \in DOMAIN schedule /\ k > last /\ k \in Nat
    BY <1>5, <1>6 DEF later
  <2> DEFINE upto == { j \in DOMAIN schedule : j <= last }
  <2>2. upto \in SUBSET earlier(schedule, k) /\ earlier(schedule, k) \in SUBSET DOMAIN schedule
    BY <1>6, <2>1 DEF earlier
  <2>3. /\ earlier(schedule, k) \ upto = earlier(rest, k)
        /\ earlier(rest, k) \in SUBSET DOMAIN schedule
    BY <1>5, <1>6, <2>1 DEF earlier, later
  <2>4. Weighs(schedule, earlier(schedule, k)) /\ Weighs(schedule, earlier(rest, k))
    BY <1>6, <2>2, <2>3, FS_Subset DEF Weighs, ScheduleType
  <2>5. total(schedule, upto) = prev + schedule[last]
    BY <1>4 DEF volumeUpTo, total
  <2> HIDE DEF upto
  <2>6. total(schedule, earlier(schedule, k))
        = total(schedule, upto) + total(schedule, earlier(rest, k))
    BY <2>2, <2>3, <2>4, TotalSplit
  <2> QED
    BY <2>1, <2>4, <2>5, <2>6, TotalWith DEF Paced
<1>14. CASE t = schedule[last]
  <2>1. new = rest
    BY <1>3, <1>14 DEF leaves
  <2>2. Whole(new)
    BY <1>5, <1>6, <2>1 DEF Whole
  <2>3. ASSUME NEW k \in DOMAIN new
        PROVE  1 <= k /\ (delivered + bits) + total(new, earlier(new, k)) <= Bandwidth * (k - 1)
    <3>1. total(new, earlier(new, k)) = total(schedule, earlier(rest, k))
      BY <1>5, <2>1 DEF earlier
    <3> QED
      BY <1>4, <1>6, <1>13, <1>14, <2>1, <3>1
  <2> QED
    BY <1>12, <2>2, <2>3 DEF Paced
<1>15. CASE t # schedule[last]
  <2>1. PICK c, left : /\ c = last + t \div Bandwidth /\ new = insert(rest, c, left)
                       /\ left = schedule[last] - t /\ left \in Nat
    BY <1>3, <1>4, <1>6, <1>15 DEF leaves
  <2>2. c = last + q /\ c \in Nat /\ \A k \in DOMAIN rest : c < k
    BY <1>4, <1>5, <1>6, <1>9, <1>15, <2>1, LeftInFront
  <2>3. c \notin DOMAIN rest /\ left \in Nat
    BY <1>6, <2>1, <2>2
  <2>4. /\ DOMAIN new = DOMAIN rest \cup {c} /\ new[c] = left
        /\ \A k \in DOMAIN rest : new[k] = rest[k]
    <3>1. extends(insert(rest, c, left), rest, c, left)
      BY <1>5, <2>2, <2>3, InsertNew
    <3> QED
      BY <2>1, <3>1 DEF extends
  <2>5. \A T \in SUBSET DOMAIN rest : total(new, T) = total(schedule, T)
    BY <1>5, <2>1, <2>2, <2>3, InsertTotal
  <2>6. Whole(new)
    BY <1>5, <1>6, <1>8, <2>1, <2>4 DEF Whole
  <2>7. (delivered + bits) + total(new, earlier(new, c)) <= Bandwidth * (c - 1) /\ 1 <= c
    <3>1. earlier(new, c) = {}
      BY <1>6, <2>2, <2>4 DEF earlier
    <3>2. total(new, earlier(new, c)) = 0
      BY <3>1, TotalEmpty
    <3> QED
      BY <1>4, <1>11, <2>2, <3>2
  <2>8. ASSUME NEW k \in DOMAIN rest
        PROVE  1 <= k /\ (delivered + bits) + total(new, earlier(new, k)) <= Bandwidth * (k - 1)
    <3>1. c \in earlier(new, k) /\ earlier(new, k) \ {c} = earlier(rest, k)
          /\ earlier(rest, k) \in SUBSET DOMAIN rest
      BY <2>2, <2>3, <2>4 DEF earlier
    <3>2. Weighs(new, earlier(new, k))
      <4>1. ScheduleType(insert(rest, c, left))
        BY <1>5, <2>2, <2>3, InsertFacts
      <4>2. ScheduleType(new) /\ earlier(new, k) \in SUBSET DOMAIN new
        BY <2>1, <4>1 DEF earlier
      <4> QED
        BY <4>2, FS_Subset DEF Weighs, ScheduleType
    <3>3. total(new, earlier(new, k)) = left + total(new, earlier(rest, k))
      BY <2>4, <3>1, <3>2, TotalWith
    <3>4. total(new, earlier(rest, k)) = total(schedule, earlier(rest, k))
      BY <2>5, <3>1
    <3>5. PICK x \in Nat : x = total(schedule, earlier(rest, k))
      BY <1>13
    <3>6. total(schedule, earlier(schedule, k)) = prev + schedule[last] + x
          /\ 1 <= k /\ delivered + total(schedule, earlier(schedule, k)) <= Bandwidth * (k - 1)
      BY <1>13, <3>5
    <3>7. (delivered + bits) + total(new, earlier(new, k))
          = delivered + total(schedule, earlier(schedule, k))
      BY <1>4, <1>6, <2>1, <3>3, <3>4, <3>5, <3>6
    <3> QED
      BY <3>6, <3>7
  <2> QED
    BY <1>12, <2>4, <2>6, <2>7, <2>8 DEF Paced
<1> QED
  BY <1>14, <1>15

-----------------------------------------------------------------------------
LEMMA TypeInit == Init => TypeOK
<1>1. IsFiniteSet({}) /\ DOMAIN EmptySchedule = {}
  BY FS_EmptySet DEF EmptySchedule
<1>2. ScheduleType(EmptySchedule)
  BY <1>1 DEF ScheduleType
<1> QED
  BY <1>2, ConnectionPipeAssumption DEF Init, TypeOK

LEMMA TypeNext == TypeOK /\ [Next]_vars => TypeOK'
<1>1. SUFFICES ASSUME TypeOK, [Next]_vars PROVE TypeOK'
  OBVIOUS
<1>2. /\ ScheduleType(write_schedule) /\ data_total \in Nat /\ received \in Nat
      /\ cycle \in 1 .. MaxCycle /\ waiting \in ReadSizes \cup {0} /\ writes \in 0 .. MaxWrites
      /\ cycle \in Nat /\ MaxCycle \in Nat /\ MaxWrites \in Nat
  BY <1>1, ConnectionPipeAssumption DEF TypeOK
<1>3. ASSUME NEW bits \in WriteSizes, Write(bits)
      PROVE  TypeOK'
  <2>1. bits \in Nat
    BY ConnectionPipeAssumption
  <2>2. ScheduleType(transmitWrite(write_schedule, cycle, bits, Bandwidth))
    BY <1>2, WriteType
  <2>3. ScheduleType(write_schedule')
    BY <1>3, <2>2 DEF Write
  <2> QED
    BY <1>2, <1>3, <2>1, <2>3 DEF Write, TypeOK
<1>4. ASSUME NEW bits \in ReadSizes, Read(bits)
      PROVE  TypeOK'
  <2>1. bits \in Nat \ {0}
    BY ConnectionPipeAssumption
  <2>2. enough(write_schedule, bits) # {}
    BY <1>4 DEF Read, readGranted
  <2>3. ScheduleType(transmitRead(write_schedule, bits, Bandwidth))
    BY <1>2, <2>1, <2>2, ReadType
  <2>4. ScheduleType(write_schedule')
    BY <1>4, <2>3 DEF Read
  <2> QED
    BY <1>2, <1>4, <2>1, <2>4 DEF Read, TypeOK
<1>5. ASSUME NEW bits \in ReadSizes, ReadStalls(bits)
      PROVE  TypeOK'
  BY <1>2, <1>5 DEF ReadStalls, TypeOK
<1>6. CASE Tick
  BY <1>2, <1>6 DEF Tick, TypeOK
<1>7. CASE UNCHANGED vars
  BY <1>2, <1>7 DEF vars, TypeOK
<1> QED
  BY <1>1, <1>3, <1>4, <1>5, <1>6, <1>7 DEF Next

(***************************************************************************)
(* The schedule of a connection stays a finite map from cycles to bits,    *)
(* whatever the sizes of the writes and the reads: a read that is granted  *)
(* never leaves a negative rest.                                           *)
(***************************************************************************)
THEOREM ScheduleWellFormed == Spec => []TypeOK
  BY TypeInit, TypeNext, PTL DEF Spec

LEMMA PipeInit == Init => PipeInv
<1>1. SUFFICES ASSUME Init PROVE PipeInv
  OBVIOUS
<1>2. write_schedule = EmptySchedule /\ data_total = 0 /\ received = 0
      /\ DOMAIN write_schedule = {}
  BY <1>1 DEF Init, EmptySchedule
<1>3. pendingBits(write_schedule) = 0
  <2>1. total(write_schedule, {}) = 0
    BY TotalEmpty
  <2> QED
    BY <1>2, <2>1 DEF pendingBits, total
<1> QED
  BY <1>1, <1>2, <1>3, TypeInit DEF PipeInv, BitsConserved, Spaced, Fits

LEMMA PipeNext ==
  ASSUME Steady, PipeInv, [Next]_vars
  PROVE  PipeInv'
<1>1. /\ ScheduleType(write_schedule) /\ Spaced(write_schedule) /\ Fits(write_schedule)
      /\ data_total \in Nat /\ received \in Nat /\ cycle \in Nat
      /\ data_total = received + pendingBits(write_schedule)
  BY ConnectionPipeAssumption DEF PipeInv, TypeOK, BitsConserved
<1>2. TypeOK'
  BY TypeNext DEF PipeInv
<1>3. ASSUME NEW bits \in WriteSizes, Write(bits)
      PROVE  PipeInv'
  <2>1. write_schedule' = transmitWrite(write_schedule, cycle, bits, Bandwidth)
        /\ data_total' = data_total + bits /\ received' = received
    BY <1>3 DEF Write
  <2>2. /\ pendingBits(write_schedule') = pendingBits(write_schedule) + bits
        /\ Spaced(write_schedule') /\ Fits(write_schedule')
    BY <1>1, <2>1, WriteKeeps
  <2>3. bits \in Nat /\ pendingBits(write_schedule) \in Nat
    BY <1>1, ConnectionPipeAssumption, PendingType
  <2>4. data_total' = received' + pendingBits(write_schedule')
    BY <1>1, <2>1, <2>2, <2>3
  <2> QED
    BY <1>2, <2>2, <2>4 DEF PipeInv, BitsConserved, Spaced, Fits
<1>4. ASSUME NEW bits \in ReadSizes, Read(bits)
      PROVE  PipeInv'
  <2>1. write_schedule' = transmitRead(write_schedule, bits, Bandwidth)
        /\ data_total' = data_total /\ received' = received + bits
        /\ enough(write_schedule, bits) # {} /\ bits \in Nat \ {0}
    BY <1>4, ConnectionPipeAssumption DEF Read, readGranted
  <2>2. /\ pendingBits(write_schedule) = pendingBits(write_schedule') + bits
        /\ Spaced(write_schedule') /\ Fits(write_schedule')
    BY <1>1, <2>1, ReadKeeps
  <2>3. pendingBits(write_schedule') \in Nat
    BY <1>2, PendingType DEF TypeOK
  <2>4. data_total' = received' + pendingBits(write_schedule')
    BY <1>1, <2>1, <2>2, <2>3
  <2> QED
    BY <1>2, <2>2, <2>4 DEF PipeInv, BitsConserved, Spaced, Fits
<1>5. ASSUME write_schedule' = write_schedule /\ data_total' = data_total /\ received' = received
      PROVE  PipeInv'
  BY <1>1, <1>2, <1>5 DEF PipeInv, BitsConserved, Spaced, Fits
<1> QED
  BY <1>3, <1>4, <1>5 DEF Next, ReadStalls, Tick, vars

(***************************************************************************)
(* A connection used as a pipe neither loses nor duplicates bits, as long  *)
(* as all its writes are of one size, a whole number of cycles long: then  *)
(* no two entries of the std::map get the same cycle.  Reads may be of any *)
(* sizes.                                                                  *)
(***************************************************************************)
THEOREM PipeKeepsBits ==
  ASSUME Steady
  PROVE  Spec => []BitsConserved
<1>1. PipeInv /\ [Next]_vars => PipeInv'
  BY PipeNext
<1>2. PipeInv => BitsConserved
  BY DEF PipeInv
<1> QED
  BY <1>1, <1>2, PipeInit, PTL DEF Spec

LEMMA PaceInit == Init => PaceInv
<1>1. SUFFICES ASSUME Init PROVE PaceInv
  OBVIOUS
<1>2. DOMAIN write_schedule = {} /\ received = 0 /\ cycle = 1
  BY <1>1 DEF Init, EmptySchedule
<1> QED
  BY <1>1, <1>2, PipeInit, ConnectionPipeAssumption
  DEF PaceInv, Paced, Whole, WithinBandwidth

LEMMA PaceNext ==
  ASSUME Steady, WholeReads, PaceInv, [Next]_vars
  PROVE  PaceInv'
<1>1. /\ ScheduleType(write_schedule) /\ Spaced(write_schedule) /\ Fits(write_schedule)
      /\ received \in Nat /\ cycle \in Nat /\ 1 <= cycle
      /\ Paced(write_schedule, received) /\ Whole(write_schedule)
      /\ received <= Bandwidth * (cycle - 1) /\ Bandwidth \in Nat
  BY ConnectionPipeAssumption DEF PaceInv, PipeInv, TypeOK, WithinBandwidth
<1>2. PipeInv'
  BY PipeNext DEF PaceInv
<1>3. ASSUME NEW bits \in WriteSizes, Write(bits)
      PROVE  PaceInv'
  <2>1. write_schedule' = transmitWrite(write_schedule, cycle, bits, Bandwidth)
        /\ received' = received /\ cycle' = cycle
    BY <1>3 DEF Write
  <2>2. Paced(write_schedule', received) /\ Whole(write_schedule')
    BY <1>1, <2>1, WritePaced
  <2>3. Paced(write_schedule', received')
    BY <2>1, <2>2
  <2> QED
    BY <1>1, <1>2, <2>1, <2>2, <2>3 DEF PaceInv, Paced, Whole, WithinBandwidth
<1>4. ASSUME NEW bits \in ReadSizes, Read(bits)
      PROVE  PaceInv'
  <2>1. write_schedule' = transmitRead(write_schedule, bits, Bandwidth)
        /\ received' = received + bits /\ cycle' = cycle
        /\ readGranted(write_schedule, cycle, bits, Bandwidth) /\ bits \in Nat \ {0}
    BY <1>4, ConnectionPipeAssumption DEF Read
  <2>2. Multiple(bits)
    BY <2>1, MultipleFacts DEF WholeReads
  <2>3. Paced(write_schedule', received + bits) /\ Whole(write_schedule')
        /\ received + bits <= Bandwidth * (cycle - 1)
    BY <1>1, <2>1, <2>2, ReadPaced
  <2>4. Paced(write_schedule', received') /\ received' <= Bandwidth * (cycle' - 1)
    BY <2>1, <2>3
  <2> QED
    BY <1>2, <2>3, <2>4 DEF PaceInv, Paced, Whole, WithinBandwidth
<1>5. ASSUME write_schedule' = write_schedule /\ received' = received,
             cycle' = cycle \/ cycle' = cycle + 1
      PROVE  PaceInv'
  <2>1. Bandwidth * (cycle - 1) <= Bandwidth * (cycle' - 1)
        /\ Bandwidth * (cycle - 1) \in Int /\ Bandwidth * (cycle' - 1) \in Int
    BY <1>1, <1>5, Times
  <2>2. received' <= Bandwidth * (cycle' - 1)
    BY <1>1, <1>5, <2>1
  <2>3. Paced(write_schedule', received') /\ Whole(write_schedule')
    BY <1>1, <1>5
  <2> QED
    BY <1>2, <2>2, <2>3 DEF PaceInv, Paced, Whole, WithinBandwidth
<1> QED
  BY <1>3, <1>4, <1>5 DEF Next, ReadStalls, Tick, vars

(***************************************************************************)
(* A connection delivers at most Bandwidth bits in each cycle that has     *)
(* passed, as long as its writes are of one size and writes and reads are  *)
(* a whole number of cycles long.                                          *)
(***************************************************************************)
THEOREM PipeKeepsPace ==
  ASSUME Steady, WholeReads
  PROVE  Spec => []WithinBandwidth
<1>1. PaceInv /\ [Next]_vars => PaceInv'
  BY PaceNext
<1>2. PaceInv => WithinBandwidth
  BY DEF PaceInv
<1> QED
  BY <1>1, <1>2, PaceInit, PTL DEF Spec
=============================================================================
